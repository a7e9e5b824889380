---------------------------- MODULE DiscoveryProofs ----------------------------
(***************************************************************************)
(* Proofs about Sockets, for any engines, fixed ports and interfaces, and  *)
(* any number of sockets of other programs; and about Discovery, for the   *)
(* real registry and any selection and order of its engines.               *)
(*                                                                         *)
(* BindEffect sorts the binds of a start by what they do to the pool and   *)
(* to the sockets; the invariants about ports follow from it alone.  From  *)
(* these it follows who may be handed a datagram, and only there a table   *)
(* of what each engine sends and parses is needed.                         *)
(***************************************************************************)
EXTENDS Discovery, SequenceTheorems, TLAPS

\* Before the pool is made there is nothing to keep apart; then the pool holds
\* the reserved ports.
PoolFilled ==
  /\ status = "new" => socks = {} /\ drawn = None
  /\ status # "new" => Reserved \subseteq used

\* The port last drawn is in the pool, and is neither reserved nor in use by us
\* for another drawn socket.
DrawnIsFresh ==
  drawn # None =>
    /\ drawn \in used \ Reserved
    /\ \A s \in DrawnSocks : s.port # drawn

\* A drawn socket has a port of the pool that is not reserved and that no other
\* drawn socket has.
DrawnPortsDiffer ==
  /\ \A s \in DrawnSocks : s.port \in used \ Reserved
  /\ \A s, t \in DrawnSocks : s.port = t.port => s = t

\* Any other socket is the wildcard socket on its owner's fixed port.
OthersAreFixed ==
  \A s \in socks \ DrawnSocks :
    HasFixed(s.owner) /\ s = Sock(s.owner, Any, Fixed[s.owner])

\* Once past an owner's first operation its reserved port is bound or was lost
\* to another program.
Settled(o) ==
  HasFixed(o) /\ Fixed[o] \in Reserved =>
    Sock(o, Any, Fixed[o]) \in socks \/ o \in blocked

Passed(i) == i < at \/ (i = at /\ op > 1)

PassedAreSettled ==
  /\ at \in Nat \ {0} /\ op \in Nat \ {0}
  /\ \A i \in DOMAIN order : Passed(i) => Settled(order[i])
  /\ status = "listening" => at = Len(order) + 1

PortInv == PoolFilled /\ DrawnIsFresh /\ DrawnPortsDiffer /\ OthersAreFixed

IInv == TypeOK /\ PortInv /\ PassedAreSettled

-----------------------------------------------------------------------------
(***************************************************************************)
(* The constants and the owners.                                           *)
(***************************************************************************)
LEMMA OrderType ==
  ASSUME TypeOK
  PROVE  order \in Seq(Owners) /\ Selected \subseteq Owners /\ Reserved \subseteq Ports
<1>1. order \in Seq(Owners)
  BY PortsAssumption DEF TypeOK
<1>2. Selected \subseteq Owners
  BY <1>1 DEF Selected
<1>3. Reserved \subseteq Ports
  BY <1>2, PortsAssumption DEF Reserved
<1>. QED
  BY <1>1, <1>2, <1>3

\* An owner with a fixed port binds it first.
LEMMA FixedPortFirst ==
  ASSUME NEW o \in Owners, HasFixed(o)
  PROVE  /\ Operations(o)[1] = Any
         /\ Len(Operations(o)) \in Nat \ {0}
<1>1. Operations(o) = <<Any>> \o NicSeq
  BY DEF Operations, HasFixed
<1>2. <<Any>> \in Seq(Nics \cup {Any}) /\ NicSeq \in Seq(Nics \cup {Any})
  BY PortsAssumption
<1>3. Len(<<Any>> \o NicSeq) = 1 + Len(NicSeq)
  BY <1>2, ConcatProperties
<1>4. (<<Any>> \o NicSeq)[1] = Any
  BY <1>2
<1>5. Len(NicSeq) \in Nat
  BY <1>2
<1>. QED
  BY <1>1, <1>3, <1>4, <1>5

-----------------------------------------------------------------------------
LEMMA InitIInv == Init => IInv
<1>. SUFFICES ASSUME Init PROVE IInv
  OBVIOUS
<1>1. TypeOK
  <2>1. PICK s \in Starts : order = s.order /\ sharing = s.sharing
    BY DEF Init
  <2>2. s = [order |-> s.order, sharing |-> s.sharing]
    BY <2>1, PortsAssumption
  <2>. QED
    BY <2>1, <2>2 DEF Init, TypeOK
<1>2. PortInv
  BY DEF Init, PortInv, PoolFilled, DrawnIsFresh, DrawnPortsDiffer, OthersAreFixed,
         DrawnSocks
<1>3. PassedAreSettled
  <2>1. order \in Seq(Owners)
    BY <1>1, OrderType
  <2>. QED
    BY <2>1 DEF Init, PassedAreSettled, Passed
<1>. QED
  BY <1>1, <1>2, <1>3 DEF IInv

-----------------------------------------------------------------------------
(***************************************************************************)
(* Type correctness.                                                       *)
(***************************************************************************)
LEMMA StartTypeOK ==
  ASSUME TypeOK, Start
  PROVE  TypeOK'
<1>. USE OrderType, PortsAssumption DEF TypeOK
<1>1. CASE Begin
  BY <1>1 DEF Begin, InitialPool
<1>2. CASE NextOwner \/ Listening
  BY <1>2 DEF NextOwner, Listening
<1>3. ASSUME NEW o \in Owners, NEW a \in Nics \cup {Any}, NEW p \in Candidates,
             Draw(o, a, p)
      PROVE  TypeOK'
  BY <1>3 DEF Draw, plan
<1>4. ASSUME NEW o \in Owners, NEW a \in Nics \cup {Any}, Bind(o, a)
      PROVE  TypeOK'
  <2>1. CASE NoFreePort(o, a)
    BY <2>1 DEF NoFreePort, Advance
  <2>2. CASE BindInterface(o, a)
    BY <2>2 DEF BindInterface, Advance, Sock
  <2>3. CASE LoseInterface(o, a)
    BY <2>3 DEF LoseInterface, Advance
  <2>4. CASE BindGroup(o, a)
    BY <2>4 DEF BindGroup, Advance, Sock
  <2>5. CASE LoseGroup(o, a)
    BY <2>5 DEF LoseGroup, Advance
  <2>6. CASE BindGlobal(o, a)
    <3>1. GlobalPort(o) \in Ports
      BY <2>6 DEF BindGlobal, AtGlobal, GlobalPort
    <3>. QED
      BY <2>6, <3>1 DEF BindGlobal, AtGlobal, Advance, Sock
  <2>7. CASE LoseGlobal(o, a)
    BY <2>7 DEF LoseGlobal, Advance
  <2>. QED
    BY <1>4, <2>1, <2>2, <2>3, <2>4, <2>5, <2>6, <2>7 DEF Bind
<1>. QED
  BY <1>1, <1>2, <1>3, <1>4 DEF Start

LEMMA OthersTypeOK ==
  ASSUME TypeOK, Others
  PROVE  TypeOK'
<1>. USE OrderType, PortsAssumption DEF TypeOK
<1>1. ASSUME NEW p \in Contended, NEW shared \in BOOLEAN, ForeignBinds(p, shared)
      PROVE  TypeOK'
  <2>1. p \in Ports
    BY DEF Contended
  <2>. QED
    BY <1>1, <2>1 DEF ForeignBinds, plan
<1>2. ASSUME NEW f \in foreign, ForeignCloses(f)
      PROVE  TypeOK'
  BY <1>2 DEF ForeignCloses, plan
<1>. QED
  BY <1>1, <1>2 DEF Others

-----------------------------------------------------------------------------
(***************************************************************************)
(* What a step of the start does to the pool and to the sockets.           *)
(***************************************************************************)
Quiet ==
  /\ socks' = socks /\ used' = used
  /\ drawn' \in {drawn, None}

DrawsPort(p) ==
  /\ p \in Ports \ used
  /\ used' = used \cup {p} /\ drawn' = p
  /\ socks' = socks

BindsDrawn(o, a) ==
  /\ Draws(o, a) /\ drawn # None /\ drawn' = None
  /\ socks' = socks \cup {Sock(o, a, drawn)}
  /\ used' = used

BindsFixed(o) ==
  /\ HasFixed(o)
  /\ socks' = socks \cup {Sock(o, Any, Fixed[o])}
  /\ used' = used
  /\ drawn' \in {drawn, None}

LEMMA BindEffect ==
  ASSUME TypeOK, NEW o \in Owners, NEW a \in Nics \cup {Any}, Bind(o, a)
  PROVE  /\ status = "binding" /\ status' # "new" /\ order' = order
         /\ Quiet \/ BindsDrawn(o, a) \/ BindsFixed(o)
<1>. USE PortsAssumption DEF Binding, Advance
<1>1. CASE NoFreePort(o, a)
  BY <1>1 DEF NoFreePort, Quiet
<1>2. CASE BindInterface(o, a)
  BY <1>2 DEF BindInterface, BindsDrawn, Draws
<1>3. CASE LoseInterface(o, a)
  BY <1>3 DEF LoseInterface, Quiet
<1>4. CASE BindGroup(o, a)
  BY <1>4 DEF BindGroup, BindsFixed, HasFixed
<1>5. CASE LoseGroup(o, a)
  BY <1>5 DEF LoseGroup, Quiet
<1>6. CASE BindGlobal(o, a)
  <2>1. CASE Mode[o] = "global"
    BY <1>6, <2>1 DEF BindGlobal, AtGlobal, GlobalPort, BindsFixed, HasFixed
  <2>2. CASE Mode[o] = "drawn" /\ drawn # None
    BY <1>6, <2>2 DEF BindGlobal, AtGlobal, GlobalPort, BindsDrawn, Draws
  <2>. QED
    BY <1>6, <2>1, <2>2 DEF BindGlobal, AtGlobal
<1>7. CASE LoseGlobal(o, a)
  BY <1>7 DEF LoseGlobal, AtGlobal, Quiet
<1>. QED
  BY <1>1, <1>2, <1>3, <1>4, <1>5, <1>6, <1>7 DEF Bind

\* The reserved ports are those of the owners, whom no step changes.
LEMMA ReservedFixed ==
  ASSUME order' = order
  PROVE  Reserved' = Reserved
BY DEF Reserved, Selected

-----------------------------------------------------------------------------
(***************************************************************************)
(* The invariants about ports.                                             *)
(***************************************************************************)
LEMMA QuietPorts ==
  ASSUME PortInv, Quiet, order' = order, status # "new", status' # "new"
  PROVE  PortInv'
<1>. USE ReservedFixed DEF Quiet
<1>1. DrawnSocks' = DrawnSocks
  BY DEF DrawnSocks, Draws
<1>. QED
  BY <1>1 DEF PortInv, PoolFilled, DrawnIsFresh, DrawnPortsDiffer, OthersAreFixed,
              HasFixed, Sock

LEMMA DrawPorts ==
  ASSUME PortInv, NEW p, DrawsPort(p), order' = order, status # "new", status' # "new"
  PROVE  PortInv'
<1>. USE ReservedFixed DEF DrawsPort
<1>1. DrawnSocks' = DrawnSocks
  BY DEF DrawnSocks, Draws
<1>2. PoolFilled' /\ OthersAreFixed'
  BY <1>1 DEF PortInv, PoolFilled, OthersAreFixed, HasFixed, Sock
<1>3. DrawnIsFresh'
  BY <1>1 DEF PortInv, PoolFilled, DrawnIsFresh, DrawnPortsDiffer
<1>4. DrawnPortsDiffer'
  BY <1>1 DEF PortInv, DrawnPortsDiffer
<1>. QED
  BY <1>2, <1>3, <1>4 DEF PortInv

LEMMA BindDrawnPorts ==
  ASSUME PortInv, NEW o \in Owners, NEW a \in Nics \cup {Any}, BindsDrawn(o, a),
         order' = order, status # "new", status' # "new"
  PROVE  PortInv'
<1>. DEFINE new == Sock(o, a, drawn)
<1>. USE ReservedFixed DEF BindsDrawn
<1>1. new.owner = o /\ new.addr = a /\ new.port = drawn
  BY DEF Sock
<1>2. DrawnSocks' = DrawnSocks \cup {new}
  BY <1>1 DEF DrawnSocks, Draws
<1>. HIDE DEF new
<1>3. PoolFilled' /\ DrawnIsFresh'
  BY DEF PortInv, PoolFilled, DrawnIsFresh
<1>4. OthersAreFixed'
  BY <1>2 DEF PortInv, OthersAreFixed, HasFixed, Sock, new
<1>5. DrawnPortsDiffer'
  BY <1>1, <1>2 DEF PortInv, DrawnIsFresh, DrawnPortsDiffer
<1>. QED
  BY <1>3, <1>4, <1>5 DEF PortInv

LEMMA BindFixedPorts ==
  ASSUME PortInv, NEW o \in Owners, BindsFixed(o),
         order' = order, status # "new", status' # "new"
  PROVE  PortInv'
<1>. DEFINE new == Sock(o, Any, Fixed[o])
<1>. USE ReservedFixed DEF BindsFixed
<1>1. new.owner = o /\ new.addr = Any /\ new.port = Fixed[o]
  BY DEF Sock
<1>2. ~Draws(o, Any)
  BY PortsAssumption DEF Draws, HasFixed
<1>3. DrawnSocks' = DrawnSocks
  BY <1>1, <1>2 DEF DrawnSocks, Draws
<1>. HIDE DEF new
<1>4. PoolFilled' /\ DrawnIsFresh' /\ DrawnPortsDiffer'
  BY <1>3 DEF PortInv, PoolFilled, DrawnIsFresh, DrawnPortsDiffer
<1>5. OthersAreFixed'
  BY <1>1, <1>3 DEF PortInv, OthersAreFixed, HasFixed, Sock, new
<1>. QED
  BY <1>4, <1>5 DEF PortInv

LEMMA StartPorts ==
  ASSUME IInv, Start
  PROVE  PortInv'
<1>. USE DEF IInv
<1>1. CASE Begin
  <2>1. order' = order /\ socks' = {} /\ drawn' = None
    BY <1>1 DEF Begin, PortInv, PoolFilled
  <2>2. Reserved' \subseteq used'
    BY <1>1, <2>1, ReservedFixed DEF Begin, InitialPool
  <2>. QED
    BY <1>1, <2>1, <2>2 DEF Begin, PortInv, PoolFilled, DrawnIsFresh,
                            DrawnPortsDiffer, OthersAreFixed, DrawnSocks
<1>2. CASE NextOwner \/ Listening
  <2>1. Quiet /\ order' = order /\ status # "new" /\ status' # "new"
    BY <1>2 DEF NextOwner, Listening, Quiet
  <2>. QED
    BY <2>1, QuietPorts
<1>3. ASSUME NEW o \in Owners, NEW a \in Nics \cup {Any}, NEW p \in Candidates,
             Draw(o, a, p)
      PROVE  PortInv'
  <2>1. DrawsPort(p) /\ order' = order /\ status # "new" /\ status' # "new"
    BY <1>3, PortsAssumption DEF Draw, IsFree, DrawsPort, plan, Binding
  <2>. QED
    BY <2>1, DrawPorts
<1>4. ASSUME NEW o \in Owners, NEW a \in Nics \cup {Any}, Bind(o, a)
      PROVE  PortInv'
  <2>1. /\ order' = order /\ status # "new" /\ status' # "new"
        /\ Quiet \/ BindsDrawn(o, a) \/ BindsFixed(o)
    BY <1>4, BindEffect
  <2>. QED
    BY <2>1, QuietPorts, BindDrawnPorts, BindFixedPorts
<1>. QED
  BY <1>1, <1>2, <1>3, <1>4 DEF Start

\* Other programs touch neither the pool nor our sockets.
LEMMA OthersKeep ==
  ASSUME Others
  PROVE  UNCHANGED <<plan, used, drawn, socks, blocked>>
BY DEF Others, ForeignBinds, ForeignCloses

LEMMA UntouchedPorts ==
  ASSUME PortInv, UNCHANGED <<plan, used, drawn, socks>>
  PROVE  PortInv'
<1>1. /\ order' = order /\ status' = status /\ used' = used
      /\ drawn' = drawn /\ socks' = socks
  BY DEF plan
<1>2. Reserved' = Reserved /\ DrawnSocks' = DrawnSocks
  BY <1>1, ReservedFixed DEF DrawnSocks, Draws
<1>. QED
  BY <1>1, <1>2 DEF PortInv, PoolFilled, DrawnIsFresh, DrawnPortsDiffer,
                    OthersAreFixed, HasFixed, Sock

-----------------------------------------------------------------------------
(***************************************************************************)
(* An owner past its first operation is settled.                           *)
(***************************************************************************)
LEMMA SettledStays ==
  ASSUME NEW o, Settled(o), order' = order,
         socks \subseteq socks', blocked \subseteq blocked'
  PROVE  Settled(o)'
BY ReservedFixed DEF Settled, HasFixed, Sock

\* A socket of ours on a reserved port is the fixed-port socket of its owner.
LEMMA InTheWayIsOurs ==
  ASSUME PortInv, NEW o \in Owners, HasFixed(o), Fixed[o] \in Reserved,
         NEW s \in socks, s.port = Fixed[o], TypeOK
  PROVE  s = Sock(o, Any, Fixed[o])
<1>1. s \notin DrawnSocks
  BY DEF PortInv, DrawnPortsDiffer
<1>2. s.owner \in Owners /\ HasFixed(s.owner) /\ s = Sock(s.owner, Any, Fixed[s.owner])
  BY <1>1 DEF PortInv, OthersAreFixed, TypeOK
<1>3. Fixed[s.owner] = Fixed[o]
  BY <1>2 DEF Sock
<1>4. s.owner = o
  BY <1>2, <1>3, FixedPortsDiffer
<1>. QED
  BY <1>2, <1>4

\* The first operation of an owner settles it.
LEMMA FirstSettles ==
  ASSUME IInv, NEW o \in Owners, NEW a \in Nics \cup {Any}, Bind(o, a),
         op = 1, op' # op
  PROVE  Settled(o)'
<1>. SUFFICES ASSUME HasFixed(o), Fixed[o] \in Reserved
              PROVE  Sock(o, Any, Fixed[o]) \in socks' \/ o \in blocked'
  <2>1. order' = order
    BY BindEffect DEF IInv
  <2>. QED
    BY <2>1, ReservedFixed DEF Settled, HasFixed, Sock
<1>1. a = Any /\ a \notin Nics /\ ~Draws(o, a)
  <2>1. a = Operations(o)[op]
    BY DEF Bind, NoFreePort, BindInterface, LoseInterface, BindGroup, LoseGroup,
           BindGlobal, LoseGlobal, AtGlobal, Binding
  <2>2. a = Any
    BY <2>1, FixedPortFirst
  <2>. QED
    BY <2>2, PortsAssumption DEF Draws, HasFixed
<1>2. CASE BindGroup(o, a)
  BY <1>2 DEF BindGroup
<1>3. CASE LoseGroup(o, a)
  BY <1>3 DEF LoseGroup
<1>4. CASE BindGlobal(o, a)
  BY <1>4 DEF BindGlobal, AtGlobal, GlobalPort, HasFixed
<1>5. CASE LoseGlobal(o, a)
  <2>1. GlobalPort(o) = Fixed[o]
    BY <1>5 DEF LoseGlobal, AtGlobal, GlobalPort, HasFixed
  <2>2. InUse(Fixed[o]) /\ socks' = socks
    BY <1>5, <2>1 DEF LoseGlobal, SkipsGlobal
  <2>3. CASE Fixed[o] \in { f.port : f \in foreign }
    BY <1>5, <2>1, <2>3 DEF LoseGlobal
  <2>4. CASE \E s \in socks : s.port = Fixed[o]
    <3>1. PICK s \in socks : s.port = Fixed[o]
      BY <2>4
    <3>2. s = Sock(o, Any, Fixed[o])
      BY <3>1, InTheWayIsOurs DEF IInv
    <3>. QED
      BY <2>2, <3>1, <3>2
  <2>. QED
    BY <2>2, <2>3, <2>4 DEF InUse
<1>. QED
  BY <1>1, <1>2, <1>3, <1>4, <1>5 DEF Bind, NoFreePort, BindInterface, LoseInterface

\* A bind moves the owner one operation on, or stays where it is.
LEMMA BindMoves ==
  ASSUME NEW o \in Owners, NEW a \in Nics \cup {Any}, Bind(o, a)
  PROVE  /\ at' = at /\ at \in DOMAIN order /\ o = order[at]
         /\ op' \in {op, op + 1} /\ op \in DOMAIN Operations(o)
         /\ status' \in {"binding", "failed"}
         /\ socks \subseteq socks' /\ blocked \subseteq blocked'
BY DEF Bind, NoFreePort, BindInterface, LoseInterface, BindGroup, LoseGroup,
       BindGlobal, LoseGlobal, AtGlobal, Binding, Advance

LEMMA StartSettles ==
  ASSUME IInv, Start
  PROVE  PassedAreSettled'
<1>. USE DEF IInv, PassedAreSettled
<1>0. order \in Seq(Owners)
  BY OrderType
<1>1. CASE Begin
  BY <1>1, SettledStays DEF Begin, Passed
<1>2. CASE NextOwner
  <2>1. /\ order' = order /\ socks' = socks /\ blocked' = blocked
        /\ at' = at + 1 /\ op' = 1 /\ status' = "binding"
        /\ at \in DOMAIN order /\ op = Len(Operations(order[at])) + 1
    BY <1>2 DEF NextOwner
  <2>2. Settled(order[at])
    <3>1. CASE HasFixed(order[at])
      <4>1. op > 1
        BY <2>1, <3>1, <1>0, FixedPortFirst
      <4>. QED
        BY <2>1, <4>1 DEF Passed
    <3>. QED
      BY <3>1 DEF Settled
  <2>3. ASSUME NEW i \in DOMAIN order, Passed(i)'
        PROVE  Settled(order[i])'
    <3>1. i < at \/ i = at
      BY <1>0, <2>1, <2>3 DEF Passed
    <3>2. Settled(order[i])
      BY <2>2, <3>1 DEF Passed
    <3>3. Settled(order[i])'
      BY <2>1, <3>2, ReservedFixed DEF Settled, HasFixed, Sock
    <3>. QED
      BY <3>3
  <2>. QED
    BY <2>1, <2>3
<1>3. CASE Listening
  <2>1. /\ order' = order /\ socks' = socks /\ blocked' = blocked
        /\ at' = at /\ op' = op /\ at = Len(order) + 1
    BY <1>3 DEF Listening
  <2>. QED
    BY <2>1, ReservedFixed DEF Passed, Settled, HasFixed, Sock
<1>4. ASSUME NEW o \in Owners, NEW a \in Nics \cup {Any}, NEW p \in Candidates,
             Draw(o, a, p)
      PROVE  PassedAreSettled'
  BY <1>4, ReservedFixed DEF Draw, Binding, plan, Passed, Settled, HasFixed, Sock
<1>5. ASSUME NEW o \in Owners, NEW a \in Nics \cup {Any}, Bind(o, a)
      PROVE  PassedAreSettled'
  <2>1. /\ order' = order /\ at' = at /\ at \in DOMAIN order /\ o = order[at]
        /\ op' \in {op, op + 1}
        /\ status' \in {"binding", "failed"}
        /\ socks \subseteq socks' /\ blocked \subseteq blocked'
    BY <1>5, BindMoves, BindEffect
  <2>2. ASSUME NEW i \in DOMAIN order, Passed(i)'
        PROVE  Settled(order[i])'
    <3>1. CASE Passed(i)
      <4>1. Settled(order[i])
        BY <3>1
      <4>. QED
        BY <2>1, <4>1, ReservedFixed DEF Settled, HasFixed, Sock
    <3>2. CASE ~Passed(i)
      <4>1. i = at /\ op = 1 /\ op' # op
        BY <1>0, <2>1, <2>2, <3>2 DEF Passed
      <4>2. Settled(o)'
        BY <1>5, <4>1, FirstSettles
      <4>. QED
        BY <2>1, <4>1, <4>2, ReservedFixed DEF Settled, HasFixed, Sock
    <3>. QED
      BY <3>1, <3>2
  <2>. QED
    BY <2>1, <2>2
<1>. QED
  BY <1>1, <1>2, <1>3, <1>4, <1>5 DEF Start

LEMMA UntouchedSettled ==
  ASSUME PassedAreSettled, UNCHANGED <<plan, socks, blocked>>
  PROVE  PassedAreSettled'
<1>1. order' = order /\ status' = status /\ at' = at /\ op' = op
  BY DEF plan
<1>. QED
  BY <1>1, ReservedFixed DEF PassedAreSettled, Passed, Settled, HasFixed, Sock

-----------------------------------------------------------------------------
LEMMA NextIInv == IInv /\ [Next]_vars => IInv'
<1>. SUFFICES ASSUME IInv, [Next]_vars PROVE IInv'
  OBVIOUS
<1>. USE DEF IInv
<1>1. CASE Start
  BY <1>1, StartTypeOK, StartPorts, StartSettles
<1>2. CASE Others
  BY <1>2, OthersTypeOK, OthersKeep, UntouchedPorts, UntouchedSettled
<1>3. CASE UNCHANGED vars
  <2>1. UNCHANGED <<plan, used, drawn, socks, foreign, blocked>>
    BY <1>3 DEF vars, plan
  <2>2. TypeOK'
    BY <2>1 DEF TypeOK, plan
  <2>. QED
    BY <2>1, <2>2, UntouchedPorts, UntouchedSettled
<1>. QED
  BY <1>1, <1>2, <1>3 DEF Next

LEMMA SpecIInv == Spec => []IInv
BY InitIInv, NextIInv, PTL DEF Spec

-----------------------------------------------------------------------------
\* Type correctness, for any engines, selections and interfaces.
THEOREM SocketsTypeCorrect == Spec => []TypeOK
<1>1. IInv => TypeOK
  BY DEF IInv
<1>. QED
  BY SpecIInv, <1>1, PTL

\* Whatever is selected and whatever other programs bind, two engines' sockets
\* are handed the same unicast only on a fixed port that nobody reserved.
THEOREM UnicastIsPrivate == Spec => []UnicastReachesOneEngine
<1>1. IInv => UnicastReachesOneEngine
  <2>. SUFFICES ASSUME IInv, NEW s \in socks, NEW t \in socks,
                       Overlap(s, t), s.owner # t.owner
                PROVE  /\ s.port \notin Reserved
                       /\ \E u \in {s, t} : u \notin DrawnSocks /\ u.port = Fixed[u.owner]
    BY DEF UnicastReachesOneEngine
  <2>1. s.port = t.port /\ s.owner \in Owners /\ t.owner \in Owners
    BY DEF Overlap, IInv, TypeOK
  <2>2. s \notin DrawnSocks \/ t \notin DrawnSocks
    BY <2>1 DEF IInv, PortInv, DrawnPortsDiffer
  <2>3. \A u \in {s, t} : u \notin DrawnSocks => HasFixed(u.owner) /\ u.port = Fixed[u.owner]
    BY DEF IInv, PortInv, OthersAreFixed, Sock
  <2>4. s \in DrawnSocks \/ t \in DrawnSocks
    BY <2>1, <2>3, FixedPortsDiffer
  <2>5. \A u \in DrawnSocks : u.port \notin Reserved
    BY DEF IInv, PortInv, DrawnPortsDiffer
  <2>. QED
    BY <2>1, <2>2, <2>3, <2>4, <2>5
<1>. QED
  BY SpecIInv, <1>1, PTL

\* A start that ran to its end has every reserved fixed port of the engines it
\* selected, but for those that another program held.
THEOREM StartKeepsReservedPorts == Spec => []StartDeafensNobody
<1>1. IInv => StartDeafensNobody
  <2>. SUFFICES ASSUME IInv, status = "listening", NEW o \in Selected,
                       HasFixed(o), Fixed[o] \in Reserved
                PROVE  Sock(o, Any, Fixed[o]) \in socks \/ o \in blocked
    BY DEF StartDeafensNobody
  <2>1. PICK i \in DOMAIN order : o = order[i]
    BY DEF Selected
  <2>2. i < at
    BY OrderType DEF IInv, PassedAreSettled
  <2>3. Settled(o)
    BY <2>1, <2>2 DEF IInv, PassedAreSettled, Passed
  <2>. QED
    BY <2>3 DEF Settled
<1>. QED
  BY SpecIInv, <1>1, PTL

-----------------------------------------------------------------------------
(***************************************************************************)
(* What the proofs about Discovery need of each engine.                    *)
(***************************************************************************)
\* The ports that requests are sent to and on which no engine listens.
OnlyProbed == {1757, 7701, 2380, 2007, 10670, 3956, 5048}

ListensFixed(e) == Registry[e].listens.mode \in {"group", "global"}

\* A fixed port is reserved, but for Panasonic's; only NiceVision's global port
\* is drawn.
ListensWell(e) ==
  /\ ListensFixed(e) => Registry[e].listens.port \notin OnlyProbed
  /\ ListensFixed(e) /\ e # "Panasonic" =>
       Registry[e].listens.port \in Registry[e].reserves
  /\ Registry[e].listens.mode = "drawn" => e = "NiceVision"

\* Who listens where a request is sent, and that they do not take it for an
\* answer.
ProbesWell(e) ==
  \A to \in Registry[e].probes :
    /\ to.cast # "unicast"
    /\ \/ to.port \in OnlyProbed
       \/ /\ ListensFixed(e) /\ to.port = Registry[e].listens.port
          /\ Parses(e, Registry[e].request) => e = "Wsd" /\ ~OnvifVerbatim
       \/ e = "Vivotek" /\ to.port = Registry["Foscam"].listens.port
    /\ \/ Registry[e].request.size < 90 \/ e = "Hanwha"
       \/ to.port \in Registry[e].reserves

EngineFacts(e) ==
  /\ ListensWell(e) /\ ProbesWell(e)
  /\ Registry[e].request.size \in Nat
  /\ Parses(e, Answers[e])

LEMMA FactsOfEngines == \A e \in EngineNames : EngineFacts(e)
<1>. USE DEF Engine, Text, Binary, Multicast, Broadcast, Group, Global, NoPort,
         DrawnGlobal, NicsOnly
<1>1. EngineFacts("Ssdp")
  <2>1. Registry["Ssdp"] = Ssdp
    BY DEF Registry
  <2>2. \A d : Parses("Ssdp", d) <=> SsdpParses(d)
    BY DEF Parses
  <2>3. SsdpParses(Answers["Ssdp"])
    BY DEF Answers, SsdpParses
  <2>4. ListensWell("Ssdp")
    BY <2>1 DEF ListensWell, ListensFixed, OnlyProbed, Ssdp
  <2>5. ProbesWell("Ssdp")
    BY <2>1, <2>2 DEF ProbesWell, ListensFixed, OnlyProbed, Ssdp, SsdpParses
  <2>6. Registry["Ssdp"].request.size \in Nat
    BY <2>1 DEF Ssdp
  <2>. QED
    BY <2>2, <2>3, <2>4, <2>5, <2>6 DEF EngineFacts
<1>2. EngineFacts("Wsd")
  <2>1. Registry["Wsd"] = Wsd
    BY DEF Registry
  <2>2. \A d : Parses("Wsd", d) <=> WsdParses(d)
    BY DEF Parses
  <2>3. WsdParses(Answers["Wsd"])
    BY DEF Answers, WsdParses
  <2>4. ListensWell("Wsd")
    BY <2>1 DEF ListensWell, ListensFixed, OnlyProbed, Wsd
  <2>5. ProbesWell("Wsd")
    BY <2>1, <2>2 DEF ProbesWell, ListensFixed, OnlyProbed, Wsd, WsdParses
  <2>6. Registry["Wsd"].request.size \in Nat
    BY <2>1 DEF Wsd
  <2>. QED
    BY <2>2, <2>3, <2>4, <2>5, <2>6 DEF EngineFacts
<1>3. EngineFacts("Dahua1")
  <2>1. Registry["Dahua1"] = Dahua1
    BY DEF Registry
  <2>2. \A d : Parses("Dahua1", d) <=> Dahua1Parses(d)
    BY DEF Parses
  <2>3. Dahua1Parses(Answers["Dahua1"])
    BY DEF Answers, Dahua1Parses
  <2>4. ListensWell("Dahua1")
    BY <2>1 DEF ListensWell, ListensFixed, OnlyProbed, Dahua1
  <2>5. ProbesWell("Dahua1")
    BY <2>1, <2>2 DEF ProbesWell, ListensFixed, OnlyProbed, Dahua1, Dahua1Parses
  <2>6. Registry["Dahua1"].request.size \in Nat
    BY <2>1 DEF Dahua1
  <2>. QED
    BY <2>2, <2>3, <2>4, <2>5, <2>6 DEF EngineFacts
<1>4. EngineFacts("Dahua2")
  <2>1. Registry["Dahua2"] = Dahua2
    BY DEF Registry
  <2>2. \A d : Parses("Dahua2", d) <=> Dahua2Parses(d)
    BY DEF Parses
  <2>3. Dahua2Parses(Answers["Dahua2"])
    BY DEF Answers, Dahua2Parses
  <2>4. ListensWell("Dahua2")
    BY <2>1 DEF ListensWell, ListensFixed, OnlyProbed, Dahua2
  <2>5. ProbesWell("Dahua2")
    BY <2>1, <2>2 DEF ProbesWell, ListensFixed, OnlyProbed, Dahua2, Dahua2Parses
  <2>6. Registry["Dahua2"].request.size \in Nat
    BY <2>1 DEF Dahua2
  <2>. QED
    BY <2>2, <2>3, <2>4, <2>5, <2>6 DEF EngineFacts
<1>5. EngineFacts("Hikvision")
  <2>1. Registry["Hikvision"] = Hikvision
    BY DEF Registry
  <2>2. \A d : Parses("Hikvision", d) <=> HikvisionParses(d)
    BY DEF Parses
  <2>3. HikvisionParses(Answers["Hikvision"])
    BY DEF Answers, HikvisionParses
  <2>4. ListensWell("Hikvision")
    BY <2>1 DEF ListensWell, ListensFixed, OnlyProbed, Hikvision
  <2>5. ProbesWell("Hikvision")
    BY <2>1, <2>2 DEF ProbesWell, ListensFixed, OnlyProbed, Hikvision, HikvisionParses
  <2>6. Registry["Hikvision"].request.size \in Nat
    BY <2>1 DEF Hikvision
  <2>. QED
    BY <2>2, <2>3, <2>4, <2>5, <2>6 DEF EngineFacts
<1>6. EngineFacts("Bosch")
  <2>1. Registry["Bosch"] = Bosch
    BY DEF Registry
  <2>2. \A d : Parses("Bosch", d) <=> BoschParses(d)
    BY DEF Parses
  <2>3. BoschParses(Answers["Bosch"])
    BY DEF Answers, BoschParses
  <2>4. ListensWell("Bosch")
    BY <2>1 DEF ListensWell, ListensFixed, OnlyProbed, Bosch
  <2>5. ProbesWell("Bosch")
    BY <2>1, <2>2 DEF ProbesWell, ListensFixed, OnlyProbed, Bosch, BoschParses
  <2>6. Registry["Bosch"].request.size \in Nat
    BY <2>1 DEF Bosch
  <2>. QED
    BY <2>2, <2>3, <2>4, <2>5, <2>6 DEF EngineFacts
<1>7. EngineFacts("Hanwha")
  <2>1. Registry["Hanwha"] = Hanwha
    BY DEF Registry
  <2>2. \A d : Parses("Hanwha", d) <=> HanwhaParses(d)
    BY DEF Parses
  <2>3. HanwhaParses(Answers["Hanwha"])
    BY DEF Answers, HanwhaParses
  <2>4. ListensWell("Hanwha")
    BY <2>1 DEF ListensWell, ListensFixed, OnlyProbed, Hanwha
  <2>5. ProbesWell("Hanwha")
    BY <2>1, <2>2 DEF ProbesWell, ListensFixed, OnlyProbed, Hanwha, HanwhaParses
  <2>6. Registry["Hanwha"].request.size \in Nat
    BY <2>1 DEF Hanwha
  <2>. QED
    BY <2>2, <2>3, <2>4, <2>5, <2>6 DEF EngineFacts
<1>8. EngineFacts("Vivotek")
  <2>1. Registry["Vivotek"] = Vivotek /\ Registry["Foscam"] = Foscam
    BY DEF Registry
  <2>2. \A d : Parses("Vivotek", d) <=> VivotekParses(d)
    BY DEF Parses
  <2>3. VivotekParses(Answers["Vivotek"])
    BY DEF Answers, VivotekParses
  <2>4. ListensWell("Vivotek")
    BY <2>1 DEF ListensWell, ListensFixed, OnlyProbed, Vivotek
  <2>5. ProbesWell("Vivotek")
    BY <2>1, <2>2 DEF ProbesWell, ListensFixed, OnlyProbed, Vivotek, VivotekParses, Foscam
  <2>6. Registry["Vivotek"].request.size \in Nat
    BY <2>1 DEF Vivotek
  <2>. QED
    BY <2>2, <2>3, <2>4, <2>5, <2>6 DEF EngineFacts
<1>9. EngineFacts("Sony")
  <2>1. Registry["Sony"] = Sony
    BY DEF Registry
  <2>2. \A d : Parses("Sony", d) <=> SonyParses(d)
    BY DEF Parses
  <2>3. SonyParses(Answers["Sony"])
    BY DEF Answers, SonyParses
  <2>4. ListensWell("Sony")
    BY <2>1 DEF ListensWell, ListensFixed, OnlyProbed, Sony
  <2>5. ProbesWell("Sony")
    BY <2>1, <2>2 DEF ProbesWell, ListensFixed, OnlyProbed, Sony, SonyParses
  <2>6. Registry["Sony"].request.size \in Nat
    BY <2>1 DEF Sony
  <2>. QED
    BY <2>2, <2>3, <2>4, <2>5, <2>6 DEF EngineFacts
<1>10. EngineFacts("Ubiquiti")
  <2>1. Registry["Ubiquiti"] = Ubiquiti
    BY DEF Registry
  <2>2. \A d : Parses("Ubiquiti", d) <=> UbiquitiParses(d)
    BY DEF Parses
  <2>3. UbiquitiParses(Answers["Ubiquiti"])
    BY DEF Answers, UbiquitiParses
  <2>4. ListensWell("Ubiquiti")
    BY <2>1 DEF ListensWell, ListensFixed, OnlyProbed, Ubiquiti
  <2>5. ProbesWell("Ubiquiti")
    BY <2>1, <2>2 DEF ProbesWell, ListensFixed, OnlyProbed, Ubiquiti, UbiquitiParses
  <2>6. Registry["Ubiquiti"].request.size \in Nat
    BY <2>1 DEF Ubiquiti
  <2>. QED
    BY <2>2, <2>3, <2>4, <2>5, <2>6 DEF EngineFacts
<1>11. EngineFacts("Vision360")
  <2>1. Registry["Vision360"] = Vision360
    BY DEF Registry
  <2>2. \A d : Parses("Vision360", d) <=> Vision360Parses(d)
    BY DEF Parses
  <2>3. Vision360Parses(Answers["Vision360"])
    BY DEF Answers, Vision360Parses
  <2>4. ListensWell("Vision360")
    BY <2>1 DEF ListensWell, ListensFixed, OnlyProbed, Vision360
  <2>5. ProbesWell("Vision360")
    BY <2>1, <2>2 DEF ProbesWell, ListensFixed, OnlyProbed, Vision360, Vision360Parses
  <2>6. Registry["Vision360"].request.size \in Nat
    BY <2>1 DEF Vision360
  <2>. QED
    BY <2>2, <2>3, <2>4, <2>5, <2>6 DEF EngineFacts
<1>12. EngineFacts("NiceVision")
  <2>1. Registry["NiceVision"] = NiceVision
    BY DEF Registry
  <2>2. \A d : Parses("NiceVision", d) <=> NiceVisionParses(d)
    BY DEF Parses
  <2>3. NiceVisionParses(Answers["NiceVision"])
    BY DEF Answers, NiceVisionParses
  <2>4. ListensWell("NiceVision")
    BY <2>1 DEF ListensWell, ListensFixed, OnlyProbed, NiceVision
  <2>5. ProbesWell("NiceVision")
    BY <2>1, <2>2 DEF ProbesWell, ListensFixed, OnlyProbed, NiceVision, NiceVisionParses
  <2>6. Registry["NiceVision"].request.size \in Nat
    BY <2>1 DEF NiceVision
  <2>. QED
    BY <2>2, <2>3, <2>4, <2>5, <2>6 DEF EngineFacts
<1>13. EngineFacts("Panasonic")
  <2>1. Registry["Panasonic"] = Panasonic
    BY DEF Registry
  <2>2. \A d : Parses("Panasonic", d) <=> PanasonicParses(d)
    BY DEF Parses
  <2>3. PanasonicParses(Answers["Panasonic"])
    BY DEF Answers, PanasonicParses
  <2>4. ListensWell("Panasonic")
    BY <2>1 DEF ListensWell, ListensFixed, OnlyProbed, Panasonic
  <2>5. ProbesWell("Panasonic")
    BY <2>1, <2>2 DEF ProbesWell, ListensFixed, OnlyProbed, Panasonic, PanasonicParses
  <2>6. Registry["Panasonic"].request.size \in Nat
    BY <2>1 DEF Panasonic
  <2>. QED
    BY <2>2, <2>3, <2>4, <2>5, <2>6 DEF EngineFacts
<1>14. EngineFacts("GigEVision")
  <2>1. Registry["GigEVision"] = GigEVision
    BY DEF Registry
  <2>2. \A d : Parses("GigEVision", d) <=> GigEVisionParses(d)
    BY DEF Parses
  <2>3. GigEVisionParses(Answers["GigEVision"])
    BY DEF Answers, GigEVisionParses
  <2>4. ListensWell("GigEVision")
    BY <2>1 DEF ListensWell, ListensFixed, OnlyProbed, GigEVision
  <2>5. ProbesWell("GigEVision")
    BY <2>1, <2>2 DEF ProbesWell, ListensFixed, OnlyProbed, GigEVision, GigEVisionParses
  <2>6. Registry["GigEVision"].request.size \in Nat
    BY <2>1 DEF GigEVision
  <2>. QED
    BY <2>2, <2>3, <2>4, <2>5, <2>6 DEF EngineFacts
<1>15. EngineFacts("Vstarcam")
  <2>1. Registry["Vstarcam"] = Vstarcam
    BY DEF Registry
  <2>2. \A d : Parses("Vstarcam", d) <=> VstarcamParses(d)
    BY DEF Parses
  <2>3. VstarcamParses(Answers["Vstarcam"])
    BY DEF Answers, VstarcamParses
  <2>4. ListensWell("Vstarcam")
    BY <2>1 DEF ListensWell, ListensFixed, OnlyProbed, Vstarcam
  <2>5. ProbesWell("Vstarcam")
    BY <2>1, <2>2 DEF ProbesWell, ListensFixed, OnlyProbed, Vstarcam, VstarcamParses
  <2>6. Registry["Vstarcam"].request.size \in Nat
    BY <2>1 DEF Vstarcam
  <2>. QED
    BY <2>2, <2>3, <2>4, <2>5, <2>6 DEF EngineFacts
<1>16. EngineFacts("Eaton")
  <2>1. Registry["Eaton"] = Eaton
    BY DEF Registry
  <2>2. \A d : Parses("Eaton", d) <=> EatonParses(d)
    BY DEF Parses
  <2>3. EatonParses(Answers["Eaton"])
    BY DEF Answers, EatonParses
  <2>4. ListensWell("Eaton")
    BY <2>1 DEF ListensWell, ListensFixed, OnlyProbed, Eaton
  <2>5. ProbesWell("Eaton")
    BY <2>1, <2>2 DEF ProbesWell, ListensFixed, OnlyProbed, Eaton, EatonParses
  <2>6. Registry["Eaton"].request.size \in Nat
    BY <2>1 DEF Eaton
  <2>. QED
    BY <2>2, <2>3, <2>4, <2>5, <2>6 DEF EngineFacts
<1>17. EngineFacts("Foscam")
  <2>1. Registry["Foscam"] = Foscam
    BY DEF Registry
  <2>2. \A d : Parses("Foscam", d) <=> FoscamParses(d)
    BY DEF Parses
  <2>3. FoscamParses(Answers["Foscam"])
    BY DEF Answers, FoscamParses
  <2>4. ListensWell("Foscam")
    BY <2>1 DEF ListensWell, ListensFixed, OnlyProbed, Foscam
  <2>5. ProbesWell("Foscam")
    BY <2>1, <2>2 DEF ProbesWell, ListensFixed, OnlyProbed, Foscam, FoscamParses
  <2>6. Registry["Foscam"].request.size \in Nat
    BY <2>1 DEF Foscam
  <2>. QED
    BY <2>2, <2>3, <2>4, <2>5, <2>6 DEF EngineFacts
<1>18. EngineFacts("Lantronix")
  <2>1. Registry["Lantronix"] = Lantronix
    BY DEF Registry
  <2>2. \A d : Parses("Lantronix", d) <=> LantronixParses(d)
    BY DEF Parses
  <2>3. LantronixParses(Answers["Lantronix"])
    BY DEF Answers, LantronixParses
  <2>4. ListensWell("Lantronix")
    BY <2>1 DEF ListensWell, ListensFixed, OnlyProbed, Lantronix
  <2>5. ProbesWell("Lantronix")
    BY <2>1, <2>2 DEF ProbesWell, ListensFixed, OnlyProbed, Lantronix, LantronixParses
  <2>6. Registry["Lantronix"].request.size \in Nat
    BY <2>1 DEF Lantronix
  <2>. QED
    BY <2>2, <2>3, <2>4, <2>5, <2>6 DEF EngineFacts
<1>19. EngineFacts("Microchip")
  <2>1. Registry["Microchip"] = Microchip
    BY DEF Registry
  <2>2. \A d : Parses("Microchip", d) <=> MicrochipParses(d)
    BY DEF Parses
  <2>3. MicrochipParses(Answers["Microchip"])
    BY DEF Answers, MicrochipParses
  <2>4. ListensWell("Microchip")
    BY <2>1 DEF ListensWell, ListensFixed, OnlyProbed, Microchip
  <2>5. ProbesWell("Microchip")
    BY <2>1, <2>2 DEF ProbesWell, ListensFixed, OnlyProbed, Microchip, MicrochipParses
  <2>6. Registry["Microchip"].request.size \in Nat
    BY <2>1 DEF Microchip
  <2>. QED
    BY <2>2, <2>3, <2>4, <2>5, <2>6 DEF EngineFacts
<1>20. EngineFacts("Advantech")
  <2>1. Registry["Advantech"] = Advantech
    BY DEF Registry
  <2>2. \A d : Parses("Advantech", d) <=> AdvantechParses(d)
    BY DEF Parses
  <2>3. AdvantechParses(Answers["Advantech"])
    BY DEF Answers, AdvantechParses
  <2>4. ListensWell("Advantech")
    BY <2>1 DEF ListensWell, ListensFixed, OnlyProbed, Advantech
  <2>5. ProbesWell("Advantech")
    BY <2>1, <2>2 DEF ProbesWell, ListensFixed, OnlyProbed, Advantech, AdvantechParses
  <2>6. Registry["Advantech"].request.size \in Nat
    BY <2>1 DEF Advantech
  <2>. QED
    BY <2>2, <2>3, <2>4, <2>5, <2>6 DEF EngineFacts
<1>21. EngineFacts("Eden")
  <2>1. Registry["Eden"] = Eden
    BY DEF Registry
  <2>2. \A d : Parses("Eden", d) <=> EdenParses(d)
    BY DEF Parses
  <2>3. EdenParses(Answers["Eden"])
    BY DEF Answers, EdenParses
  <2>4. ListensWell("Eden")
    BY <2>1 DEF ListensWell, ListensFixed, OnlyProbed, Eden
  <2>5. ProbesWell("Eden")
    BY <2>1, <2>2 DEF ProbesWell, ListensFixed, OnlyProbed, Eden, EdenParses
  <2>6. Registry["Eden"].request.size \in Nat
    BY <2>1 DEF Eden
  <2>. QED
    BY <2>2, <2>3, <2>4, <2>5, <2>6 DEF EngineFacts
<1>22. EngineFacts("CyberPower")
  <2>1. Registry["CyberPower"] = CyberPower
    BY DEF Registry
  <2>2. \A d : Parses("CyberPower", d) <=> CyberPowerParses(d)
    BY DEF Parses
  <2>3. CyberPowerParses(Answers["CyberPower"])
    BY DEF Answers, CyberPowerParses
  <2>4. ListensWell("CyberPower")
    BY <2>1 DEF ListensWell, ListensFixed, OnlyProbed, CyberPower
  <2>5. ProbesWell("CyberPower")
    BY <2>1, <2>2 DEF ProbesWell, ListensFixed, OnlyProbed, CyberPower, CyberPowerParses
  <2>6. Registry["CyberPower"].request.size \in Nat
    BY <2>1 DEF CyberPower
  <2>. QED
    BY <2>2, <2>3, <2>4, <2>5, <2>6 DEF EngineFacts
<1>23. EngineFacts("Mssql")
  <2>1. Registry["Mssql"] = Mssql
    BY DEF Registry
  <2>2. \A d : Parses("Mssql", d) <=> MssqlParses(d)
    BY DEF Parses
  <2>3. MssqlParses(Answers["Mssql"])
    BY DEF Answers, MssqlParses
  <2>4. ListensWell("Mssql")
    BY <2>1 DEF ListensWell, ListensFixed, OnlyProbed, Mssql
  <2>5. ProbesWell("Mssql")
    BY <2>1, <2>2 DEF ProbesWell, ListensFixed, OnlyProbed, Mssql, MssqlParses
  <2>6. Registry["Mssql"].request.size \in Nat
    BY <2>1 DEF Mssql
  <2>. QED
    BY <2>2, <2>3, <2>4, <2>5, <2>6 DEF EngineFacts
<1>24. EngineFacts("Tvt")
  <2>1. Registry["Tvt"] = Tvt
    BY DEF Registry
  <2>2. \A d : Parses("Tvt", d) <=> TvtParses(d)
    BY DEF Parses
  <2>3. TvtParses(Answers["Tvt"])
    BY DEF Answers, TvtParses
  <2>4. ListensWell("Tvt")
    BY <2>1 DEF ListensWell, ListensFixed, OnlyProbed, Tvt
  <2>5. ProbesWell("Tvt")
    BY <2>1, <2>2 DEF ProbesWell, ListensFixed, OnlyProbed, Tvt, TvtParses
  <2>6. Registry["Tvt"].request.size \in Nat
    BY <2>1 DEF Tvt
  <2>. QED
    BY <2>2, <2>3, <2>4, <2>5, <2>6 DEF EngineFacts
<1>25. EngineNames = {"Ssdp", "Wsd", "Dahua1", "Dahua2", "Hikvision", "Bosch", "Hanwha",
     "Vivotek", "Sony", "Ubiquiti", "Vision360", "NiceVision", "Panasonic", "GigEVision",
     "Vstarcam", "Eaton", "Foscam", "Lantronix", "Microchip", "Advantech", "Eden",
     "CyberPower", "Mssql", "Tvt"}
  BY DEF EngineNames, Registry
<1>. QED
  BY <1>1, <1>2, <1>3, <1>4, <1>5, <1>6, <1>7, <1>8, <1>9,
     <1>10, <1>11, <1>12, <1>13, <1>14, <1>15, <1>16, <1>17, <1>18,
     <1>19, <1>20, <1>21, <1>22, <1>23, <1>24, <1>25

\* The constants of Sockets, engine by engine.
LEMMA EngineConstants ==
  ASSUME NEW e \in EngineNames
  PROVE  /\ e \in Owners /\ (HasFixed(e) <=> ListensFixed(e))
         /\ Mode[e] = Registry[e].listens.mode
         /\ Fixed[e] = Registry[e].listens.port
         /\ Reserves[e] = Registry[e].reserves
<1>1. e # BrokerName
  BY DEF BrokerName, EngineNames, Registry
<1>. QED
  BY <1>1, RegistryAssumption
     DEF RegistryOwners, RegistryMode, RegistryFixed, RegistryReserves, HasFixed, ListensFixed

-----------------------------------------------------------------------------
(***************************************************************************)
(* The sockets and what is in the air.                                     *)
(***************************************************************************)
OwnersSelected == \A s \in socks : s.owner \in Selected

\* A request of a socket of its engine, an answer to that socket, or an answer
\* to the port where the engine listens.
IsRequest(d) ==
  \E s \in socks : \E to \in Registry[d.of].probes :
    s.owner = d.of /\ d = Datagram(s, to.cast, None, to.port, d.of, "request")

AnswersSource(d) ==
  \E s \in socks :
    s.owner = d.of /\ d = Datagram(Device, "unicast", s.addr, s.port, d.of, "answer")

AnswersPort(d) ==
  /\ HasFixed(d.of) /\ d.port = Fixed[d.of]
  /\ d.kind = "answer" /\ d.cast \in {"unicast", "multicast"}

InTheAir(d) ==
  /\ d.of \in SelectedEngines
  /\ IsRequest(d) \/ AnswersSource(d) \/ AnswersPort(d)

\* Nothing is sent before the start has ended, and nothing is bound after it.
AirInv ==
  /\ air # {} => status = "listening"
  /\ \A d \in air : InTheAir(d)

DiscoveryInv == IInv /\ OwnersSelected /\ AirInv /\ OnlyAnswersAreReported

LEMMA StartStays ==
  ASSUME TypeOK, OwnersSelected, Next
  PROVE  /\ status # "listening" /\ order' = order
         /\ OwnersSelected'
<1>1. CASE Begin \/ NextOwner \/ Listening
  BY <1>1 DEF Begin, NextOwner, Listening, OwnersSelected, Selected
<1>2. ASSUME NEW o \in Owners, NEW a \in Nics \cup {Any}, NEW p \in Candidates,
             Draw(o, a, p)
      PROVE  status # "listening" /\ order' = order /\ OwnersSelected'
  BY <1>2 DEF Draw, Binding, plan, OwnersSelected, Selected
<1>3. ASSUME NEW o \in Owners, NEW a \in Nics \cup {Any}, Bind(o, a)
      PROVE  status # "listening" /\ order' = order /\ OwnersSelected'
  <2>1. status = "binding" /\ order' = order /\ o \in Selected
    BY <1>3, BindEffect, BindMoves DEF Selected
  <2>2. ASSUME NEW s \in socks' PROVE s \in socks \/ s.owner = o
    BY <1>3, <2>2, BindEffect DEF Quiet, BindsDrawn, BindsFixed, Sock
  <2>. QED
    BY <2>1, <2>2 DEF OwnersSelected, Selected
<1>4. CASE Others
  <2>1. UNCHANGED <<plan, socks>> /\ status # "listening"
    BY <1>4, OthersKeep DEF Others, ForeignBinds, ForeignCloses
  <2>. QED
    BY <2>1 DEF plan, OwnersSelected, Selected
<1>. QED
  BY <1>1, <1>2, <1>3, <1>4 DEF Next, Start

\* As long as the sockets stay, so does what is in the air, and what it says.
LEMMA AirStays ==
  ASSUME NEW d, InTheAir(d), UNCHANGED vars
  PROVE  InTheAir(d)'
<1>1. socks' = socks /\ order' = order
  BY DEF vars
<1>2. d.of \in SelectedEngines'
  BY <1>1 DEF InTheAir, SelectedEngines, Selected
<1>3. IsRequest(d) => IsRequest(d)'
  BY <1>1 DEF IsRequest, Datagram
<1>4. AnswersSource(d) => AnswersSource(d)'
  BY <1>1 DEF AnswersSource, Datagram
<1>5. AnswersPort(d) => AnswersPort(d)'
  BY DEF AnswersPort, HasFixed
<1>. QED
  BY <1>2, <1>3, <1>4, <1>5 DEF InTheAir

-----------------------------------------------------------------------------
(***************************************************************************)
(* Who is handed a datagram.                                               *)
(***************************************************************************)
\* Two sockets of ours on one port are one drawn and one fixed socket, and the
\* fixed port is one that nobody reserved.
LEMMA SharedPort ==
  ASSUME DiscoveryInv, NEW s \in socks, NEW t \in socks, s.port = t.port, s # t
  PROVE  /\ s.port \in Unclaimed
         /\ s \in DrawnSocks <=> t \notin DrawnSocks
<1>. USE DEF DiscoveryInv, IInv
<1>1. \A u \in socks : u.owner \in Owners /\ u.owner \in Selected
  BY DEF TypeOK, OwnersSelected
<1>2. \A u \in socks \ DrawnSocks :
        HasFixed(u.owner) /\ u = Sock(u.owner, Any, Fixed[u.owner]) /\ u.port = Fixed[u.owner]
  BY DEF PortInv, OthersAreFixed, Sock
<1>3. s \in DrawnSocks <=> t \notin DrawnSocks
  <2>1. ~(s \in DrawnSocks /\ t \in DrawnSocks)
    BY DEF PortInv, DrawnPortsDiffer
  <2>2. ASSUME s \notin DrawnSocks, t \notin DrawnSocks PROVE FALSE
    <3>1. s.owner = t.owner
      BY <1>1, <1>2, <2>2, FixedPortsDiffer
    <3>. QED
      BY <1>2, <2>2, <3>1
  <2>. QED
    BY <2>1, <2>2
<1>4. s.port \notin Reserved
  BY <1>3 DEF PortInv, DrawnPortsDiffer
<1>5. \E u \in socks \ DrawnSocks : u.port = s.port
  BY <1>3
<1>. QED
  BY <1>1, <1>2, <1>3, <1>4, <1>5 DEF Unclaimed

\* A drawn socket has no reserved port; on the wildcard address it is NiceVision's.
LEMMA DrawnSocket ==
  ASSUME DiscoveryInv, NEW s \in DrawnSocks
  PROVE  /\ s.port \notin Reserved
         /\ s.addr = Any /\ s.owner \in EngineNames => s.owner = "NiceVision"
<1>1. s \in socks /\ Draws(s.owner, s.addr)
  BY DEF DrawnSocks
<1>2. s.port \notin Reserved
  BY DEF DiscoveryInv, IInv, PortInv, DrawnPortsDiffer
<1>3. ASSUME s.addr = Any, s.owner \in EngineNames
      PROVE  s.owner = "NiceVision"
  <2>1. Mode[s.owner] = "drawn"
    BY <1>1, <1>3, PortsAssumption DEF Draws
  <2>. QED
    BY <1>3, <2>1, EngineConstants, FactsOfEngines DEF EngineFacts, ListensWell
<1>. QED
  BY <1>2, <1>3

\* A fixed socket of an engine, and its port.
LEMMA FixedSocket ==
  ASSUME DiscoveryInv, NEW s \in socks \ DrawnSocks, s.owner \in EngineNames
  PROVE  /\ s.addr = Any /\ s.port = Fixed[s.owner] /\ HasFixed(s.owner)
         /\ s.port \notin OnlyProbed
         /\ s.owner # "Panasonic" => s.port \in Reserved
<1>1. HasFixed(s.owner) /\ s = Sock(s.owner, Any, Fixed[s.owner])
  BY DEF DiscoveryInv, IInv, PortInv, OthersAreFixed
<1>2. s.addr = Any /\ s.port = Fixed[s.owner]
  BY <1>1 DEF Sock
<1>3. ListensWell(s.owner)
  BY FactsOfEngines DEF EngineFacts
<1>4. s.owner # "Panasonic" => s.port \in Reserves[s.owner]
  BY <1>1, <1>2, <1>3, EngineConstants DEF ListensWell
<1>5. s.owner \in Selected
  BY DEF DiscoveryInv, OwnersSelected
<1>. QED
  BY <1>1, <1>2, <1>3, <1>4, <1>5, EngineConstants DEF ListensWell, Reserved

-----------------------------------------------------------------------------
(***************************************************************************)
(* What is parsed.                                                         *)
(***************************************************************************)
\* Where two engines meet on a port that nobody reserved, or that both use.
LEMMA ForeignPayloads ==
  /\ ~Parses("Panasonic", Answers["NiceVision"])
  /\ ~Parses("Foscam", Registry["Vivotek"].request)
  /\ \A d : Parses("NiceVision", d) <=> d.size >= 90
<1>1. ~Parses("Panasonic", Answers["NiceVision"])
  BY DEF Parses, PanasonicParses, Answers, Binary
<1>2. Registry["Vivotek"].request.size = 5
  BY DEF Registry, Vivotek, Engine, Binary
<1>3. \A d : Parses("Foscam", d) => d.size >= 87
  BY DEF Parses, FoscamParses
<1>4. \A d : Parses("NiceVision", d) <=> d.size >= 90
  BY DEF Parses, NiceVisionParses
<1>5. ~(5 >= 87)
  OBVIOUS
<1>. QED
  BY <1>1, <1>2, <1>3, <1>4, <1>5

\* Whoever hears a request of ours takes it for an answer only if it looks like one.
LEMMA RequestsParsed ==
  ASSUME DiscoveryInv, NEW d \in air, IsRequest(d),
         NEW t \in Receivers(d), t.owner \in EngineNames, Parses(t.owner, Payload(d))
  PROVE  LooksLikeAnAnswer([by |-> t.owner, of |-> d.of, kind |-> d.kind])
<1>1. d.of \in EngineNames /\ d.of \in Selected
  BY DEF DiscoveryInv, AirInv, InTheAir, SelectedEngines
<1>2. PICK to \in Registry[d.of].probes :
        /\ d.kind = "request" /\ d.cast = to.cast /\ d.port = to.port
  BY DEF IsRequest, Datagram
<1>3. EngineFacts(d.of)
  BY <1>1, FactsOfEngines
<1>4. t \in socks /\ t.port = to.port
  BY <1>2, <1>3 DEF EngineFacts, ProbesWell, Receivers
<1>5. t.addr = Any
  BY <1>2, <1>3 DEF EngineFacts, ProbesWell, Receivers
<1>6. Parses(t.owner, Registry[d.of].request)
  BY <1>2 DEF Payload
<1>7. CASE t \in DrawnSocks
  <2>1. t.owner = "NiceVision" /\ to.port \notin Reserved
    BY <1>4, <1>5, <1>7, DrawnSocket
  <2>2. to.port \notin Registry[d.of].reserves
    BY <1>1, <2>1, EngineConstants DEF Reserved
  <2>3. Registry[d.of].request.size >= 90
    BY <1>6, <2>1, ForeignPayloads
  <2>4. Registry[d.of].request.size < 90 \/ d.of = "Hanwha"
    BY <1>3, <2>2 DEF EngineFacts, ProbesWell
  <2>5. CASE d.of = "Hanwha"
    BY <1>2, <2>1, <2>5 DEF LooksLikeAnAnswer
  <2>6. CASE Registry[d.of].request.size < 90
    <3>1. Registry[d.of].request.size \in Nat
      BY <1>3 DEF EngineFacts
    <3>. QED
      BY <2>3, <2>6, <3>1
  <2>. QED
    BY <2>4, <2>5, <2>6
<1>8. CASE t \notin DrawnSocks
  <2>1. /\ to.port \notin OnlyProbed /\ HasFixed(t.owner) /\ to.port = Fixed[t.owner]
        /\ t.owner \in Owners
    BY <1>4, <1>8, FixedSocket, EngineConstants
  <2>2. CASE /\ ListensFixed(d.of) /\ to.port = Registry[d.of].listens.port
             /\ Parses(d.of, Registry[d.of].request) => d.of = "Wsd" /\ ~OnvifVerbatim
    <3>1. t.owner = d.of
      BY <1>1, <2>1, <2>2, EngineConstants, FixedPortsDiffer
    <3>2. d.of = "Wsd" /\ ~OnvifVerbatim
      BY <1>6, <2>2, <3>1
    <3>. QED
      BY <1>2, <3>1, <3>2 DEF LooksLikeAnAnswer
  <2>3. CASE d.of = "Vivotek" /\ to.port = Registry["Foscam"].listens.port
    <3>1. "Foscam" \in EngineNames /\ ListensFixed("Foscam")
      BY DEF EngineNames, Registry, Foscam, ListensFixed, Engine, Global
    <3>2. t.owner = "Foscam"
      BY <2>1, <2>3, <3>1, EngineConstants, FixedPortsDiffer
    <3>. QED
      BY <1>6, <2>3, <3>2, ForeignPayloads
  <2>. QED
    BY <1>3, <2>1, <2>2, <2>3 DEF EngineFacts, ProbesWell
<1>. QED
  BY <1>7, <1>8

\* An answer to a socket of an engine is parsed by that engine, if by any, unless
\* the engine has a fixed port that nobody reserved.
LEMMA AnswersParsed ==
  ASSUME DiscoveryInv, NEW d \in air, AnswersSource(d) \/ AnswersPort(d),
         HasFixed(d.of) => Fixed[d.of] \in Reserved,
         NEW t \in Receivers(d), t.owner \in EngineNames, Parses(t.owner, Payload(d))
  PROVE  d.of = t.owner
<1>1. d.of \in EngineNames /\ d.of \in Selected
  BY DEF DiscoveryInv, AirInv, InTheAir, SelectedEngines
<1>2. t \in socks /\ t.port = d.port
  BY DEF Receivers
<1>3. CASE AnswersPort(d)
  <2>1. HasFixed(d.of) /\ d.port = Fixed[d.of] /\ d.port \in Reserved
    BY <1>3 DEF AnswersPort
  <2>2. t \notin DrawnSocks
    BY <1>2, <2>1, DrawnSocket
  <2>3. HasFixed(t.owner) /\ t.port = Fixed[t.owner]
    BY <1>2, <2>2, FixedSocket
  <2>. QED
    BY <1>1, <1>2, <2>1, <2>3, EngineConstants, FixedPortsDiffer
<1>4. CASE AnswersSource(d)
  <2>1. PICK s \in socks :
          s.owner = d.of /\ d = Datagram(Device, "unicast", s.addr, s.port, d.of, "answer")
    BY <1>4 DEF AnswersSource
  <2>2. /\ d.cast = "unicast" /\ d.to = s.addr /\ d.port = s.port /\ d.kind = "answer"
    BY <2>1 DEF Datagram
  <2>3. t.addr = s.addr
    BY <2>1, <2>2 DEF Receivers
  <2>4. SUFFICES ASSUME s # t PROVE FALSE
    BY <2>1
  <2>5. s.port \in Unclaimed /\ (s \in DrawnSocks <=> t \notin DrawnSocks)
    BY <1>2, <2>1, <2>2, <2>4, SharedPort
  <2>6. s.port \notin Reserved
    BY <2>5 DEF Unclaimed
  <2>7. s \in DrawnSocks
    <3>. SUFFICES ASSUME s \notin DrawnSocks PROVE FALSE
      OBVIOUS
    <3>1. HasFixed(s.owner) /\ s.port = Fixed[s.owner]
      BY <1>1, <2>1, FixedSocket
    <3>. QED
      BY <2>1, <2>6, <3>1
  <2>8. t.addr = Any /\ t.owner = "Panasonic"
    BY <1>2, <2>2, <2>5, <2>6, <2>7, FixedSocket
  <2>9. d.of = "NiceVision"
    BY <1>1, <2>1, <2>3, <2>7, <2>8, DrawnSocket
  <2>. QED
    BY <2>2, <2>8, <2>9, ForeignPayloads DEF Payload
<1>. QED
  BY <1>3, <1>4

-----------------------------------------------------------------------------
LEMMA InitDiscoveryInv == DiscoveryInit => DiscoveryInv
BY InitIInv DEF DiscoveryInit, DiscoveryInv, OwnersSelected, AirInv, Init,
                OnlyAnswersAreReported

\* A step that sends: what is in the air stays there, what is new belongs there.
LEMMA Sends ==
  ASSUME DiscoveryInv, UNCHANGED <<vars, reports>>, air # {} \/ status = "listening",
         \A d \in air' \ air : InTheAir(d)
  PROVE  DiscoveryInv'
<1>1. /\ UNCHANGED vars /\ reports' = reports
      /\ status' = status /\ order' = order /\ socks' = socks
  BY DEF vars
<1>2. IInv' /\ OwnersSelected'
  BY <1>1, NextIInv DEF DiscoveryInv, OwnersSelected, Selected
<1>3. AirInv'
  <2>1. \A d \in air' : InTheAir(d)
    BY DEF DiscoveryInv, AirInv
  <2>2. \A d \in air' : InTheAir(d)'
    BY <1>1, <2>1, AirStays
  <2>3. status' = "listening"
    BY <1>1 DEF DiscoveryInv, AirInv
  <2>. QED
    BY <2>2, <2>3 DEF AirInv
<1>4. OnlyAnswersAreReported'
  BY <1>1, ReservedFixed
     DEF DiscoveryInv, OnlyAnswersAreReported, LooksLikeAnAnswer, HasFixed
<1>. QED
  BY <1>2, <1>3, <1>4 DEF DiscoveryInv

LEMMA ReceiveStep ==
  ASSUME DiscoveryInv, NEW d \in air, NEW s \in Receivers(d), Receive(s, d)
  PROVE  DiscoveryInv'
<1>. DEFINE new == [by |-> s.owner, of |-> d.of, kind |-> d.kind]
<1>1. /\ UNCHANGED vars /\ air' = air /\ reports' = reports \cup {new}
      /\ status' = status /\ order' = order /\ socks' = socks
  BY DEF Receive, vars
<1>2. IInv' /\ OwnersSelected'
  BY <1>1, NextIInv DEF DiscoveryInv, OwnersSelected, Selected
<1>3. AirInv'
  <2>1. \A x \in air' : InTheAir(x)'
    BY <1>1, AirStays DEF DiscoveryInv, AirInv
  <2>. QED
    BY <1>1, <2>1 DEF DiscoveryInv, AirInv
<1>4. ~LooksLikeAnAnswer(new) =>
        /\ new.kind = "answer"
        /\ (HasFixed(new.of) => Fixed[new.of] \in Reserved) => new.of = new.by
  <2>1. s.owner \in EngineNames /\ Parses(s.owner, Payload(d))
    BY DEF Receive
  <2>2. CASE IsRequest(d)
    BY <2>1, <2>2, RequestsParsed
  <2>3. CASE AnswersSource(d) \/ AnswersPort(d)
    <3>1. d.kind = "answer"
      BY <2>3 DEF AnswersSource, AnswersPort, Datagram
    <3>. QED
      BY <2>1, <2>3, <3>1, AnswersParsed
  <2>. QED
    BY <2>2, <2>3 DEF DiscoveryInv, AirInv, InTheAir
<1>5. OnlyAnswersAreReported'
  <2>. HIDE DEF new
  <2>. QED
    BY <1>1, <1>4, ReservedFixed
       DEF DiscoveryInv, OnlyAnswersAreReported, LooksLikeAnAnswer, HasFixed
<1>. QED
  BY <1>2, <1>3, <1>5 DEF DiscoveryInv

LEMMA NextDiscoveryInv ==
  ASSUME DiscoveryInv, [DiscoveryNext]_discoveryVars
  PROVE  DiscoveryInv'
<1>1. CASE StartStep
  <2>1. Next /\ air' = air /\ reports' = reports
    BY <1>1 DEF StartStep
  <2>2. status # "listening" /\ order' = order /\ OwnersSelected'
    BY <2>1, StartStays DEF DiscoveryInv, IInv
  <2>3. AirInv'
    BY <2>1, <2>2 DEF DiscoveryInv, AirInv
  <2>4. OnlyAnswersAreReported'
    BY <2>1, <2>2, ReservedFixed
       DEF DiscoveryInv, OnlyAnswersAreReported, LooksLikeAnAnswer, HasFixed
  <2>. QED
    BY <2>1, <2>2, <2>3, <2>4, NextIInv DEF DiscoveryInv
<1>2. CASE Scan
  <2>1. ASSUME NEW d \in air' \ air PROVE InTheAir(d)
    <3>1. PICK e \in SelectedEngines : d \in Requests(e)
      BY <1>2, <2>1 DEF Scan
    <3>2. PICK s \in SocketsOf(e), to \in Registry[e].probes :
            d = Datagram(s, to.cast, None, to.port, e, "request")
      BY <3>1 DEF Requests
    <3>3. d.of = e /\ s \in socks /\ s.owner = e
      BY <3>2 DEF Datagram, SocketsOf
    <3>. QED
      BY <3>1, <3>2, <3>3 DEF InTheAir, IsRequest
  <2>. QED
    BY <1>2, <2>1, Sends DEF Scan
<1>3. ASSUME NEW d \in air, AnswerSource(d) PROVE DiscoveryInv'
  <2>. DEFINE new == Datagram(Device, "unicast", d.src.addr, d.src.port, d.of, "answer")
  <2>1. d.kind = "request" /\ InTheAir(d)
    BY <1>3 DEF AnswerSource, MayAnswer, DiscoveryInv, AirInv
  <2>2. IsRequest(d)
    BY <2>1 DEF InTheAir, AnswersSource, AnswersPort, Datagram
  <2>3. PICK s \in socks : s.owner = d.of /\ d.src = s
    BY <2>2 DEF IsRequest, Datagram
  <2>4. new.of = d.of
    BY DEF Datagram
  <2>5. InTheAir(new)
    BY <2>1, <2>3, <2>4 DEF InTheAir, AnswersSource
  <2>. QED
    BY <1>3, <2>5, Sends DEF AnswerSource
<1>4. ASSUME NEW d \in air, NEW a \in Nics \cup {Any}, AnswerPort(d, a)
      PROVE  DiscoveryInv'
  <2>1. PICK cast \in {"unicast", "multicast"} :
          air' = air \cup {Datagram(Device, cast, a, Fixed[d.of], d.of, "answer")}
    BY <1>4 DEF AnswerPort
  <2>2. InTheAir(Datagram(Device, cast, a, Fixed[d.of], d.of, "answer"))
    BY <1>4 DEF InTheAir, AnswersPort, AnswerPort, Datagram, DiscoveryInv, AirInv
  <2>. QED
    BY <1>4, <2>1, <2>2, Sends DEF AnswerPort
<1>5. ASSUME NEW d \in air, NEW s \in Receivers(d), Receive(s, d)
      PROVE  DiscoveryInv'
  BY <1>5, ReceiveStep
<1>6. CASE UNCHANGED discoveryVars
  <2>1. UNCHANGED <<vars, reports>> /\ air' = air
    BY <1>6 DEF discoveryVars
  <2>2. CASE air # {}
    BY <2>1, <2>2, Sends
  <2>3. CASE air = {}
    <3>1. order' = order /\ socks' = socks
      BY <2>1 DEF vars
    <3>2. AirInv' /\ OwnersSelected'
      BY <2>1, <2>3, <3>1 DEF AirInv, DiscoveryInv, OwnersSelected, Selected
    <3>3. OnlyAnswersAreReported'
      BY <2>1, <3>1, ReservedFixed
         DEF DiscoveryInv, OnlyAnswersAreReported, LooksLikeAnAnswer, HasFixed
    <3>. QED
      BY <2>1, <3>2, <3>3, NextIInv DEF DiscoveryInv
  <2>. QED
    BY <2>2, <2>3
<1>. QED
  BY <1>1, <1>2, <1>3, <1>4, <1>5, <1>6 DEF DiscoveryNext

LEMMA DiscoverySpecInv == DiscoverySpec => []DiscoveryInv
BY InitDiscoveryInv, NextDiscoveryInv, PTL DEF DiscoverySpec

-----------------------------------------------------------------------------
\* README.md:14-15: whatever is selected in whatever order, on whatever interfaces,
\* next to whatever other programs, an engine reports only answers of its own
\* protocol, but for the exceptions the property names.
THEOREM ReportsAreAnswers == DiscoverySpec => []OnlyAnswersAreReported
<1>1. DiscoveryInv => OnlyAnswersAreReported
  BY DEF DiscoveryInv
<1>. QED
  BY DiscoverySpecInv, <1>1, PTL

\* An answer to a socket that asked, or to a port where its engine listens, is
\* handed to that engine alone, and its parse takes it.
THEOREM AnswersReachTheirEngine == DiscoverySpec => []AnswersAreHeard
<1>1. DiscoveryInv => AnswersAreHeard
  <2>. SUFFICES ASSUME DiscoveryInv, NEW d \in air, d.kind = "answer",
                       d.port \notin Unclaimed,
                       HasFixed(d.of) /\ d.port = Fixed[d.of] => HearsItsPort(d.of)
                PROVE  /\ Receivers(d) # {}
                       /\ \A s \in Receivers(d) : s.owner = d.of /\ Parses(d.of, Payload(d))
    BY DEF AnswersAreHeard
  <2>1. InTheAir(d) /\ d.of \in EngineNames
    BY DEF DiscoveryInv, AirInv, InTheAir, SelectedEngines
  <2>2. Parses(d.of, Payload(d))
    BY <2>1, FactsOfEngines DEF EngineFacts, Payload
  <2>3. \E s \in Receivers(d) : s.owner = d.of
    <3>1. CASE AnswersSource(d)
      BY <3>1 DEF AnswersSource, Datagram, Receivers
    <3>2. CASE AnswersPort(d)
      <4>. DEFINE s == Sock(d.of, Any, Fixed[d.of])
      <4>1. s \in socks /\ s.owner = d.of /\ s.port = d.port /\ s.addr = Any
        BY <3>2 DEF AnswersPort, HearsItsPort, Sock
      <4>. HIDE DEF s
      <4>2. CASE d.cast = "unicast" /\ \E u \in socks : u.port = d.port /\ u.addr = d.to
        <5>1. PICK u \in socks : u.port = d.port /\ u.addr = d.to
          BY <4>2
        <5>2. u = s
          BY <4>1, <5>1, SharedPort
        <5>. QED
          BY <4>1, <5>1, <5>2, <4>2 DEF Receivers
      <4>. QED
        BY <4>1, <4>2 DEF Receivers
    <3>3. ~IsRequest(d)
      BY DEF IsRequest, Datagram
    <3>. QED
      BY <2>1, <3>1, <3>2, <3>3 DEF InTheAir
  <2>4. PICK s \in Receivers(d) : s.owner = d.of
    BY <2>3
  <2>5. \A t \in Receivers(d) : t = s
    BY <2>4, SharedPort DEF Receivers
  <2>. QED
    BY <2>2, <2>4, <2>5
<1>. QED
  BY DiscoverySpecInv, <1>1, PTL
=============================================================================
