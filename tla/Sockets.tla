-------------------------------- MODULE Sockets --------------------------------
(***************************************************************************)
(* The ports a start() takes: PortProvider (ports.rs), the fixed ports of  *)
(* the engines, and the binds of net.rs, in the order of Scanner::start,   *)
(* while other programs bind and close ports.                              *)
(*                                                                         *)
(* ScannerLifecycle says what start does with the outcome of a bind; this  *)
(* module says which ports the sockets get, and so who receives what.      *)
(*                                                                         *)
(* A UDP bind conflicts with the sockets of the same port and the same or  *)
(* the wildcard address, unless both sides set SO_REUSEADDR.  All sockets  *)
(* of the scanner set it; free_port's trial bind does not.                 *)
(*                                                                         *)
(* Bounds: MaxForeign sockets of other programs, on the wildcard address   *)
(* and a port this start may use (Contended), none opened or closed after  *)
(* the start.                                                              *)
(***************************************************************************)
EXTENDS Naturals, Sequences, FiniteSets

CONSTANTS
  Owners,       \* the engines with sockets, and the mDNS broker
  Broker,
  Starts,       \* the selected owners in bind order, and config.port_sharing
  Mode,         \* how each owner listens, see ModeAssumption
  Fixed,        \* the port of an owner's fixed-port socket
  Reserves,     \* its used_ports()
  Ports,        \* the UDP ports
  Candidates,   \* those free_port draws from: 1024..65533
  Nics,         \* the interface addresses
  NicSeq,       \* the same, in enumeration order
  Any,          \* the wildcard address
  None,         \* no port drawn
  MaxForeign

(***************************************************************************)
(* group:  a wildcard socket on the fixed port that joins a group; a bind  *)
(*         error is fatal, except the broker's (ssdp, wsd, dahua2, ...).   *)
(* global: a wildcard socket on the fixed port, skipped if it cannot be.   *)
(* drawn:  the same on a port of free_port (NiceVision).                   *)
(* nics:   no wildcard socket.                                             *)
(* All of them then bind one socket per interface, on a drawn port.        *)
(* (TVT's two group sockets differ in nothing and stand for one.)          *)
(***************************************************************************)
ASSUME ModeAssumption ==
  /\ Mode \in [Owners -> {"group", "global", "drawn", "nics"}]
  /\ Broker \in Owners => Mode[Broker] = "group"

ASSUME PortsAssumption ==
  /\ Fixed \in [Owners -> Ports] /\ Reserves \in [Owners -> SUBSET Ports]
  /\ Candidates \subseteq Ports /\ None \notin Ports
  /\ Any \notin Nics /\ NicSeq \in Seq(Nics)
  /\ Starts \subseteq [order : Seq(Owners), sharing : BOOLEAN]
  /\ MaxForeign \in Nat

HasFixed(o) == Mode[o] \in {"group", "global"}

\* No two owners listen on the same fixed port.
ASSUME FixedPortsDiffer ==
  \A o, p \in Owners : HasFixed(o) /\ HasFixed(p) /\ Fixed[o] = Fixed[p] => o = p

VARIABLES
  order,    \* the owners of this start
  sharing,  \* config.port_sharing
  status,   \* new, binding, listening or failed
  at, op,   \* the bind in progress: owner and socket
  used,     \* PortProvider::used
  drawn,    \* the port free_port returned for that bind
  socks,    \* our sockets
  foreign,  \* the sockets of other programs
  blocked   \* history: owners whose fixed port another program kept from them

plan == <<order, sharing, status, at, op>>
vars == <<order, sharing, status, at, op, used, drawn, socks, foreign, blocked>>

Selected == { order[i] : i \in DOMAIN order }

\* The fixed ports the selected engines reserve.
Reserved == UNION { Reserves[o] : o \in Selected }

-----------------------------------------------------------------------------
Init ==
  /\ \E s \in Starts : order = s.order /\ sharing = s.sharing
  /\ status = "new" /\ at = 1 /\ op = 1
  /\ used = {} /\ drawn = None
  /\ socks = {} /\ blocked = {}
  /\ foreign = {}

InUse(p)      == p \in { s.port : s \in socks \cup foreign }
Exclusive(p)  == \E f \in foreign : f.port = p /\ ~f.shared
Sock(o, a, p) == [owner |-> o, addr |-> a, port |-> p]

\* The addresses an owner's listen binds, in order.
Operations(o) == (IF Mode[o] = "nics" THEN << >> ELSE <<Any>>) \o NicSeq

Binding(o, a) ==
  /\ status = "binding"
  /\ at \in DOMAIN order /\ o = order[at]
  /\ op \in DOMAIN Operations(o) /\ a = Operations(o)[op]

\* Does this socket get its port from free_port?
Draws(o, a) == a \in Nics \/ Mode[o] = "drawn"

\* On to the owner's next socket.
Advance ==
  /\ op' = op + 1
  /\ UNCHANGED <<order, sharing, status, at>>

\* Mutant: the engines reserve nothing before they draw.
NoReservations == { f.port : f \in foreign }

\* PortProvider::new reads the ports in use, then all engines reserve theirs.
InitialPool == { f.port : f \in foreign } \cup Reserved

Begin ==
  /\ status = "new"
  /\ status' = "binding"
  /\ used' = InitialPool
  /\ UNCHANGED <<order, sharing, at, op, drawn, socks, foreign, blocked>>

\* Every socket of the owner is bound or skipped.
NextOwner ==
  /\ status = "binding"
  /\ at \in DOMAIN order
  /\ op = Len(Operations(order[at])) + 1
  /\ at' = at + 1 /\ op' = 1
  /\ UNCHANGED <<order, sharing, status, used, drawn, socks, foreign, blocked>>

Listening ==
  /\ status = "binding"
  /\ at = Len(order) + 1
  /\ status' = "listening"
  /\ UNCHANGED <<order, sharing, at, op, used, drawn, socks, foreign, blocked>>

(***************************************************************************)
(* free_port: a random port that is not in the pool and that a trial bind  *)
(* without SO_REUSEADDR finds free, or none after 64 tries.                *)
(***************************************************************************)
\* Mutant: neither the pool nor the trial bind remembers the drawn ports.
IsUnreserved(p) == p \notin Reserved

IsFree(p) == p \notin used /\ ~InUse(p)

Draw(o, a, p) ==
  /\ Binding(o, a) /\ Draws(o, a) /\ drawn = None
  /\ IsFree(p)
  /\ drawn' = p
  /\ used' = used \cup {p}
  /\ UNCHANGED <<plan, socks, foreign, blocked>>

\* The socket is skipped with a warning.
NoFreePort(o, a) ==
  /\ Binding(o, a) /\ Draws(o, a) /\ drawn = None
  /\ Advance
  /\ UNCHANGED <<used, drawn, socks, foreign, blocked>>

(***************************************************************************)
(* The binds.                                                              *)
(***************************************************************************)
BindInterface(o, a) ==
  /\ Binding(o, a) /\ a \in Nics /\ drawn # None
  /\ ~Exclusive(drawn)
  /\ socks' = socks \cup {Sock(o, a, drawn)}
  /\ drawn' = None
  /\ Advance
  /\ UNCHANGED <<used, foreign, blocked>>

\* Another program took the port between the trial bind and the bind.
LoseInterface(o, a) ==
  /\ Binding(o, a) /\ a \in Nics /\ drawn # None
  /\ Exclusive(drawn)
  /\ drawn' = None
  /\ IF o = Broker THEN Advance
                   ELSE status' = "failed" /\ UNCHANGED <<order, sharing, at, op>>
  /\ UNCHANGED <<used, socks, foreign, blocked>>

BindGroup(o, a) ==
  /\ Binding(o, a) /\ a = Any /\ Mode[o] = "group"
  /\ ~Exclusive(Fixed[o])
  /\ socks' = socks \cup {Sock(o, Any, Fixed[o])}
  /\ Advance
  /\ UNCHANGED <<used, drawn, foreign, blocked>>

LoseGroup(o, a) ==
  /\ Binding(o, a) /\ a = Any /\ Mode[o] = "group"
  /\ Exclusive(Fixed[o])
  /\ IF o = Broker THEN Advance
                   ELSE status' = "failed" /\ UNCHANGED <<order, sharing, at, op>>
  /\ blocked' = blocked \cup {o}
  /\ UNCHANGED <<used, drawn, socks, foreign>>

\* Mutant: a global socket gets the drawn port although none was drawn.
AlwaysDrawn(o) == drawn

\* The port a global socket is to have.
GlobalPort(o) == IF Mode[o] = "global" THEN Fixed[o] ELSE drawn

AtGlobal(o, a) ==
  /\ Binding(o, a) /\ a = Any
  /\ Mode[o] = "global" \/ (Mode[o] = "drawn" /\ drawn # None)

\* A port in use is given up unless ports may be shared.
SkipsGlobal(p) == InUse(p) /\ (~sharing \/ Exclusive(p))

BindGlobal(o, a) ==
  /\ AtGlobal(o, a)
  /\ ~SkipsGlobal(GlobalPort(o))
  /\ socks' = socks \cup {Sock(o, Any, GlobalPort(o))}
  /\ drawn' = None
  /\ Advance
  /\ UNCHANGED <<used, foreign, blocked>>

LoseGlobal(o, a) ==
  /\ AtGlobal(o, a)
  /\ SkipsGlobal(GlobalPort(o))
  /\ blocked' = IF GlobalPort(o) \in { f.port : f \in foreign }
                  THEN blocked \cup {o} ELSE blocked
  /\ drawn' = None
  /\ Advance
  /\ UNCHANGED <<used, socks, foreign>>

(***************************************************************************)
(* Other programs.                                                         *)
(***************************************************************************)
Contended == Candidates \cup { Fixed[o] : o \in { x \in Selected : HasFixed(x) } }

ForeignBinds(p, shared) ==
  /\ status \in {"new", "binding"}
  /\ Cardinality(foreign) < MaxForeign
  /\ IF shared THEN ~Exclusive(p) ELSE ~InUse(p)
  /\ foreign' = foreign \cup {[port |-> p, shared |-> shared]}
  /\ UNCHANGED <<plan, used, drawn, socks, blocked>>

ForeignCloses(f) ==
  /\ status \in {"new", "binding"}
  /\ f \in foreign
  /\ foreign' = foreign \ {f}
  /\ UNCHANGED <<plan, used, drawn, socks, blocked>>

-----------------------------------------------------------------------------
Bind(o, a) ==
  \/ NoFreePort(o, a) \/ BindInterface(o, a) \/ LoseInterface(o, a)
  \/ BindGroup(o, a) \/ LoseGroup(o, a)
  \/ BindGlobal(o, a) \/ LoseGlobal(o, a)

Start ==
  \/ Begin \/ NextOwner \/ Listening
  \/ \E o \in Owners, a \in Nics \cup {Any} :
       Bind(o, a) \/ \E p \in Candidates : Draw(o, a, p)

Others ==
  \/ \E p \in Contended, shared \in BOOLEAN : ForeignBinds(p, shared)
  \/ \E f \in foreign : ForeignCloses(f)

Next == Start \/ Others

Spec == Init /\ [][Next]_vars

-----------------------------------------------------------------------------
(***************************************************************************)
(* Properties.                                                             *)
(***************************************************************************)
\* The types of the state.
TypeOK ==
  /\ [order |-> order, sharing |-> sharing] \in Starts
  /\ status \in {"new", "binding", "listening", "failed"}
  /\ at \in Nat /\ op \in Nat
  /\ used \subseteq Ports /\ drawn \in Ports \cup {None}
  /\ socks \subseteq [owner : Owners, addr : Nics \cup {Any}, port : Ports]
  /\ foreign \subseteq [port : Ports, shared : BOOLEAN]
  /\ blocked \subseteq Owners

\* The sockets whose port free_port drew.
DrawnSocks == { s \in socks : Draws(s.owner, s.addr) }

\* Sockets that may both be handed a datagram sent to one of our addresses.
Overlap(s, t) == s.port = t.port /\ (s.addr = t.addr \/ Any \in {s.addr, t.addr})

\* A datagram for one engine's socket is never handed to another engine's, but
\* for one on a fixed port that nobody reserved and that another engine drew.
UnicastReachesOneEngine ==
  \A s, t \in socks :
    Overlap(s, t) /\ s.owner # t.owner =>
      /\ s.port \notin Reserved
      /\ \E u \in {s, t} : u \notin DrawnSocks /\ u.port = Fixed[u.owner]

\* scanner.rs:138: the fixed ports are reserved before any engine draws, so
\* start itself never keeps an engine from its reserved fixed port; another
\* program must have held it.
StartDeafensNobody ==
  status = "listening" =>
    \A o \in Selected :
      HasFixed(o) /\ Fixed[o] \in Reserved =>
        Sock(o, Any, Fixed[o]) \in socks \/ o \in blocked

\* scanner.rs:138 taken at its word: no drawn port is a fixed port of an engine.
FixedPortsAreReserved ==
  \A s \in DrawnSocks, o \in Selected : HasFixed(o) => s.port # Fixed[o]
=============================================================================
