------------------------- MODULE ScannerLifecycleProofs -------------------------
(***************************************************************************)
(* Proofs about ScannerLifecycle, for any registry, any number of engines, *)
(* sweepers and interfaces, and any number of starts and scans.            *)
(***************************************************************************)
EXTENDS ScannerLifecycle, SequenceTheorems, TLAPS

\* The call in progress and how it will be seen to have ended agree.
PhaseOfCall ==
  /\ phase = "starting" <=> pc = "starting"
  /\ phase = "stopping" <=> pc \in {"joining", "draining"}

\* Between the calls, and where a start may begin: no receive handle is left
\* over, and no sweep is alive that was launched before stop() returned.
AtRest == epoch = 0 \/ phase = "stopped"

NothingLeftOver ==
  /\ pc = "starting" => epoch # 0
  /\ pc # "starting" => local = << >>
  /\ AtRest \/ pc \in {"starting", "draining"} => handles = << >>
  /\ phase = "stopped" \/ pc = "starting" => sweeping \subseteq belated
  /\ epoch = 0 => ctxs = << >> /\ sweeping = {}

\* start() collects handles of its own epoch only.
LocalIsCurrent == \A i \in DOMAIN local : local[i][1] = epoch

\* Every epoch but the current one was cancelled by the stop() before the next
\* start; the current one is from the moment stop() begins, and not before.
OldEpochsCancelled ==
  /\ \A e \in 1..epoch : e \in cancelled \/ (e = epoch /\ ~AtRest)
  /\ pc \in {"joining", "draining"} => epoch \in cancelled
  /\ epoch \in cancelled => phase \in {"stopping", "stopped"}
  /\ cancelled \subseteq 0..epoch
  /\ failed \subseteq 1..epoch

\* A belated sweep has a cancelled token, and is one of an older epoch unless
\* the scanner is still stopped.
BelatedIsLate ==
  \A s \in belated : /\ s[1] \in cancelled
                     /\ s[1] # epoch \/ phase = "stopped"

\* While start() walks through the engines there is one context for each
\* engine passed; before that, the contexts are those of the last epoch.
ContextsInOrder ==
  ~(pc = "starting" /\ owner = 0) =>
    /\ pc = "starting" => Len(ctxs) = owner - 1
    /\ Len(ctxs) <= Len(EngineSeq)
    /\ \A i \in DOMAIN ctxs : /\ ctxs[i].engine = EngineSeq[i]
                              /\ ctxs[i].epoch = epoch

\* ARP's consumer may end at any time, and nobody sends from it.
ArpSendsNothing == \A x \in socks : KindOf(x[1]) # "arp"

Shape == TypeOK /\ PhaseOfCall /\ NothingLeftOver /\ LocalIsCurrent

IInv ==
  /\ Shape
  /\ TasksAreOwned
  /\ SweepsAreOwned
  /\ OldEpochsCancelled
  /\ BelatedIsLate
  /\ ContextsInOrder
  /\ ArpSendsNothing
  /\ ProbesAreHeard

-----------------------------------------------------------------------------
(***************************************************************************)
(* What a handle that is stored, awaited or passed over leaves of a list.  *)
(***************************************************************************)
LEMMA InSeqAppend ==
  ASSUME NEW S, NEW s \in Seq(S), NEW x \in S
  PROVE  /\ InSeq(x, Append(s, x))
         /\ \A y : InSeq(y, s) => InSeq(y, Append(s, x))
<1>1. /\ DOMAIN s = 1..Len(s) /\ DOMAIN Append(s, x) = 1..(Len(s) + 1)
      /\ Len(s) \in Nat
      /\ \A i \in 1..Len(s) : Append(s, x)[i] = s[i]
      /\ Append(s, x)[Len(s) + 1] = x
  OBVIOUS
<1>. QED
  BY <1>1 DEF InSeq

LEMMA InSeqTail ==
  ASSUME NEW S, NEW s \in Seq(S), s # << >>, NEW y, InSeq(y, s)
  PROVE  y = Head(s) \/ InSeq(y, Tail(s))
<1>1. PICK i \in 1..Len(s) : s[i] = y
  BY DEF InSeq
<1>2. CASE i = 1
  BY <1>1, <1>2
<1>3. CASE i # 1
  <2>1. /\ i - 1 \in 1..Len(Tail(s)) /\ DOMAIN Tail(s) = 1..Len(Tail(s))
        /\ Tail(s)[i - 1] = s[i]
    BY <1>3
  <2>. QED
    BY <1>1, <2>1 DEF InSeq
<1>. QED
  BY <1>2, <1>3

LEMMA EmptyHasNothing == \A y : ~InSeq(y, << >>)
BY DEF InSeq

\* The sockets of an ARP engine: its consumer only.
LEMMA OnlyConsumerOfArp ==
  ASSUME op \in Nat \ {0}, NEW o, NEW x, AtSocket(o, x), KindOf(o) = "arp"
  PROVE  x = Fixed
<1>1. Operations(owner) = <<Fixed>>
  BY DEF AtSocket, Operations
<1>2. op = 1
  BY <1>1 DEF AtSocket
<1>. QED
  BY <1>1, <1>2 DEF AtSocket

-----------------------------------------------------------------------------
LEMMA InitIInv == Init => IInv
BY EnginesAssumption, BoundsAssumption, EmptySeq
   DEF Init, IInv, Shape, TypeOK, Phases, PhaseOfCall, NothingLeftOver, AtRest,
       LocalIsCurrent, TasksAreOwned, SweepsAreOwned, OldEpochsCancelled, BelatedIsLate,
       ContextsInOrder, ArpSendsNothing, ProbesAreHeard

\* A socket bound: one more task, whose handle start() holds.
LEMMA SpawnIInv ==
  ASSUME IInv, NEW o \in Owners, NEW x \in Nics \cup {Fixed}, AtSocket(o, x), Spawn(o, x),
         \/ socks' = socks
         \/ socks' = socks \cup {<<o, x>>} /\ KindOf(o) # "arp"
  PROVE  IInv'
<1>. DEFINE t == <<epoch, o, x>>
<1>1. /\ t \in Tasks /\ local \in Seq(Tasks)
      /\ running' = running \cup {t} /\ local' = Append(local, t) /\ op' = op + 1
      /\ UNCHANGED <<pc, phase, owner, epoch, cancelled, handles, ctxs, launched,
                     handling, sweeping, held,
                     failed, panicked, belated>>
      /\ pc = "starting"
  BY DEF IInv, Shape, TypeOK, NothingLeftOver, AtSocket, Spawn, Tasks, Epochs, past
<1>2. Shape'
  <2>1. TypeOK'
    <3>1. socks' \subseteq Owners \X (Nics \cup {Fixed})
      BY DEF IInv, Shape, TypeOK
    <3>2. local' \in Seq(Tasks) /\ op' \in Nat \ {0} /\ running' \subseteq Tasks
      <4>1. op \in Nat \ {0} /\ running \subseteq Tasks
        BY DEF IInv, Shape, TypeOK
      <4>2. Append(local, t) \in Seq(Tasks)
        BY <1>1
      <4>. QED
        BY <1>1, <4>1, <4>2
    <3>. QED
      BY <1>1, <3>1, <3>2 DEF IInv, Shape, TypeOK
  <2>2. PhaseOfCall' /\ NothingLeftOver'
    BY <1>1 DEF IInv, Shape, PhaseOfCall, NothingLeftOver, AtRest
  <2>3. LocalIsCurrent'
    BY <1>1 DEF IInv, Shape, LocalIsCurrent
  <2>. QED
    BY <2>1, <2>2, <2>3 DEF Shape
<1>3. TasksAreOwned'
  BY <1>1, InSeqAppend DEF IInv, TasksAreOwned
<1>4. SweepsAreOwned' /\ ContextsInOrder'
  BY <1>1 DEF IInv, SweepsAreOwned, ContextsInOrder
<1>5. OldEpochsCancelled' /\ BelatedIsLate'
  BY <1>1 DEF IInv, OldEpochsCancelled, BelatedIsLate, AtRest
<1>6. ArpSendsNothing' /\ ProbesAreHeard'
  BY <1>1 DEF IInv, ArpSendsNothing, ProbesAreHeard
<1>. QED
  BY <1>2, <1>3, <1>4, <1>5, <1>6 DEF IInv

\* A socket given up.
LEMMA SkipIInv ==
  ASSUME IInv, Skip
  PROVE  IInv'
BY DEF IInv, Shape, TypeOK, PhaseOfCall, NothingLeftOver, AtRest, LocalIsCurrent,
       TasksAreOwned, SweepsAreOwned, OldEpochsCancelled, BelatedIsLate, ContextsInOrder,
       ArpSendsNothing, ProbesAreHeard, Skip, state, tasks, past

\* The error of an engine's listen: the tasks spawned so far are those of an
\* epoch that now counts as failed.
LEMMA FailIInv ==
  ASSUME IInv, NEW o \in Engines, NEW x, AtSocket(o, x),
         NEW reason \in {"port_busy", "socket_error", "interface_bind"}, Fail(reason)
  PROVE  IInv'
<1>1. /\ pc = "starting" /\ pc' = "idle" /\ phase' = reason /\ local' = << >>
      /\ failed' = failed \cup {epoch}
      /\ UNCHANGED <<owner, op, epoch, cancelled, handles, ctxs, socks, launched,
                     running, handling, sweeping, held, panicked, belated>>
  BY DEF AtSocket, Fail, state, tasks, past
<1>2. owner # 0
  BY EnginesAssumption DEF AtSocket, OwnerAt
<1>3. epoch \in 1..MaxStarts
  BY <1>1 DEF IInv, Shape, TypeOK, NothingLeftOver
<1>4. Shape'
  BY <1>1, <1>3, EmptySeq
     DEF IInv, Shape, TypeOK, Phases, Epochs, PhaseOfCall, NothingLeftOver, AtRest,
         LocalIsCurrent
<1>5. TasksAreOwned'
  <2>1. \A t : InSeq(t, local) => t[1] = epoch
    BY DEF IInv, Shape, LocalIsCurrent, InSeq
  <2>. QED
    BY <1>1, <2>1 DEF IInv, TasksAreOwned
<1>6. SweepsAreOwned'
  BY <1>1 DEF IInv, SweepsAreOwned
<1>7. OldEpochsCancelled' /\ BelatedIsLate'
  BY <1>1, <1>3 DEF IInv, Shape, PhaseOfCall, OldEpochsCancelled, BelatedIsLate, AtRest
<1>8. ContextsInOrder'
  BY <1>1, <1>2 DEF IInv, ContextsInOrder
<1>9. ArpSendsNothing' /\ ProbesAreHeard'
  BY <1>1 DEF IInv, ArpSendsNothing, ProbesAreHeard
<1>. QED
  BY <1>4, <1>5, <1>6, <1>7, <1>8, <1>9 DEF IInv

LEMMA StartBeginIInv ==
  ASSUME IInv, StartBegin
  PROVE  IInv'
<1>1. /\ pc = "idle" /\ pc' = "starting" /\ phase' = "starting"
      /\ AtRest /\ epoch < MaxStarts /\ epoch' = epoch + 1
      /\ owner' = 0 /\ op' = 1 /\ local' = << >>
      /\ socks' = {} /\ launched' = [e \in Sweepers |-> 0]
      /\ panicked' = {}
      /\ UNCHANGED <<cancelled, handles, ctxs, running, handling, sweeping, held,
                     failed, belated>>
  BY DEF StartBegin, MayStart, AtRest, tasks, past
<1>2. /\ epoch \in 0..MaxStarts /\ local = << >> /\ handles = << >>
      /\ sweeping \subseteq belated /\ belated \subseteq Sweeps
  BY <1>1 DEF IInv, Shape, TypeOK, NothingLeftOver, AtRest
<1>3. TypeOK'
  BY <1>1, <1>2, BoundsAssumption, EnginesAssumption, EmptySeq
     DEF IInv, Shape, TypeOK, Phases
<1>4. PhaseOfCall' /\ NothingLeftOver' /\ LocalIsCurrent'
  BY <1>1, <1>2, BoundsAssumption DEF PhaseOfCall, NothingLeftOver, AtRest, LocalIsCurrent
<1>5. TasksAreOwned'
  BY <1>1, <1>2, EmptyHasNothing DEF IInv, TasksAreOwned
<1>6. ContextsInOrder' /\ ArpSendsNothing' /\ ProbesAreHeard'
  BY <1>1, <1>2 DEF ContextsInOrder, ArpSendsNothing, ProbesAreHeard
<1>7. OldEpochsCancelled' /\ BelatedIsLate'
  <2>1. cancelled \subseteq 0..epoch /\ \A s \in belated : s[1] \in cancelled
    BY DEF IInv, OldEpochsCancelled, BelatedIsLate
  <2>2. epoch' \notin cancelled
    BY <1>1, <1>2, <2>1
  <2>3. BelatedIsLate'
    BY <1>1, <2>1, <2>2 DEF BelatedIsLate
  <2>4. OldEpochsCancelled'
    BY <1>1, <1>2, <2>1, <2>2, BoundsAssumption DEF IInv, OldEpochsCancelled, AtRest
  <2>. QED
    BY <2>3, <2>4
<1>8. SweepsAreOwned'
  <2>1. \A s \in belated : s[1] \in 0..epoch
    BY DEF IInv, OldEpochsCancelled, BelatedIsLate
  <2>. QED
    BY <1>1, <1>2, <2>1 DEF SweepsAreOwned
<1>. QED
  BY <1>3, <1>4, <1>5, <1>6, <1>7, <1>8 DEF IInv, Shape

\* While a start goes on, a sweep alive is belated and of an older epoch.
LEMMA OldSweepsWhileStarting ==
  ASSUME IInv, pc = "starting"
  PROVE  \A s \in sweeping : s \in belated /\ s[1] < epoch
<1>1. phase = "starting" /\ sweeping \subseteq belated /\ epoch \in Nat
  BY DEF IInv, Shape, TypeOK, PhaseOfCall, NothingLeftOver
<1>2. \A s \in belated : s[1] \in 0..epoch /\ s[1] # epoch
  BY <1>1 DEF IInv, OldEpochsCancelled, BelatedIsLate
<1>. QED
  BY <1>1, <1>2

\* The broker listens: contexts may go, since any sweep alive has lost its
\* context long ago or loses it now.
LEMMA BrokerListeningIInv ==
  ASSUME IInv, BrokerListening
  PROVE  IInv'
<1>1. /\ pc = "starting" /\ owner = 0 /\ ctxs' = << >> /\ owner' = 1 /\ op' = 1
      /\ UNCHANGED <<pc, phase, local, epoch, cancelled, handles, socks, launched,
                     running, handling, sweeping, held,
                     failed, panicked, belated>>
  BY DEF BrokerListening, ClearedContexts, tasks, past
<1>2. Len(EngineSeq) \in Nat
  BY EnginesAssumption
<1>3. Shape'
  BY <1>1, <1>2, EmptySeq
     DEF IInv, Shape, TypeOK, PhaseOfCall, NothingLeftOver, AtRest, LocalIsCurrent
<1>4. SweepsAreOwned' /\ ContextsInOrder'
  BY <1>1, <1>2, OldSweepsWhileStarting DEF SweepsAreOwned, ContextsInOrder
<1>5. TasksAreOwned' /\ ArpSendsNothing' /\ ProbesAreHeard'
  BY <1>1 DEF IInv, TasksAreOwned, ArpSendsNothing, ProbesAreHeard
<1>6. OldEpochsCancelled' /\ BelatedIsLate'
  BY <1>1 DEF IInv, OldEpochsCancelled, BelatedIsLate, AtRest
<1>. QED
  BY <1>3, <1>4, <1>5, <1>6 DEF IInv

LEMMA EngineListeningIInv ==
  ASSUME IInv, EngineListening
  PROVE  IInv'
<1>. DEFINE c == [engine |-> EngineSeq[owner], epoch |-> epoch, sweeps |-> << >>]
<1>1. /\ pc = "starting" /\ owner \in 1..Len(EngineSeq)
      /\ ctxs' = Append(ctxs, c) /\ owner' = owner + 1 /\ op' = 1
      /\ UNCHANGED <<pc, phase, local, epoch, cancelled, handles, socks, launched,
                     running, handling, sweeping, held,
                     failed, panicked, belated>>
  BY DEF EngineListening, tasks, past
<1>2. /\ Len(EngineSeq) \in Nat /\ EngineSeq[owner] \in Engines
      /\ epoch \in Epochs
  BY <1>1, EnginesAssumption DEF IInv, Shape, TypeOK, NothingLeftOver, Epochs
<1>3. c \in Context /\ ctxs \in Seq(Context)
  BY <1>2, EmptySeq DEF IInv, Shape, TypeOK, Context
<1>4. Shape'
  <2>1. TypeOK'
    BY <1>1, <1>2, <1>3 DEF IInv, Shape, TypeOK
  <2>2. PhaseOfCall' /\ NothingLeftOver' /\ LocalIsCurrent'
    BY <1>1, <1>2
       DEF IInv, Shape, PhaseOfCall, NothingLeftOver, AtRest, LocalIsCurrent, Epochs
  <2>. QED
    BY <2>1, <2>2 DEF Shape
<1>5. SweepsAreOwned'
  BY <1>1, OldSweepsWhileStarting DEF SweepsAreOwned
<1>6. ContextsInOrder'
  BY <1>1, <1>2, <1>3 DEF IInv, ContextsInOrder
<1>7. TasksAreOwned' /\ ArpSendsNothing' /\ ProbesAreHeard'
  BY <1>1 DEF IInv, TasksAreOwned, ArpSendsNothing, ProbesAreHeard
<1>8. OldEpochsCancelled' /\ BelatedIsLate'
  BY <1>1 DEF IInv, OldEpochsCancelled, BelatedIsLate, AtRest
<1>. QED
  BY <1>4, <1>5, <1>6, <1>7, <1>8 DEF IInv

LEMMA StartDoneIInv ==
  ASSUME IInv, StartDone
  PROVE  IInv'
<1>1. /\ pc = "starting" /\ owner > Len(EngineSeq)
      /\ pc' = "idle" /\ phase' = "started" /\ handles' = local /\ local' = << >>
      /\ UNCHANGED <<owner, op, epoch, cancelled, ctxs, socks, launched, running,
                     handling, sweeping, held,
                     failed, panicked, belated>>
  BY DEF StartDone, tasks, past
<1>2. owner # 0 /\ epoch # 0 /\ handles = << >>
  BY <1>1, EnginesAssumption DEF IInv, Shape, NothingLeftOver
<1>3. Shape'
  BY <1>1, <1>2, EmptySeq
     DEF IInv, Shape, TypeOK, Phases, PhaseOfCall, NothingLeftOver, AtRest, LocalIsCurrent
<1>4. TasksAreOwned'
  BY <1>1, <1>2, EmptyHasNothing DEF IInv, TasksAreOwned
<1>5. SweepsAreOwned' /\ ArpSendsNothing' /\ ProbesAreHeard'
  BY <1>1 DEF IInv, SweepsAreOwned, ArpSendsNothing, ProbesAreHeard
<1>6. OldEpochsCancelled' /\ BelatedIsLate'
  BY <1>1, <1>2 DEF IInv, Shape, PhaseOfCall, OldEpochsCancelled, BelatedIsLate, AtRest
<1>7. ContextsInOrder'
  BY <1>1, <1>2 DEF IInv, ContextsInOrder
<1>. QED
  BY <1>3, <1>4, <1>5, <1>6, <1>7 DEF IInv

\* A scan: each context gets the handle of the sweep that is spawned for it.
LEMMA ScanIInv ==
  ASSUME IInv, Scan
  PROVE  IInv'
<1>. DEFINE swept == {j \in DOMAIN ctxs : Launching(j)}
<1>1. /\ pc = "idle" /\ \E i \in DOMAIN ctxs : Launching(i)
      /\ \A i \in DOMAIN ctxs : Launching(i) => launched[ctxs[i].engine] < MaxScans
      /\ launched' = [e \in Sweepers |->
                        IF \E i \in DOMAIN ctxs : ctxs[i].engine = e
                          THEN launched[e] + 1 ELSE launched[e]]
      /\ sweeping' = sweeping \cup { NextSweep(i) : i \in swept }
      /\ belated' = IF epoch \in cancelled
                       THEN belated \cup { NextSweep(i) : i \in swept } ELSE belated
      /\ ctxs' = [i \in DOMAIN ctxs |-> WithHandle(i)]
      /\ UNCHANGED <<pc, phase, owner, op, local, epoch, cancelled, handles, socks,
                     running, handling, held, failed, panicked>>
  BY DEF Scan, call, past
<1>2. /\ ctxs \in Seq(Context) /\ DOMAIN ctxs = 1..Len(ctxs) /\ Len(ctxs) \in Nat
      /\ launched \in [Sweepers -> 0..MaxScans]
      /\ \A i \in DOMAIN ctxs : ctxs[i] \in Context
  BY DEF IInv, Shape, TypeOK
<1>3. \A i \in swept : NextSweep(i) \in Sweeps
  BY <1>1, <1>2, BoundsAssumption DEF NextSweep, Launching, Sweeps, Context
<1>4. \A i \in DOMAIN ctxs :
        /\ WithHandle(i) \in Context
        /\ WithHandle(i).engine = ctxs[i].engine /\ WithHandle(i).epoch = ctxs[i].epoch
        /\ WithHandle(i).sweeps = IF Launching(i) THEN Append(ctxs[i].sweeps, NextSweep(i))
                                                  ELSE ctxs[i].sweeps
  <2>1. TAKE i \in DOMAIN ctxs
  <2>2. ctxs[i].sweeps \in Seq(Sweeps)
    BY <1>2 DEF Context
  <2>3. Launching(i) => Append(ctxs[i].sweeps, NextSweep(i)) \in Seq(Sweeps)
    BY <1>3, <2>2
  <2>. QED
    BY <1>2, <2>2, <2>3 DEF WithHandle, Context
<1>5. ctxs' \in Seq(Context) /\ Len(ctxs') = Len(ctxs) /\ DOMAIN ctxs' = DOMAIN ctxs
  BY <1>1, <1>2, <1>4
<1>6. /\ AtRest => phase = "stopped" /\ epoch \in cancelled
      /\ epoch \in cancelled => phase = "stopped"
      /\ \A i \in swept : NextSweep(i)[1] = epoch
  <2>1. epoch # 0
    BY <1>1, <1>2 DEF IInv, Shape, NothingLeftOver
  <2>2. epoch \in 1..epoch
    BY <2>1 DEF IInv, Shape, TypeOK
  <2>3. AtRest => phase = "stopped" /\ epoch \in cancelled
    BY <2>1, <2>2 DEF IInv, OldEpochsCancelled, AtRest
  <2>4. epoch \in cancelled => phase = "stopped"
    BY <1>1 DEF IInv, Shape, PhaseOfCall, OldEpochsCancelled
  <2>5. \A i \in DOMAIN ctxs : ctxs[i].epoch = epoch
    BY <1>1 DEF IInv, ContextsInOrder
  <2>. QED
    BY <2>3, <2>4, <2>5 DEF NextSweep
<1>7. Shape'
  <2>1. launched' \in [Sweepers -> 0..MaxScans]
    BY <1>1, <1>2, BoundsAssumption DEF Launching
  <2>2. sweeping' \subseteq Sweeps /\ belated' \subseteq Sweeps
    BY <1>1, <1>3 DEF IInv, Shape, TypeOK
  <2>3. TypeOK'
    BY <1>1, <1>5, <2>1, <2>2 DEF IInv, Shape, TypeOK
  <2>4. PhaseOfCall' /\ NothingLeftOver' /\ LocalIsCurrent'
    BY <1>1, <1>6 DEF IInv, Shape, PhaseOfCall, NothingLeftOver, AtRest, LocalIsCurrent
  <2>. QED
    BY <2>3, <2>4 DEF Shape
<1>8. SweepsAreOwned'
  <2>1. \A i \in DOMAIN ctxs : ctxs'[i] = WithHandle(i) /\ ctxs[i].sweeps \in Seq(Sweeps)
    BY <1>1, <1>2 DEF Context
  <2>2. ASSUME NEW s \in sweeping, ~(s \in belated /\ s[1] < epoch)
        PROVE  \E i \in DOMAIN ctxs' : InSeq(s, ctxs'[i].sweeps)
    <3>1. PICK i \in DOMAIN ctxs : InSeq(s, ctxs[i].sweeps)
      BY <2>2 DEF IInv, SweepsAreOwned
    <3>2. Launching(i) => InSeq(s, Append(ctxs[i].sweeps, NextSweep(i)))
      BY <1>3, <2>1, <3>1, InSeqAppend
    <3>. QED
      BY <1>4, <1>5, <2>1, <3>1, <3>2
  <2>3. ASSUME NEW i \in swept PROVE InSeq(NextSweep(i), ctxs'[i].sweeps)
    BY <1>3, <1>4, <2>1, InSeqAppend
  <2>. QED
    BY <1>1, <1>5, <2>2, <2>3 DEF SweepsAreOwned
<1>9. ContextsInOrder'
  BY <1>1, <1>4, <1>5 DEF IInv, ContextsInOrder
<1>10. TasksAreOwned' /\ ArpSendsNothing' /\ ProbesAreHeard'
  BY <1>1 DEF IInv, TasksAreOwned, ArpSendsNothing, ProbesAreHeard
<1>11. OldEpochsCancelled' /\ BelatedIsLate'
  BY <1>1, <1>6 DEF IInv, OldEpochsCancelled, BelatedIsLate, AtRest
<1>. QED
  BY <1>7, <1>8, <1>9, <1>10, <1>11 DEF IInv

-----------------------------------------------------------------------------
LEMMA StopBeginIInv ==
  ASSUME IInv, StopBegin
  PROVE  IInv'
<1>1. /\ pc = "idle" /\ pc' = "joining" /\ phase' = "stopping"
      /\ cancelled' = cancelled \cup {epoch}
      /\ belated' = {s \in belated : s[1] # epoch}
      /\ UNCHANGED <<owner, op, local, epoch, handles, ctxs, socks, launched, running,
                     handling, sweeping, held, failed, panicked>>
      /\ epoch \in Nat /\ \A s \in belated : s[1] \in Nat
  BY DEF StopBegin, CurrentToken, tasks, past, IInv, Shape, TypeOK, Sweeps, Epochs
<1>2. Shape'
  BY <1>1 DEF IInv, Shape, TypeOK, Phases, PhaseOfCall, NothingLeftOver, AtRest,
              LocalIsCurrent
<1>3. OldEpochsCancelled' /\ BelatedIsLate'
  BY <1>1 DEF IInv, OldEpochsCancelled, BelatedIsLate, AtRest
<1>4. ContextsInOrder'
  BY <1>1 DEF IInv, ContextsInOrder
<1>5. TasksAreOwned' /\ SweepsAreOwned' /\ ArpSendsNothing' /\ ProbesAreHeard'
  BY <1>1 DEF IInv, TasksAreOwned, SweepsAreOwned, ArpSendsNothing, ProbesAreHeard
<1>. QED
  BY <1>2, <1>3, <1>4, <1>5 DEF IInv

\* A handle is awaited: its task has ended.
LEMMA JoinTaskIInv ==
  ASSUME IInv, JoinTask
  PROVE  IInv'
<1>1. /\ pc = "joining" /\ handles # << >> /\ Head(handles) \notin running
      /\ handles' = Tail(handles)
      /\ UNCHANGED <<pc, phase, owner, op, local, epoch, cancelled, ctxs, socks,
                     launched, running, handling, sweeping, held,
                     failed, panicked, belated>>
  BY DEF JoinTask, Ended, call, tasks, past
<1>2. handles \in Seq(Tasks) /\ Tail(handles) \in Seq(Tasks)
  BY <1>1 DEF IInv, Shape, TypeOK
<1>3. Shape'
  BY <1>1, <1>2 DEF IInv, Shape, TypeOK, PhaseOfCall, NothingLeftOver, AtRest,
                    LocalIsCurrent
<1>4. TasksAreOwned'
  <2>1. \A t \in running : InSeq(t, handles) => InSeq(t, Tail(handles))
    BY <1>1, <1>2, InSeqTail
  <2>. QED
    BY <1>1, <2>1 DEF IInv, TasksAreOwned
<1>5. OldEpochsCancelled' /\ BelatedIsLate' /\ ContextsInOrder'
  BY <1>1 DEF IInv, OldEpochsCancelled, BelatedIsLate, ContextsInOrder, AtRest
<1>6. SweepsAreOwned' /\ ArpSendsNothing' /\ ProbesAreHeard'
  BY <1>1 DEF IInv, SweepsAreOwned, ArpSendsNothing, ProbesAreHeard
<1>. QED
  BY <1>3, <1>4, <1>5, <1>6 DEF IInv

LEMMA JoinedAllIInv ==
  ASSUME IInv, JoinedAll
  PROVE  IInv'
BY DEF IInv, Shape, TypeOK, PhaseOfCall, NothingLeftOver, AtRest, LocalIsCurrent,
       TasksAreOwned, SweepsAreOwned, OldEpochsCancelled, BelatedIsLate, ContextsInOrder,
       ArpSendsNothing, ProbesAreHeard, JoinedAll, state, tasks, past

\* The handle of a sweep is awaited: that sweep has ended.
LEMMA JoinSweepIInv ==
  ASSUME IInv, NEW i \in DOMAIN ctxs, JoinSweep(i)
  PROVE  IInv'
<1>1. /\ pc = "draining" /\ ctxs[i].sweeps # << >> /\ Head(ctxs[i].sweeps) \notin sweeping
      /\ ctxs' = [ctxs EXCEPT ![i].sweeps = Tail(@)]
      /\ UNCHANGED <<pc, phase, owner, op, local, epoch, cancelled, handles, socks,
                     launched, running, handling, sweeping, held,
                     failed, panicked, belated>>
  BY DEF JoinSweep, call, tasks, past
<1>2. /\ ctxs \in Seq(Context) /\ ctxs[i] \in Context /\ ctxs[i].sweeps \in Seq(Sweeps)
      /\ Tail(ctxs[i].sweeps) \in Seq(Sweeps)
  <2>1. ctxs \in Seq(Context)
    BY DEF IInv, Shape, TypeOK
  <2>2. ctxs[i] \in Context
    BY <2>1
  <2>3. ctxs[i].sweeps \in Seq(Sweeps)
    BY <2>2 DEF Context
  <2>. QED
    BY <1>1, <2>1, <2>2, <2>3
<1>3. /\ ctxs' \in Seq(Context) /\ DOMAIN ctxs' = DOMAIN ctxs /\ Len(ctxs') = Len(ctxs)
      /\ \A j \in DOMAIN ctxs : /\ ctxs'[j].engine = ctxs[j].engine
                                /\ ctxs'[j].epoch = ctxs[j].epoch
                                /\ j # i => ctxs'[j].sweeps = ctxs[j].sweeps
      /\ ctxs'[i].sweeps = Tail(ctxs[i].sweeps)
  <2>1. ctxs' = [j \in DOMAIN ctxs |->
                   IF j = i THEN [ctxs[i] EXCEPT !.sweeps = Tail(ctxs[i].sweeps)]
                            ELSE ctxs[j]]
    BY <1>1
  <2>2. [ctxs[i] EXCEPT !.sweeps = Tail(ctxs[i].sweeps)] \in Context
    BY <1>2 DEF Context
  <2>3. DOMAIN ctxs = 1..Len(ctxs) /\ Len(ctxs) \in Nat /\ \A j \in DOMAIN ctxs : ctxs[j] \in Context
    BY <1>2
  <2>4. \A j \in DOMAIN ctxs : ctxs'[j] \in Context
    BY <2>1, <2>2, <2>3
  <2>5. ctxs' \in Seq(Context) /\ DOMAIN ctxs' = DOMAIN ctxs /\ Len(ctxs') = Len(ctxs)
    <3>1. ctxs' = [j \in 1..Len(ctxs) |-> ctxs'[j]]
      BY <2>1, <2>3
    <3>. QED
      BY <2>3, <2>4, <3>1
  <2>. QED
    BY <1>2, <2>1, <2>5 DEF Context
<1>4. Shape'
  BY <1>1, <1>3 DEF IInv, Shape, TypeOK, PhaseOfCall, NothingLeftOver, AtRest,
                    LocalIsCurrent
<1>5. SweepsAreOwned'
  <2>1. \A s \in sweeping : InSeq(s, ctxs[i].sweeps) => InSeq(s, Tail(ctxs[i].sweeps))
    BY <1>1, <1>2, InSeqTail
  <2>. QED
    BY <1>1, <1>3, <2>1 DEF IInv, SweepsAreOwned
<1>6. ContextsInOrder'
  BY <1>1, <1>3 DEF IInv, ContextsInOrder
<1>7. OldEpochsCancelled' /\ BelatedIsLate'
  BY <1>1 DEF IInv, OldEpochsCancelled, BelatedIsLate, AtRest
<1>8. TasksAreOwned' /\ ArpSendsNothing' /\ ProbesAreHeard'
  BY <1>1 DEF IInv, TasksAreOwned, ArpSendsNothing, ProbesAreHeard
<1>. QED
  BY <1>4, <1>5, <1>6, <1>7, <1>8 DEF IInv

\* stop() returns: no context has a handle left, so a sweep alive is belated.
LEMMA StopReturnIInv ==
  ASSUME IInv, StopReturn
  PROVE  IInv'
<1>1. /\ pc = "draining" /\ \A i \in DOMAIN ctxs : ctxs[i].sweeps = << >>
      /\ pc' = "idle" /\ phase' = "stopped"
      /\ UNCHANGED <<owner, op, local, epoch, cancelled, handles, ctxs, socks, launched,
                     running, handling, sweeping, held,
                     failed, panicked, belated>>
  BY DEF StopReturn, state, tasks, past
<1>2. sweeping \subseteq belated
  BY <1>1, EmptyHasNothing DEF IInv, SweepsAreOwned
<1>3. Shape'
  BY <1>1, <1>2 DEF IInv, Shape, TypeOK, Phases, PhaseOfCall, NothingLeftOver, AtRest,
                    LocalIsCurrent
<1>4. OldEpochsCancelled' /\ BelatedIsLate' /\ ContextsInOrder'
  BY <1>1 DEF IInv, OldEpochsCancelled, BelatedIsLate, ContextsInOrder, AtRest
<1>5. TasksAreOwned' /\ SweepsAreOwned' /\ ArpSendsNothing' /\ ProbesAreHeard'
  BY <1>1 DEF IInv, TasksAreOwned, SweepsAreOwned, ArpSendsNothing, ProbesAreHeard
<1>. QED
  BY <1>3, <1>4, <1>5 DEF IInv

-----------------------------------------------------------------------------
\* A task that may end is cancelled, or a consumer nobody sends from.
LEMMA TaskExitIInv ==
  ASSUME IInv, NEW t \in Tasks, TaskExit(t)
  PROVE  IInv'
<1>1. /\ running' = running \ {t} /\ MayEnd(t) /\ t \notin handling
      /\ UNCHANGED <<pc, phase, owner, op, local, epoch, cancelled, handles, ctxs, socks,
                     launched, handling, sweeping, held,
                     failed, panicked, belated>>
  BY DEF TaskExit, call, state, past
<1>2. Shape'
  BY <1>1 DEF IInv, Shape, TypeOK, PhaseOfCall, NothingLeftOver, AtRest, LocalIsCurrent
<1>3. ProbesAreHeard' /\ ArpSendsNothing'
  BY <1>1 DEF IInv, ArpSendsNothing, ProbesAreHeard, MayEnd
<1>4. TasksAreOwned' /\ SweepsAreOwned'
  BY <1>1 DEF IInv, TasksAreOwned, SweepsAreOwned
<1>5. OldEpochsCancelled' /\ BelatedIsLate' /\ ContextsInOrder'
  BY <1>1 DEF IInv, OldEpochsCancelled, BelatedIsLate, ContextsInOrder, AtRest
<1>. QED
  BY <1>2, <1>3, <1>4, <1>5 DEF IInv

\* A task that panics leaves its socket with the panic on record.
LEMMA PanicsIInv ==
  ASSUME IInv, NEW t \in Tasks, Panics(t)
  PROVE  IInv'
<1>1. /\ running' = running \ {t} /\ handling' = handling \ {t}
      /\ panicked' = IF t[1] = epoch THEN panicked \cup {t} ELSE panicked
      /\ UNCHANGED <<pc, phase, owner, op, local, epoch, cancelled, handles, ctxs, socks,
                     launched, sweeping, held, failed, belated>>
  BY DEF Panics, call, state
<1>2. Shape'
  BY <1>1 DEF IInv, Shape, TypeOK, PhaseOfCall, NothingLeftOver, AtRest, LocalIsCurrent
<1>3. ProbesAreHeard' /\ ArpSendsNothing'
  BY <1>1 DEF IInv, ArpSendsNothing, ProbesAreHeard
<1>4. TasksAreOwned' /\ SweepsAreOwned'
  BY <1>1 DEF IInv, TasksAreOwned, SweepsAreOwned
<1>5. OldEpochsCancelled' /\ BelatedIsLate' /\ ContextsInOrder'
  BY <1>1 DEF IInv, OldEpochsCancelled, BelatedIsLate, ContextsInOrder, AtRest
<1>. QED
  BY <1>2, <1>3, <1>4, <1>5 DEF IInv

\* A datagram comes or is done with, a sweep ends, another program moves, or
\* nothing happens.
LEMMA OthersIInv ==
  ASSUME IInv, handling' \subseteq running, sweeping' \subseteq sweeping, held' \subseteq Owners,
         UNCHANGED <<call, state, running, past>>
  PROVE  IInv'
<1>1. UNCHANGED <<pc, phase, owner, op, local, epoch, cancelled, handles, ctxs, socks,
                  launched, running, failed, panicked, belated>>
  BY DEF call, state, past
<1>2. Shape'
  BY <1>1 DEF IInv, Shape, TypeOK, PhaseOfCall, NothingLeftOver, AtRest, LocalIsCurrent
<1>3. TasksAreOwned' /\ SweepsAreOwned' /\ ArpSendsNothing' /\ ProbesAreHeard'
  BY <1>1 DEF IInv, TasksAreOwned, SweepsAreOwned, ArpSendsNothing, ProbesAreHeard
<1>4. OldEpochsCancelled' /\ BelatedIsLate' /\ ContextsInOrder'
  BY <1>1 DEF IInv, OldEpochsCancelled, BelatedIsLate, ContextsInOrder, AtRest
<1>. QED
  BY <1>2, <1>3, <1>4 DEF IInv

LEMMA StartIInv == IInv /\ Start => IInv'
<1>. SUFFICES ASSUME IInv, Start PROVE IInv'
  OBVIOUS
<1>0. op \in Nat \ {0}
  BY DEF IInv, Shape, TypeOK
<1>1. ASSUME NEW o \in Owners, BindGroup(o) PROVE IInv'
  BY <1>1, SpawnIInv DEF BindGroup
<1>2. ASSUME NEW o \in Owners, GroupBusy(o) PROVE IInv'
  <2>1. CASE o = Broker
    BY <1>2, <2>1, SkipIInv DEF GroupBusy
  <2>2. CASE o # Broker
    BY <1>2, <2>2, FailIInv DEF GroupBusy, Owners
  <2>. QED
    BY <2>1, <2>2
<1>3. ASSUME NEW o \in Owners, BindGlobal(o) PROVE IInv'
  BY <1>3, SpawnIInv DEF BindGlobal
<1>4. ASSUME NEW o \in Owners, GlobalBusy(o) PROVE IInv'
  BY <1>4, SkipIInv DEF GlobalBusy
<1>5. ASSUME NEW o \in Owners, ListenArp(o) PROVE IInv'
  BY <1>5, SpawnIInv DEF ListenArp
<1>6. ASSUME NEW o \in Owners, NEW n \in Nics, BindInterface(o, n) PROVE IInv'
  <2>1. AtSocket(o, n)
    BY <1>6 DEF BindInterface
  <2>2. CASE Spawn(o, n) /\ socks' = socks \cup {<<o, n>>}
    BY <1>0, <2>1, <2>2, SpawnIInv, OnlyConsumerOfArp, FixedAssumption
  <2>3. CASE Skip
    BY <2>3, SkipIInv
  <2>4. CASE o # Broker /\ Fail("interface_bind")
    BY <2>1, <2>4, FailIInv DEF Owners
  <2>. QED
    BY <1>6, <2>2, <2>3, <2>4 DEF BindInterface
<1>7. ASSUME NEW o \in Owners, SocketFails(o) PROVE IInv'
  <2>1. CASE o = Broker
    BY <1>7, <2>1, SkipIInv DEF SocketFails
  <2>2. CASE o # Broker
    BY <1>7, <2>2, FailIInv DEF SocketFails, Owners
  <2>. QED
    BY <2>1, <2>2
<1>. QED
  BY <1>1, <1>2, <1>3, <1>4, <1>5, <1>6, <1>7, StartBeginIInv, BrokerListeningIInv,
     EngineListeningIInv, StartDoneIInv DEF Start

LEMMA NextIInv == IInv /\ [Next]_vars => IInv'
<1>. SUFFICES ASSUME IInv, [Next]_vars PROVE IInv'
  OBVIOUS
<1>1. held \subseteq Owners /\ handling \subseteq running
  BY DEF IInv, Shape, TypeOK
<1>2. CASE Join
  BY <1>2, JoinTaskIInv, JoinedAllIInv, JoinSweepIInv, StopReturnIInv DEF Join
<1>3. ASSUME NEW s \in Sweeps, SweepExit(s) PROVE IInv'
  BY <1>1, <1>3, OthersIInv DEF SweepExit
<1>4. ASSUME NEW o \in Owners, OutsiderBinds(o) \/ OutsiderCloses(o) PROVE IInv'
  BY <1>1, <1>4, OthersIInv DEF OutsiderBinds, OutsiderCloses, tasks
<1>5. ASSUME NEW t \in Tasks, Receive(t) \/ Handled(t) PROVE IInv'
  BY <1>1, <1>5, OthersIInv DEF Receive, Handled
<1>6. CASE UNCHANGED vars
  BY <1>1, <1>6, OthersIInv DEF vars, tasks
<1>. QED
  BY <1>2, <1>3, <1>4, <1>5, <1>6, StartIInv, ScanIInv, StopBeginIInv, TaskExitIInv,
     PanicsIInv DEF Next

LEMMA IInvHolds == Spec => []IInv
<1>1. Init => IInv
  BY InitIInv
<1>2. IInv /\ [Next]_vars => IInv'
  BY NextIInv
<1>. QED
  BY <1>1, <1>2, PTL DEF Spec

-----------------------------------------------------------------------------
\* The scanner's fields and tasks keep their types (scanner.rs, struct Scanner).
THEOREM TypeCorrect == Spec => []TypeOK
<1>1. IInv => TypeOK
  BY DEF IInv, Shape
<1>. QED
  BY <1>1, IInvHolds, PTL

\* Every receive task alive is one start() or stop() has the handle of, or was
\* spawned by a start that failed (scanner.rs:166).
THEOREM TasksAlwaysOwned == Spec => []TasksAreOwned
<1>1. IInv => TasksAreOwned
  BY DEF IInv
<1>. QED
  BY <1>1, IInvHolds, PTL

\* Whatever order starts, scans and stops come in: every sweep alive has its
\* handle in a context that stop() drains, unless a scan after stop() launched
\* it and a later start() threw its context away (scanner.rs:153).
THEOREM SweepsAlwaysOwned == Spec => []SweepsAreOwned
<1>1. IInv => SweepsAreOwned
  BY DEF IInv
<1>. QED
  BY <1>1, IInvHolds, PTL

\* After stop() no sweep launched before it runs and no task of a start that
\* succeeded, and whatever runs has been told to stop.
THEOREM StopAlwaysLeavesNothing == Spec => []StopLeavesNothing
<1>1. IInv => StopLeavesNothing
  <2>. SUFFICES ASSUME IInv, phase = "stopped"
                PROVE  /\ \A s \in sweeping : s \in belated /\ s[1] \in cancelled
                       /\ \A t \in running : t[1] \in failed /\ t[1] \in cancelled
    BY DEF StopLeavesNothing
  <2>1. AtRest /\ pc = "idle"
    BY DEF AtRest, IInv, Shape, PhaseOfCall, TypeOK
  <2>2. sweeping \subseteq belated /\ handles = << >> /\ local = << >>
    BY <2>1 DEF IInv, Shape, NothingLeftOver
  <2>3. \A t \in running : t[1] \in failed
    BY <2>2, EmptyHasNothing DEF IInv, TasksAreOwned
  <2>4. \A e \in failed : e \in cancelled
    BY <2>1 DEF IInv, OldEpochsCancelled
  <2>5. \A s \in belated : s[1] \in cancelled
    BY DEF IInv, BelatedIsLate
  <2>. QED
    BY <2>2, <2>3, <2>4, <2>5
<1>. QED
  BY <1>1, IInvHolds, PTL

\* Whatever start() did, scan() gives each engine its own context, of the
\* current epoch.
THEOREM ContextsAlwaysMatch == Spec => []ContextsMatchEngines
<1>1. IInv => ContextsMatchEngines
  BY DEF IInv, ContextsInOrder, ContextsMatchEngines
<1>. QED
  BY <1>1, IInvHolds, PTL

\* Until the token is cancelled a receive task listens on every socket that a
\* probe leaves from, also after a start that failed half-way, unless that task
\* has died of a panic.
THEOREM ProbesAlwaysHeard == Spec => []ProbesAreHeard
<1>1. IInv => ProbesAreHeard
  BY DEF IInv
<1>. QED
  BY <1>1, IInvHolds, PTL
=============================================================================
