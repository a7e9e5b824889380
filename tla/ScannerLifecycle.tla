---------------------------- MODULE ScannerLifecycle ----------------------------
(***************************************************************************)
(* Scanner::start, scan and stop: universal-scanner/src/scanner.rs, with   *)
(* the listen functions of the engines and of the mDNS broker, the sockets *)
(* of net.rs, and the tasks they spawn.                                    *)
(*                                                                         *)
(* start() makes a fresh cancellation token, broker and set of engines (an *)
(* epoch), and calls listen on each engine in registry order.  A listen    *)
(* binds one socket after another and spawns a receive task per socket; an *)
(* error returned half-way drops the JoinHandles collected so far, which   *)
(* detaches the tasks.  stop() cancels the current token and joins the     *)
(* handles it still has.  The tasks run on other threads all along.        *)
(*                                                                         *)
(* Left out: which ports are drawn and what travels on the sockets (see    *)
(* Sockets and Discovery), ports changing hands while a start binds        *)
(* (Sockets), and the rounds of a sweep.  Bounds: MaxStarts epochs,        *)
(* MaxScans sweeps per engine and epoch, traffic on the sockets in Heard.  *)
(***************************************************************************)
EXTENDS Naturals, Sequences, FiniteSets

CONSTANTS
  Engines,        \* the engines of the registry that the filter selects
  EngineSeq,      \* the same in registry order: Scanner::entries
  Kind,           \* how each engine listens, see KindAssumption
  Sweepers,       \* engines whose scan spawns a sweep (Dahua2, Arecont)
  Broker,         \* the mDNS broker, owner 0 of a start
  NicSeq,         \* the interface addresses, in enumeration order
  Heard,          \* the sockets to which datagrams come
  PortSharing,    \* config.port_sharing
  MaxStarts, MaxScans

ASSUME EnginesAssumption ==
  /\ EngineSeq \in Seq(Engines)
  /\ Broker \notin Engines
  /\ Sweepers \subseteq Engines

(***************************************************************************)
(* multicast: a group socket whose bind error is returned with `?', then   *)
(*            a socket per interface (ssdp, wsd, dahua2, hikvision, tvt).  *)
(* global:    an optional fixed-port socket, then one per interface.       *)
(* iface:     only a socket per interface.                                 *)
(* mdns:      registers a domain with the broker, no socket.               *)
(* arp:       capture threads and one consumer task.                       *)
(***************************************************************************)
ASSUME KindAssumption ==
  Kind \in [Engines -> {"multicast", "global", "iface", "mdns", "arp"}]

ASSUME BoundsAssumption ==
  /\ MaxStarts \in Nat /\ MaxScans \in Nat
  /\ PortSharing \in BOOLEAN

Owners == Engines \cup {Broker}
Nics   == { NicSeq[i] : i \in DOMAIN NicSeq }
Fixed  == "fixed"          \* the fixed-port socket of an owner, or ARP's consumer
ASSUME FixedAssumption == Fixed \notin Nics
ASSUME HeardAssumption == Heard \subseteq Owners \X (Nics \cup {Fixed})
Epochs == 1..MaxStarts
Tasks  == Epochs \X Owners \X (Nics \cup {Fixed})
Sweeps == Epochs \X Sweepers \X (1..MaxScans)

VARIABLES
  pc,         \* the call in progress: idle, starting, joining or draining
  phase,      \* how the last call left the scanner
  epoch,      \* how many starts got past the interface check: self.cancel
  cancelled,  \* epochs whose token is cancelled
  owner, op,  \* start's position: owner index (0 = broker), operation index
  local,      \* start's local `handles' and those of the listen in progress
  handles,    \* self.handles
  ctxs,       \* self.ctxs; a context owns its epoch's sweep handles
  socks,      \* the sockets the current engines and broker send from
  launched,   \* sweeps each current engine has spawned: its token is the last
  running,    \* receive tasks alive
  handling,   \* those of them whose select! took the socket: in parse
  sweeping,   \* sweep tasks alive
  held,       \* owners whose fixed port an outside socket holds exclusively
  failed,     \* history: epochs whose start returned an error
  panicked,   \* history: receive tasks of this epoch that died of a panic
  belated     \* history: sweeps launched since stop() returned

call   == <<pc, phase, owner, op, local>>
state  == <<epoch, cancelled, handles, ctxs, socks, launched>>
tasks  == <<running, handling, sweeping>>
past   == <<failed, panicked, belated>>
vars   == <<call, state, tasks, held, past>>

-----------------------------------------------------------------------------
HasMdnsConsumer == \E i \in DOMAIN EngineSeq : Kind[EngineSeq[i]] = "mdns"

OwnerAt(i) == IF i = 0 THEN Broker ELSE EngineSeq[i]

KindOf(o) == IF o = Broker THEN "broker" ELSE Kind[o]

\* The sockets a listen binds, in order (ARP: its consumer task).
Operations(i) ==
  LET kind == KindOf(OwnerAt(i))
  IN  IF kind \in {"multicast", "global"} \/ (kind = "broker" /\ HasMdnsConsumer)
        THEN <<Fixed>> \o NicSeq
        ELSE IF kind = "iface" THEN NicSeq
        ELSE IF kind = "arp" THEN <<Fixed>> ELSE << >>

\* A socket of ours still open on the owner's fixed port: a receive task has
\* it, or the SocketSet of the engine instance in self.entries.
OursOn(o) ==
  \/ <<o, Fixed>> \in socks
  \/ \E t \in running : t[2] = o /\ t[3] = Fixed

-----------------------------------------------------------------------------
Init ==
  /\ pc = "idle" /\ phase = "new"
  /\ epoch = 0 /\ cancelled = {}
  /\ owner = 0 /\ op = 1 /\ local = << >>
  /\ handles = << >> /\ ctxs = << >>
  /\ socks = {} /\ launched = [e \in Sweepers |-> 0]
  /\ running = {} /\ handling = {} /\ sweeping = {}
  /\ held = {} /\ failed = {} /\ panicked = {} /\ belated = {}

(***************************************************************************)
(* start().                                                                *)
(***************************************************************************)
MayStart ==
  /\ pc = "idle"
  /\ epoch = 0 \/ phase = "stopped"

\* (With no active interface start() returns Err here and changes nothing.)
\* A new token, broker, port pool and engines.  Dropping the old engines and
\* broker closes the sockets they sent from.
StartBegin ==
  /\ MayStart
  /\ epoch < MaxStarts
  /\ pc' = "starting"
  /\ phase' = "starting"
  /\ epoch' = epoch + 1
  /\ owner' = 0 /\ op' = 1 /\ local' = << >>
  /\ socks' = {}
  /\ launched' = [e \in Sweepers |-> 0]
  /\ panicked' = {}
  /\ UNCHANGED <<cancelled, handles, ctxs, tasks, held, failed, belated>>

\* The next operation of start(): socket x of owner o.
AtSocket(o, x) ==
  /\ pc = "starting"
  /\ owner <= Len(EngineSeq)
  /\ o = OwnerAt(owner)
  /\ op <= Len(Operations(owner))
  /\ x = Operations(owner)[op]

\* The socket is bound: the engine keeps a handle to send from, and a receive
\* task is spawned with the epoch's token.
Spawn(o, x) ==
  LET t == <<epoch, o, x>>
  IN  /\ running' = running \cup {t}
      /\ local' = Append(local, t)
      /\ op' = op + 1
      /\ UNCHANGED <<pc, phase, owner, epoch, cancelled, handles, ctxs, launched,
                     handling, sweeping, held, past>>

\* The socket is given up with a warning and listen goes on.
Skip ==
  /\ op' = op + 1
  /\ UNCHANGED <<pc, phase, owner, local, state, tasks, held, past>>

\* listen returned Err and start() returns it: its local handles are dropped,
\* so their tasks are detached; self.handles keeps what it had.
Fail(reason) ==
  /\ pc' = "idle"
  /\ phase' = reason
  /\ local' = << >>
  /\ failed' = failed \cup {epoch}
  /\ UNCHANGED <<owner, op, state, tasks, held, panicked, belated>>

\* udp_bind_multicast: SO_REUSEADDR and no probe, so only an exclusive holder
\* is in the way.  The broker does not send from its group socket.
BindGroup(o) ==
  /\ AtSocket(o, Fixed)
  /\ KindOf(o) \in {"multicast", "broker"}
  /\ o \notin held
  /\ Spawn(o, Fixed)
  /\ socks' = IF o = Broker THEN socks ELSE socks \cup {<<o, Fixed>>}

\* The bind error: an engine returns it, the broker degrades.
GroupBusy(o) ==
  /\ AtSocket(o, Fixed)
  /\ KindOf(o) \in {"multicast", "broker"}
  /\ o \in held
  /\ IF o = Broker THEN Skip ELSE Fail("port_busy")

\* udp_bind_global: the port is probed first; one of our own sockets on it is
\* in the way too, unless ports are shared.
InTheWay(o) == o \in held \/ (OursOn(o) /\ ~PortSharing)

BindGlobal(o) ==
  /\ AtSocket(o, Fixed)
  /\ KindOf(o) = "global"
  /\ ~InTheWay(o)
  /\ Spawn(o, Fixed)
  /\ socks' = socks \cup {<<o, Fixed>>}

GlobalBusy(o) ==
  /\ AtSocket(o, Fixed)
  /\ KindOf(o) = "global"
  /\ InTheWay(o)
  /\ Skip

\* Any other error of socket2 or tokio on the way (set_broadcast, try_clone):
\* an engine returns it with `?', the broker degrades.
SocketFails(o) ==
  /\ AtSocket(o, Fixed)
  /\ KindOf(o) \in {"multicast", "broker", "global"}
  /\ IF o = Broker THEN Skip ELSE Fail("socket_error")

\* A socket per interface address: bound, or skipped when free_port finds no
\* port; a failed bind is returned by the engines and skipped by the broker.
BindInterface(o, n) ==
  /\ AtSocket(o, n)
  /\ n \in Nics
  /\ \/ Spawn(o, n) /\ socks' = socks \cup {<<o, n>>}
     \/ Skip
     \/ o # Broker /\ Fail("interface_bind")

\* Arp::listen: capture threads, and one consumer task that is joined.
ListenArp(o) ==
  /\ AtSocket(o, Fixed)
  /\ KindOf(o) = "arp"
  /\ Spawn(o, Fixed)
  /\ UNCHANGED socks

\* Mutant: the contexts of the last start are kept.
KeptContexts == ctxs

ClearedContexts == << >>

\* The broker listens: the old contexts go, and with them the handles of any
\* sweep not joined.
BrokerListening ==
  /\ pc = "starting" /\ owner = 0
  /\ op > Len(Operations(0))
  /\ ctxs' = ClearedContexts
  /\ owner' = 1 /\ op' = 1
  /\ UNCHANGED <<pc, phase, local, epoch, cancelled, handles, socks, launched,
                 tasks, held, past>>

\* An engine's listen returned Ok: its context is pushed.
EngineListening ==
  /\ pc = "starting" /\ owner \in 1..Len(EngineSeq)
  /\ op > Len(Operations(owner))
  /\ ctxs' = Append(ctxs, [engine |-> EngineSeq[owner], epoch |-> epoch, sweeps |-> << >>])
  /\ owner' = owner + 1 /\ op' = 1
  /\ UNCHANGED <<pc, phase, local, epoch, cancelled, handles, socks, launched,
                 tasks, held, past>>

\* Mutant: the handles are not stored.
StartForgets ==
  /\ pc = "starting" /\ owner > Len(EngineSeq)
  /\ pc' = "idle" /\ phase' = "started"
  /\ local' = << >>
  /\ UNCHANGED <<owner, op, state, tasks, held, past>>

StartDone ==
  /\ pc = "starting" /\ owner > Len(EngineSeq)
  /\ pc' = "idle" /\ phase' = "started"
  /\ handles' = local
  /\ local' = << >>
  /\ UNCHANGED <<owner, op, epoch, cancelled, ctxs, socks, launched, tasks, held, past>>

(***************************************************************************)
(* scan(): entries zipped with ctxs.  A sweeper replaces its token, which  *)
(* cancels its previous sweep, spawns the next one and leaves the handle   *)
(* in the context.  Nothing keeps the caller from a scan after stop(): its *)
(* sweeps find their token cancelled at the first look.                    *)
(***************************************************************************)
Launching(i) == ctxs[i].engine \in Sweepers

\* Mutant: the token counter is read before it is advanced.
LastSweep(i) == <<ctxs[i].epoch, ctxs[i].engine, launched[ctxs[i].engine]>>

NextSweep(i) == <<ctxs[i].epoch, ctxs[i].engine, launched[ctxs[i].engine] + 1>>

\* Mutant: the JoinHandle is dropped.
WithoutHandle(i) == ctxs[i]

WithHandle(i) ==
  IF Launching(i) THEN [ctxs[i] EXCEPT !.sweeps = Append(@, NextSweep(i))]
                  ELSE ctxs[i]

Scan ==
  /\ pc = "idle"
  /\ \E i \in DOMAIN ctxs : Launching(i)
  /\ \A i \in DOMAIN ctxs : Launching(i) => launched[ctxs[i].engine] < MaxScans
  /\ launched' = [e \in Sweepers |->
                    IF \E i \in DOMAIN ctxs : ctxs[i].engine = e
                      THEN launched[e] + 1 ELSE launched[e]]
  /\ LET swept == { NextSweep(i) : i \in {j \in DOMAIN ctxs : Launching(j)} }
     IN  /\ sweeping' = sweeping \cup swept
         /\ belated' = IF epoch \in cancelled THEN belated \cup swept ELSE belated
  /\ ctxs' = [i \in DOMAIN ctxs |-> WithHandle(i)]
  /\ UNCHANGED <<call, epoch, cancelled, handles, socks, running, handling, held,
                 failed, panicked>>

(***************************************************************************)
(* stop().                                                                 *)
(***************************************************************************)
CurrentToken == epoch

StopBegin ==
  /\ pc = "idle"
  /\ pc' = "joining"
  /\ phase' = "stopping"
  /\ cancelled' = cancelled \cup {CurrentToken}
  /\ belated' = {s \in belated : s[1] # epoch}     \* those it will drain
  /\ UNCHANGED <<owner, op, local, epoch, handles, ctxs, socks, launched,
                 tasks, held, failed, panicked>>

\* Mutant: the handle is aborted or dropped, and not awaited.
NotAwaited(t) == TRUE

Ended(t) == t \notin running

\* The handles are awaited one after the other, in order; a JoinError of a
\* task that panicked is thrown away.
JoinTask ==
  /\ pc = "joining"
  /\ handles # << >>
  /\ Ended(Head(handles))
  /\ handles' = Tail(handles)
  /\ UNCHANGED <<call, epoch, cancelled, ctxs, socks, launched, tasks, held, past>>

JoinedAll ==
  /\ pc = "joining"
  /\ handles = << >>
  /\ pc' = "draining"
  /\ UNCHANGED <<phase, owner, op, local, state, tasks, held, past>>

\* Then the sweeps of each context, in order.
JoinSweep(i) ==
  /\ pc = "draining"
  /\ ctxs[i].sweeps # << >>
  /\ \A j \in DOMAIN ctxs : j < i => ctxs[j].sweeps = << >>
  /\ Head(ctxs[i].sweeps) \notin sweeping
  /\ ctxs' = [ctxs EXCEPT ![i].sweeps = Tail(@)]
  /\ UNCHANGED <<call, epoch, cancelled, handles, socks, launched, tasks, held, past>>

StopReturn ==
  /\ pc = "draining"
  /\ \A i \in DOMAIN ctxs : ctxs[i].sweeps = << >>
  /\ pc' = "idle" /\ phase' = "stopped"
  /\ UNCHANGED <<owner, op, local, state, tasks, held, past>>

(***************************************************************************)
(* The tasks, and the rest of the host.                                    *)
(***************************************************************************)
\* Mutants: an error on the socket breaks the loop; the loop watches the token
\* the scanner has now; select! is biased, the socket before the token, and the
\* socket never runs dry.
BreaksOnError(t)   == TRUE
WatchesNewToken(t) == epoch \in cancelled /\ t[1] = epoch
SocketFirst(t)     == \/ t[1] \in cancelled /\ <<t[2], t[3]>> \notin Heard
                      \/ KindOf(t[2]) = "arp"

\* A receive task leaves its loop by the token only.  ARP's consumer ends when
\* its capture threads have, which they may do at any time (no NIC could be
\* opened, a capture error).
MayEnd(t) == t[1] \in cancelled \/ KindOf(t[2]) = "arp"

TaskExit(t) ==
  /\ t \in running \ handling
  /\ MayEnd(t)
  /\ running' = running \ {t}
  /\ UNCHANGED <<call, state, handling, sweeping, held, past>>

\* select! takes the socket, which it may also do when the token is cancelled.
Receive(t) ==
  /\ t \in running \ handling
  /\ <<t[2], t[3]>> \in Heard /\ KindOf(t[2]) # "arp"
  /\ handling' = handling \cup {t}
  /\ UNCHANGED <<call, state, running, sweeping, held, past>>

\* The datagram is written to the capture file, parsed and reported, or the
\* error of the socket passed over.
Handled(t) ==
  /\ t \in handling
  /\ handling' = handling \ {t}
  /\ UNCHANGED <<call, state, running, sweeping, held, past>>

\* Or handling it panics: a slice of parse that is no char boundary, the sum of
\* the lengths or the poisoned mutex of the capture file.  The task dies with
\* its token live; its JoinHandle stays where it is.  The broker's loop has
\* neither a slice nor a capture file.
Panics(t) ==
  /\ t \in handling
  /\ t[2] # Broker
  /\ running' = running \ {t}
  /\ handling' = handling \ {t}
  /\ panicked' = IF t[1] = epoch THEN panicked \cup {t} ELSE panicked
  /\ UNCHANGED <<call, state, sweeping, held, failed, belated>>

\* A sweep ends by itself, after its last round or on a cancellation.
SweepExit(s) ==
  /\ s \in sweeping
  /\ sweeping' = sweeping \ {s}
  /\ UNCHANGED <<call, state, running, handling, held, past>>

\* Another program takes a fixed port exclusively, or releases it.  Only a
\* start looks, so it is enough that they do so when one may begin.
OutsiderBinds(o) ==
  /\ MayStart
  /\ KindOf(o) \in {"multicast", "global", "broker"}
  /\ o \notin held /\ ~OursOn(o)
  /\ held' = held \cup {o}
  /\ UNCHANGED <<call, state, tasks, past>>

OutsiderCloses(o) ==
  /\ MayStart
  /\ o \in held
  /\ held' = held \ {o}
  /\ UNCHANGED <<call, state, tasks, past>>

-----------------------------------------------------------------------------
Start ==
  \/ StartBegin
  \/ \E o \in Owners : BindGroup(o) \/ GroupBusy(o) \/ BindGlobal(o) \/ GlobalBusy(o)
                       \/ SocketFails(o) \/ ListenArp(o)
  \/ \E o \in Owners, n \in Nics : BindInterface(o, n)
  \/ BrokerListening \/ EngineListening \/ StartDone

Join == JoinTask \/ JoinedAll \/ (\E i \in DOMAIN ctxs : JoinSweep(i)) \/ StopReturn

Next ==
  \/ Start \/ Scan \/ StopBegin \/ Join
  \/ \E t \in Tasks : TaskExit(t) \/ Receive(t) \/ Handled(t) \/ Panics(t)
  \/ \E s \in Sweeps : SweepExit(s)
  \/ \E o \in Owners : OutsiderBinds(o) \/ OutsiderCloses(o)

Spec == Init /\ [][Next]_vars

(***************************************************************************)
(* stop() runs on while it can.  A receive task is polled, and comes to    *)
(* the end of what it does with a datagram.  Between two datagrams it      *)
(* chooses among its ready branches at random (tokio::select!): however    *)
(* busy the socket, one that comes to choose again and again takes the     *)
(* cancelled token with probability one, which is strong fairness.  A      *)
(* sweep has finitely many rounds.  No fairness for the caller.            *)
(***************************************************************************)
Fairness ==
  /\ WF_vars(Join)
  /\ \A t \in Tasks  : /\ SF_vars(TaskExit(t) /\ t[1] \in cancelled)
                        /\ WF_vars(Handled(t) \/ Panics(t))
  /\ \A s \in Sweeps : WF_vars(SweepExit(s))

FairSpec == Spec /\ Fairness

-----------------------------------------------------------------------------
(***************************************************************************)
(* Properties.                                                             *)
(***************************************************************************)
Context == [engine : Engines, epoch : Epochs, sweeps : Seq(Sweeps)]

Phases == {"new", "starting", "started", "port_busy", "socket_error",
           "interface_bind", "stopping", "stopped"}

\* The types of the scanner's fields and of the tasks.
TypeOK ==
  /\ pc \in {"idle", "starting", "joining", "draining"}
  /\ phase \in Phases
  /\ epoch \in 0..MaxStarts /\ cancelled \subseteq 0..MaxStarts
  /\ owner \in 0..(Len(EngineSeq) + 1) /\ op \in Nat \ {0}
  /\ local \in Seq(Tasks) /\ handles \in Seq(Tasks)
  /\ ctxs \in Seq(Context)
  /\ socks \subseteq Owners \X (Nics \cup {Fixed})
  /\ launched \in [Sweepers -> 0..MaxScans]
  /\ running \subseteq Tasks /\ handling \subseteq running /\ sweeping \subseteq Sweeps
  /\ held \subseteq Owners /\ failed \subseteq Epochs
  /\ panicked \subseteq Tasks /\ belated \subseteq Sweeps

InSeq(x, s) == \E i \in DOMAIN s : s[i] = x

\* No receive task is lost track of: a task alive is one start() or stop()
\* still has the handle of, unless the start that spawned it failed (scanner.rs
\* 166: `?' drops the handles collected so far).  Needs a stop() before every
\* restart, as the comment on start() demands.
TasksAreOwned ==
  \A t \in running :
    t[1] \in failed \/ InSeq(t, local) \/ InSeq(t, handles)

\* Likewise a sweep alive has its handle in a context stop() will drain, though
\* start() throws the contexts away (153) and a scan may follow a failed start.
\* The exception is a sweep launched after stop() (174 does not look at the
\* token) and then thrown away by a start: nobody will join that one.
SweepsAreOwned ==
  \A s \in sweeping :
    \/ \E i \in DOMAIN ctxs : InSeq(s, ctxs[i].sweeps)
    \/ s \in belated /\ s[1] < epoch

\* When stop() has returned, every sweep that was launched before it has ended,
\* but for those that a scan after an earlier stop() launched and a start threw
\* away; no task of a start that succeeded runs; and whatever runs, then or
\* later until the next start, has been told to stop.
StopLeavesNothing ==
  phase = "stopped" =>
    /\ \A s \in sweeping : s \in belated /\ s[1] \in cancelled
    /\ \A t \in running  : t[1] \in failed /\ t[1] \in cancelled

\* scan() zips entries with ctxs: whatever start did, the i-th context belongs
\* to the i-th engine of the current epoch, so no engine is given another's
\* task id, config or cancelled token.
ContextsMatchEngines ==
  pc # "starting" =>
    /\ Len(ctxs) <= Len(EngineSeq)
    /\ \A i \in DOMAIN ctxs : /\ ctxs[i].engine = EngineSeq[i]
                              /\ ctxs[i].epoch = epoch

\* A probe leaves from every socket of the current engines.  Until the token is
\* cancelled each of them has a receive task alive to hear the answer, also
\* after a start that failed half-way; only a panic takes it away, and then the
\* socket is probed from unheard until the next start.
ProbesAreHeard ==
  epoch \notin cancelled =>
    \A x \in socks : <<epoch, x[1], x[2]>> \in running \cup panicked

\* Every stop() returns, however busy the sockets are and whatever panics.
StopReturns == phase = "stopping" ~> phase = "stopped"

\* A scanner that is stopped and left so comes to rest: also the tasks that no
\* stop() joins, detached by failed starts of any epoch or launched too late,
\* have a token that was cancelled, look at it, and end.
StoppedComesToRest ==
  phase = "stopped" ~> phase # "stopped" \/ (running = {} /\ sweeping = {})

\* README.md: "`stop()` cancels and joins everything."
StopJoinsEverything ==
  phase = "stopped" => running = {} /\ sweeping = {}
=============================================================================
