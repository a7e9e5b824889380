--------------------------------- MODULE Sweeps ---------------------------------
(***************************************************************************)
(* The two sweeps of universal-scanner: Arecont's four queries             *)
(* (protocols/arecont.rs, scan) and Dahua's probes of every host of the    *)
(* local subnets (protocols/dahua2.rs, start_netscan; netscan.rs; and the  *)
(* address arithmetic of iface.rs).                                        *)
(*                                                                         *)
(* Each is a task with two tokens: its own, which the next scan of the     *)
(* engine cancels, and the engines', which stop cancels.  Arecont looks at *)
(* them while it sleeps between queries, Dahua before each address of an   *)
(* interface; neither in between.                                          *)
(*                                                                         *)
(* Addresses are of Bits bits instead of 32 and hosts are capped at Cap    *)
(* instead of 254.  An address may leave its interface at any time.  A     *)
(* sweep goes through its addresses, and through the hosts of each, in     *)
(* ascending order, so that it is enough to know the set of those to come. *)
(***************************************************************************)
EXTENDS Integers, Sequences, FiniteSets, Functions

CONSTANTS
  Sweepers,     \* of Arecont and Dahua: those that ever sweep
  Selections,   \* what a user may choose of them: by filter, and dahua_net_scan
  MaxScans,     \* bound: scans from one start to the next, before a stop or after
  Rounds,       \* SWEEP_COUNT
  Bits,
  Cap,          \* HOST_CAP
  Private,      \* is_private
  Interfaces    \* the addresses, in order: records ip |-> address, prefix |-> length

ASSUME SweepersAssumption == 
  Sweepers \subseteq {"Arecont", "Dahua"} /\ Selections \subseteq SUBSET Sweepers
ASSUME BoundsAssumption == MaxScans \in Nat /\ Rounds \in Nat \ {0}

\* The powers of two: the sizes of blocks of addresses.
TwoTo[n \in Nat] == IF n = 0 THEN 1 ELSE 2 * TwoTo[n - 1]

Space == TwoTo[Bits]

\* No address is on two interfaces, so that mask_of finds the mask of its own.
ASSUME AddressesAssumption ==
  /\ Bits \in Nat /\ Cap \in Nat
  /\ Private \subseteq 1..(Space - 2)
  /\ Interfaces \in Seq([ip : 0..(Space - 1), prefix : 0..Bits])
  /\ \A i, j \in DOMAIN Interfaces : Interfaces[i].ip = Interfaces[j].ip => i = j

AllSweeps == Sweepers \X (1..MaxScans)

VARIABLES
  selected,    \* the engines of this start that sweep
  current,     \* of each engine: its newest sweep, whose token it keeps; 0: none
  cancelled,   \* sweeps whose own token is cancelled
  stopped,     \* EngineContext::cancel is cancelled
  at,          \* where each sweep is
  work,        \* rounds of Arecont, addresses of Dahua that each has begun
  todo,        \* addresses the sweep has not done yet, by position
  hosts,       \* hosts of the current address not probed yet
  present,     \* the addresses that are still there
  probes,      \* history: the probes sent
  late         \* history: sweeps that began a unit of work when cancelled

vars == <<selected, current, cancelled, stopped, at, work, todo, hosts, present, probes, late>>

Cancelled(s) == s \in cancelled \/ stopped

-----------------------------------------------------------------------------
(***************************************************************************)
(* subnet_hosts and plan_hosts, in arithmetic modulo Space.                *)
(***************************************************************************)
Wrapped(n) == n % Space

BlockSize(prefix) == TwoTo[Bits - prefix]
Network(ip, prefix) == ip - (ip % BlockSize(prefix))
Broadcast(ip, prefix) == Network(ip, prefix) + BlockSize(prefix) - 1

\* Mutant: the broadcast address is taken for a host.
LastHostOrBroadcast(ip, prefix) == Broadcast(ip, prefix)

FirstHost(ip, prefix) == Wrapped(Network(ip, prefix) + 1)
LastHost(ip, prefix) == Wrapped(Broadcast(ip, prefix) - 1)

SubnetHosts(ip, prefix) ==
  LET first == FirstHost(ip, prefix)
      count == LastHost(ip, prefix) - first + 1
      len == IF count < Cap THEN count ELSE Cap
  IN  { Wrapped(first + i) : i \in 0..(len - 1) }

PlanHosts(ip, prefix) == SubnetHosts(ip, prefix) \ {ip}

\* mask_of reads the interfaces again: an address that has gone has a full mask.
MaskOf(a) == IF a \in present THEN a.prefix ELSE Bits

\* The one whose turn it is, of the addresses or hosts to come.
Lowest(S) == CHOOSE n \in S : \A k \in S : n <= k

Current(s) == Interfaces[Lowest(todo[s])]

-----------------------------------------------------------------------------
Init ==
  /\ selected \in Selections
  /\ current = [e \in Sweepers |-> 0]
  /\ cancelled = {} /\ stopped = FALSE
  /\ at = [s \in AllSweeps |-> "none"]
  /\ work = [s \in AllSweeps |-> 0]
  /\ todo = [s \in AllSweeps |-> {}]
  /\ hosts = [s \in AllSweeps |-> {}]
  /\ present = Range(Interfaces)
  /\ probes = {} /\ late = {}

\* Mutant: the new token takes the place of the old, which nobody cancels.
ForgottenBy(e) == {}

\* The sweep whose token the next one replaces, and cancels.
ReplacedBy(e) == IF current[e] = 0 THEN {} ELSE {<<e, current[e]>>}

\* The part of an engine's scan that sets a new token and spawns the sweep.  The
\* engines and their contexts are kept by stop, and a scan after it still does.
Launch(e) ==
  /\ e \in selected /\ current[e] < MaxScans
  /\ current' = [current EXCEPT ![e] = @ + 1]
  /\ cancelled' = cancelled \cup ReplacedBy(e)
  /\ at' = [at EXCEPT ![<<e, current[e] + 1>>] = IF e = "Arecont" THEN "query" ELSE "fresh"]
  /\ UNCHANGED <<selected, stopped, work, todo, hosts, present, probes, late>>

\* Scanner::stop, as far as the sweeps are concerned.
Stop ==
  /\ stopped' = TRUE
  /\ UNCHANGED <<selected, current, cancelled, at, work, todo, hosts, present, probes, late>>

AddressLeaves(a) ==
  /\ a \in present
  /\ present' = present \ {a}
  /\ UNCHANGED <<selected, current, cancelled, stopped, at, work, todo, hosts, probes, late>>

\* A sweep begins a round, or the hosts of an address.
BeginsUnit(s) ==
  /\ work' = [work EXCEPT ![s] = @ + 1]
  /\ late' = IF Cancelled(s) THEN late \cup {s} ELSE late

Goes(s, place) == at' = [at EXCEPT ![s] = place]

(***************************************************************************)
(* Arecont: query at once, then sleep and query, Rounds times in all.  The *)
(* select! that sleeps sees a cancelled token when it begins; afterwards   *)
(* the timer may have gone off as well, and either branch may be taken.    *)
(***************************************************************************)
Query(s) ==
  /\ at[s] = "query"
  /\ BeginsUnit(s)
  /\ Goes(s, "queried")
  /\ UNCHANGED <<selected, current, cancelled, stopped, todo, hosts, present, probes>>

FallsAsleep(s) ==
  /\ at[s] = "queried"
  /\ Goes(s, IF work[s] = Rounds \/ Cancelled(s) THEN "ended" ELSE "asleep")
  /\ UNCHANGED <<selected, current, cancelled, stopped, work, todo, hosts, present, probes, late>>

WakesUp(s) ==
  /\ at[s] = "asleep"
  /\ Goes(s, "query")
  /\ UNCHANGED <<selected, current, cancelled, stopped, work, todo, hosts, present, probes, late>>

IsWoken(s) ==
  /\ at[s] = "asleep" /\ Cancelled(s)
  /\ Goes(s, "ended")
  /\ UNCHANGED <<selected, current, cancelled, stopped, work, todo, hosts, present, probes, late>>

(***************************************************************************)
(* Dahua: netscan.                                                         *)
(***************************************************************************)
ListsInterfaces(s) ==
  /\ at[s] = "fresh"
  /\ todo' = [todo EXCEPT ![s] = { i \in DOMAIN Interfaces : Interfaces[i] \in present }]
  /\ Goes(s, "next")
  /\ UNCHANGED <<selected, current, cancelled, stopped, work, hosts, present, probes, late>>

\* The loop is over, or its check of the tokens ends it.
LeavesLoop(s) ==
  /\ at[s] = "next"
  /\ todo[s] = {} \/ Cancelled(s)
  /\ Goes(s, "ended")
  /\ UNCHANGED <<selected, current, cancelled, stopped, work, todo, hosts, present, probes, late>>

\* Mutant: an address that is not private ends the sweep.
SkipEndsSweep(s) == [todo EXCEPT ![s] = {}]

AfterSkip(s) == [todo EXCEPT ![s] = @ \ {Lowest(@)}]

SkipsAddress(s) ==
  /\ at[s] = "next" /\ todo[s] # {} /\ ~Cancelled(s)
  /\ Current(s).ip \notin Private
  /\ todo' = AfterSkip(s)
  /\ UNCHANGED <<selected, current, cancelled, stopped, at, work, hosts, present, probes, late>>

TakesAddress(s) ==
  /\ at[s] = "next" /\ todo[s] # {} /\ ~Cancelled(s)
  /\ Current(s).ip \in Private
  /\ Goes(s, "planning")
  /\ UNCHANGED <<selected, current, cancelled, stopped, work, todo, hosts, present, probes, late>>

Plans(s) ==
  /\ at[s] = "planning"
  /\ BeginsUnit(s)
  /\ hosts' = [hosts EXCEPT ![s] = PlanHosts(Current(s).ip, MaskOf(Current(s)))]
  /\ Goes(s, "sending")
  /\ UNCHANGED <<selected, current, cancelled, stopped, todo, present, probes>>

SendsProbe(s) ==
  /\ at[s] = "sending" /\ hosts[s] # {}
  /\ probes' = probes \cup {[by |-> s, from |-> Current(s), to |-> Lowest(hosts[s])]}
  /\ hosts' = [hosts EXCEPT ![s] = @ \ {Lowest(@)}]
  /\ UNCHANGED <<selected, current, cancelled, stopped, at, work, todo, present, late>>

NextAddress(s) ==
  /\ at[s] = "sending" /\ hosts[s] = {}
  /\ todo' = [todo EXCEPT ![s] = @ \ {Lowest(@)}]
  /\ Goes(s, "next")
  /\ UNCHANGED <<selected, current, cancelled, stopped, work, hosts, present, probes, late>>

-----------------------------------------------------------------------------
TaskStep(s) ==
  \/ Query(s) \/ FallsAsleep(s) \/ WakesUp(s) \/ IsWoken(s)
  \/ ListsInterfaces(s) \/ LeavesLoop(s) \/ SkipsAddress(s) \/ TakesAddress(s)
  \/ Plans(s) \/ SendsProbe(s) \/ NextAddress(s)

Next ==
  \/ \E e \in Sweepers : Launch(e)
  \/ Stop
  \/ \E a \in Range(Interfaces) : AddressLeaves(a)
  \/ \E s \in AllSweeps : TaskStep(s)

\* The runtime polls every task, and the timer of a sleep goes off.
Fairness == \A s \in AllSweeps : WF_vars(TaskStep(s))

Spec == Init /\ [][Next]_vars /\ Fairness

-----------------------------------------------------------------------------
(***************************************************************************)
(* Properties.                                                             *)
(***************************************************************************)
Status ==
  [s \in AllSweeps |->
     CASE at[s] \in {"none", "ended"} -> at[s]
       [] OTHER -> IF Cancelled(s) THEN "cancelled" ELSE "live"]

Tasks == INSTANCE SweepTasks WITH status <- Status

\* dahua2.rs:38 and arecont.rs:163, "a new scan cancels the sweep before" and
\* "joined by stop": both sweeps do what SweepTasks says of a sweep, although
\* they look at their tokens only now and then.
ImplementsSweepTasks == Tasks!TaskSpec

\* The hosts of the subnet of an address in plain terms: the addresses that share
\* its prefix but for the lowest and the highest; the first Cap of them.
Subnet(a) ==
  LET block(ip) == ip \div BlockSize(a.prefix)
  IN  { h \in 0..(Space - 1) : block(h) = block(a.ip) }

HostsOf(a) == LET net == Subnet(a) IN { h \in net : {h - 1, h + 1} \subseteq net }

FirstHosts(a) ==
  LET usable == HostsOf(a)
  IN  { h \in usable : Cardinality({ g \in usable : g < h }) < Cap }

\* A probe of a subnet sweep goes to a host of the subnet of a private address we
\* have, never to that address itself, to the network's or to the broadcast
\* address, at any prefix length, even when the address leaves in the middle.
ProbesStayInSubnet ==
  \A p \in probes :
    /\ p.from.ip \in Private
    /\ p.to \in FirstHosts(p.from) \ {p.from.ip}

\* A sweep that runs to its end has probed the first Cap hosts of the subnet of
\* every private address that has been there all along.
SweepsCoverSubnets ==
  \A s \in AllSweeps :
    s[1] = "Dahua" /\ at[s] = "ended" /\ ~Cancelled(s) =>
      \A a \in present :
        a.ip \in Private =>
          \A h \in FirstHosts(a) \ {a.ip} : [by |-> s, from |-> a, to |-> h] \in probes
=============================================================================
