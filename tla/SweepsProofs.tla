----------------------------- MODULE SweepsProofs -----------------------------
(***************************************************************************)
(* The two sweeps implement SweepTasks, and probe the hosts they should,   *)
(* for any number of scans, rounds, addresses and hosts.                   *)
(*                                                                         *)
(* The tokens alone do not tell that a cancelled sweep begins one unit at  *)
(* most: Inv adds where such a sweep may be after it has begun it, from    *)
(* where every way leads to a look at the tokens or to the end.  ProbeInv  *)
(* adds what each sweep still owes.                                        *)
(***************************************************************************)
EXTENDS Sweeps, FiniteSetTheorems, Induction

Places == {"none", "query", "queried", "asleep", "fresh", "next", "planning", "sending", "ended"}

TypeInv ==
  /\ current \in [Sweepers -> Nat]
  /\ \A e \in Sweepers : current[e] <= MaxScans
  /\ cancelled \subseteq AllSweeps
  /\ stopped \in BOOLEAN
  /\ at \in [AllSweeps -> Places]
  /\ work \in [AllSweeps -> Nat]
  /\ late \subseteq AllSweeps

\* Exactly the sweeps up to the newest have been launched ...
LaunchedInv == \A s \in AllSweeps : at[s] = "none" <=> s[2] > current[s[1]]

\* ... and exactly those before it have their own token cancelled.
TokenInv == \A s \in AllSweeps : s \in cancelled <=> s[2] < current[s[1]]

\* A sweep that began a unit late has no way to another but past its tokens.
LateInv ==
  \A s \in late : Cancelled(s) /\ at[s] \in {"queried", "sending", "next", "ended"}

Inv == TypeInv /\ LaunchedInv /\ TokenInv /\ LateInv

USE DEF AllSweeps

LEMMA InitInv == Init => Inv
<1> SUFFICES ASSUME Init PROVE Inv
  OBVIOUS
<1>1. TypeInv
  <2>1. current \in [Sweepers -> Nat] /\ \A e \in Sweepers : current[e] <= MaxScans
    BY BoundsAssumption DEF Init
  <2>2. at \in [AllSweeps -> Places] /\ work \in [AllSweeps -> Nat]
    BY DEF Init, Places
  <2> QED
    BY <2>1, <2>2 DEF Init, TypeInv
<1>2. LaunchedInv
  BY DEF Init, LaunchedInv
<1>3. TokenInv
  BY DEF Init, TokenInv
<1>4. LateInv
  BY DEF Init, LateInv
<1> QED
  BY <1>1, <1>2, <1>3, <1>4 DEF Inv

\* The launch of a sweep: the tokens change, and only the new sweep moves.
LEMMA LaunchInv ==
  ASSUME Inv, NEW e \in Sweepers, Launch(e)
  PROVE  Inv'
<1> DEFINE new == <<e, current[e] + 1>>
<1> USE DEF Inv
<1>1. new \in AllSweeps /\ at' = [at EXCEPT ![new] = IF e = "Arecont" THEN "query" ELSE "fresh"]
  BY BoundsAssumption DEF Launch, TypeInv
<1>2. ReplacedBy(e) \subseteq AllSweeps
  BY BoundsAssumption DEF ReplacedBy, TypeInv
<1>3. TypeInv'
  BY <1>1, <1>2, BoundsAssumption DEF Launch, TypeInv, Places
<1>4. \A s \in AllSweeps : s = new <=> s[1] = e /\ s[2] = current[e] + 1
  OBVIOUS
<1>5. LaunchedInv'
  <2> SUFFICES ASSUME NEW s \in AllSweeps
               PROVE  at'[s] = "none" <=> s[2] > current'[s[1]]
    BY DEF LaunchedInv
  <2>1. s[1] \in Sweepers /\ s[2] \in Nat /\ current[s[1]] \in Nat
    BY BoundsAssumption DEF TypeInv
  <2>2. current'[s[1]] = IF s[1] = e THEN current[e] + 1 ELSE current[s[1]]
    BY <2>1 DEF Launch, TypeInv
  <2>3. at'[s] = "none" <=> at[s] = "none" /\ s # new
    BY <1>1 DEF TypeInv
  <2>4. at[s] = "none" <=> s[2] > current[s[1]]
    BY DEF LaunchedInv
  <2> QED
    BY <1>4, <2>1, <2>2, <2>3, <2>4
<1>6. TokenInv'
  BY BoundsAssumption DEF Launch, TypeInv, TokenInv, ReplacedBy
<1>7. LateInv'
  <2> SUFFICES ASSUME NEW s \in late
               PROVE  Cancelled(s)' /\ at'[s] \in {"queried", "sending", "next", "ended"}
    BY DEF Launch, LateInv
  <2>1. s \in AllSweeps /\ Cancelled(s) /\ at[s] \in {"queried", "sending", "next", "ended"}
    BY DEF LateInv, TypeInv
  <2>2. at[new] = "none"
    BY <1>1, BoundsAssumption DEF LaunchedInv, TypeInv
  <2> QED
    BY <1>1, <2>1, <2>2 DEF Launch, Cancelled, TypeInv
<1> QED
  BY <1>3, <1>5, <1>6, <1>7

\* A step of a sweep from one place to another; the tokens stay.
LEMMA MoveInv ==
  ASSUME Inv, NEW s \in AllSweeps, NEW place \in Places \ {"none"}, at[s] # "none",
         UNCHANGED <<current, cancelled, stopped, late>>,
         work' \in [AllSweeps -> Nat],
         at' = [at EXCEPT ![s] = place],
         s \in late => place \in {"queried", "sending", "next", "ended"}
  PROVE  Inv'
<1> USE DEF Inv
<1>1. TypeInv'
  BY DEF TypeInv
<1>2. LaunchedInv'
  BY DEF TypeInv, LaunchedInv
<1>3. TokenInv'
  BY DEF TokenInv
<1>4. LateInv'
  BY DEF LateInv, TypeInv, Cancelled
<1> QED
  BY <1>1, <1>2, <1>3, <1>4

\* The steps that begin a unit of work.
LEMMA UnitInv ==
  ASSUME Inv, NEW s \in AllSweeps, NEW place \in {"queried", "sending"}, at[s] # "none",
         UNCHANGED <<current, cancelled, stopped>>,
         BeginsUnit(s), Goes(s, place)
  PROVE  Inv'
<1> USE DEF Inv
<1>1. TypeInv'
  BY DEF TypeInv, BeginsUnit, Goes, Places
<1>2. LaunchedInv'
  BY DEF TypeInv, LaunchedInv, Goes
<1>3. TokenInv'
  BY DEF TokenInv
<1>4. LateInv'
  BY DEF LateInv, TypeInv, Cancelled, BeginsUnit, Goes
<1> QED
  BY <1>1, <1>2, <1>3, <1>4

LEMMA TaskStepInv ==
  ASSUME Inv, NEW s \in AllSweeps, TaskStep(s)
  PROVE  Inv'
<1> USE DEF Inv
<1>1. s \in late => Cancelled(s) /\ at[s] \in {"queried", "sending", "next", "ended"}
  BY DEF LateInv
<1>2. work \in [AllSweeps -> Nat]
  BY DEF TypeInv
<1>3. CASE Query(s)
  BY <1>3, UnitInv DEF Query
<1>4. CASE FallsAsleep(s)
  <2>1. CASE work[s] = Rounds \/ Cancelled(s)
    BY <1>4, <1>2, <2>1, MoveInv DEF FallsAsleep, Goes, Places
  <2>2. CASE ~(work[s] = Rounds \/ Cancelled(s))
    BY <1>4, <1>1, <1>2, <2>2, MoveInv DEF FallsAsleep, Goes, Places
  <2> QED
    BY <2>1, <2>2
<1>5. CASE WakesUp(s)
  BY <1>5, <1>1, <1>2, MoveInv DEF WakesUp, Goes, Places
<1>6. CASE IsWoken(s)
  BY <1>6, <1>1, <1>2, MoveInv DEF IsWoken, Goes, Places
<1>7. CASE ListsInterfaces(s)
  BY <1>7, <1>1, <1>2, MoveInv DEF ListsInterfaces, Goes, Places
<1>8. CASE LeavesLoop(s)
  BY <1>8, <1>1, <1>2, MoveInv DEF LeavesLoop, Goes, Places
<1>9. CASE SkipsAddress(s)
  BY <1>9 DEF SkipsAddress, TypeInv, LaunchedInv, TokenInv, LateInv, Cancelled
<1>10. CASE TakesAddress(s)
  BY <1>10, <1>1, <1>2, MoveInv DEF TakesAddress, Goes, Places
<1>11. CASE Plans(s)
  BY <1>11, UnitInv DEF Plans
<1>12. CASE SendsProbe(s)
  BY <1>12 DEF SendsProbe, TypeInv, LaunchedInv, TokenInv, LateInv, Cancelled
<1>13. CASE NextAddress(s)
  BY <1>13, <1>1, <1>2, MoveInv DEF NextAddress, Goes, Places
<1> QED
  BY <1>3, <1>4, <1>5, <1>6, <1>7, <1>8, <1>9, <1>10, <1>11, <1>12, <1>13 DEF TaskStep

LEMMA NextInv == Inv /\ [Next]_vars => Inv'
<1> SUFFICES ASSUME Inv, [Next]_vars PROVE Inv'
  OBVIOUS
<1>1. CASE \E e \in Sweepers : Launch(e)
  BY <1>1, LaunchInv
<1>2. CASE Stop
  BY <1>2 DEF Stop, Inv, TypeInv, LaunchedInv, TokenInv, LateInv, Cancelled
<1>3. CASE \E a \in Range(Interfaces) : AddressLeaves(a)
  BY <1>3 DEF AddressLeaves, Inv, TypeInv, LaunchedInv, TokenInv, LateInv, Cancelled
<1>4. CASE \E s \in AllSweeps : TaskStep(s)
  BY <1>4, TaskStepInv
<1>5. CASE UNCHANGED vars
  BY <1>5 DEF vars, Inv, TypeInv, LaunchedInv, TokenInv, LateInv, Cancelled
<1> QED
  BY <1>1, <1>2, <1>3, <1>4, <1>5 DEF Next

LEMMA InvHolds == Spec => []Inv
<1> QED
  BY InitInv, NextInv, PTL DEF Spec

-----------------------------------------------------------------------------
(***************************************************************************)
(* The refinement.                                                         *)
(***************************************************************************)
LEMMA LaunchRefines ==
  ASSUME Inv, NEW e \in Sweepers, Launch(e)
  PROVE  Tasks!TaskNext
<1> DEFINE new == <<e, current[e] + 1>>
<1> USE DEF Inv
<1>1. new \in AllSweeps /\ new[1] = e /\ new[2] = current[e] + 1 /\ current[e] \in Nat
  BY BoundsAssumption DEF Launch, TypeInv
<1>2. stopped' = stopped
  BY DEF Launch
<1>3. Status[new] = "none"
  BY <1>1, BoundsAssumption DEF Status, LaunchedInv
<1>4. ASSUME NEW n \in 1..(new[2] - 1)
      PROVE  Status[<<new[1], n>>] # "none"
  <2>1. <<e, n>> \in AllSweeps /\ n <= current[e]
    BY <1>1, BoundsAssumption
  <2>2. at[<<e, n>>] # "none"
    BY <2>1, <1>1 DEF LaunchedInv
  <2> QED
    BY <1>1, <2>1, <2>2 DEF Status, TypeInv
<1>5. ASSUME NEW t \in AllSweeps
      PROVE  Status'[t] = [Tasks!Cancels({e} \X (1..MaxScans)) EXCEPT
                                ![new] = IF stopped THEN "cancelled" ELSE "live"][t]
  <2>1. CASE t = new
    <3>1. t \notin cancelled
      BY <1>1, <2>1 DEF TokenInv
    <3>2. t \notin ReplacedBy(e)
      BY <1>1, <2>1 DEF ReplacedBy
    <3>3. at'[t] \in {"query", "fresh"} /\ (Cancelled(t)' <=> stopped)
      BY <1>1, <1>2, <2>1, <3>1, <3>2 DEF Launch, TypeInv, Cancelled
    <3>4. Status'[t] = IF stopped THEN "cancelled" ELSE "live"
      BY <3>3 DEF Status
    <3> QED
      BY <1>1, <2>1, <3>4 DEF Tasks!Cancels, Tasks!AllSweeps
  <2>2. CASE t # new /\ t[1] = e
    <3>1. at'[t] = at[t]
      BY <2>2, <1>1 DEF Launch, TypeInv
    <3>2. t \in cancelled' <=> t \in cancelled \/ t = <<e, current[e]>>
      BY <1>1 DEF Launch, ReplacedBy
    <3>3. ~Cancelled(t) /\ at[t] # "none" => t = <<e, current[e]>>
      BY <1>1, <1>2, <2>2 DEF Cancelled, TokenInv, LaunchedInv
    <3>4. Status'[t] = IF Status[t] = "live" THEN "cancelled" ELSE Status[t]
      BY <1>2, <3>1, <3>2, <3>3 DEF Status, Cancelled
    <3> QED
      BY <2>2, <3>4 DEF Tasks!Cancels, Tasks!AllSweeps
  <2>3. CASE t[1] # e
    <3>1. at'[t] = at[t] /\ (t \in cancelled' <=> t \in cancelled)
      BY <2>3, <1>1 DEF Launch, TypeInv, ReplacedBy
    <3>2. Status'[t] = Status[t]
      BY <1>2, <3>1 DEF Status, Cancelled
    <3> QED
      BY <1>1, <2>3, <3>2 DEF Tasks!Cancels, Tasks!AllSweeps
  <2> QED
    BY <2>1, <2>2, <2>3
<1>6. Status' = [Tasks!Cancels({e} \X (1..MaxScans)) EXCEPT
                   ![new] = IF stopped THEN "cancelled" ELSE "live"]
  BY <1>5 DEF Status, Tasks!Cancels, Tasks!AllSweeps
<1>7. Tasks!LaunchTask(new)
  BY <1>1, <1>2, <1>3, <1>4, <1>6 DEF Tasks!LaunchTask, Launch
<1> QED
  BY <1>1, <1>7 DEF Tasks!TaskNext, Tasks!AllSweeps

\* A step that leaves the tokens alone and moves one sweep maps to a stutter, or
\* to the end of that sweep.
LEMMA MoveRefines ==
  ASSUME Inv, NEW s \in AllSweeps, NEW place \in Places \ {"none"},
         at[s] \notin {"none", "ended"}, Goes(s, place),
         UNCHANGED <<cancelled, stopped, work, late>>
  PROVE  [Tasks!TaskNext]_Tasks!taskVars
<1> USE DEF Inv
<1>1. \A t \in AllSweeps : Cancelled(t)' <=> Cancelled(t)
  BY DEF Cancelled
<1>2. \A t \in AllSweeps : t # s => at'[t] = at[t]
  BY DEF Goes, TypeInv
<1>3. at'[s] = place
  BY DEF Goes, TypeInv
<1>4. \A t \in AllSweeps : t # s => Status'[t] = Status[t]
  BY <1>1, <1>2 DEF Status
<1>5. CASE place = "ended"
  <2>1. Status[s] \in {"live", "cancelled"}
    BY DEF Status
  <2>2. Status'[s] = "ended"
    BY <1>3, <1>5 DEF Status
  <2>3. Status' = [Status EXCEPT ![s] = "ended"]
    BY <1>4, <2>2 DEF Status
  <2> QED
    BY <2>1, <2>3 DEF Tasks!TaskNext, Tasks!EndTask, Tasks!AllSweeps
<1>6. CASE place # "ended"
  <2>1. Status'[s] = Status[s]
    BY <1>1, <1>3, <1>6 DEF Status
  <2>2. Status' = Status
    BY <1>4, <2>1 DEF Status
  <2> QED
    BY <2>2 DEF Tasks!taskVars
<1> QED
  BY <1>5, <1>6

LEMMA UnitRefines ==
  ASSUME Inv, NEW s \in AllSweeps, NEW place \in {"queried", "sending"},
         at[s] \in {"query", "planning"}, Goes(s, place), BeginsUnit(s),
         UNCHANGED <<cancelled, stopped>>
  PROVE  Tasks!TaskNext
<1> USE DEF Inv
<1>1. s \notin late
  BY DEF LateInv
<1>2. Status[s] = IF Cancelled(s) THEN "cancelled" ELSE "live"
  BY DEF Status
<1>3. \A t \in AllSweeps : (Cancelled(t)' <=> Cancelled(t)) /\ (t # s => at'[t] = at[t])
  BY DEF Cancelled, Goes, TypeInv
<1>4. at'[s] = place
  BY DEF Goes, TypeInv
<1>5. \A t \in AllSweeps : Status'[t] = Status[t]
  BY <1>3, <1>4 DEF Status
<1>6. Status' = Status
  BY <1>5 DEF Status
<1>7. Tasks!Work(s)
  BY <1>1, <1>2, <1>6 DEF Tasks!Work, BeginsUnit
<1> QED
  BY <1>7 DEF Tasks!TaskNext, Tasks!AllSweeps

LEMMA StopRefines ==
  ASSUME Inv, Stop
  PROVE  Tasks!TaskNext
<1>1. ASSUME NEW t \in AllSweeps
      PROVE  Status'[t] = IF Status[t] = "live" THEN "cancelled" ELSE Status[t]
  BY DEF Stop, Status, Cancelled
<1>2. Status' = Tasks!Cancels(AllSweeps)
  BY <1>1 DEF Status, Tasks!Cancels, Tasks!AllSweeps
<1> QED
  BY <1>2 DEF Stop, Tasks!TaskNext, Tasks!StopTasks, Tasks!AllSweeps

LEMMA TaskStepRefines ==
  ASSUME Inv, NEW s \in AllSweeps, TaskStep(s)
  PROVE  [Tasks!TaskNext]_Tasks!taskVars
<1> DEFINE Same == UNCHANGED <<cancelled, stopped, work, late>>
<1>1. CASE Query(s)
  BY <1>1, UnitRefines DEF Query
<1>2. CASE FallsAsleep(s)
  <2>1. CASE work[s] = Rounds \/ Cancelled(s)
    BY <1>2, <2>1, MoveRefines DEF FallsAsleep, Places
  <2>2. CASE ~(work[s] = Rounds \/ Cancelled(s))
    BY <1>2, <2>2, MoveRefines DEF FallsAsleep, Places
  <2> QED
    BY <2>1, <2>2
<1>3. CASE WakesUp(s)
  BY <1>3, MoveRefines DEF WakesUp, Places
<1>4. CASE IsWoken(s)
  BY <1>4, MoveRefines DEF IsWoken, Places
<1>5. CASE ListsInterfaces(s)
  BY <1>5, MoveRefines DEF ListsInterfaces, Places
<1>6. CASE LeavesLoop(s)
  BY <1>6, MoveRefines DEF LeavesLoop, Places
<1>7. CASE SkipsAddress(s) \/ SendsProbe(s)
  <2>1. Status' = Status
    BY <1>7 DEF SkipsAddress, SendsProbe, Status, Cancelled
  <2> QED
    BY <1>7, <2>1 DEF SkipsAddress, SendsProbe, Tasks!taskVars
<1>8. CASE TakesAddress(s)
  BY <1>8, MoveRefines DEF TakesAddress, Places
<1>9. CASE Plans(s)
  BY <1>9, UnitRefines DEF Plans
<1>10. CASE NextAddress(s)
  BY <1>10, MoveRefines DEF NextAddress, Places
<1> QED
  BY <1>1, <1>2, <1>3, <1>4, <1>5, <1>6, <1>7, <1>8, <1>9, <1>10 DEF TaskStep

LEMMA InitRefines == Init => Tasks!TaskInit
<1> SUFFICES ASSUME Init PROVE Tasks!TaskInit
  OBVIOUS
<1>1. Status = [s \in AllSweeps |-> "none"]
  BY DEF Init, Status
<1> QED
  BY <1>1 DEF Init, Tasks!TaskInit, Tasks!AllSweeps

LEMMA NextRefines == Inv /\ [Next]_vars => [Tasks!TaskNext]_Tasks!taskVars
<1> SUFFICES ASSUME Inv, [Next]_vars PROVE [Tasks!TaskNext]_Tasks!taskVars
  OBVIOUS
<1>1. CASE \E e \in Sweepers : Launch(e)
  BY <1>1, LaunchRefines
<1>2. CASE Stop
  BY <1>2, StopRefines
<1>3. CASE \E a \in Range(Interfaces) : AddressLeaves(a)
  BY <1>3 DEF AddressLeaves, Tasks!taskVars, Status, Cancelled
<1>4. CASE \E s \in AllSweeps : TaskStep(s)
  BY <1>4, TaskStepRefines
<1>5. CASE UNCHANGED vars
  BY <1>5 DEF vars, Tasks!taskVars, Status, Cancelled
<1> QED
  BY <1>1, <1>2, <1>3, <1>4, <1>5 DEF Next

\* arecont.rs scan and netscan.rs netscan: whatever the number of scans, rounds
\* and addresses, and whenever the tokens are cancelled, each sweep goes through
\* the life SweepTasks gives it.  In particular a cancelled one begins at most
\* one more round, or the hosts of one more address.
THEOREM SweepsRefineTasks == Spec => Tasks!TaskSafety
<1>1. Init => Tasks!TaskInit
  BY InitRefines
<1>2. Inv /\ [Next]_vars => [Tasks!TaskNext]_Tasks!taskVars
  BY NextRefines
<1> QED
  BY <1>1, <1>2, InvHolds, PTL DEF Spec, Tasks!TaskSafety

\* arecont.rs:140 and dahua2.rs:58, the swap of tokens: an engine never has two
\* live sweeps, and after stop none.
THEOREM SweepsNeverOverlap == Spec => []Tasks!OneLiveSweep
<1>1. Inv => Tasks!OneLiveSweep
  <2> SUFFICES ASSUME Inv PROVE Tasks!OneLiveSweep
    OBVIOUS
  <2> USE DEF Inv
  <2>1. ASSUME NEW s \in AllSweeps, Status[s] = "live"
        PROVE  ~Cancelled(s) /\ at[s] # "none"
    BY <2>1 DEF Status
  <2>2. ASSUME NEW s \in AllSweeps, NEW t \in AllSweeps,
               Status[s] = "live", s[1] = t[1], t[2] > s[2]
        PROVE  Status[t] = "none"
    <3>1. s[2] >= current[s[1]]
      BY <2>1, <2>2 DEF Cancelled, TokenInv, TypeInv
    <3>2. at[t] = "none"
      BY <2>2, <3>1 DEF LaunchedInv, TypeInv
    <3> QED
      BY <3>2 DEF Status
  <2>3. stopped => \A s \in AllSweeps : Status[s] # "live"
    BY <2>1 DEF Cancelled
  <2> QED
    BY <2>2, <2>3 DEF Tasks!OneLiveSweep, Tasks!AllSweeps
<1> QED
  BY <1>1, InvHolds, PTL
-----------------------------------------------------------------------------
(***************************************************************************)
(* Arithmetic: powers of two, blocks and what is in them.                  *)
(***************************************************************************)
LEMMA TwoToSteps ==
  TwoTo \in [Nat -> Nat] /\ TwoTo[0] = 1 /\ \A n \in Nat : TwoTo[n + 1] = 2 * TwoTo[n]
<1> DEFINE step == [x \in Nat \X Nat |-> 2 * x[2]]
<1> HIDE DEF step
<1>1. PICK f \in [Nat -> Nat] : Iterates(f, 1, step)
  <2>1. step \in [Nat \X Nat -> Nat]
    BY DEF step
  <2> QED
    BY <2>1, Recursion, 1 \in Nat
<1>2. f[0] = 1 /\ \A n \in Nat : f[n + 1] = 2 * f[n]
  BY <1>1 DEF step, Iterates
<1>3. f = [n \in Nat |-> IF n = 0 THEN 1 ELSE 2 * f[n - 1]]
  <2>1. ASSUME NEW n \in Nat PROVE f[n] = IF n = 0 THEN 1 ELSE 2 * f[n - 1]
    <3>1. n # 0 => n - 1 \in Nat /\ (n - 1) + 1 = n
      OBVIOUS
    <3> QED
      BY <1>1, <1>2, <3>1
  <2> QED
    BY <1>1, <2>1
<1>4. TwoTo = [n \in Nat |-> IF n = 0 THEN 1 ELSE 2 * TwoTo[n - 1]]
  BY <1>3 DEF TwoTo
<1>5. \A n \in Nat : TwoTo[n] = IF n = 0 THEN 1 ELSE 2 * TwoTo[n - 1]
  BY <1>4
<1>6. \A n \in Nat : n \in {k \in Nat : TwoTo[k] = f[k]}
  <2> DEFINE S == {k \in Nat : TwoTo[k] = f[k]}
  <2>1. 0 \in S
    BY <1>2, <1>5
  <2>2. ASSUME NEW n \in Nat, n \in S PROVE n + 1 \in S
    <3>1. TwoTo[n + 1] = 2 * TwoTo[(n + 1) - 1] /\ (n + 1) - 1 = n
      BY <1>5
    <3> QED
      BY <1>2, <2>2, <3>1
  <2> HIDE DEF S
  <2> QED
    BY <2>1, <2>2, Induction DEF S
<1>7. TwoTo = f
  BY <1>1, <1>4, <1>6
<1> QED
  BY <1>1, <1>2, <1>7

LEMMA TwoToSum ==
  ASSUME NEW n \in Nat, NEW m \in Nat
  PROVE  TwoTo[n + m] = TwoTo[n] * TwoTo[m] /\ TwoTo[n] \in Nat \ {0}
<1> DEFINE S == {k \in Nat : TwoTo[n + k] = TwoTo[n] * TwoTo[k]}
<1>1. 0 \in S
  BY TwoToSteps
<1>2. ASSUME NEW k \in Nat, k \in S PROVE k + 1 \in S
  <2>1. TwoTo[n + (k + 1)] = 2 * (TwoTo[n] * TwoTo[k])
    <3>1. n + k \in Nat /\ n + (k + 1) = (n + k) + 1
      OBVIOUS
    <3> QED
      BY TwoToSteps, <1>2, <3>1
  <2>2. TwoTo[n] * TwoTo[k + 1] = TwoTo[n] * (2 * TwoTo[k])
    BY TwoToSteps
  <2>3. \A a, b \in Nat : 2 * (a * b) = a * (2 * b)
    BY Z3
  <2> QED
    BY TwoToSteps, <2>1, <2>2, <2>3
<1> DEFINE P == {k \in Nat : TwoTo[k] # 0}
<1>3. 0 \in P /\ \A k \in Nat : k \in P => k + 1 \in P
  BY TwoToSteps
<1> HIDE DEF S, P
<1>4. Nat \subseteq S /\ Nat \subseteq P
  BY <1>1, <1>2, <1>3, Induction
<1> QED
  BY <1>4, TwoToSteps DEF S, P

LEMMA Division ==
  ASSUME NEW B \in Nat \ {0}, NEW n \in Nat
  PROVE  /\ n \div B \in Nat /\ n % B \in Nat /\ n % B < B
         /\ n = B * (n \div B) + (n % B)
         /\ \A q \in Nat : B * q <= n /\ n < B * q + B => n \div B = q
<1>1. n \div B \in Nat /\ n % B \in Nat /\ n % B < B
  BY Z3
<1>2. n = B * (n \div B) + (n % B)
  BY Z3
<1>3. \A q \in Nat : B * q <= n /\ n < B * q + B => n \div B = q
  BY Z3
<1> QED
  BY <1>1, <1>2, <1>3

\* A block is an interval within the address space, and the addresses in it are
\* those with the same quotient.
LEMMA Blocks ==
  ASSUME NEW prefix \in 0..Bits, NEW ip \in 0..(Space - 1)
  PROVE  /\ BlockSize(prefix) \in Nat \ {0}
         /\ Network(ip, prefix) \in Nat
         /\ Network(ip, prefix) <= ip /\ ip < Network(ip, prefix) + BlockSize(prefix)
         /\ Network(ip, prefix) + BlockSize(prefix) <= Space
         /\ \A h \in Nat : h \div BlockSize(prefix) = ip \div BlockSize(prefix)
                <=> Network(ip, prefix) <= h /\ h < Network(ip, prefix) + BlockSize(prefix)
<1> DEFINE B == BlockSize(prefix)
           K == TwoTo[prefix]
           q == ip \div B
           N == Network(ip, prefix)
<1>1. prefix \in Nat /\ Bits - prefix \in Nat /\ (Bits - prefix) + prefix = Bits
  BY AddressesAssumption
<1>2. B \in Nat \ {0} /\ K \in Nat /\ Space = B * K
  BY <1>1, TwoToSum, TwoToSteps DEF BlockSize, Space
<1> HIDE DEF B, K
<1>3. Space \in Nat /\ ip \in Nat /\ ip < B * K
  <2>1. B * K \in Nat
    BY <1>2, Z3
  <2> QED
    BY <1>2, <2>1
<1>4. q \in Nat /\ ip % B \in Nat /\ ip % B < B /\ ip = B * q + (ip % B)
  BY <1>2, <1>3, Division
<1> HIDE DEF q
<1>5. B * q \in Nat
  BY <1>2, <1>4, Z3
<1>6. N = B * q
  BY <1>3, <1>4, <1>5 DEF Network, B
<1> HIDE DEF N
<1>7. q < K
  <2>1. B * q < B * K
    BY <1>3, <1>4, <1>5, <1>2
  <2> QED
    BY <2>1, <1>2, <1>4, Z3
<1>8. B * q + B <= B * K
  BY <1>2, <1>4, <1>7, Z3
<1>9. ASSUME NEW h \in Nat PROVE h \div B = q <=> N <= h /\ h < N + B
  <2>1. h = B * (h \div B) + (h % B) /\ h % B \in Nat /\ h % B < B
    BY <1>2, Division
  <2>2. N <= h /\ h < N + B => h \div B = q
    BY <1>2, <1>4, <1>6, Division
  <2>3. h \div B = q => N <= h /\ h < N + B
    BY <2>1, <1>5, <1>6, <1>2
  <2> QED
    BY <2>2, <2>3
<1>10. N \in Nat /\ N <= ip /\ ip < N + B /\ N + B <= Space
  BY <1>2, <1>3, <1>4, <1>5, <1>6, <1>8
<1> QED
  BY <1>2, <1>9, <1>10 DEF B, N, q

\* subnet_hosts of a private address yields the hosts of its subnet, the lowest
\* Cap of them, in spite of its arithmetic modulo 2^32.
LEMMA PlanIsFirstHosts ==
  ASSUME NEW a \in [ip : 0..(Space - 1), prefix : 0..Bits], a.ip \in Private
  PROVE  PlanHosts(a.ip, a.prefix) = FirstHosts(a) \ {a.ip}
<1> DEFINE B == BlockSize(a.prefix)
           N == Network(a.ip, a.prefix)
           len == IF B - 2 < Cap THEN B - 2 ELSE Cap
<1>1. a.prefix \in 0..Bits /\ a.ip \in 0..(Space - 1) /\ a.ip \in 1..(Space - 2)
  BY AddressesAssumption
<1>2. /\ B \in Nat \ {0} /\ N \in Nat /\ Space \in Nat /\ Cap \in Nat
      /\ N <= a.ip /\ a.ip < N + B /\ N + B <= Space
  <2>1. Space \in Int
    BY TwoToSteps, AddressesAssumption DEF Space
  <2> QED
    BY <1>1, <2>1, Blocks, AddressesAssumption
<1>3. Subnet(a) = N..(N + B - 1)
  <2>1. ASSUME NEW h \in 0..(Space - 1)
        PROVE  h \div B = a.ip \div B <=> N <= h /\ h < N + B
    BY <1>1, <2>1, Blocks
  <2>2. Subnet(a) = {h \in 0..(Space - 1) : N <= h /\ h < N + B}
    BY <2>1 DEF Subnet
  <2> HIDE DEF B, N
  <2> QED
    BY <1>2, <2>2
<1> HIDE DEF B, N
<1>4. HostsOf(a) = (N + 1)..(N + B - 2)
  BY <1>2, <1>3 DEF HostsOf
<1>5. FirstHosts(a) = (N + 1)..(N + len)
  <2>1. ASSUME NEW h \in HostsOf(a)
        PROVE  Cardinality({g \in HostsOf(a) : g < h}) = h - N - 1
    <3>1. {g \in HostsOf(a) : g < h} = (N + 1)..(h - 1)
      BY <1>2, <1>4
    <3>2. N + 1 \in Int /\ h - 1 \in Int /\ h \in Int /\ N \in Int /\ N < h
      BY <1>2, <1>4
    <3>3. Cardinality((N + 1)..(h - 1)) = IF N + 1 > h - 1 THEN 0 ELSE (h - 1) - (N + 1) + 1
      BY <3>2, FS_Interval
    <3>4. h - 1 - (N + 1) + 1 = h - N - 1 /\ (N + 1 > h - 1 => h - N - 1 = 0)
      BY <1>2, <3>2
    <3> QED
      BY <3>1, <3>3, <3>4
  <2>2. FirstHosts(a) = {h \in HostsOf(a) : h - N - 1 < Cap}
    BY <2>1 DEF FirstHosts
  <2> QED
    BY <1>2, <1>4, <2>2
<1>6. SubnetHosts(a.ip, a.prefix) = (N + 1)..(N + len)
  <2>1. /\ FirstHost(a.ip, a.prefix) = (N + 1) % Space
        /\ LastHost(a.ip, a.prefix) = ((N + B - 1) - 1) % Space
    BY Zenon DEF FirstHost, LastHost, Broadcast, Wrapped, B, N
  <2>2. \A n \in Nat : n < Space => n % Space = n
    BY <1>2, Z3
  <2>3. FirstHost(a.ip, a.prefix) = N + 1
    BY <1>1, <1>2, <2>1, <2>2
  <2>4. LastHost(a.ip, a.prefix) = N + B - 2
    BY <1>1, <1>2, <2>1, <2>2
  <2>5. SubnetHosts(a.ip, a.prefix) = {Wrapped((N + 1) + i) : i \in 0..(len - 1)}
    BY <1>2, <2>3, <2>4 DEF SubnetHosts
  <2>6. ASSUME NEW i \in 0..(len - 1) PROVE Wrapped((N + 1) + i) = N + 1 + i
    BY <1>2, <2>2 DEF Wrapped
  <2>7. {Wrapped((N + 1) + i) : i \in 0..(len - 1)} = {N + 1 + i : i \in 0..(len - 1)}
    BY <2>6
  <2>8. ASSUME NEW h \in (N + 1)..(N + len)
        PROVE  \E i \in 0..(len - 1) : h = N + 1 + i
    <3>1. h - N - 1 \in 0..(len - 1) /\ h = N + 1 + (h - N - 1)
      BY <1>2
    <3> QED
      BY <3>1
  <2>9. ASSUME NEW i \in 0..(len - 1) PROVE N + 1 + i \in (N + 1)..(N + len)
    BY <1>2
  <2> QED
    BY <2>5, <2>7, <2>8, <2>9
<1> QED
  BY <1>5, <1>6 DEF PlanHosts

\* The address that has gone: subnet_hosts with a full mask yields nothing.
LEMMA FullMaskHasNoHosts ==
  ASSUME NEW ip \in Private
  PROVE  PlanHosts(ip, Bits) = {}
<1> DEFINE a == [ip |-> ip, prefix |-> Bits]
<1>1. ip \in 0..(Space - 1) /\ Bits \in 0..Bits /\ Space \in Nat
  <2>1. Space \in Nat
    BY TwoToSteps, AddressesAssumption DEF Space
  <2> QED
    BY <2>1, AddressesAssumption
<1>2. a \in [ip : 0..(Space - 1), prefix : 0..Bits] /\ a.ip = ip /\ a.prefix = Bits
  BY <1>1
<1> HIDE DEF a
<1>3. PlanHosts(ip, Bits) = FirstHosts(a) \ {ip}
  BY <1>2, PlanIsFirstHosts
<1>4. BlockSize(Bits) = 1
  BY TwoToSteps, AddressesAssumption DEF BlockSize
<1>5. ASSUME NEW h \in Subnet(a) PROVE h = ip
  <2>1. h \in Nat /\ h \div 1 = ip \div 1
    BY <1>1, <1>2, <1>4, <1>5 DEF Subnet
  <2> QED
    BY <1>1, <2>1, Z3
<1>6. HostsOf(a) = {}
  BY <1>1, <1>5 DEF HostsOf
<1> QED
  BY <1>3, <1>6 DEF FirstHosts
-----------------------------------------------------------------------------
(***************************************************************************)
(* Who is probed.  A sweep goes through its addresses one by one; what it  *)
(* still owes to an address that stays is in todo, and to the address it   *)
(* is at, in hosts.                                                        *)
(***************************************************************************)
Targets(i) == FirstHosts(Interfaces[i]) \ {Interfaces[i].ip}

Probed(s, i, h) == [by |-> s, from |-> Interfaces[i], to |-> h] \in probes

AtWork(s, i) == at[s] = "sending" /\ i = Lowest(todo[s])

Owes(s, i) == i \in todo[s] /\ ~AtWork(s, i)

Covers(s) ==
  \A i \in DOMAIN Interfaces :
    Interfaces[i] \in present /\ Interfaces[i].ip \in Private =>
      Owes(s, i) \/ \A h \in Targets(i) : Probed(s, i, h) \/ (AtWork(s, i) /\ h \in hosts[s])

SweepOk(s) ==
  /\ at[s] \in {"planning", "sending"} => todo[s] # {} /\ Current(s).ip \in Private
  /\ at[s] = "sending" => hosts[s] \subseteq Targets(Lowest(todo[s]))
  /\ s[1] = "Dahua" => at[s] \notin {"query", "queried", "asleep"}
  /\ s[1] = "Dahua" /\ at[s] \notin {"none", "fresh"} => Covers(s)
  /\ s[1] = "Dahua" /\ at[s] = "ended" /\ ~Cancelled(s) => todo[s] = {}

ProbeInv ==
  /\ Inv
  /\ todo \in [AllSweeps -> SUBSET DOMAIN Interfaces]
  /\ hosts \in [AllSweeps -> SUBSET Nat]
  /\ present \subseteq Range(Interfaces)
  /\ ProbesStayInSubnet
  /\ \A s \in AllSweeps : SweepOk(s)

LEMMA InterfacesType ==
  /\ DOMAIN Interfaces \subseteq Nat
  /\ \A i \in DOMAIN Interfaces : Interfaces[i] \in [ip : 0..(Space - 1), prefix : 0..Bits]
  /\ Space \in Nat
<1> DEFINE R == [ip : 0..(Space - 1), prefix : 0..Bits]
<1>1. Space \in Nat
  BY TwoToSteps, AddressesAssumption DEF Space
<1>2. Interfaces \in Seq(R)
  BY AddressesAssumption
<1> HIDE DEF R
<1>3. DOMAIN Interfaces \subseteq Nat /\ \A i \in DOMAIN Interfaces : Interfaces[i] \in R
  BY <1>2
<1> QED
  BY <1>1, <1>3 DEF R

LEMMA LowestIn ==
  ASSUME NEW S \in SUBSET Nat, S # {}
  PROVE  Lowest(S) \in S
<1>1. \E n \in S : \A k \in S : n <= k
  BY LeastNumber
<1> QED
  BY <1>1, Zenon DEF Lowest

LEMMA TargetsType ==
  ASSUME NEW i \in DOMAIN Interfaces
  PROVE  Targets(i) \subseteq Nat
BY InterfacesType DEF Targets, FirstHosts, HostsOf, Subnet

\* What a sweep that does not move keeps, as addresses leave, tokens are
\* cancelled and probes are sent.
LEMMA SweepStays ==
  ASSUME ProbeInv, NEW s \in AllSweeps,
         at'[s] = at[s], todo'[s] = todo[s], hosts'[s] = hosts[s],
         present' \subseteq present, probes \subseteq probes',
         cancelled \subseteq cancelled', stopped => stopped'
  PROVE  SweepOk(s)'
<1> USE DEF ProbeInv
<1>1. SweepOk(s) /\ Lowest(todo'[s]) = Lowest(todo[s])
  OBVIOUS
<1>2. Covers(s) => Covers(s)'
  <2> SUFFICES ASSUME Covers(s), NEW i \in DOMAIN Interfaces,
                      Interfaces[i] \in present, Interfaces[i].ip \in Private
               PROVE  Owes(s, i)' \/ \A h \in Targets(i) :
                                       Probed(s, i, h)' \/ (AtWork(s, i)' /\ h \in hosts'[s])
    BY DEF Covers, Targets
  <2>1. Owes(s, i)' = Owes(s, i) /\ AtWork(s, i)' = AtWork(s, i)
    BY DEF Owes, AtWork
  <2>2. \A h : Probed(s, i, h) => Probed(s, i, h)'
    BY DEF Probed
  <2> QED
    BY <2>1, <2>2 DEF Covers
<1>3. Cancelled(s) => Cancelled(s)'
  BY DEF Cancelled
<1>4. Current(s)' = Current(s)
  BY DEF Current
<1> QED
  BY <1>1, <1>2, <1>3, <1>4 DEF SweepOk, Targets
\* One sweep moves: it is enough to look at that one.
LEMMA OneMoves ==
  ASSUME ProbeInv, Inv', NEW s \in AllSweeps, SweepOk(s)', ProbesStayInSubnet',
         UNCHANGED <<cancelled, stopped, present>>, probes \subseteq probes',
         todo' \in [AllSweeps -> SUBSET DOMAIN Interfaces],
         hosts' \in [AllSweeps -> SUBSET Nat],
         \A t \in AllSweeps \ {s} :
           at'[t] = at[t] /\ todo'[t] = todo[t] /\ hosts'[t] = hosts[t]
  PROVE  ProbeInv'
<1>1. \A t \in AllSweeps \ {s} : SweepOk(t)'
  BY SweepStays
<1> QED
  BY <1>1 DEF ProbeInv

\* The steps of Arecont's sweeps.
LEMMA ArecontProbeInv ==
  ASSUME ProbeInv, Inv', NEW s \in AllSweeps,
         Query(s) \/ FallsAsleep(s) \/ WakesUp(s) \/ IsWoken(s)
  PROVE  ProbeInv'
<1> USE DEF ProbeInv
<1>1. PICK p \in {"query", "queried", "asleep", "ended"} : at' = [at EXCEPT ![s] = p]
  BY DEF Query, FallsAsleep, WakesUp, IsWoken, Goes
<1>2. at'[s] = p
  BY <1>1 DEF Inv, TypeInv
<1>3. s[1] # "Dahua"
  BY DEF Query, FallsAsleep, WakesUp, IsWoken, SweepOk
<1>4. SweepOk(s)'
  BY <1>2, <1>3 DEF SweepOk
<1>5. UNCHANGED <<cancelled, stopped, present, probes, todo, hosts>>
  BY DEF Query, FallsAsleep, WakesUp, IsWoken, BeginsUnit
<1>6. ProbesStayInSubnet'
  BY <1>5 DEF ProbesStayInSubnet
<1> QED
  BY <1>1, <1>4, <1>5, <1>6, OneMoves

LEMMA ListsInterfacesProbeInv ==
  ASSUME ProbeInv, Inv', NEW s \in AllSweeps, ListsInterfaces(s)
  PROVE  ProbeInv'
<1> USE DEF ProbeInv
<1>1. at'[s] = "next" /\ todo'[s] = {i \in DOMAIN Interfaces : Interfaces[i] \in present}
  BY DEF ListsInterfaces, Goes, Inv, TypeInv
<1>2. Covers(s)'
  BY <1>1 DEF ListsInterfaces, Covers, Owes, AtWork
<1>3. SweepOk(s)'
  BY <1>1, <1>2 DEF SweepOk
<1>4. ProbesStayInSubnet'
  BY DEF ListsInterfaces, ProbesStayInSubnet
<1>5. todo' \in [AllSweeps -> SUBSET DOMAIN Interfaces]
  BY DEF ListsInterfaces
<1> QED
  BY <1>3, <1>4, <1>5, OneMoves DEF ListsInterfaces, Goes, Inv, TypeInv

LEMMA LeavesLoopProbeInv ==
  ASSUME ProbeInv, Inv', NEW s \in AllSweeps, LeavesLoop(s)
  PROVE  ProbeInv'
<1> USE DEF ProbeInv
<1>1. at'[s] = "ended" /\ UNCHANGED <<todo, hosts, present, probes, cancelled, stopped>>
  BY DEF LeavesLoop, Goes, Inv, TypeInv
<1>2. Covers(s) => Covers(s)'
  BY <1>1 DEF LeavesLoop, Covers, Owes, AtWork, Probed, Targets
<1>3. SweepOk(s)'
  BY <1>1, <1>2 DEF LeavesLoop, SweepOk, Cancelled
<1>4. ProbesStayInSubnet'
  BY <1>1 DEF ProbesStayInSubnet
<1> QED
  BY <1>1, <1>3, <1>4, OneMoves DEF LeavesLoop, Goes, Inv, TypeInv

LEMMA SkipsAddressProbeInv ==
  ASSUME ProbeInv, Inv', NEW s \in AllSweeps, SkipsAddress(s)
  PROVE  ProbeInv'
<1> USE DEF ProbeInv
<1> DEFINE l == Lowest(todo[s])
<1>1. UNCHANGED <<at, hosts, present, probes, cancelled, stopped>>
  BY DEF SkipsAddress
<1>2. todo'[s] = todo[s] \ {l} /\ at[s] = "next" /\ Interfaces[l].ip \notin Private
  BY DEF SkipsAddress, AfterSkip, Current
<1>3. Covers(s) => Covers(s)'
  <2> SUFFICES ASSUME Covers(s), NEW i \in DOMAIN Interfaces,
                      Interfaces[i] \in present, Interfaces[i].ip \in Private
               PROVE  Owes(s, i)' \/ \A h \in Targets(i) :
                                       Probed(s, i, h)' \/ (AtWork(s, i)' /\ h \in hosts'[s])
    BY <1>1 DEF Covers, Targets
  <2>1. \A h : Probed(s, i, h)' = Probed(s, i, h)
    BY <1>1 DEF Probed
  <2>2. ~AtWork(s, i) /\ ~AtWork(s, i)'
    BY <1>1, <1>2 DEF AtWork
  <2>3. i \in todo[s] => i \in todo'[s]
    BY <1>2
  <2> QED
    BY <2>1, <2>2, <2>3 DEF Covers, Owes
<1>4. SweepOk(s)'
  BY <1>1, <1>2, <1>3 DEF SweepOk
<1>5. ProbesStayInSubnet'
  BY <1>1 DEF ProbesStayInSubnet
<1>6. todo' = [todo EXCEPT ![s] = todo[s] \ {l}]
  BY DEF SkipsAddress, AfterSkip
<1> HIDE DEF l
<1> QED
  BY <1>1, <1>4, <1>5, <1>6, OneMoves

LEMMA TakesAddressProbeInv ==
  ASSUME ProbeInv, Inv', NEW s \in AllSweeps, TakesAddress(s)
  PROVE  ProbeInv'
<1> USE DEF ProbeInv
<1>1. at'[s] = "planning" /\ UNCHANGED <<todo, hosts, present, probes, cancelled, stopped>>
  BY DEF TakesAddress, Goes, Inv, TypeInv
<1>2. Covers(s) => Covers(s)'
  BY <1>1 DEF TakesAddress, Covers, Owes, AtWork, Probed, Targets
<1>3. SweepOk(s)'
  BY <1>1, <1>2 DEF TakesAddress, SweepOk, Current
<1>4. ProbesStayInSubnet'
  BY <1>1 DEF ProbesStayInSubnet
<1> QED
  BY <1>1, <1>3, <1>4, OneMoves DEF TakesAddress, Goes, Inv, TypeInv

\* The hosts planned are all that the address owes, or none if it has gone.
LEMMA PlansProbeInv ==
  ASSUME ProbeInv, Inv', NEW s \in AllSweeps, Plans(s)
  PROVE  ProbeInv'
<1> USE DEF ProbeInv
<1> DEFINE l == Lowest(todo[s])
<1>1. UNCHANGED <<todo, present, probes, cancelled, stopped>> /\ at'[s] = "sending" /\ at[s] = "planning"
  BY DEF Plans, BeginsUnit, Goes, Inv, TypeInv
<1>2. todo[s] # {} /\ Interfaces[l].ip \in Private /\ l \in DOMAIN Interfaces
  BY <1>1, LowestIn, InterfacesType DEF SweepOk, Current
<1>3. hosts'[s] = PlanHosts(Interfaces[l].ip, MaskOf(Interfaces[l]))
  BY DEF Plans, Current
<1>4. Interfaces[l] \in present => hosts'[s] = Targets(l)
  BY <1>2, <1>3, PlanIsFirstHosts, InterfacesType DEF MaskOf, Targets
<1>5. Interfaces[l] \notin present => hosts'[s] = {}
  BY <1>2, <1>3, FullMaskHasNoHosts DEF MaskOf
<1> HIDE DEF l
<1>6. hosts'[s] \subseteq Targets(l) /\ hosts'[s] \subseteq Nat
  BY <1>2, <1>4, <1>5, TargetsType
<1>7. Covers(s) => Covers(s)'
  <2> SUFFICES ASSUME Covers(s), NEW i \in DOMAIN Interfaces,
                      Interfaces[i] \in present, Interfaces[i].ip \in Private
               PROVE  Owes(s, i)' \/ \A h \in Targets(i) :
                                       Probed(s, i, h)' \/ (AtWork(s, i)' /\ h \in hosts'[s])
    BY <1>1 DEF Covers, Targets
  <2>1. CASE i = l
    BY <1>1, <1>4, <2>1 DEF AtWork, l
  <2>2. CASE i # l
    BY <1>1, <2>2 DEF Covers, AtWork, Owes, Probed, l
  <2> QED
    BY <2>1, <2>2
<1>8. SweepOk(s)'
  BY <1>1, <1>2, <1>6, <1>7 DEF SweepOk, Current, Targets, l
<1>9. ProbesStayInSubnet'
  BY <1>1 DEF ProbesStayInSubnet
<1>10. hosts' \in [AllSweeps -> SUBSET Nat] /\ \A t \in AllSweeps \ {s} : hosts'[t] = hosts[t]
  BY <1>6 DEF Plans
<1> QED
  BY <1>1, <1>8, <1>9, <1>10, OneMoves DEF Plans, Goes, Inv, TypeInv

LEMMA SendsProbeProbeInv ==
  ASSUME ProbeInv, Inv', NEW s \in AllSweeps, SendsProbe(s)
  PROVE  ProbeInv'
<1> USE DEF ProbeInv
<1> DEFINE l == Lowest(todo[s])
           g == Lowest(hosts[s])
<1>1. UNCHANGED <<at, todo, present, cancelled, stopped>> /\ at[s] = "sending"
  BY DEF SendsProbe
<1>2. l \in DOMAIN Interfaces /\ Interfaces[l].ip \in Private
  BY <1>1, LowestIn, InterfacesType DEF SweepOk, Current
<1>3. g \in hosts[s] /\ g \in Targets(l)
  BY <1>1, LowestIn DEF SendsProbe, SweepOk
<1>4. /\ probes' = probes \cup {[by |-> s, from |-> Interfaces[l], to |-> g]}
      /\ hosts' = [hosts EXCEPT ![s] = hosts[s] \ {g}]
  BY DEF SendsProbe, Current
<1>5. ProbesStayInSubnet'
  BY <1>2, <1>3, <1>4 DEF ProbesStayInSubnet, Targets
<1> HIDE DEF l, g
<1>6. Covers(s) => Covers(s)'
  <2> SUFFICES ASSUME Covers(s), NEW i \in DOMAIN Interfaces,
                      Interfaces[i] \in present, Interfaces[i].ip \in Private
               PROVE  Owes(s, i)' \/ \A h \in Targets(i) :
                                       Probed(s, i, h)' \/ (AtWork(s, i)' /\ h \in hosts'[s])
    BY <1>1 DEF Covers, Targets
  <2>1. Owes(s, i)' = Owes(s, i) /\ AtWork(s, i)' = AtWork(s, i)
    BY <1>1 DEF Owes, AtWork
  <2>2. \A h : Probed(s, i, h) => Probed(s, i, h)'
    BY <1>4 DEF Probed
  <2>3. AtWork(s, i) => \A h \in hosts[s] : h \in hosts'[s] \/ Probed(s, i, h)'
    BY <1>4 DEF AtWork, Probed, l
  <2> QED
    BY <2>1, <2>2, <2>3 DEF Covers
<1>7. SweepOk(s)'
  BY <1>1, <1>4, <1>6 DEF SweepOk, Current, Targets
<1>8. hosts' \in [AllSweeps -> SUBSET Nat] /\ \A t \in AllSweeps \ {s} : hosts'[t] = hosts[t]
  BY <1>4
<1> QED
  BY <1>1, <1>4, <1>5, <1>7, <1>8, OneMoves

LEMMA NextAddressProbeInv ==
  ASSUME ProbeInv, Inv', NEW s \in AllSweeps, NextAddress(s)
  PROVE  ProbeInv'
<1> USE DEF ProbeInv
<1> DEFINE l == Lowest(todo[s])
<1>1. /\ UNCHANGED <<hosts, present, probes, cancelled, stopped>>
      /\ at[s] = "sending" /\ at'[s] = "next" /\ hosts[s] = {}
  BY DEF NextAddress, Goes, Inv, TypeInv
<1>2. todo' = [todo EXCEPT ![s] = todo[s] \ {l}]
  BY DEF NextAddress
<1> HIDE DEF l
<1>3. Covers(s) => Covers(s)'
  <2> SUFFICES ASSUME Covers(s), NEW i \in DOMAIN Interfaces,
                      Interfaces[i] \in present, Interfaces[i].ip \in Private
               PROVE  Owes(s, i)' \/ \A h \in Targets(i) :
                                       Probed(s, i, h)' \/ (AtWork(s, i)' /\ h \in hosts'[s])
    BY <1>1 DEF Covers, Targets
  <2>1. \A h : Probed(s, i, h)' = Probed(s, i, h)
    BY <1>1 DEF Probed
  <2>2. Owes(s, i) => Owes(s, i)'
    BY <1>1, <1>2 DEF Owes, AtWork, l
  <2>3. ~Owes(s, i) => \A h \in Targets(i) : Probed(s, i, h)
    BY <1>1 DEF Covers
  <2> QED
    BY <2>1, <2>2, <2>3
<1>4. SweepOk(s)'
  BY <1>1, <1>3 DEF SweepOk
<1>5. ProbesStayInSubnet'
  BY <1>1 DEF ProbesStayInSubnet
<1>6. /\ todo' \in [AllSweeps -> SUBSET DOMAIN Interfaces]
      /\ \A t \in AllSweeps \ {s} : todo'[t] = todo[t]
  BY <1>2
<1> QED
  BY <1>1, <1>4, <1>5, <1>6, OneMoves DEF NextAddress, Goes, Inv, TypeInv
LEMMA TaskStepProbeInv ==
  ASSUME ProbeInv, Inv', NEW s \in AllSweeps, TaskStep(s)
  PROVE  ProbeInv'
BY ArecontProbeInv, ListsInterfacesProbeInv, LeavesLoopProbeInv, SkipsAddressProbeInv,
   TakesAddressProbeInv, PlansProbeInv, SendsProbeProbeInv, NextAddressProbeInv DEF TaskStep

LEMMA LaunchProbeInv ==
  ASSUME ProbeInv, Inv', NEW e \in Sweepers, Launch(e)
  PROVE  ProbeInv'
<1> USE DEF ProbeInv
<1>1. UNCHANGED <<stopped, todo, hosts, present, probes>> /\ cancelled \subseteq cancelled'
  BY DEF Launch
<1>2. PICK new \in AllSweeps : new = <<e, current[e] + 1>>
  BY BoundsAssumption DEF Launch, Inv, TypeInv
<1>3. at' = [at EXCEPT ![new] = IF e = "Arecont" THEN "query" ELSE "fresh"]
  BY <1>2 DEF Launch
<1>4. SweepOk(new)'
  <2>1. at'[new] = IF e = "Arecont" THEN "query" ELSE "fresh"
    BY <1>2, <1>3 DEF Inv, TypeInv
  <2> QED
    BY <1>2, <2>1 DEF SweepOk
<1>5. ASSUME NEW s \in AllSweeps \ {new} PROVE SweepOk(s)'
  BY <1>1, <1>3, SweepStays DEF Inv, TypeInv
<1>6. ProbesStayInSubnet'
  BY <1>1 DEF ProbesStayInSubnet
<1>7. \A s \in AllSweeps : SweepOk(s)'
  BY <1>4, <1>5
<1> QED
  BY <1>1, <1>6, <1>7

LEMMA ProbeInvHolds == Spec => []ProbeInv
<1>1. Init /\ Inv => ProbeInv
  <2> SUFFICES ASSUME Init, Inv PROVE ProbeInv
    OBVIOUS
  <2>1. \A s \in AllSweeps : SweepOk(s)
    BY DEF Init, SweepOk
  <2>2. /\ todo \in [AllSweeps -> SUBSET DOMAIN Interfaces]
        /\ hosts \in [AllSweeps -> SUBSET Nat]
        /\ present \subseteq Range(Interfaces)
        /\ ProbesStayInSubnet
    BY DEF Init, ProbesStayInSubnet
  <2> QED
    BY <2>1, <2>2 DEF ProbeInv
<1>2. ProbeInv /\ Inv' /\ [Next]_vars => ProbeInv'
  <2> SUFFICES ASSUME ProbeInv, Inv', [Next]_vars PROVE ProbeInv'
    OBVIOUS
  <2>1. CASE \E e \in Sweepers : Launch(e)
    BY <2>1, LaunchProbeInv
  <2>2. CASE Stop \/ (\E a \in Range(Interfaces) : AddressLeaves(a)) \/ UNCHANGED vars
    <3>1. /\ UNCHANGED <<cancelled, at, todo, hosts, probes>>
          /\ present' \subseteq present /\ (stopped => stopped')
      BY <2>2 DEF Stop, AddressLeaves, vars
    <3>2. \A s \in AllSweeps : SweepOk(s)'
      BY <3>1, SweepStays
    <3>3. ProbesStayInSubnet'
      BY <3>1 DEF ProbeInv, ProbesStayInSubnet
    <3> QED
      BY <3>1, <3>2, <3>3 DEF ProbeInv
  <2>3. CASE \E s \in AllSweeps : TaskStep(s)
    BY <2>3, TaskStepProbeInv
  <2> QED
    BY <2>1, <2>2, <2>3 DEF Next
<1> QED
  BY <1>1, <1>2, InvHolds, PTL DEF Spec

\* netscan.rs:49 and iface.rs:124: whatever the private addresses, their prefix
\* lengths, the width of addresses and the cap, and whenever an address leaves, a
\* probe goes to a host of the subnet of a private address of ours.
THEOREM ProbesAlwaysStayInSubnet == Spec => []ProbesStayInSubnet
<1>1. ProbeInv => ProbesStayInSubnet
  BY DEF ProbeInv
<1> QED
  BY <1>1, ProbeInvHolds, PTL

\* netscan.rs:37-53, the loops: a subnet scan that was left to run to its end has
\* probed the first Cap hosts of every private address that stayed.
THEOREM SweepsAlwaysCoverSubnets == Spec => []SweepsCoverSubnets
<1>1. ProbeInv => SweepsCoverSubnets
  <2> SUFFICES ASSUME ProbeInv, NEW s \in AllSweeps,
                      s[1] = "Dahua", at[s] = "ended", ~Cancelled(s),
                      NEW a \in present, a.ip \in Private,
                      NEW h \in FirstHosts(a) \ {a.ip}
               PROVE  [by |-> s, from |-> a, to |-> h] \in probes
    BY DEF SweepsCoverSubnets
  <2>1. PICK i \in DOMAIN Interfaces : a = Interfaces[i]
    BY DEF Range, ProbeInv
  <2>2. Covers(s) /\ todo[s] = {}
    BY DEF ProbeInv, SweepOk
  <2>3. h \in Targets(i) /\ ~Owes(s, i) /\ ~AtWork(s, i)
    BY <2>1, <2>2 DEF Targets, Owes, AtWork
  <2>4. Probed(s, i, h)
    BY <2>1, <2>2, <2>3 DEF Covers
  <2> QED
    BY <2>1, <2>4 DEF Probed
<1> QED
  BY <1>1, ProbeInvHolds, PTL
=============================================================================
