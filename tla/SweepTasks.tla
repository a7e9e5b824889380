------------------------------ MODULE SweepTasks ------------------------------
(***************************************************************************)
(* What the sweeps of the engines promise, whatever they send.             *)
(*                                                                         *)
(* A scan launches one sweep per engine.  A sweep does units of work until *)
(* it ends; the launch of the next sweep of its engine, or a stop, cancels *)
(* it.  A cancelled sweep may begin one more unit (the one it is about to  *)
(* begin); one launched once the engines are stopped is cancelled from the *)
(* start.                                                                  *)
(***************************************************************************)
EXTENDS Naturals

CONSTANTS
  Sweepers,    \* the engines that sweep
  MaxScans     \* bound: sweeps of each engine

AllSweeps == Sweepers \X (1..MaxScans)

VARIABLES
  stopped,
  status,     \* of each sweep: none, live, cancelled or ended
  work,       \* the units of work each has begun
  late        \* sweeps that began a unit after they were cancelled

taskVars == <<stopped, status, work, late>>

TaskInit ==
  /\ stopped = FALSE
  /\ status = [s \in AllSweeps |-> "none"]
  /\ work = [s \in AllSweeps |-> 0]
  /\ late = {}

Cancels(those) ==
  [s \in AllSweeps |-> IF s \in those /\ status[s] = "live" THEN "cancelled" ELSE status[s]]

LaunchTask(s) ==
  /\ status[s] = "none"
  /\ \A n \in 1..(s[2] - 1) : status[<<s[1], n>>] # "none"
  /\ status' = [Cancels({s[1]} \X (1..MaxScans)) EXCEPT
                  ![s] = IF stopped THEN "cancelled" ELSE "live"]
  /\ UNCHANGED <<stopped, work, late>>

Work(s) ==
  /\ \/ status[s] = "live" /\ late' = late
     \/ status[s] = "cancelled" /\ s \notin late /\ late' = late \cup {s}
  /\ work' = [work EXCEPT ![s] = @ + 1]
  /\ UNCHANGED <<stopped, status>>

EndTask(s) ==
  /\ status[s] \in {"live", "cancelled"}
  /\ status' = [status EXCEPT ![s] = "ended"]
  /\ UNCHANGED <<stopped, work, late>>

StopTasks ==
  /\ stopped' = TRUE
  /\ status' = Cancels(AllSweeps)
  /\ UNCHANGED <<work, late>>

TaskNext ==
  \/ \E s \in AllSweeps : LaunchTask(s) \/ Work(s) \/ EndTask(s)
  \/ StopTasks

TaskSafety == TaskInit /\ [][TaskNext]_taskVars

\* A sweep ends, cancelled or not.
TasksEnd == \A s \in AllSweeps : status[s] # "none" ~> status[s] = "ended"

TaskSpec == TaskSafety /\ TasksEnd

-----------------------------------------------------------------------------
\* The sweeps of one engine never overlap but for the unit a cancelled one is
\* in or about to begin: at most one is live, the newest, and none once stopped.
OneLiveSweep ==
  /\ \A s, t \in AllSweeps :
       status[s] = "live" /\ s[1] = t[1] /\ t[2] > s[2] => status[t] = "none"
  /\ stopped => \A s \in AllSweeps : status[s] # "live"
=============================================================================
