-------------------------------- MODULE RunLoop --------------------------------
(***************************************************************************)
(* `uscan scan': uscan/src/run.rs, with the batch output of output.rs.     *)
(*                                                                         *)
(* After the start-up (configuration, Scanner::new, start, first scan) the *)
(* program loops on tokio::select! over four branches: the next report on  *)
(* the channel, the rescan tick, the deadline and Ctrl-C.  The reports go  *)
(* through DeviceTable::add, whose state and rows this module extends.     *)
(*                                                                         *)
(* select! polls its branches in random order and takes a ready one; the   *)
(* futures of the others are dropped.  The Ctrl-C future is made anew each *)
(* time round, hears only the signals delivered after it was first polled, *)
(* and forgets one it heard when it is dropped.  Once a first such future  *)
(* was polled, SIGINT no longer kills the process.                         *)
(*                                                                         *)
(* A device that is asked again answers again.  A report that was received *)
(* before changes nothing in the table, so that any number of them may be  *)
(* on the channel and it is enough to know whether one is: `repeat'.       *)
(*                                                                         *)
(* Bounds: MaxSent reports, besides those that are repeated without bound; *)
(* MaxTicks rescan ticks, MaxSignals SIGINTs.                              *)
(***************************************************************************)
EXTENDS DeviceTable

CONSTANTS
  Args,        \* the command lines: which of --batch, --timeout and --rescan are
               \* given, and whether the format has a header (CSV, TSV)
  Header,      \* the header line
  NoCode,      \* the process has not exited
  Killed,      \* it was killed by a signal's default action
  MaxSent, MaxTicks, MaxSignals

ASSUME RunAssumption ==
  /\ Args \subseteq [batch : BOOLEAN, timeout : BOOLEAN, rescan : BOOLEAN,
                    header : BOOLEAN]
  /\ {MaxSent, MaxTicks, MaxSignals} \subseteq Nat
  /\ Header \notin Device
  /\ Killed \notin {0, 1, 130} /\ NoCode \notin {Killed, 0, 1, 130}

VARIABLES
  args,       \* the command line
  pc,         \* boot, polling, waiting, stopping, flushing, interrupted, exited
  code,       \* the exit code
  stdout,     \* the lines written
  sent,       \* the reports the engines sent on the channel, in order
  taken,      \* how many of them the loop has received
  repeat,     \* a report received before is on the channel once more
  ticks,      \* rescan ticks due and not taken; every tick ever due counts
  scans,      \* rescans done
  due,        \* the deadline has passed
  installed,  \* tokio's SIGINT handler is installed
  notified,   \* the Ctrl-C future being waited on has heard a signal
  guard,      \* the task that waits for a second Ctrl-C: none, spawned, listening
  signals     \* SIGINTs sent to the process so far

channel == <<sent, taken, repeat>>
timers  == <<ticks, scans, due>>
ctrlC   == <<installed, notified, guard>>
runVars == <<args, vars, pc, code, stdout, channel, timers, ctrlC, signals>>

-----------------------------------------------------------------------------
RunInit ==
  /\ Init
  /\ args \in Args
  /\ pc = "boot" /\ code = NoCode /\ stdout = << >>
  /\ sent = << >> /\ taken = 0 /\ repeat = FALSE
  /\ ticks = 0 /\ scans = 0 /\ due = FALSE
  /\ installed = FALSE /\ notified = FALSE /\ guard = "none"
  /\ signals = 0

InLoop == pc \in {"polling", "waiting"}

\* Does the scanner run, so that its tasks may report?
Scanning == pc \in {"boot", "polling", "waiting", "stopping", "interrupted"}

HeaderLine == IF args.header THEN <<Header>> ELSE << >>

(***************************************************************************)
(* Start-up: an error exits with code 1; else the header, then the loop.   *)
(***************************************************************************)
BootFails ==
  /\ pc = "boot"
  /\ pc' = "exited" /\ code' = 1
  /\ UNCHANGED <<args, vars, stdout, channel, timers, ctrlC, signals>>

Boot ==
  /\ pc = "boot"
  /\ pc' = "polling"
  /\ stdout' = HeaderLine
  /\ UNCHANGED <<args, vars, code, channel, timers, ctrlC, signals>>

(***************************************************************************)
(* The branches of select!.  Each one drops the Ctrl-C future.             *)
(***************************************************************************)
\* Mutant: the guard against a second Ctrl-C is spawned from the start.
PollCtrlCWithGuard ==
  /\ pc = "polling"
  /\ pc' = "waiting"
  /\ installed' = TRUE
  /\ guard' = "listening"
  /\ UNCHANGED <<args, vars, code, stdout, channel, timers, notified, signals>>

\* The Ctrl-C future is polled, which installs the handler the first time.
\* Branches already ready may be polled, and taken, before it.
PollCtrlC ==
  /\ pc = "polling"
  /\ pc' = "waiting"
  /\ installed' = TRUE
  /\ UNCHANGED <<args, vars, code, stdout, channel, timers, notified, guard, signals>>

\* Mutants: --batch streams as well; the report is printed as it came.
StreamsAlways   == TRUE
ReportAsLine(d) == d

Streams == ~args.batch

RowAsLine(d) == Returned(d)

\* A report: the table changes and, unless --batch, the row is printed.
Handle(d) ==
  /\ InLoop
  /\ Add(d)
  /\ stdout' = IF rows' # rows /\ Streams
                 THEN Append(stdout, RowAsLine(d)) ELSE stdout
  /\ pc' = "polling" /\ notified' = FALSE

TakeReport ==
  /\ taken < Len(sent)
  /\ Handle(sent[taken + 1])
  /\ taken' = taken + 1
  /\ UNCHANGED <<args, code, sent, repeat, timers, installed, guard, signals>>

TakeRepeat ==
  /\ repeat
  /\ \E i \in 1..taken : Handle(sent[i])
  /\ repeat' = FALSE
  /\ UNCHANGED <<args, code, sent, taken, timers, installed, guard, signals>>

\* scanner.scan(), whose result is ignored.
TakeRescan ==
  /\ InLoop
  /\ ticks > 0
  /\ ticks' = ticks - 1
  /\ scans' = scans + 1
  /\ pc' = "polling" /\ notified' = FALSE
  /\ UNCHANGED <<args, vars, code, stdout, channel, due, installed, guard, signals>>

\* Mutant: select! is biased, and takes the deadline only when no report is ready.
TakeTimeoutLast ==
  /\ InLoop
  /\ due /\ taken = Len(sent) /\ ~repeat
  /\ pc' = "stopping" /\ notified' = FALSE
  /\ UNCHANGED <<args, vars, code, stdout, channel, timers, installed, guard, signals>>

\* The deadline: break, then stop().
TakeTimeout ==
  /\ InLoop
  /\ due
  /\ pc' = "stopping" /\ notified' = FALSE
  /\ UNCHANGED <<args, vars, code, stdout, channel, timers, installed, guard, signals>>

\* Ctrl-C: a guard task is spawned to wait for the second one, then stop().
TakeCtrlC ==
  /\ pc = "waiting"
  /\ notified
  /\ pc' = "interrupted" /\ notified' = FALSE
  /\ guard' = "spawned"
  /\ UNCHANGED <<args, vars, code, stdout, channel, timers, installed, signals>>

(***************************************************************************)
(* After the loop.  stop() returns: ScannerLifecycle!StopReturns.          *)
(***************************************************************************)
StopReturned ==
  /\ pc = "stopping"
  /\ pc' = "flushing"
  /\ UNCHANGED <<args, vars, code, stdout, channel, timers, ctrlC, signals>>

\* batch_lines: the header once more, then every row in discovery order.
BatchLines == HeaderLine \o All

Finish ==
  /\ pc = "flushing"
  /\ stdout' = IF args.batch THEN stdout \o BatchLines ELSE stdout
  /\ pc' = "exited" /\ code' = 0
  /\ UNCHANGED <<args, vars, channel, timers, ctrlC, signals>>

\* Mutants: the loop is left with break, as for the deadline, or not at all.
InterruptBreaks ==
  /\ pc = "interrupted"
  /\ pc' = "flushing"
  /\ guard' = "none"
  /\ UNCHANGED <<args, vars, code, stdout, channel, timers, installed, notified, signals>>

InterruptGoesOn ==
  /\ pc = "interrupted"
  /\ pc' = "polling"
  /\ guard' = "none"
  /\ UNCHANGED <<args, vars, code, stdout, channel, timers, installed, notified, signals>>

\* Stopped after Ctrl-C: the guard is aborted and 130 returned at once.
InterruptedStopReturned ==
  /\ pc = "interrupted"
  /\ pc' = "exited" /\ code' = 130
  /\ guard' = "none"
  /\ UNCHANGED <<args, vars, stdout, channel, timers, installed, notified, signals>>

\* The guard task runs for the first time and listens for Ctrl-C.
GuardPolled ==
  /\ guard = "spawned"
  /\ guard' = "listening"
  /\ UNCHANGED <<args, vars, pc, code, stdout, channel, timers, installed, notified, signals>>

(***************************************************************************)
(* The engines' tasks, the timers and the user.                            *)
(***************************************************************************)
EngineReports(d) ==
  /\ Scanning
  /\ Len(sent) < MaxSent
  /\ sent' = Append(sent, d)
  /\ UNCHANGED <<args, vars, pc, code, stdout, taken, repeat, timers, ctrlC, signals>>

EngineRepeats ==
  /\ Scanning
  /\ taken > 0 /\ ~repeat
  /\ repeat' = TRUE
  /\ UNCHANGED <<args, vars, pc, code, stdout, sent, taken, timers, ctrlC, signals>>

RescanTick ==
  /\ args.rescan /\ InLoop
  /\ ticks + scans < MaxTicks
  /\ ticks' = ticks + 1
  /\ UNCHANGED <<args, vars, pc, code, stdout, channel, scans, due, ctrlC, signals>>

Deadline ==
  /\ args.timeout /\ InLoop
  /\ ~due
  /\ due' = TRUE
  /\ UNCHANGED <<args, vars, pc, code, stdout, channel, ticks, scans, ctrlC, signals>>

\* SIGINT, by who hears it: nobody yet (the default action kills), the future
\* select! waits on, the guard (which exits at once), or no one: lost.
Interrupt ==
  /\ pc # "exited"
  /\ signals < MaxSignals
  /\ signals' = signals + 1
  /\ UNCHANGED <<args, vars, stdout, channel, timers, installed, guard>>
  /\ \/ /\ ~installed
        /\ pc' = "exited" /\ code' = Killed /\ notified' = notified
     \/ /\ installed /\ pc = "waiting"
        /\ notified' = TRUE
        /\ UNCHANGED <<pc, code>>
     \/ /\ guard = "listening"
        /\ pc' = "exited" /\ code' = 130 /\ notified' = notified
     \/ /\ installed /\ pc # "waiting" /\ guard # "listening"
        /\ UNCHANGED <<pc, code, notified>>

\* The process has exited.
Terminated == pc = "exited" /\ UNCHANGED runVars

-----------------------------------------------------------------------------
Loop ==
  \/ BootFails \/ Boot
  \/ PollCtrlC \/ TakeReport \/ TakeRepeat \/ TakeRescan \/ TakeTimeout \/ TakeCtrlC
  \/ StopReturned \/ Finish \/ InterruptedStopReturned

Environment ==
  \/ \E d \in Reports : EngineReports(d)
  \/ EngineRepeats
  \/ RescanTick \/ Deadline \/ Interrupt

RunNext == Loop \/ GuardPolled \/ Environment \/ Terminated

RunSpec == RunInit /\ [][RunNext]_runVars

(***************************************************************************)
(* The main task goes on while it can; a branch that stays ready is taken  *)
(* in the end, because select! starts polling at a random branch: a busy   *)
(* channel is one among four.  Nothing is assumed of the engines, the      *)
(* timers or the user.                                                     *)
(***************************************************************************)
RunFairness ==
  /\ WF_runVars(Boot \/ BootFails)
  /\ WF_runVars(PollCtrlC)
  /\ WF_runVars(TakeReport)
  /\ WF_runVars(TakeRepeat)
  /\ WF_runVars(TakeRescan)
  /\ WF_runVars(TakeTimeout)
  /\ WF_runVars(TakeCtrlC)
  /\ WF_runVars(StopReturned) /\ WF_runVars(Finish)
  /\ WF_runVars(InterruptedStopReturned)

FairRunSpec == RunSpec /\ RunFairness

-----------------------------------------------------------------------------
(***************************************************************************)
(* Properties.                                                             *)
(***************************************************************************)
\* The types of the loop's state.
RunTypeOK ==
  /\ TypeOK
  /\ args \in Args
  /\ pc \in {"boot", "polling", "waiting", "stopping", "flushing",
             "interrupted", "exited"}
  /\ code \in {NoCode, Killed, 0, 1, 130}
  /\ stdout \in Seq(Device \cup {Header})
  /\ sent \in Seq(Device) /\ taken \in 0..Len(sent) /\ repeat \in BOOLEAN
  /\ ticks + scans \in 0..MaxTicks
  /\ {due, installed, notified} \subseteq BOOLEAN
  /\ guard \in {"none", "spawned", "listening"}
  /\ signals \in 0..MaxSignals

\* The lines of stdout that are devices, and the reports the table looked at.
DeviceLines == { i \in DOMAIN stdout : stdout[i] # Header }

Arrivals == { i \in 1..taken : FamilyOk(sent[i]) }

ArrivedBefore(k, l) ==
  \E i \in Arrivals :
    /\ KeyOf(sent[i]) = k
    /\ \A j \in Arrivals : KeyOf(sent[j]) = l => i < j

\* Streaming: at any moment, and when a signal ends the program between two
\* lines, what the user last saw of each device received is the table's row.
StreamedRowsAreCurrent ==
  ~args.batch =>
    \A k \in DOMAIN entries :
      \E i \in DeviceLines :
        /\ stdout[i] = entries[k]
        /\ \A j \in DeviceLines : j > i => KeyOf(stdout[j]) # k

\* --batch, ended by the deadline: one line for each device received, in the
\* order of first arrival on the channel, with the best version received.
\* (Reports still on the channel at the deadline are lost.)
BatchInDiscoveryOrder ==
  (args.batch /\ code = 0) =>
    /\ { KeyOf(stdout[i]) : i \in DeviceLines } = { KeyOf(sent[i]) : i \in Arrivals }
    /\ \A i, j \in DeviceLines :
         i < j => ArrivedBefore(KeyOf(stdout[i]), KeyOf(stdout[j]))
    /\ \A i \in DeviceLines, j \in Arrivals :
         KeyOf(sent[j]) = KeyOf(stdout[i]) => sent[j].version <= stdout[i].version

\* run.rs:9, the exit codes: 0 only once the deadline has passed, 130 only
\* after a SIGINT, and after a fatal error nothing was written to stdout.
ExitCodes ==
  /\ code = 0 => due
  /\ code = 130 => signals > 0
  /\ code = 1 => stdout = << >>

\* run.rs:8: only a second Ctrl-C, during the stop that the first one began,
\* cuts that stop short.
FirstCtrlCStopsGracefully ==
  [][(code' = 130 /\ code # 130) =>
       /\ pc = "interrupted"
       /\ signals' # signals => signals > 0]_runVars

\* run.rs:7: the deadline ends the run, even if there is always another report on
\* the channel, and whatever rescans are due.
DeadlineEndsRun == due ~> pc = "exited"

\* A Ctrl-C that was heard and taken ends the run.
InterruptEndsRun == pc = "interrupted" ~> pc = "exited"

\* run.rs:8, "the first Ctrl-C: graceful stop + exit 130": a SIGINT ends the run.
CtrlCEndsRun == signals > 0 ~> pc = "exited"

\* README.md:104-105: with --batch the rows are printed when the scan ends,
\* by the timeout or by Ctrl-C.
BatchPrintedWhenScanEnds ==
  (args.batch /\ code \in {0, 130}) =>
    { KeyOf(stdout[i]) : i \in DeviceLines } = DOMAIN entries
=============================================================================
