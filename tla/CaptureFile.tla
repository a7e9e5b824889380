------------------------------ MODULE CaptureFile ------------------------------
(***************************************************************************)
(* The capture file of --pcap-out: universal-scanner's pcap.rs, fed by the *)
(* receive tasks of the engines (net.rs, recv_loop).                       *)
(*                                                                         *)
(* The file is a sequence of cells: the head of a record, with the length  *)
(* it claims, or one unit of the frame behind it.  write_all puts a record *)
(* down in one or more writes, and any of them may fail; the process may   *)
(* be killed in between.  Lengths are computed in 16 bits, here modulo     *)
(* Modulus: a build with overflow checks panics instead, and a panic of    *)
(* the task that holds the mutex poisons it.                               *)
(***************************************************************************)
EXTENDS Naturals, Sequences, FiniteSets

CONSTANTS
  Tasks,         \* the receive tasks
  Sizes,         \* the sizes of payload that may come
  Modulus,       \* 2^16
  UdpHeader, IpHeader, EthernetHeader,
  MaxRecords     \* bound: datagrams taken

ASSUME SizesAssumption == Sizes \subseteq Nat /\ Modulus \in Nat \ {0}
ASSUME HeadersAssumption == {UdpHeader, IpHeader, EthernetHeader, MaxRecords} \subseteq Nat

VARIABLES
  checked,     \* the build has overflow checks
  file,        \* the records' part of the file
  count,       \* Inner::count
  holder,      \* the task that holds the mutex, if any: a set
  poisoned,    \* the mutex is poisoned
  at,          \* of each task: idle, waiting, writing or dead
  payload,     \* the size of the payload each appends
  rest,        \* cells each has not written yet
  taken,       \* history: appends started, a number for each
  outcome      \* history: the outcome of each append that got the mutex, in order

vars == <<checked, file, count, holder, poisoned, at, payload, rest, taken, outcome>>

-----------------------------------------------------------------------------
\* Each sum as the code makes it, in u16.
Wide(n)     == n >= Modulus
UdpLen(n)   == UdpHeader + (n % Modulus)
IpLen(n)    == IpHeader + (UdpLen(n) % Modulus)
FrameLen(n) == EthernetHeader + (IpLen(n) % Modulus)

Overflows(n) == Wide(UdpLen(n)) \/ Wide(IpLen(n)) \/ Wide(FrameLen(n))

\* What the record really holds, whatever its head claims.
TrueLen(n) == EthernetHeader + IpHeader + UdpHeader + n

Head16(id, n) == [id |-> id, claims |-> FrameLen(n) % Modulus]
Body(id)      == [id |-> id]

\* The head does not claim what is behind it.
Misclaims(n) == FrameLen(n) % Modulus # TrueLen(n)

RecordCells(id, n) == <<Head16(id, n)>> \o [i \in 1..TrueLen(n) |-> Body(id)]

-----------------------------------------------------------------------------
Init ==
  /\ checked \in BOOLEAN
  /\ file = << >> /\ count = 0
  /\ holder = {} /\ poisoned = FALSE
  /\ at = [t \in Tasks |-> "idle"]
  /\ payload = [t \in Tasks |-> 0]
  /\ rest = [t \in Tasks |-> << >>]
  /\ taken = 0 /\ outcome = << >>

\* A datagram between IPv4 endpoints is to be appended.  (One with an IPv6
\* endpoint returns before the mutex and changes nothing.)
Receives(t) ==
  /\ at[t] = "idle" /\ taken < MaxRecords
  /\ \E n \in Sizes : payload' = [payload EXCEPT ![t] = n]
  /\ at' = [at EXCEPT ![t] = "waiting"]
  /\ taken' = taken + 1
  /\ UNCHANGED <<checked, file, count, holder, poisoned, rest, outcome>>

\* Mutant: the file is written without the mutex.
NoMutex(t) == ~poisoned

MayLock(t) == holder = {} /\ ~poisoned

\* The record is laid out in memory; its number is its place among the appends.
Locks(t) ==
  /\ at[t] = "waiting" /\ MayLock(t)
  /\ ~(checked /\ Overflows(payload[t]))
  /\ holder' = {t}
  /\ at' = [at EXCEPT ![t] = "writing"]
  /\ rest' = [rest EXCEPT ![t] = RecordCells(Len(outcome) + 1, payload[t])]
  /\ outcome' = Append(outcome, "started")
  /\ UNCHANGED <<checked, file, count, poisoned, payload, taken>>

\* The sum panics with the mutex held.
Panics(t) ==
  /\ at[t] = "waiting" /\ MayLock(t)
  /\ checked /\ Overflows(payload[t])
  /\ poisoned' = TRUE
  /\ at' = [at EXCEPT ![t] = "dead"]
  /\ UNCHANGED <<checked, file, count, holder, payload, rest, taken, outcome>>

\* lock().unwrap() of a poisoned mutex panics.
FindsPoison(t) ==
  /\ at[t] = "waiting" /\ poisoned
  /\ at' = [at EXCEPT ![t] = "dead"]
  /\ UNCHANGED <<checked, file, count, holder, poisoned, payload, rest, taken, outcome>>

IdOf(t) == Head(rest[t]).id

\* One write of write_all: some of the rest.
Writes(t) ==
  /\ at[t] = "writing" /\ rest[t] # << >>
  /\ \E n \in 1..Len(rest[t]) :
       /\ file' = file \o SubSeq(rest[t], 1, n)
       /\ rest' = [rest EXCEPT ![t] = SubSeq(@, n + 1, Len(@))]
       /\ IF n = Len(rest[t])
            THEN outcome' = [outcome EXCEPT ![IdOf(t)] =
                               IF Misclaims(payload[t]) THEN "wrapped" ELSE "whole"]
            ELSE UNCHANGED outcome
  /\ UNCHANGED <<checked, count, holder, poisoned, at, payload, taken>>

\* Mutant: an error of write_all is unwrapped, with the mutex held.
PanicsOnError(t) == at' = [at EXCEPT ![t] = "dead"] /\ poisoned' = TRUE

\* append_udp returns None, and the task goes on.
GoesOn(t) == at' = [at EXCEPT ![t] = "idle"] /\ poisoned' = poisoned

WriteFails(t) ==
  /\ at[t] = "writing" /\ rest[t] # << >>
  /\ outcome' = [outcome EXCEPT ![IdOf(t)] =
                   IF Len(rest[t]) = Len(RecordCells(IdOf(t), payload[t])) THEN "absent" ELSE "torn"]
  /\ holder' = {}
  /\ rest' = [rest EXCEPT ![t] = << >>]
  /\ GoesOn(t)
  /\ UNCHANGED <<checked, file, count, payload, taken>>

Unlocks(t) ==
  /\ at[t] = "writing" /\ rest[t] = << >>
  /\ count' = count + 1
  /\ holder' = {}
  /\ at' = [at EXCEPT ![t] = "idle"]
  /\ UNCHANGED <<checked, file, poisoned, payload, rest, taken, outcome>>

\* The process ends in the middle of anything.
Killed ==
  /\ at' = [t \in Tasks |-> "killed"]
  /\ UNCHANGED <<checked, file, count, holder, poisoned, payload, rest, taken, outcome>>

Next ==
  \/ \E t \in Tasks :
       \/ Receives(t) \/ Locks(t) \/ Panics(t) \/ FindsPoison(t)
       \/ Writes(t) \/ WriteFails(t) \/ Unlocks(t)
  \/ Killed

Spec == Init /\ [][Next]_vars

-----------------------------------------------------------------------------
(***************************************************************************)
(* A reader of the format: a head, as many units as it claims, a head ...  *)
(* until the file ends or something else is where a head should be.        *)
(***************************************************************************)
IsHead(p)   == p \in DOMAIN file /\ "claims" \in DOMAIN file[p]
IsRecord(p) == IsHead(p) /\ p + file[p].claims <= Len(file)

Behind(p) == IF IsRecord(p) THEN p + 1 + file[p].claims ELSE p

\* Where the reader is after k records, or where it stopped.
Reader[k \in Nat] == IF k = 0 THEN 1 ELSE Behind(Reader[k - 1])

Reached == { Reader[k] : k \in 0..Len(file) }
Records == { p \in Reached : IsRecord(p) }

\* Up to the i-th append, each left a whole record or nothing.
CleanUpTo(i) == \A j \in 1..i : outcome[j] \in {"whole", "absent"}

Intact == { i \in DOMAIN outcome : outcome[i] = "whole" /\ CleanUpTo(i) }

\* pcap.rs:93, write_all under the mutex, "append one UDP packet": whatever tasks
\* append at the same time, and wherever the process is killed, a reader gets
\* the records in the order of their appends, each with its own frame and no
\* other's cells; what it loses comes behind a record whose write failed half-way,
\* or whose frame did not fit 16 bits, and without such a record it gets to the end.
ReadsBack ==
  /\ \A i \in Intact : \E p \in Records :
       { q \in DOMAIN file : file[q].id = i } = p..(p + file[p].claims)
  /\ \A p, q \in Records : p < q /\ file[p].id \in Intact => file[p].id < file[q].id
  /\ CleanUpTo(Len(outcome)) => Len(file) + 1 \in Reached

\* A receive task survives every datagram and every failed write, but for a
\* datagram whose frame does not fit 16 bits, in a build with overflow checks;
\* and the packets counted are those whose append said so.
TasksSurvive ==
  /\ (\E t \in Tasks : at[t] = "dead") =>
       checked /\ \E t \in Tasks : at[t] = "dead" /\ Overflows(payload[t])
  /\ holder = {} =>
       count = Cardinality({ i \in DOMAIN outcome : outcome[i] \in {"whole", "wrapped"} })
=============================================================================
