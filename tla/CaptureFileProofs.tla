--------------------------- MODULE CaptureFileProofs ---------------------------
(***************************************************************************)
(* Proofs about CaptureFile, for any tasks, sizes of payload and headers,  *)
(* and any width of the length fields: no datagram and no failed write     *)
(* kills a receive task, but for the overflow; the count is right; and a   *)
(* reader gets the records back.                                           *)
(*                                                                         *)
(* The first part is about the tasks and the mutex (IInv).  The second     *)
(* says where in the file each append begins and ends (FileInv): appends   *)
(* come one after the other because of the mutex, and what the writer has  *)
(* not written yet completes its record.  From the ends of the appends,    *)
(* induction over them gives what the reader reaches.                      *)
(***************************************************************************)
EXTENDS CaptureFile, Induction, FiniteSetTheorems, SequenceTheorems

Cell == [id : Nat, claims : Nat] \cup [id : Nat]

Outcomes == {"started", "absent", "torn", "wrapped", "whole"}

\* The appends that told their caller so, or will when they unlock.
Said == { i \in DOMAIN outcome : outcome[i] \in {"whole", "wrapped"} }

Typed ==
  /\ at \in [Tasks -> {"idle", "waiting", "writing", "dead", "killed"}]
  /\ payload \in [Tasks -> Nat]
  /\ rest \in [Tasks -> Seq(Cell)]
  /\ outcome \in Seq(Outcomes)
  /\ count \in Nat

\* The mutex: one task writes at a time, and only while it holds it.
OneWriter ==
  /\ \A t \in Tasks : at[t] = "writing" => holder = {t}
  /\ holder # {} => \E t \in Tasks : holder = {t} /\ at[t] \in {"writing", "killed"}

\* What poisoned the mutex: a task that the overflow killed.
PoisonHasCause ==
  /\ (\E t \in Tasks : at[t] = "dead") => poisoned
  /\ poisoned =>
       checked /\ \/ \E t \in Tasks : at[t] = "dead" /\ Overflows(payload[t])
                  \/ \A t \in Tasks : at[t] = "killed"

\* The writer's cells are those of the last append, which is still open; once
\* they are written, the append is counted with the next step.
LastIsOpen ==
  \A t \in Tasks : at[t] = "writing" =>
    IF rest[t] = << >>
      THEN Cardinality(Said) = count + 1
      ELSE /\ outcome # << >> /\ outcome[Len(outcome)] = "started"
           /\ \A i \in DOMAIN rest[t] : rest[t][i].id = Len(outcome)
           /\ Cardinality(Said) = count

Counted == holder = {} => Cardinality(Said) = count

IInv == Typed /\ OneWriter /\ PoisonHasCause /\ LastIsOpen /\ Counted

-----------------------------------------------------------------------------
LEMMA SaidIsFinite ==
  ASSUME Typed
  PROVE  IsFiniteSet(Said) /\ Cardinality(Said) \in Nat
<1>1. DOMAIN outcome = 1..Len(outcome) /\ Len(outcome) \in Nat
  BY DEF Typed
<1>2. IsFiniteSet(DOMAIN outcome)
  BY <1>1, FS_Interval
<1>3. Said \subseteq DOMAIN outcome
  BY DEF Said
<1>. QED
  BY <1>2, <1>3, FS_Subset, FS_CardinalityType

LEMMA Lengths ==
  ASSUME NEW n \in Nat
  PROVE  TrueLen(n) \in Nat /\ FrameLen(n) \in Nat
<1>1. UdpHeader \in Nat /\ IpHeader \in Nat /\ EthernetHeader \in Nat
  BY HeadersAssumption
<1>2. \A k \in Nat : k % Modulus \in Nat
  BY SizesAssumption
<1>3. UdpLen(n) \in Nat
  BY <1>1, <1>2 DEF UdpLen
<1>4. IpLen(n) \in Nat
  BY <1>1, <1>2, <1>3 DEF IpLen
<1>5. FrameLen(n) \in Nat
  BY <1>1, <1>2, <1>4 DEF FrameLen
<1>. QED
  BY <1>1, <1>5 DEF TrueLen

\* The cells of a record: at least a head, each with the record's number.
LEMMA CellsOfRecord ==
  ASSUME NEW id \in Nat, NEW n \in Nat
  PROVE  /\ RecordCells(id, n) \in Seq(Cell)
         /\ RecordCells(id, n) # << >>
         /\ \A i \in DOMAIN RecordCells(id, n) : RecordCells(id, n)[i].id = id
<1>1. TrueLen(n) \in Nat /\ FrameLen(n) \in Nat
  BY Lengths
<1>. DEFINE body == [i \in 1..TrueLen(n) |-> Body(id)]
<1>2. FrameLen(n) % Modulus \in Nat
  BY <1>1, SizesAssumption
<1>3. Head16(id, n) \in Cell /\ Body(id) \in Cell
  BY <1>2 DEF Head16, Body, Cell
<1>4. body \in Seq(Cell) /\ Len(body) = TrueLen(n) /\ \A i \in 1..TrueLen(n) : body[i].id = id
  BY <1>1, <1>3 DEF Body
<1>5. Head16(id, n).id = id
  BY DEF Head16
<1>. HIDE DEF body
<1>. DEFINE head == Head16(id, n)
<1>6. head \in Cell /\ head.id = id
  BY <1>3, <1>5
<1>. HIDE DEF head
<1>7. /\ <<head>> \o body \in Seq(Cell) /\ <<head>> \o body # << >>
      /\ \A i \in DOMAIN (<<head>> \o body) : (<<head>> \o body)[i].id = id
  BY <1>1, <1>4, <1>6
<1>. QED
  BY <1>7 DEF RecordCells, head, body

LEMMA InitIInv == Init => IInv
<1>. SUFFICES ASSUME Init PROVE IInv
  OBVIOUS
<1>1. Said = {}
  BY DEF Init, Said
<1>2. Typed
  BY EmptySeq DEF Init, Typed
<1>3. OneWriter /\ PoisonHasCause /\ LastIsOpen
  BY DEF Init, OneWriter, PoisonHasCause, LastIsOpen
<1>4. Counted
  BY <1>1, FS_EmptySet DEF Init, Counted
<1>. QED
  BY <1>2, <1>3, <1>4 DEF IInv

-----------------------------------------------------------------------------
(***************************************************************************)
(* The steps outside the mutex, or that end a task.                        *)
(***************************************************************************)
LEMMA ReceivesIInv ==
  ASSUME IInv, NEW t \in Tasks, Receives(t)
  PROVE  IInv'
<1>1. PICK n \in Sizes : payload' = [payload EXCEPT ![t] = n]
  BY DEF Receives
<1>2. /\ at[t] = "idle" /\ at' = [at EXCEPT ![t] = "waiting"] /\ n \in Nat
      /\ UNCHANGED <<checked, file, count, holder, poisoned, rest, outcome>>
  BY SizesAssumption DEF Receives
<1>3. Typed' /\ OneWriter'
  BY <1>1, <1>2 DEF IInv, Typed, OneWriter
<1>4. PoisonHasCause'
  BY <1>1, <1>2 DEF IInv, Typed, PoisonHasCause
<1>5. LastIsOpen' /\ Counted'
  BY <1>2 DEF IInv, Typed, LastIsOpen, Counted, Said
<1>. QED
  BY <1>3, <1>4, <1>5 DEF IInv

LEMMA DiesIInv ==
  ASSUME IInv, NEW t \in Tasks, Panics(t) \/ FindsPoison(t)
  PROVE  IInv'
<1>1. /\ at[t] = "waiting" /\ at' = [at EXCEPT ![t] = "dead"]
      /\ UNCHANGED <<checked, file, count, holder, payload, rest, outcome>>
      /\ \/ poisoned' = TRUE /\ checked /\ Overflows(payload[t])
         \/ poisoned /\ poisoned' = poisoned
  BY DEF Panics, FindsPoison
<1>2. Typed' /\ OneWriter'
  BY <1>1 DEF IInv, Typed, OneWriter
<1>3. PoisonHasCause'
  BY <1>1 DEF IInv, Typed, PoisonHasCause
<1>4. LastIsOpen' /\ Counted'
  BY <1>1 DEF IInv, Typed, LastIsOpen, Counted, Said
<1>. QED
  BY <1>2, <1>3, <1>4 DEF IInv

LEMMA KilledIInv ==
  ASSUME IInv, Killed
  PROVE  IInv'
<1>1. /\ at' = [t \in Tasks |-> "killed"]
      /\ UNCHANGED <<checked, file, count, holder, poisoned, payload, rest, outcome>>
  BY DEF Killed
<1>2. Typed' /\ OneWriter'
  BY <1>1 DEF IInv, Typed, OneWriter
<1>3. PoisonHasCause' /\ LastIsOpen' /\ Counted'
  BY <1>1 DEF IInv, PoisonHasCause, LastIsOpen, Counted, Said
<1>. QED
  BY <1>2, <1>3 DEF IInv

-----------------------------------------------------------------------------
(***************************************************************************)
(* The steps of the holder.                                                *)
(***************************************************************************)
LEMMA LocksIInv ==
  ASSUME IInv, NEW t \in Tasks, Locks(t)
  PROVE  IInv'
<1>1. /\ at[t] = "waiting" /\ holder = {} /\ holder' = {t}
      /\ at' = [at EXCEPT ![t] = "writing"]
      /\ rest' = [rest EXCEPT ![t] = RecordCells(Len(outcome) + 1, payload[t])]
      /\ outcome' = Append(outcome, "started")
      /\ UNCHANGED <<checked, file, count, poisoned, payload>>
  BY DEF Locks, MayLock
<1>2. /\ outcome \in Seq(Outcomes) /\ Len(outcome) \in Nat /\ DOMAIN outcome = 1..Len(outcome)
      /\ payload[t] \in Nat /\ "started" \in Outcomes
  BY DEF IInv, Typed, Outcomes
<1>3. /\ rest'[t] \in Seq(Cell) /\ rest'[t] # << >>
      /\ \A i \in DOMAIN rest'[t] : rest'[t][i].id = Len(outcome) + 1
  <2>1. rest'[t] = RecordCells(Len(outcome) + 1, payload[t])
    BY <1>1 DEF IInv, Typed
  <2>2. Len(outcome) + 1 \in Nat /\ payload[t] \in Nat
    BY <1>2
  <2>. QED
    BY <2>1, <2>2, CellsOfRecord
<1>4. /\ Len(outcome') = Len(outcome) + 1 /\ outcome' \in Seq(Outcomes) /\ outcome' # << >>
      /\ DOMAIN outcome' = 1..(Len(outcome) + 1)
      /\ outcome'[Len(outcome) + 1] = "started"
      /\ \A i \in 1..Len(outcome) : outcome'[i] = outcome[i]
  BY <1>1, <1>2
<1>5. Said' = Said
  BY <1>2, <1>4 DEF Said
<1>6. Typed'
  BY <1>1, <1>3, <1>4 DEF IInv, Typed
<1>7. OneWriter' /\ PoisonHasCause'
  BY <1>1 DEF IInv, Typed, OneWriter, PoisonHasCause
<1>8. LastIsOpen'
  BY <1>1, <1>3, <1>4, <1>5 DEF IInv, Typed, OneWriter, LastIsOpen, Counted
<1>9. Counted'
  BY <1>1 DEF Counted
<1>. QED
  BY <1>6, <1>7, <1>8, <1>9 DEF IInv

LEMMA WritesIInv ==
  ASSUME IInv, NEW t \in Tasks, Writes(t)
  PROVE  IInv'
<1>1. PICK n \in 1..Len(rest[t]) :
        /\ rest' = [rest EXCEPT ![t] = SubSeq(@, n + 1, Len(@))]
        /\ IF n = Len(rest[t])
             THEN outcome' = [outcome EXCEPT ![IdOf(t)] =
                                IF Misclaims(payload[t]) THEN "wrapped" ELSE "whole"]
             ELSE UNCHANGED outcome
  BY DEF Writes
<1>2. /\ at[t] = "writing" /\ rest[t] # << >> /\ holder = {t}
      /\ UNCHANGED <<checked, count, holder, poisoned, at, payload>>
  BY DEF Writes, IInv, OneWriter
<1>. DEFINE k == Len(outcome)
<1>3. /\ rest[t] \in Seq(Cell) /\ outcome \in Seq(Outcomes)
      /\ outcome # << >> /\ outcome[k] = "started" /\ Cardinality(Said) = count
      /\ \A i \in DOMAIN rest[t] : rest[t][i].id = k
  BY <1>2 DEF IInv, Typed, LastIsOpen
<1>4. k \in Nat /\ k \in DOMAIN outcome /\ DOMAIN outcome = 1..k /\ IdOf(t) = k
  BY <1>2, <1>3 DEF IdOf
<1>5. /\ rest'[t] = SubSeq(rest[t], n + 1, Len(rest[t]))
      /\ \A u \in Tasks : u # t => rest'[u] = rest[u]
      /\ rest' \in [Tasks -> Seq(Cell)]
  BY <1>1, <1>3 DEF IInv, Typed
<1>6. OneWriter' /\ PoisonHasCause' /\ Counted'
  BY <1>2 DEF IInv, OneWriter, PoisonHasCause, Counted
<1>7. CASE n = Len(rest[t])
  <2>1. PICK o \in {"wrapped", "whole"} : outcome' = [outcome EXCEPT ![k] = o]
    BY <1>1, <1>4, <1>7
  <2>2. /\ outcome' \in Seq(Outcomes) /\ DOMAIN outcome' = DOMAIN outcome
        /\ outcome'[k] = o /\ \A i \in DOMAIN outcome : i # k => outcome'[i] = outcome[i]
    BY <1>3, <1>4, <2>1 DEF Outcomes
  <2>3. Said' = Said \cup {k} /\ k \notin Said
    BY <1>3, <1>4, <2>2 DEF Said
  <2>4. Cardinality(Said') = count + 1
    BY <1>3, <2>3, SaidIsFinite, FS_AddElement DEF IInv
  <2>5. rest'[t] = << >>
    BY <1>3, <1>5, <1>7
  <2>6. Typed'
    BY <1>2, <1>5, <2>2 DEF IInv, Typed
  <2>7. LastIsOpen'
    BY <1>2, <2>4, <2>5 DEF IInv, OneWriter, LastIsOpen
  <2>. QED
    BY <1>6, <2>6, <2>7 DEF IInv
<1>8. CASE n # Len(rest[t])
  <2>1. outcome' = outcome
    BY <1>1, <1>8
  <2>2. /\ rest'[t] # << >>
        /\ \A i \in DOMAIN rest'[t] : i + n \in DOMAIN rest[t] /\ rest'[t][i] = rest[t][i + n]
    <3>1. /\ n \in 1..Len(rest[t]) /\ n < Len(rest[t]) /\ Len(rest[t]) \in Nat
          /\ DOMAIN rest[t] = 1..Len(rest[t])
      BY <1>3, <1>8
    <3>2. /\ Len(rest'[t]) = Len(rest[t]) - n
          /\ DOMAIN rest'[t] = 1..(Len(rest[t]) - n)
          /\ \A i \in 1..(Len(rest[t]) - n) : rest'[t][i] = rest[t][i + n]
      BY <1>3, <1>5, <3>1
    <3>. QED
      BY <3>1, <3>2
  <2>3. Typed'
    BY <1>2, <1>5, <2>1 DEF IInv, Typed
  <2>4. LastIsOpen'
    <3>1. \A u \in Tasks : at'[u] = "writing" => u = t
      BY <1>2 DEF IInv, OneWriter
    <3>2. \A i \in DOMAIN rest'[t] : rest'[t][i].id = k
      BY <1>3, <2>2
    <3>3. Said' = Said /\ Len(outcome') = k
      BY <2>1 DEF Said
    <3>. QED
      BY <1>2, <1>3, <2>1, <2>2, <3>1, <3>2, <3>3 DEF LastIsOpen
  <2>. QED
    BY <1>6, <2>3, <2>4 DEF IInv
<1>. QED
  BY <1>7, <1>8

LEMMA WriteFailsIInv ==
  ASSUME IInv, NEW t \in Tasks, WriteFails(t)
  PROVE  IInv'
<1>. DEFINE k == Len(outcome)
<1>1. /\ at[t] = "writing" /\ rest[t] # << >> /\ holder = {t} /\ holder' = {}
      /\ at' = [at EXCEPT ![t] = "idle"] /\ rest' = [rest EXCEPT ![t] = << >>]
      /\ UNCHANGED <<checked, count, poisoned, payload>>
  BY DEF WriteFails, GoesOn, IInv, OneWriter
<1>2. /\ rest[t] \in Seq(Cell) /\ outcome \in Seq(Outcomes)
      /\ outcome # << >> /\ outcome[k] = "started" /\ Cardinality(Said) = count
      /\ \A i \in DOMAIN rest[t] : rest[t][i].id = k
  BY <1>1 DEF IInv, Typed, LastIsOpen
<1>3. k \in Nat /\ k \in DOMAIN outcome /\ DOMAIN outcome = 1..k /\ IdOf(t) = k
  BY <1>1, <1>2 DEF IdOf
<1>4. PICK o \in {"absent", "torn"} : outcome' = [outcome EXCEPT ![k] = o]
  BY <1>3 DEF WriteFails
<1>5. /\ outcome' \in Seq(Outcomes) /\ DOMAIN outcome' = DOMAIN outcome
      /\ outcome'[k] = o /\ \A i \in DOMAIN outcome : i # k => outcome'[i] = outcome[i]
  BY <1>2, <1>3, <1>4 DEF Outcomes
<1>6. Said' = Said
  BY <1>2, <1>3, <1>5 DEF Said
<1>7. Typed'
  BY <1>1, <1>5, EmptySeq DEF IInv, Typed
<1>8. OneWriter' /\ LastIsOpen'
  BY <1>1 DEF IInv, Typed, OneWriter, LastIsOpen
<1>9. PoisonHasCause' /\ Counted'
  BY <1>1, <1>2, <1>6 DEF IInv, Typed, PoisonHasCause, Counted
<1>. QED
  BY <1>7, <1>8, <1>9 DEF IInv

LEMMA UnlocksIInv ==
  ASSUME IInv, NEW t \in Tasks, Unlocks(t)
  PROVE  IInv'
<1>1. /\ at[t] = "writing" /\ rest[t] = << >> /\ holder = {t} /\ holder' = {}
      /\ at' = [at EXCEPT ![t] = "idle"] /\ count' = count + 1
      /\ UNCHANGED <<checked, file, poisoned, payload, rest, outcome>>
  BY DEF Unlocks, IInv, OneWriter
<1>2. Cardinality(Said) = count + 1
  BY <1>1 DEF IInv, LastIsOpen
<1>3. Typed'
  BY <1>1 DEF IInv, Typed
<1>6. OneWriter'
  BY <1>1 DEF IInv, Typed, OneWriter
<1>5. LastIsOpen'
  <2>1. \A u \in Tasks : at'[u] # "writing"
    BY <1>1 DEF IInv, Typed, OneWriter
  <2>. QED
    BY <2>1 DEF LastIsOpen
<1>4. PoisonHasCause' /\ Counted'
  BY <1>1, <1>2 DEF IInv, Typed, PoisonHasCause, Counted, Said
<1>. QED
  BY <1>3, <1>4, <1>5, <1>6 DEF IInv

LEMMA NextIInv == IInv /\ [Next]_vars => IInv'
<1>. SUFFICES ASSUME IInv, [Next]_vars PROVE IInv'
  OBVIOUS
<1>1. CASE UNCHANGED vars
  BY <1>1 DEF vars, IInv, Typed, OneWriter, PoisonHasCause, LastIsOpen, Counted, Said
<1>. QED
  BY <1>1, ReceivesIInv, LocksIInv, DiesIInv, WritesIInv, WriteFailsIInv, UnlocksIInv,
     KilledIInv DEF Next

\* A receive task survives every datagram and every failed write, but for a
\* frame that does not fit 16 bits, in a build with overflow checks; and
\* Inner::count is the number of appends that succeeded (pcap.rs:47-100).
THEOREM TasksAlwaysSurvive == Spec => []TasksSurvive
<1>1. IInv => TasksSurvive
  BY DEF IInv, PoisonHasCause, Counted, Said, TasksSurvive
<1>2. Init => IInv
  BY InitIInv
<1>3. IInv /\ [Next]_vars => IInv'
  BY NextIInv
<1>. QED
  BY <1>1, <1>2, <1>3, PTL DEF Spec

-----------------------------------------------------------------------------
(***************************************************************************)
(* Where the appends are in the file.                                      *)
(***************************************************************************)
\* What the file will be if the writes of t succeed.
Coming(t) == file \o rest[t]

\* From p to its end, c is the i-th record, of a payload of n.
Holds(c, p, i, n) ==
  /\ p \in 1..Len(c) /\ Len(c) = p + TrueLen(n)
  /\ c[p] = Head16(i, n)
  /\ \A q \in (p + 1)..Len(c) : c[q] = Body(i)

\* The cells of the i-th append are those from p up to q: a record, if it is whole.
Block(i, p, q) ==
  /\ p \in 1..(Len(file) + 1) /\ q \in p..(Len(file) + 1)
  /\ \A r \in DOMAIN file : file[r].id = i <=> r \in p..(q - 1)
  /\ outcome[i] = "absent" => q = p
  /\ outcome[i] = "whole" =>
       /\ p < q /\ "claims" \in DOMAIN file[p] /\ q = p + 1 + file[p].claims
       /\ \A r \in (p + 1)..(q - 1) : "claims" \notin DOMAIN file[r]

\* The i-th append begins at pos[i].
Laid(pos) ==
  /\ pos \in [1..(Len(outcome) + 1) -> 1..(Len(file) + 1)]
  /\ pos[1] = 1 /\ pos[Len(outcome) + 1] = Len(file) + 1
  /\ \A i \in DOMAIN outcome : Block(i, pos[i], pos[i + 1])
  /\ \A t \in Tasks : at[t] = "writing" /\ rest[t] # << >> =>
       Holds(Coming(t), pos[Len(outcome)], Len(outcome), payload[t])

FileInv ==
  /\ file \in Seq(Cell)
  /\ \A r \in DOMAIN file : file[r].id \in DOMAIN outcome
  /\ \A r, s \in DOMAIN file : r < s => file[r].id <= file[s].id
  /\ \E pos : Laid(pos)

LEMMA RecordHolds ==
  ASSUME NEW f \in Seq(Cell), NEW i \in Nat, NEW n \in Nat
  PROVE  Holds(f \o RecordCells(i, n), Len(f) + 1, i, n)
<1>1. TrueLen(n) \in Nat /\ FrameLen(n) \in Nat
  BY Lengths
<1>2. Head16(i, n) \in Cell /\ Body(i) \in Cell
  <2>1. FrameLen(n) % Modulus \in Nat
    BY <1>1, SizesAssumption
  <2>. QED
    BY <2>1 DEF Head16, Body, Cell
<1>. DEFINE body == [j \in 1..TrueLen(n) |-> Body(i)]
            head == Head16(i, n)
            cells == <<head>> \o body
<1>3. /\ body \in Seq(Cell) /\ Len(body) = TrueLen(n)
      /\ \A j \in 1..TrueLen(n) : body[j] = Body(i)
  BY <1>1, <1>2
<1>4. head \in Cell
  BY <1>2
<1>. HIDE DEF body, head
<1>5. /\ cells \in Seq(Cell) /\ Len(cells) = 1 + TrueLen(n)
      /\ cells[1] = head /\ \A j \in 2..Len(cells) : cells[j] = Body(i)
  BY <1>1, <1>3, <1>4
<1>. HIDE DEF cells
<1>6. /\ Len(f \o cells) = Len(f) + 1 + TrueLen(n) /\ (f \o cells)[Len(f) + 1] = head
      /\ \A q \in (Len(f) + 2)..Len(f \o cells) : (f \o cells)[q] = Body(i)
  BY <1>1, <1>5
<1>7. Len(f) \in Nat
  OBVIOUS
<1>. QED
  BY <1>1, <1>6, <1>7 DEF Holds, RecordCells, cells, head, body

LEMMA RecordLength ==
  ASSUME NEW i \in Nat, NEW n \in Nat
  PROVE  Len(RecordCells(i, n)) = 1 + TrueLen(n)
<1>1. PICK e \in Seq(Cell) : Len(e) + 1 = 1 /\ e \o RecordCells(i, n) = RecordCells(i, n)
  <2>1. << >> \in Seq(Cell) /\ Len(<< >>) + 1 = 1
    BY EmptySeq
  <2>2. << >> \o RecordCells(i, n) = RecordCells(i, n)
    BY CellsOfRecord
  <2>. QED
    BY <2>1, <2>2
<1>3. Holds(e \o RecordCells(i, n), Len(e) + 1, i, n)
  BY <1>1, RecordHolds
<1>2. Holds(RecordCells(i, n), 1, i, n)
  BY <1>1, <1>3
<1>. QED
  BY <1>2, Lengths DEF Holds

\* Moving n cells from the rest r to the file f.
Both(f, r)    == f \o r
Moved(f, r, n) == f \o SubSeq(r, 1, n)
Left(r, n)    == SubSeq(r, n + 1, Len(r))

LEMMA Splits ==
  ASSUME NEW T, NEW f \in Seq(T), NEW r \in Seq(T), NEW n \in 1..Len(r)
  PROVE  /\ Moved(f, r, n) \in Seq(T)
         /\ Len(Moved(f, r, n)) = Len(f) + n
         /\ Both(Moved(f, r, n), Left(r, n)) = Both(f, r)
         /\ \A i \in 1..(Len(f) + n) : Moved(f, r, n)[i] = Both(f, r)[i]
         /\ \A i \in 1..Len(f) : Moved(f, r, n)[i] = f[i]
         /\ Len(Both(f, r)) = Len(f) + Len(r)
<1>. USE DEF Moved, Both, Left
<1>1. Len(r) \in Nat /\ n \in Nat /\ n <= Len(r) /\ n >= 1
  OBVIOUS
<1>2. PICK a \in Seq(T) : a = SubSeq(r, 1, n) /\ Len(a) = n
  <2>1. \A i \in 1..n : r[i] \in T
    BY <1>1
  <2>2. SubSeq(r, 1, n) \in Seq(T) /\ Len(SubSeq(r, 1, n)) = n
    BY <1>1, <2>1, SubSeqProperties
  <2>. QED
    BY <2>2
<1>3. PICK b \in Seq(T) : b = SubSeq(r, n + 1, Len(r))
  <2>1. \A i \in (n + 1)..Len(r) : r[i] \in T
    BY <1>1
  <2>2. SubSeq(r, n + 1, Len(r)) \in Seq(T)
    BY <1>1, <2>1, SubSeqProperties
  <2>. QED
    BY <2>2
<1>4. a \o b = r
  <2>1. a \o b = SubSeq(r, 1, Len(r))
    BY <1>1, <1>2, <1>3, ConcatAdjacentSubSeq
  <2>2. SubSeq(r, 1, Len(r)) = r
    OBVIOUS
  <2>. QED
    BY <2>1, <2>2
<1>6. a \in Seq(T) /\ b \in Seq(T)
  BY <1>2, <1>3
<1>5. (f \o a) \o b = f \o (a \o b)
  BY <1>6, ConcatAssociative, SMTT(60)
<1>7. /\ f \o a \in Seq(T) /\ Len(f \o a) = Len(f) + Len(a)
      /\ \A i \in 1..Len(f) : (f \o a)[i] = f[i]
  BY <1>6
<1>8. \A i \in 1..(Len(f) + Len(a)) : ((f \o a) \o b)[i] = (f \o a)[i]
  BY <1>6, <1>7
<1>9. Len(f \o r) = Len(f) + Len(r)
  OBVIOUS
<1>. QED
  BY <1>2, <1>3, <1>4, <1>5, <1>7, <1>8, <1>9

-----------------------------------------------------------------------------
LEMMA InitFile == Init => FileInv
<1>. SUFFICES ASSUME Init PROVE FileInv
  OBVIOUS
<1>. DEFINE pos == [i \in 1..1 |-> 1]
<1>1. Laid(pos)
  BY DEF Init, Laid
<1>. HIDE DEF pos
<1>. QED
  BY <1>1, EmptySeq DEF Init, FileInv

\* Steps that neither write nor end an append.
LEMMA FileKept ==
  ASSUME FileInv, UNCHANGED <<file, outcome>>,
         \A t \in Tasks : at'[t] = "writing" /\ rest'[t] # << >> =>
           at[t] = "writing" /\ rest'[t] = rest[t] /\ payload'[t] = payload[t]
  PROVE  FileInv'
<1>1. PICK pos : Laid(pos)
  BY DEF FileInv
<1>2. \A i \in DOMAIN outcome : Block(i, pos[i], pos[i + 1])'
  BY <1>1 DEF Laid, Block
<1>3. ASSUME NEW t \in Tasks, at'[t] = "writing" /\ rest'[t] # << >>
      PROVE  Holds(Coming(t)', pos[Len(outcome)], Len(outcome), payload'[t])
  BY <1>1, <1>3 DEF Laid, Coming
<1>4. Laid(pos)'
  BY <1>1, <1>2, <1>3 DEF Laid, Holds
<1>. QED
  BY <1>4 DEF FileInv

LEMMA LocksFile ==
  ASSUME IInv, FileInv, NEW t \in Tasks, Locks(t)
  PROVE  FileInv'
<1>. DEFINE k == Len(outcome)
<1>1. /\ at[t] = "waiting" /\ holder = {}
      /\ at' = [at EXCEPT ![t] = "writing"]
      /\ rest' = [rest EXCEPT ![t] = RecordCells(k + 1, payload[t])]
      /\ outcome' = Append(outcome, "started")
      /\ file' = file /\ payload' = payload
  BY DEF Locks, MayLock
<1>2. /\ outcome \in Seq(Outcomes) /\ k \in Nat /\ DOMAIN outcome = 1..k
      /\ payload[t] \in Nat /\ file \in Seq(Cell) /\ Len(file) \in Nat
      /\ DOMAIN file = 1..Len(file)
  BY DEF IInv, Typed, FileInv
<1>3. PICK pos : Laid(pos)
  BY DEF FileInv
<1>4. /\ Len(outcome') = k + 1 /\ DOMAIN outcome' = 1..(k + 1)
      /\ outcome'[k + 1] = "started"
      /\ \A i \in 1..k : outcome'[i] = outcome[i]
  BY <1>1, <1>2
<1>5. PICK new :
        /\ new \in [1..(k + 2) -> 1..(Len(file) + 1)]
        /\ new[1] = 1 /\ new[k + 2] = Len(file) + 1 /\ new[k + 1] = Len(file) + 1
        /\ \A i \in 1..k : new[i] = pos[i] /\ new[i + 1] = pos[i + 1]
  <2>. DEFINE f == [i \in 1..(k + 2) |-> IF i = k + 2 THEN Len(file) + 1 ELSE pos[i]]
  <2>1. /\ f \in [1..(k + 2) -> 1..(Len(file) + 1)]
        /\ f[1] = 1 /\ f[k + 2] = Len(file) + 1 /\ f[k + 1] = Len(file) + 1
        /\ \A i \in 1..k : f[i] = pos[i] /\ f[i + 1] = pos[i + 1]
    BY <1>2, <1>3 DEF Laid
  <2>. HIDE DEF f
  <2>. QED
    BY <2>1
<1>6. ASSUME NEW i \in 1..(k + 1) PROVE Block(i, new[i], new[i + 1])'
  <2>1. CASE i = k + 1
    <3>1. \A r \in DOMAIN file : file[r].id # k + 1
      BY <1>2 DEF FileInv
    <3>. QED
      BY <1>1, <1>2, <1>4, <1>5, <2>1, <3>1 DEF Block
  <2>2. CASE i \in 1..k
    <3>1. Block(i, pos[i], pos[i + 1])
      BY <1>2, <1>3, <2>2 DEF Laid
    <3>. QED
      BY <1>1, <1>4, <1>5, <2>2, <3>1 DEF Block
  <2>. QED
    BY <1>2, <2>1, <2>2
<1>7. ASSUME NEW u \in Tasks, at'[u] = "writing"
      PROVE  Holds(Coming(u)', new[k + 1], k + 1, payload'[u])
  <2>1. u = t
    BY <1>1, <1>7 DEF IInv, Typed, OneWriter
  <2>2. rest'[t] = RecordCells(k + 1, payload[t])
    BY <1>1 DEF IInv, Typed
  <2>3. Coming(u)' = file \o RecordCells(k + 1, payload[t])
    BY <1>1, <2>1, <2>2 DEF Coming
  <2>4. k + 1 \in Nat
    BY <1>2
  <2>. QED
    BY <1>1, <1>2, <1>5, <2>1, <2>3, <2>4, RecordHolds
<1>8. Laid(new)'
  BY <1>1, <1>4, <1>5, <1>6, <1>7 DEF Laid
<1>9. /\ file' \in Seq(Cell)
      /\ \A r \in DOMAIN file' : file'[r].id \in DOMAIN outcome'
      /\ \A r, s \in DOMAIN file' : r < s => file'[r].id <= file'[s].id
  BY <1>1, <1>2, <1>4 DEF FileInv
<1>. QED
  BY <1>8, <1>9 DEF FileInv

LEMMA WritesFile ==
  ASSUME IInv, FileInv, NEW t \in Tasks, Writes(t)
  PROVE  FileInv'
<1>0. PICK k, l, cells, coming :
        k = Len(outcome) /\ l = Len(file) /\ cells = rest[t] /\ coming = Coming(t)
  OBVIOUS
<1>1. PICK n \in 1..Len(cells) :
        /\ file' = file \o SubSeq(cells, 1, n)
        /\ rest' = [rest EXCEPT ![t] = SubSeq(@, n + 1, Len(@))]
        /\ IF n = Len(cells)
             THEN outcome' = [outcome EXCEPT ![IdOf(t)] =
                                IF Misclaims(payload[t]) THEN "wrapped" ELSE "whole"]
             ELSE UNCHANGED outcome
  BY <1>0 DEF Writes
<1>2. /\ at[t] = "writing" /\ cells # << >> /\ holder = {t}
      /\ UNCHANGED <<at, payload>>
  BY <1>0 DEF Writes, IInv, OneWriter
<1>3. /\ cells \in Seq(Cell) /\ outcome \in Seq(Outcomes) /\ outcome # << >>
      /\ outcome[k] = "started" /\ payload[t] \in Nat
      /\ \A i \in DOMAIN cells : cells[i].id = k
  BY <1>0, <1>2 DEF IInv, Typed, LastIsOpen
<1>4. /\ k \in Nat \ {0} /\ DOMAIN outcome = 1..k
      /\ file \in Seq(Cell) /\ l \in Nat /\ DOMAIN file = 1..l
      /\ Len(cells) \in Nat /\ DOMAIN cells = 1..Len(cells)
      /\ n \in Nat \ {0} /\ n <= Len(cells)
  BY <1>0, <1>1, <1>3 DEF FileInv
<1>16. IdOf(t) = k
  BY <1>0, <1>2, <1>3 DEF IdOf
<1>5. /\ file' \in Seq(Cell) /\ Len(file') = l + n /\ DOMAIN file' = 1..(l + n)
      /\ \A i \in 1..(l + n) : file'[i] = coming[i]
      /\ \A i \in 1..l : file'[i] = file[i]
      /\ \A i \in (l + 1)..(l + n) : file'[i].id = k
      /\ Coming(t)' = coming
      /\ Len(coming) = l + Len(cells)
  <2>1. rest'[t] = SubSeq(cells, n + 1, Len(cells))
    BY <1>0, <1>1 DEF IInv, Typed
  <2>2. PICK f : f = Moved(file, cells, n)
    OBVIOUS
  <2>3. /\ f \in Seq(Cell) /\ Len(f) = Len(file) + n
        /\ Both(f, Left(cells, n)) = Both(file, cells)
        /\ \A i \in 1..(Len(file) + n) : f[i] = Both(file, cells)[i]
        /\ \A i \in 1..Len(file) : f[i] = file[i]
        /\ Len(Both(file, cells)) = Len(file) + Len(cells)
    <3>1. file \in Seq(Cell) /\ cells \in Seq(Cell) /\ n \in 1..Len(cells)
      BY <1>1, <1>3, <1>4
    <3>. QED
      BY <2>2, <3>1, Splits
  <2>4. coming = Both(file, cells)
    BY <1>0 DEF Coming, Both
  <2>5. \A i \in (l + 1)..(l + n) : coming[i] = cells[i - l] /\ i - l \in DOMAIN cells
    BY <1>0, <1>3, <1>4, <2>4 DEF Both
  <2>6. file' = f
    BY <1>1, <2>2 DEF Moved
  <2>7. DOMAIN f = 1..(l + n)
    BY <1>0, <2>3
  <2>8. \A i \in (l + 1)..(l + n) : f[i] = coming[i]
    BY <1>0, <1>4, <2>3, <2>4
  <2>9. \A i \in (l + 1)..(l + n) : f[i].id = k
    BY <1>3, <2>5, <2>8
  <2>10. Coming(t)' = Both(f, Left(cells, n))
    BY <2>1, <2>6 DEF Coming, Both, Left
  <2>. QED
    BY <1>0, <2>3, <2>4, <2>6, <2>7, <2>9, <2>10
<1>6. PICK pos : Laid(pos)
  BY DEF FileInv
<1>17. /\ pos \in [1..(k + 1) -> 1..(l + 1)]
       /\ pos[1] = 1 /\ pos[k + 1] = l + 1
       /\ \A i \in 1..k : Block(i, pos[i], pos[i + 1])
       /\ Holds(coming, pos[k], k, payload[t])
  BY <1>0, <1>2, <1>4, <1>6 DEF Laid
<1>7. /\ DOMAIN outcome' = 1..k /\ Len(outcome') = k
      /\ \A i \in 1..(k - 1) : outcome'[i] = outcome[i]
      /\ IF n = Len(cells)
           THEN outcome'[k] = IF Misclaims(payload[t]) THEN "wrapped" ELSE "whole"
           ELSE outcome'[k] = "started"
  <2>1. CASE n = Len(cells)
    <3>1. PICK o \in Outcomes :
            /\ o = IF Misclaims(payload[t]) THEN "wrapped" ELSE "whole"
            /\ outcome' = [outcome EXCEPT ![k] = o]
      BY <1>1, <1>16, <2>1 DEF Outcomes
    <3>. QED
      BY <1>0, <1>3, <1>4, <2>1, <3>1
  <2>2. CASE n # Len(cells)
    BY <1>0, <1>1, <1>3, <1>4, <2>2
  <2>. QED
    BY <2>1, <2>2
<1>8. PICK new :
        /\ new \in [1..(k + 1) -> 1..(l + n + 1)]
        /\ new[1] = 1 /\ new[k + 1] = l + n + 1 /\ new[k] = pos[k]
        /\ \A i \in 1..(k - 1) : new[i] = pos[i] /\ new[i + 1] = pos[i + 1]
  <2>. DEFINE f == [i \in 1..(k + 1) |-> IF i = k + 1 THEN l + n + 1 ELSE pos[i]]
  <2>1. /\ f \in [1..(k + 1) -> 1..(l + n + 1)]
        /\ f[1] = 1 /\ f[k + 1] = l + n + 1 /\ f[k] = pos[k]
        /\ \A i \in 1..(k - 1) : f[i] = pos[i] /\ f[i + 1] = pos[i + 1]
    BY <1>4, <1>17
  <2>. HIDE DEF f
  <2>. QED
    BY <2>1
<1>9. pos[k] \in 1..(l + 1) /\ Block(k, pos[k], l + 1)
  BY <1>4, <1>17
<1>10. ASSUME NEW i \in 1..(k - 1) PROVE Block(i, new[i], new[i + 1])'
  <2>1. Block(i, pos[i], pos[i + 1])
    BY <1>4, <1>17
  <2>. QED
    <3>1. PICK p, q : p = pos[i] /\ q = pos[i + 1] /\ p \in 1..(l + 1) /\ q \in p..(l + 1)
      BY <1>0, <2>1 DEF Block
    <3>2. p = new[i] /\ q = new[i + 1] /\ Block(i, p, q)
      BY <1>8, <2>1, <3>1
    <3>3. outcome'[i] = outcome[i]
      BY <1>7
    <3>4. ASSUME NEW r \in 1..(l + n) PROVE file'[r].id = i <=> r \in p..(q - 1)
      <4>1. CASE r <= l
        <5>1. file'[r] = file[r] /\ r \in DOMAIN file
          BY <1>4, <1>5, <4>1
        <5>2. file[r].id = i <=> r \in p..(q - 1)
          BY <3>2, <5>1 DEF Block
        <5>. QED
          BY <5>1, <5>2
      <4>2. CASE r > l
        <5>1. file'[r].id = k /\ i # k
          BY <1>4, <1>5, <4>2
        <5>2. ~(r \in p..(q - 1))
          BY <1>4, <3>1, <4>2
        <5>. QED
          BY <5>1, <5>2
      <4>. QED
        BY <1>4, <4>1, <4>2
    <3>5. ASSUME NEW r \in p..(q - 1) PROVE file'[r] = file[r]
      <4>1. r \in 1..l
        BY <1>4, <3>1
      <4>. QED
        BY <1>4, <1>5, <4>1
    <3>6. /\ p \in 1..(l + n + 1) /\ q \in p..(l + n + 1)
          /\ p < q => p \in p..(q - 1)
          /\ \A r \in (p + 1)..(q - 1) : r \in p..(q - 1)
      BY <1>4, <3>1
    <3>. QED
      BY <1>5, <3>2, <3>3, <3>4, <3>5, <3>6 DEF Block
<1>11. Block(k, new[k], new[k + 1])'
  <2>1. PICK p \in 1..(l + 1) : p = pos[k] /\ Block(k, p, l + 1)
    BY <1>9
  <2>2. p \in 1..(l + n + 1) /\ l + n + 1 \in p..(l + n + 1) /\ p \in Nat
    BY <1>4, <2>1
  <2>3. \A r \in 1..(l + n) : file'[r].id = k <=> r \in p..(l + n)
    <3>1. ASSUME NEW r \in 1..l PROVE file'[r].id = k <=> r \in p..(l + n)
      <4>1. file'[r] = file[r] /\ r \in DOMAIN file
        BY <1>4, <1>5
      <4>2. file[r].id = k <=> r \in p..((l + 1) - 1)
        BY <2>1, <4>1 DEF Block
      <4>3. r \in p..((l + 1) - 1) <=> r \in p..(l + n)
        BY <1>4, <2>1
      <4>. QED
        BY <4>1, <4>2, <4>3
    <3>2. ASSUME NEW r \in (l + 1)..(l + n) PROVE file'[r].id = k /\ r \in p..(l + n)
      <4>1. r \in p..(l + n)
        BY <1>4, <2>1
      <4>. QED
        BY <1>5, <4>1
    <3>3. \A r \in 1..(l + n) : r \in 1..l \/ r \in (l + 1)..(l + n)
      BY <1>4
    <3>. QED
      BY <3>1, <3>2, <3>3
  <2>4. ASSUME outcome'[k] = "whole"
        PROVE  /\ p < l + n + 1 /\ "claims" \in DOMAIN file'[p]
               /\ l + n + 1 = p + 1 + file'[p].claims
               /\ \A r \in (p + 1)..(l + n) : "claims" \notin DOMAIN file'[r]
    <3>1. n = Len(cells) /\ ~Misclaims(payload[t])
      BY <1>7, <2>4
    <3>2. Len(coming) = l + n /\ TrueLen(payload[t]) \in Nat
      BY <1>3, <1>5, <3>1, Lengths
    <3>3. /\ p \in 1..(l + n) /\ l + n = p + TrueLen(payload[t])
          /\ file'[p] = Head16(k, payload[t])
          /\ \A r \in (p + 1)..(l + n) : file'[r] = Body(k)
      <4>1. \A r \in (p + 1)..(l + n) : r \in 1..(l + n)
        BY <1>4, <2>2
      <4>. QED
        BY <1>5, <1>17, <2>1, <3>2, <4>1 DEF Holds
    <3>4. file'[p].claims = TrueLen(payload[t]) /\ "claims" \in DOMAIN file'[p]
      BY <3>1, <3>3 DEF Head16, Misclaims
    <3>5. "claims" \notin DOMAIN Body(k)
      BY DEF Body
    <3>6. p < l + n + 1 /\ l + n + 1 = p + 1 + TrueLen(payload[t])
      <4>. DEFINE m == TrueLen(payload[t])
      <4>1. m \in Nat /\ l + n = p + m
        BY <3>2, <3>3
      <4>. HIDE DEF m
      <4>2. p < l + n + 1 /\ l + n + 1 = p + 1 + m
        <5>1. p \in Nat /\ l \in Nat /\ n \in Nat
          BY <1>4, <2>2
        <5>. QED
          BY <4>1, <5>1
      <4>. QED
        BY <4>2 DEF m
    <3>. QED
      BY <3>3, <3>4, <3>5, <3>6
  <2>5. outcome'[k] # "absent"
    BY <1>7
  <2>. QED
    BY <1>5, <1>8, <2>1, <2>2, <2>3, <2>4, <2>5 DEF Block
<1>12. ASSUME NEW u \in Tasks, at'[u] = "writing"
       PROVE  Holds(Coming(u)', new[k], k, payload'[u])
  <2>1. u = t
    BY <1>2, <1>12 DEF IInv, OneWriter
  <2>. QED
    BY <1>2, <1>5, <1>8, <1>17, <2>1
<1>13. Laid(new)'
  <2>1. \A i \in 1..k : Block(i, new[i], new[i + 1])'
    BY <1>4, <1>10, <1>11
  <2>. QED
    BY <1>4, <1>5, <1>7, <1>8, <1>12, <2>1 DEF Laid
<1>14. \A r \in DOMAIN file' : file'[r].id \in DOMAIN outcome'
  <2>1. \A r \in 1..l : file[r].id \in 1..k
    BY <1>4 DEF FileInv
  <2>. QED
    <3>1. \A r \in 1..l : file'[r].id \in 1..k
      BY <1>5, <2>1
    <3>2. k \in 1..k
      BY <1>4
    <3>3. \A r \in (l + 1)..(l + n) : file'[r].id \in 1..k
      BY <1>5, <3>2
    <3>4. \A r \in 1..(l + n) : r \in 1..l \/ r \in (l + 1)..(l + n)
      BY <1>4
    <3>. QED
      BY <1>5, <1>7, <3>1, <3>3, <3>4
<1>15. ASSUME NEW r \in DOMAIN file', NEW s \in DOMAIN file', r < s
       PROVE  file'[r].id <= file'[s].id
  <2>1. CASE s <= l
    BY <1>4, <1>5, <1>15, <2>1 DEF FileInv
  <2>2. CASE s > l
    <3>1. file'[s].id = k
      BY <1>4, <1>5, <2>2
    <3>2. file'[r].id \in 1..k
      BY <1>5, <1>7, <1>14
    <3>. QED
      BY <1>4, <3>1, <3>2
  <2>. QED
    BY <1>4, <1>5, <2>1, <2>2
<1>. QED
  BY <1>5, <1>13, <1>14, <1>15 DEF FileInv

LEMMA WriteFailsFile ==
  ASSUME IInv, FileInv, NEW t \in Tasks, WriteFails(t)
  PROVE  FileInv'
<1>0. PICK k, l : k = Len(outcome) /\ l = Len(file)
  OBVIOUS
<1>1. /\ at[t] = "writing" /\ rest[t] # << >> /\ holder = {t}
      /\ at' = [at EXCEPT ![t] = "idle"]
      /\ file' = file /\ payload' = payload
  BY DEF WriteFails, GoesOn, IInv, OneWriter
<1>2. /\ rest[t] \in Seq(Cell) /\ outcome \in Seq(Outcomes) /\ outcome # << >>
      /\ outcome[k] = "started" /\ payload[t] \in Nat /\ file \in Seq(Cell)
      /\ \A i \in DOMAIN rest[t] : rest[t][i].id = k
  BY <1>0, <1>1 DEF IInv, Typed, LastIsOpen, FileInv
<1>3. k \in Nat \ {0} /\ DOMAIN outcome = 1..k /\ l \in Nat /\ DOMAIN file = 1..l
  BY <1>0, <1>2
<1>4. IdOf(t) = k
  BY <1>1, <1>2 DEF IdOf
<1>5. PICK o \in {"absent", "torn"} :
        /\ outcome' = [outcome EXCEPT ![k] = o]
        /\ o = "absent" => Len(rest[t]) = Len(RecordCells(k, payload[t]))
  BY <1>4 DEF WriteFails
<1>6. /\ DOMAIN outcome' = 1..k /\ Len(outcome') = k
      /\ outcome'[k] = o /\ \A i \in 1..(k - 1) : outcome'[i] = outcome[i]
  BY <1>0, <1>2, <1>3, <1>5
<1>7. PICK pos : Laid(pos)
  BY DEF FileInv
<1>8. /\ pos \in [1..(k + 1) -> 1..(l + 1)]
      /\ pos[1] = 1 /\ pos[k + 1] = l + 1
      /\ \A i \in 1..k : Block(i, pos[i], pos[i + 1])
      /\ Holds(Coming(t), pos[k], k, payload[t])
  BY <1>0, <1>1, <1>3, <1>7 DEF Laid
<1>9. ASSUME o = "absent" PROVE pos[k] = l + 1
  <2>1. PICK m : m = TrueLen(payload[t])
    OBVIOUS
  <2>2. m \in Nat
    BY <1>2, <2>1, Lengths
  <2>3. Len(Coming(t)) = l + Len(rest[t]) /\ Len(rest[t]) \in Nat
    BY <1>0, <1>2 DEF Coming
  <2>4. Len(Coming(t)) = pos[k] + m
    BY <1>8, <2>1 DEF Holds
  <2>5. Len(RecordCells(k, payload[t])) = 1 + m
    BY <1>2, <1>3, <2>1, RecordLength
  <2>6. pos[k] \in Nat
    BY <1>3, <1>8
  <2>. QED
    BY <1>3, <1>5, <1>9, <2>2, <2>3, <2>4, <2>5, <2>6
<1>10. ASSUME NEW i \in 1..k PROVE Block(i, pos[i], pos[i + 1])'
  <2>1. Block(i, pos[i], pos[i + 1])
    BY <1>8
  <2>2. CASE i = k
    <3>1. outcome'[i] # "whole" /\ (outcome'[i] = "absent" => pos[i + 1] = pos[i])
      BY <1>5, <1>6, <1>8, <1>9, <2>2
    <3>. QED
      BY <1>1, <2>1, <3>1 DEF Block
  <2>3. CASE i \in 1..(k - 1)
    <3>1. outcome'[i] = outcome[i]
      BY <1>6, <2>3
    <3>. QED
      BY <1>1, <2>1, <3>1 DEF Block
  <2>. QED
    BY <1>3, <2>2, <2>3
<1>11. \A u \in Tasks : at'[u] # "writing"
  BY <1>1 DEF IInv, Typed, OneWriter
<1>12. Laid(pos)'
  BY <1>0, <1>1, <1>6, <1>8, <1>10, <1>11 DEF Laid
<1>. QED
  BY <1>1, <1>3, <1>6, <1>12 DEF FileInv

LEMMA NextFile ==
  ASSUME IInv, FileInv, [Next]_vars
  PROVE  FileInv'
<1>1. ASSUME NEW t \in Tasks, Receives(t) PROVE FileInv'
  <2>1. PICK n \in Sizes : payload' = [payload EXCEPT ![t] = n]
    BY <1>1 DEF Receives
  <2>2. /\ at[t] = "idle" /\ at' = [at EXCEPT ![t] = "waiting"]
        /\ UNCHANGED <<file, outcome, rest>>
    BY <1>1 DEF Receives
  <2>. QED
    BY <2>1, <2>2, FileKept DEF IInv, Typed
<1>2. ASSUME NEW t \in Tasks, Panics(t) \/ FindsPoison(t) PROVE FileInv'
  <2>1. at' = [at EXCEPT ![t] = "dead"] /\ UNCHANGED <<file, outcome, rest, payload>>
    BY <1>2 DEF Panics, FindsPoison
  <2>. QED
    BY <2>1, FileKept DEF IInv, Typed
<1>3. ASSUME NEW t \in Tasks, Unlocks(t) PROVE FileInv'
  <2>1. at' = [at EXCEPT ![t] = "idle"] /\ UNCHANGED <<file, outcome, rest, payload>>
    BY <1>3 DEF Unlocks
  <2>. QED
    BY <2>1, FileKept DEF IInv, Typed
<1>4. CASE Killed
  <2>1. at' = [t \in Tasks |-> "killed"] /\ UNCHANGED <<file, outcome, rest, payload>>
    BY <1>4 DEF Killed
  <2>. QED
    BY <2>1, FileKept
<1>5. CASE UNCHANGED vars
  BY <1>5, FileKept DEF vars
<1>. QED
  BY <1>1, <1>2, <1>3, <1>4, <1>5, LocksFile, WritesFile, WriteFailsFile DEF Next

LEMMA SpecFile == Spec => [](IInv /\ FileInv)
<1>1. Init => IInv /\ FileInv
  BY InitIInv, InitFile
<1>2. IInv /\ FileInv /\ [Next]_vars => (IInv /\ FileInv)'
  BY NextIInv, NextFile
<1>. QED
  BY <1>1, <1>2, PTL DEF Spec

-----------------------------------------------------------------------------
(***************************************************************************)
(* The reader.                                                             *)
(***************************************************************************)
LEMMA Claims ==
  ASSUME FileInv, NEW p \in DOMAIN file, "claims" \in DOMAIN file[p]
  PROVE  file[p].claims \in Nat
<1>1. file[p] \in Cell
  BY DEF FileInv
<1>. QED
  BY <1>1 DEF Cell

LEMMA BehindType ==
  ASSUME FileInv, NEW p \in Nat
  PROVE  Behind(p) \in Nat
BY Claims DEF Behind, IsRecord, IsHead

LEMMA ReaderSteps ==
  ASSUME FileInv
  PROVE  /\ Reader[0] = 1
         /\ \A k \in Nat : Reader[k + 1] = Behind(Reader[k])
<1>. DEFINE step == [x \in Nat \X Nat |-> Behind(x[2])]
<1>1. step \in [Nat \X Nat -> Nat]
  BY BehindType
<1>2. \A k, p \in Nat : step[<<k, p>>] = Behind(p)
  OBVIOUS
<1>. HIDE DEF step
<1>3. PICK f \in [Nat -> Nat] : Iterates(f, 1, step)
  BY <1>1, Recursion, 1 \in Nat
<1>4. f[0] = 1 /\ \A k \in Nat : f[k + 1] = Behind(f[k])
  BY <1>2, <1>3 DEF Iterates
<1>. DEFINE body(g) == [k \in Nat |-> IF k = 0 THEN 1 ELSE Behind(g[k - 1])]
<1>5. f = body(f)
  <2>1. \A k \in Nat : k # 0 => k - 1 \in Nat /\ (k - 1) + 1 = k
    OBVIOUS
  <2>2. \A k \in Nat : f[k] = IF k = 0 THEN 1 ELSE Behind(f[k - 1])
    BY <1>4, <2>1
  <2>. QED
    BY <1>3, <2>2
<1>6. Reader = body(Reader)
  <2>1. Reader = CHOOSE g : g = body(g)
    BY DEF Reader
  <2>. HIDE DEF body
  <2>. QED
    BY <1>5, <2>1
<1>7. Reader[0] = 1
  BY <1>6
<1>8. ASSUME NEW k \in Nat PROVE Reader[k + 1] = Behind(Reader[k])
  <2>1. k + 1 \in Nat /\ k + 1 # 0 /\ (k + 1) - 1 = k
    OBVIOUS
  <2>. QED
    BY <1>6, <2>1
<1>. QED
  BY <1>7, <1>8

\* As long as every append left a whole record or nothing, the reader gets to
\* where the next one begins.
LEMMA ReaderReaches ==
  ASSUME FileInv, outcome \in Seq(Outcomes), NEW pos, Laid(pos),
         NEW i \in 1..(Len(outcome) + 1), CleanUpTo(i - 1)
  PROVE  pos[i] \in Reached
<1>. DEFINE S == { n \in Nat : n <= Len(outcome) /\ CleanUpTo(n) =>
                     \E k \in 0..(pos[n + 1] - 1) : Reader[k] = pos[n + 1] }
<1>1. Len(outcome) \in Nat /\ DOMAIN outcome = 1..Len(outcome) /\ Len(file) \in Nat
  BY DEF FileInv
<1>2. 0 \in S
  <2>1. pos[0 + 1] = 1 /\ Reader[0] = 1
    BY ReaderSteps DEF Laid
  <2>2. 0 \in 0..(pos[0 + 1] - 1) /\ Reader[0] = pos[0 + 1]
    BY <2>1
  <2>3. \E k \in 0..(pos[0 + 1] - 1) : Reader[k] = pos[0 + 1]
    BY <2>2
  <2>. QED
    BY <2>3
<1>3. ASSUME NEW n \in Nat, n \in S PROVE n + 1 \in S
  <2>. SUFFICES ASSUME n + 1 <= Len(outcome), CleanUpTo(n + 1)
                PROVE  \E k \in 0..(pos[n + 2] - 1) : Reader[k] = pos[n + 2]
    BY <1>1
  <2>1. CleanUpTo(n) /\ outcome[n + 1] \in {"whole", "absent"}
    BY DEF CleanUpTo
  <2>2. PICK k \in 0..(pos[n + 1] - 1) : Reader[k] = pos[n + 1]
    BY <1>1, <1>3, <2>1
  <2>3. PICK p, q : p = pos[n + 1] /\ q = pos[n + 2] /\ p \in Nat /\ q \in Nat /\ p <= Len(file) + 1
                    /\ Block(n + 1, p, q)
    <3>1. n + 1 \in 1..(Len(outcome) + 1) /\ n + 2 \in 1..(Len(outcome) + 1)
          /\ n + 1 \in DOMAIN outcome /\ (n + 1) + 1 = n + 2
      BY <1>1
    <3>2. pos[n + 1] \in 1..(Len(file) + 1) /\ pos[n + 2] \in 1..(Len(file) + 1)
      BY <3>1 DEF Laid
    <3>3. Block(n + 1, pos[n + 1], pos[n + 2])
      BY <3>1 DEF Laid
    <3>. QED
      BY <1>1, <3>2, <3>3
  <2>4. k \in Nat /\ k < p
    BY <2>2, <2>3
  <2>5. CASE outcome[n + 1] = "absent"
    <3>1. q = p
      BY <2>3, <2>5 DEF Block
    <3>. QED
      BY <2>2, <2>3, <3>1
  <2>6. CASE outcome[n + 1] = "whole"
    <3>1. p < q /\ "claims" \in DOMAIN file[p] /\ q = p + 1 + file[p].claims
          /\ q <= Len(file) + 1 /\ p \in DOMAIN file
      BY <1>1, <2>3, <2>6 DEF Block, FileInv
    <3>2. file[p].claims \in Nat
      BY <3>1, Claims
    <3>3. IsRecord(p)
      <4>1. PICK c \in Nat : c = file[p].claims
        BY <3>2
      <4>2. p + c <= Len(file)
        <5>1. q = p + 1 + c /\ q <= Len(file) + 1 /\ p \in Nat /\ Len(file) \in Nat
          BY <1>1, <2>3, <3>1, <4>1
        <5>. QED
          BY <4>1, <5>1
      <4>. QED
        BY <3>1, <4>1, <4>2 DEF IsRecord, IsHead
    <3>4. Behind(p) = q
      BY <3>1, <3>3 DEF Behind
    <3>5. Reader[k + 1] = q
      BY <2>2, <2>3, <2>4, <3>4, ReaderSteps
    <3>6. k + 1 \in 0..(q - 1)
      BY <2>3, <2>4, <3>1
    <3>. QED
      BY <2>3, <3>5, <3>6
  <2>. QED
    BY <2>1, <2>5, <2>6
<1>. HIDE DEF S
<1>4. Nat \subseteq S
  BY <1>2, <1>3, Induction
<1>5. i - 1 \in Nat /\ i - 1 <= Len(outcome) /\ (i - 1) + 1 = i
  BY <1>1
<1>6. PICK k \in 0..(pos[i] - 1) : Reader[k] = pos[i]
  BY <1>4, <1>5 DEF S
<1>7. pos[i] \in 1..(Len(file) + 1)
  BY DEF Laid
<1>8. k \in 0..Len(file)
  BY <1>1, <1>6, <1>7
<1>. QED
  BY <1>6, <1>8 DEF Reached

\* pcap.rs:93: whatever tasks append at the same time, whatever writes fail, and
\* wherever the process is killed, a reader gets back, in order and each with its
\* own frame, the records up to the first torn or wrapped one; without one, all.
THEOREM RecordsReadBack == Spec => []ReadsBack
<1>1. IInv /\ FileInv => ReadsBack
  <2>. SUFFICES ASSUME IInv, FileInv PROVE ReadsBack
    OBVIOUS
  <2>1. PICK pos : Laid(pos)
    BY DEF FileInv
  <2>2. outcome \in Seq(Outcomes) /\ Len(outcome) \in Nat /\ DOMAIN outcome = 1..Len(outcome)
        /\ Len(file) \in Nat /\ DOMAIN file = 1..Len(file)
    BY DEF IInv, Typed, FileInv
  <2>3. ASSUME NEW i \in Intact
        PROVE  /\ pos[i] \in Records
               /\ { q \in DOMAIN file : file[q].id = i } = pos[i]..(pos[i] + file[pos[i]].claims)
               /\ \A q \in DOMAIN file : IsHead(q) /\ file[q].id = i => q = pos[i]
    <3>1. i \in DOMAIN outcome /\ outcome[i] = "whole" /\ CleanUpTo(i)
      BY DEF Intact
    <3>2. pos[i] \in Reached
      <4>1. CleanUpTo(i - 1) /\ i \in 1..(Len(outcome) + 1)
        BY <2>2, <3>1 DEF CleanUpTo
      <4>. QED
        BY <2>1, <2>2, <4>1, ReaderReaches
    <3>3. PICK p, q : p = pos[i] /\ q = pos[i + 1] /\ Block(i, p, q)
      BY <2>1, <3>1 DEF Laid
    <3>4. /\ p \in Nat /\ q \in Nat /\ p < q /\ q <= Len(file) + 1 /\ p \in DOMAIN file
          /\ "claims" \in DOMAIN file[p] /\ q = p + 1 + file[p].claims
          /\ \A r \in DOMAIN file : file[r].id = i <=> r \in p..(q - 1)
          /\ \A r \in (p + 1)..(q - 1) : "claims" \notin DOMAIN file[r]
      BY <2>2, <3>1, <3>3 DEF Block
    <3>5. PICK c \in Nat : c = file[p].claims
      BY <3>4, Claims
    <3>6. IsRecord(p)
      BY <2>2, <3>4, <3>5 DEF IsRecord, IsHead
    <3>7. p..(q - 1) = p..(p + c) /\ \A r \in p..(q - 1) : r \in DOMAIN file
      BY <2>2, <3>4, <3>5
    <3>8. { r \in DOMAIN file : file[r].id = i } = p..(p + c)
      BY <3>4, <3>7
    <3>9. ASSUME NEW r \in DOMAIN file, IsHead(r), file[r].id = i PROVE r = p
      <4>1. r \in p..(q - 1) /\ "claims" \in DOMAIN file[r]
        BY <3>4, <3>9 DEF IsHead
      <4>2. r \notin (p + 1)..(q - 1)
        BY <3>4, <4>1
      <4>. QED
        BY <3>4, <4>1, <4>2
    <3>. QED
      BY <3>2, <3>3, <3>5, <3>6, <3>8, <3>9 DEF Records
  <2>4. ASSUME NEW p \in Records, NEW q \in Records, p < q, file[p].id \in Intact
        PROVE  file[p].id < file[q].id
    <3>1. p \in DOMAIN file /\ q \in DOMAIN file /\ IsHead(p) /\ IsHead(q)
      BY DEF Records, IsRecord, IsHead
    <3>2. file[p].id <= file[q].id /\ file[p].id \in Nat /\ file[q].id \in Nat
      BY <2>2, <2>4, <3>1 DEF FileInv
    <3>3. ASSUME file[q].id = file[p].id PROVE FALSE
      <4>1. PICK i \in Intact : i = file[p].id
        BY <2>4
      <4>2. p = pos[i] /\ q = pos[i]
        BY <2>3, <3>1, <3>3, <4>1
      <4>. QED
        BY <2>2, <2>4, <3>1, <4>2
    <3>. QED
      BY <3>2, <3>3
  <2>5. CleanUpTo(Len(outcome)) => Len(file) + 1 \in Reached
    <3>1. pos[Len(outcome) + 1] = Len(file) + 1
      BY <2>1 DEF Laid
    <3>2. Len(outcome) + 1 \in 1..(Len(outcome) + 1) /\ (Len(outcome) + 1) - 1 = Len(outcome)
      BY <2>2
    <3>. QED
      BY <2>1, <2>2, <3>1, <3>2, ReaderReaches
  <2>. QED
    BY <2>3, <2>4, <2>5 DEF ReadsBack
<1>. QED
  BY SpecFile, <1>1, PTL
=============================================================================
