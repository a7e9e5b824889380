----------------------------- MODULE RunLoopProofs -----------------------------
(***************************************************************************)
(* Proofs about DeviceTable, and about RunLoop, which extends it, for any  *)
(* reports, addresses, MACs and command lines, and any number of reports,  *)
(* ticks and signals.                                                      *)
(*                                                                         *)
(* Every step that changes the table is Accept(d).  AcceptEffect says once *)
(* what such a step does, whether it inserts or updates; each conjunct of  *)
(* the table's inductive invariant, IInv, is then preserved because of it. *)
(*                                                                         *)
(* Every step of the loop is a step of the table or leaves it alone, so    *)
(* IInv holds of the loop's table too (RunKeepsTable).  RunInv adds what   *)
(* the loop and its output have besides.                                   *)
(***************************************************************************)
EXTENDS RunLoop, SequenceTheorems, TLAPS

\* Each entry is stored under its own key.
EntriesKeyed == \A k \in DOMAIN entries : KeyOf(entries[k]) = k

\* The stored row is at least as good as every row streamed for its key.
RowsBelowEntries ==
  \A i \in DOMAIN rows :
    LET e == entries[KeyOf(rows[i])]
    IN  /\ KeyOf(rows[i]) \in DOMAIN entries
        /\ rows[i].version <= e.version
        /\ rows[i].ip = e.ip
        /\ rows[i].mac # NoMac => e.mac # NoMac

Keyed == TypeOK /\ EntriesKeyed

IInv ==
  /\ Keyed
  /\ OrderEnumeratesEntries
  /\ StreamAgreesWithBatch
  /\ RowsBelowEntries
  /\ RowsImprove
  /\ BestReportWins
  /\ MacBelongsToKey
  /\ FilteredFamilyNeverShown

\* The row an accepted report leaves in the table, and how it relates to the
\* report and to the row it replaces.
RowFor(d, r) ==
  /\ r \in Device
  /\ r.version  = d.version
  /\ r.protocol = d.protocol
  /\ r.ip       = d.ip
  /\ r.mac # NoMac =>
       r.mac = d.mac \/ (Known(d) /\ r.mac = entries[KeyOf(d)].mac)
  /\ Known(d) => /\ r.version > entries[KeyOf(d)].version
                 /\ r.ip = entries[KeyOf(d)].ip
                 /\ entries[KeyOf(d)].mac # NoMac => r.mac # NoMac

-----------------------------------------------------------------------------
\* The key of a report is a key, and depends on its protocol and address only.
LEMMA KeyOfType ==
  ASSUME NEW d \in Device
  PROVE  KeyOf(d) \in Key
BY DEF KeyOf, Key, Device

LEMMA KeyOfDetermined ==
  ASSUME NEW c, NEW d, c.protocol = d.protocol, c.ip = d.ip
  PROVE  KeyOf(c) = KeyOf(d)
BY DEF KeyOf

\* An accepted report becomes exactly one entry, under its key; the other
\* entries stay, and a key that was unknown joins the end of `order`.
LEMMA AcceptEffect ==
  ASSUME Keyed, NEW d \in Reports, Accept(d)
  PROVE  \E r : /\ RowFor(d, r)
                /\ KeyOf(r) = KeyOf(d)
                /\ entries' = [k \in DOMAIN entries \cup {KeyOf(d)} |->
                                 IF k = KeyOf(d) THEN r ELSE entries[k]]
                /\ rows' = Append(rows, r)
                /\ seen' = seen \cup {d}
                /\ order' = IF Known(d) THEN order
                                        ELSE Append(order, KeyOf(d))
<1>. DEFINE k == KeyOf(d)
<1>1. d \in Device
  BY ReportsAssumption
<1>2. CASE Insert(d)
  <2>1. RowFor(d, d)
    BY <1>1, <1>2 DEF RowFor, Insert
  <2>2. entries'[k] = d
    BY <1>2 DEF Insert
  <2>. QED
    BY <1>2, <2>1, <2>2 DEF Accept, Insert, Returned
<1>3. CASE Update(d)
  <2>. DEFINE old == entries[k]
  <2>1. k \in DOMAIN entries /\ old \in Device /\ KeyOf(old) = k
    BY <1>3 DEF Update, Known, Keyed, TypeOK, EntriesKeyed
  <2>2. old.ip = d.ip
    BY <1>1, <2>1 DEF KeyOf, Device
  <2>3. RowFor(d, Merged(d))
    <3>1. Merged(d) \in Device
      BY <1>1, <2>1 DEF Merged, Device
    <3>2. /\ Merged(d).version = d.version
          /\ Merged(d).protocol = d.protocol
          /\ Merged(d).ip = old.ip
          /\ Merged(d).mac = IF d.mac = NoMac THEN old.mac ELSE d.mac
      BY <1>1 DEF Merged, Device
    <3>3. d.version > old.version
      BY <1>3 DEF Update, Better
    <3>. QED
      BY <2>1, <2>2, <3>1, <3>2, <3>3 DEF RowFor, Known
  <2>4. KeyOf(Merged(d)) = k
    BY <2>3, KeyOfDetermined DEF RowFor
  <2>5. entries' = [x \in DOMAIN entries \cup {k} |->
                      IF x = k THEN Merged(d) ELSE entries[x]]
    BY <1>3, <2>1 DEF Update
  <2>6. entries'[k] = Merged(d)
    BY <2>5
  <2>. QED
    BY <1>3, <2>3, <2>4, <2>5, <2>6 DEF Accept, Update, Returned
<1>. QED
  BY <1>2, <1>3 DEF Accept

-----------------------------------------------------------------------------
\* The initial state, an empty table, satisfies the inductive invariant.
LEMMA InitIInv == Init => IInv
BY DEF Init, IInv, Keyed, TypeOK, EntriesKeyed, OrderEnumeratesEntries,
       StreamAgreesWithBatch, RowsBelowEntries, RowsImprove, BestReportWins,
       MacBelongsToKey, FilteredFamilyNeverShown

\* Types and keys survive an accepted report.
LEMMA AcceptKeyed ==
  ASSUME Keyed, NEW d \in Reports, Accept(d)
  PROVE  Keyed'
<1>. DEFINE k == KeyOf(d)
<1>1. PICK r : /\ RowFor(d, r)
               /\ KeyOf(r) = k
               /\ entries' = [x \in DOMAIN entries \cup {k} |->
                                IF x = k THEN r ELSE entries[x]]
               /\ rows' = Append(rows, r)
               /\ seen' = seen \cup {d}
               /\ order' = IF Known(d) THEN order ELSE Append(order, k)
  BY AcceptEffect
<1>2. d \in Device /\ k \in Key /\ r \in Device
  BY <1>1, ReportsAssumption, KeyOfType DEF RowFor
<1>3. order' \in Seq(Key) /\ rows' \in Seq(Device) /\ seen' \subseteq Device
  BY <1>1, <1>2 DEF Keyed, TypeOK
<1>4. DOMAIN entries' = DOMAIN entries \cup {k}
  BY <1>1
<1>5. \A x \in DOMAIN entries' : entries'[x] \in Device /\ KeyOf(entries'[x]) = x
  BY <1>1, <1>2, <1>4 DEF Keyed, TypeOK, EntriesKeyed
<1>. QED
  BY <1>2, <1>3, <1>4, <1>5 DEF Keyed, TypeOK, EntriesKeyed

\* `order` stays an enumeration of the keys: an unknown key joins both
\* collections, a known one neither.
LEMMA AcceptOrder ==
  ASSUME Keyed, OrderEnumeratesEntries, NEW d \in Reports, Accept(d)
  PROVE  OrderEnumeratesEntries'
<1>. DEFINE k == KeyOf(d)
<1>1. PICK r : /\ entries' = [x \in DOMAIN entries \cup {k} |->
                                IF x = k THEN r ELSE entries[x]]
               /\ order' = IF Known(d) THEN order ELSE Append(order, k)
  BY AcceptEffect
<1>2. DOMAIN entries' = DOMAIN entries \cup {k}
  BY <1>1
<1>3. CASE Known(d)
  BY <1>1, <1>2, <1>3 DEF Known, OrderEnumeratesEntries
<1>4. CASE ~Known(d)
  <2>1. order \in Seq(Key) /\ order' = Append(order, k) /\ k \in Key
    BY <1>1, <1>4, KeyOfType, ReportsAssumption DEF Keyed, TypeOK
  <2>2. /\ DOMAIN order = 1..Len(order)
        /\ DOMAIN order' = 1..(Len(order) + 1)
        /\ \A i \in DOMAIN order : order'[i] = order[i]
        /\ order'[Len(order) + 1] = k
        /\ Len(order) \in Nat
    BY <2>1
  <2>3. \A i \in DOMAIN order : order[i] # k
    BY <1>4 DEF Known, OrderEnumeratesEntries
  <2>4. \A i \in DOMAIN order' : order'[i] \in DOMAIN entries'
    BY <1>2, <2>2 DEF OrderEnumeratesEntries
  <2>5. \A x \in DOMAIN entries' : \E i \in DOMAIN order' : order'[i] = x
    <3>1. \A x \in DOMAIN entries : \E i \in DOMAIN order' : order'[i] = x
      BY <2>2 DEF OrderEnumeratesEntries
    <3>2. \E i \in DOMAIN order' : order'[i] = k
      BY <2>2
    <3>. QED
      BY <1>2, <3>1, <3>2
  <2>6. \A i, j \in DOMAIN order' : order'[i] = order'[j] => i = j
    BY <2>2, <2>3 DEF OrderEnumeratesEntries
  <2>. QED
    BY <2>4, <2>5, <2>6 DEF OrderEnumeratesEntries
<1>. QED
  BY <1>3, <1>4

\* The rows streamed, the entries, and how they compare, after an accepted
\* report: the new row is both the last one streamed and the one stored.
LEMMA AcceptStream ==
  ASSUME Keyed, StreamAgreesWithBatch, RowsBelowEntries, RowsImprove,
         NEW d \in Reports, Accept(d)
  PROVE  StreamAgreesWithBatch' /\ RowsBelowEntries' /\ RowsImprove'
<1>. DEFINE k == KeyOf(d)
            n == Len(rows) + 1
<1>1. PICK r : /\ RowFor(d, r)
               /\ KeyOf(r) = k
               /\ entries' = [x \in DOMAIN entries \cup {k} |->
                                IF x = k THEN r ELSE entries[x]]
               /\ rows' = Append(rows, r)
  BY AcceptEffect
<1>2. /\ DOMAIN entries' = DOMAIN entries \cup {k}
      /\ entries'[k] = r
      /\ \A x \in DOMAIN entries : x # k => entries'[x] = entries[x]
  BY <1>1
<1>3. /\ DOMAIN rows = 1..Len(rows)
      /\ DOMAIN rows' = 1..n
      /\ \A i \in DOMAIN rows : rows'[i] = rows[i] /\ rows[i] \in Device
      /\ rows'[n] = r
      /\ Len(rows) \in Nat
  BY <1>1 DEF Keyed, TypeOK, RowFor
<1>4. \A i \in DOMAIN rows : KeyOf(rows'[i]) = KeyOf(rows[i])
  BY <1>3
<1>5. KeyOf(rows'[n]) = k
  BY <1>1, <1>3
<1>6. r \in Device /\ (k \in DOMAIN entries => entries[k] \in Device)
  BY <1>1 DEF RowFor, Keyed, TypeOK
<1>7. \A i \in DOMAIN rows :
        KeyOf(rows[i]) = k => /\ rows[i].version < r.version
                              /\ rows[i].ip = r.ip
                              /\ rows[i].mac # NoMac => r.mac # NoMac
  <2>. TAKE i \in DOMAIN rows
  <2>. HAVE KeyOf(rows[i]) = k
  <2>1. k \in DOMAIN entries /\ rows[i].version <= entries[k].version
        /\ rows[i].ip = entries[k].ip
        /\ (rows[i].mac # NoMac => entries[k].mac # NoMac)
    BY DEF RowsBelowEntries
  <2>2. /\ r.version > entries[k].version
        /\ r.ip = entries[k].ip
        /\ entries[k].mac # NoMac => r.mac # NoMac
    BY <1>1, <2>1 DEF RowFor, Known
  <2>3. rows[i].version \in Nat /\ entries[k].version \in Nat /\ r.version \in Nat
    BY <1>3, <1>6, <2>1 DEF Device
  <2>. QED
    BY <2>1, <2>2, <2>3
<1>8. StreamAgreesWithBatch'
  <2>1. \A i \in DOMAIN rows' : KeyOf(rows'[i]) \in DOMAIN entries'
    BY <1>2, <1>3, <1>4, <1>5 DEF StreamAgreesWithBatch
  <2>2. ASSUME NEW x \in DOMAIN entries'
        PROVE  \E i \in DOMAIN rows' :
                 /\ rows'[i] = entries'[x]
                 /\ \A j \in DOMAIN rows' : j > i => KeyOf(rows'[j]) # x
    <3>1. CASE x = k
      <4>1. n \in DOMAIN rows' /\ rows'[n] = entries'[x]
        BY <1>2, <1>3, <3>1
      <4>2. \A j \in DOMAIN rows' : ~(j > n)
        BY <1>3
      <4>. QED
        BY <4>1, <4>2
    <3>2. CASE x # k
      <4>1. x \in DOMAIN entries /\ entries'[x] = entries[x]
        BY <1>2, <3>2
      <4>2. PICK i \in DOMAIN rows :
              /\ rows[i] = entries[x]
              /\ \A j \in DOMAIN rows : j > i => KeyOf(rows[j]) # x
        BY <4>1 DEF StreamAgreesWithBatch
      <4>3. \A j \in DOMAIN rows' : j > i => KeyOf(rows'[j]) # x
        BY <1>3, <1>4, <1>5, <3>2, <4>2
      <4>. QED
        BY <1>3, <4>1, <4>2, <4>3
    <3>. QED
      BY <3>1, <3>2
  <2>. QED
    BY <2>1, <2>2 DEF StreamAgreesWithBatch
<1>9. RowsBelowEntries'
  <2>1. ASSUME NEW i \in DOMAIN rows'
        PROVE  LET e == entries'[KeyOf(rows'[i])]
               IN  /\ KeyOf(rows'[i]) \in DOMAIN entries'
                   /\ rows'[i].version <= e.version
                   /\ rows'[i].ip = e.ip
                   /\ rows'[i].mac # NoMac => e.mac # NoMac
    <3>1. CASE i = n
      BY <1>2, <1>3, <1>5, <1>6, <3>1 DEF Device
    <3>2. CASE i \in DOMAIN rows /\ KeyOf(rows[i]) = k
      <4>1. rows[i].version \in Nat /\ r.version \in Nat
        BY <1>3, <1>6, <3>2 DEF Device
      <4>. QED
        BY <1>2, <1>3, <1>4, <1>7, <3>2, <4>1
    <3>3. CASE i \in DOMAIN rows /\ KeyOf(rows[i]) # k
      BY <1>2, <1>3, <1>4, <3>3 DEF RowsBelowEntries
    <3>. QED
      BY <1>3, <3>1, <3>2, <3>3
  <2>. QED
    BY <2>1 DEF RowsBelowEntries
<1>10. RowsImprove'
  <2>. SUFFICES ASSUME NEW i \in DOMAIN rows', NEW j \in DOMAIN rows',
                       i < j, KeyOf(rows'[i]) = KeyOf(rows'[j])
                PROVE  /\ rows'[i].version < rows'[j].version
                       /\ rows'[i].ip = rows'[j].ip
                       /\ rows'[i].mac # NoMac => rows'[j].mac # NoMac
    BY DEF RowsImprove
  <2>1. i \in DOMAIN rows
    BY <1>3
  <2>2. CASE j = n
    BY <1>3, <1>4, <1>5, <1>7, <2>1, <2>2
  <2>3. CASE j \in DOMAIN rows
    BY <1>3, <1>4, <2>1, <2>3 DEF RowsImprove
  <2>. QED
    BY <1>3, <2>2, <2>3
<1>. QED
  BY <1>8, <1>9, <1>10

\* The table against the reports accepted so far, after an accepted report.
LEMMA AcceptReports ==
  ASSUME Keyed, BestReportWins, MacBelongsToKey, FilteredFamilyNeverShown,
         NEW d \in Reports, Accept(d)
  PROVE  BestReportWins' /\ MacBelongsToKey' /\ FilteredFamilyNeverShown'
<1>. DEFINE k == KeyOf(d)
<1>1. PICK r : /\ RowFor(d, r)
               /\ KeyOf(r) = k
               /\ entries' = [x \in DOMAIN entries \cup {k} |->
                                IF x = k THEN r ELSE entries[x]]
               /\ rows' = Append(rows, r)
               /\ seen' = seen \cup {d}
  BY AcceptEffect
<1>2. /\ DOMAIN entries' = DOMAIN entries \cup {k}
      /\ entries'[k] = r
      /\ \A x \in DOMAIN entries : x # k => entries'[x] = entries[x]
  BY <1>1
<1>3. /\ r \in Device
      /\ d \in Device
      /\ seen \subseteq Device
      /\ \A x \in DOMAIN entries : entries[x] \in Device
  BY <1>1, ReportsAssumption DEF RowFor, Keyed, TypeOK
<1>4. BestReportWins'
  <2>1. ASSUME NEW c \in seen'
        PROVE  KeyOf(c) \in DOMAIN entries' /\ c.version <= entries'[KeyOf(c)].version
    <3>1. CASE c = d
      <4>1. r.version = d.version /\ r.version \in Nat
        BY <1>1, <1>3 DEF RowFor, Device
      <4>. QED
        BY <1>2, <3>1, <4>1
    <3>2. CASE c \in seen /\ KeyOf(c) = k
      <4>1. k \in DOMAIN entries /\ c.version <= entries[k].version
        BY <3>2 DEF BestReportWins
      <4>2. r.version > entries[k].version
        BY <1>1, <4>1 DEF RowFor, Known
      <4>3. c.version \in Nat /\ entries[k].version \in Nat /\ r.version \in Nat
        BY <1>3, <3>2, <4>1 DEF Device
      <4>. QED
        BY <1>2, <3>2, <4>1, <4>2, <4>3
    <3>3. CASE c \in seen /\ KeyOf(c) # k
      BY <1>2, <3>3 DEF BestReportWins
    <3>. QED
      BY <1>1, <3>1, <3>2, <3>3
  <2>2. ASSUME NEW x \in DOMAIN entries'
        PROVE  \E c \in seen' : /\ KeyOf(c) = x
                                /\ c.version  = entries'[x].version
                                /\ c.protocol = entries'[x].protocol
    <3>1. CASE x = k
      <4>1. d.version = r.version /\ d.protocol = r.protocol
        BY <1>1 DEF RowFor
      <4>. QED
        BY <1>1, <1>2, <3>1, <4>1
    <3>2. CASE x # k
      BY <1>1, <1>2, <3>2 DEF BestReportWins
    <3>. QED
      BY <3>1, <3>2
  <2>. QED
    BY <2>1, <2>2 DEF BestReportWins
<1>5. MacBelongsToKey'
  <2>1. ASSUME NEW x \in DOMAIN entries', entries'[x].mac # NoMac
        PROVE  \E c \in seen' : KeyOf(c) = x /\ c.mac = entries'[x].mac
    <3>1. CASE x = k
      <4>1. r.mac # NoMac
        BY <1>2, <2>1, <3>1
      <4>2. r.mac = d.mac \/ (Known(d) /\ r.mac = entries[k].mac)
        BY <1>1, <4>1 DEF RowFor
      <4>3. CASE r.mac = d.mac
        BY <1>1, <1>2, <3>1, <4>3
      <4>4. CASE Known(d) /\ r.mac = entries[k].mac
        BY <1>1, <1>2, <3>1, <4>1, <4>4 DEF MacBelongsToKey, Known
      <4>. QED
        BY <4>2, <4>3, <4>4
    <3>2. CASE x # k
      BY <1>1, <1>2, <2>1, <3>2 DEF MacBelongsToKey
    <3>. QED
      BY <3>1, <3>2
  <2>. QED
    BY <2>1 DEF MacBelongsToKey
<1>6. FilteredFamilyNeverShown'
  <2>1. FamilyEnabled(r.ip)
    <3>1. FamilyOk(d) /\ r.ip = d.ip
      BY <1>1 DEF Accept, RowFor
    <3>. QED
      BY <3>1, FamilyAssumption DEF FamilyOk, FamilyEnabled
  <2>2. \A x \in DOMAIN entries' : FamilyEnabled(entries'[x].ip)
    BY <1>2, <2>1 DEF FilteredFamilyNeverShown
  <2>3. rows \in Seq(Device)
    BY DEF Keyed, TypeOK
  <2>4. \A i \in DOMAIN rows' : FamilyEnabled(rows'[i].ip)
    <3>1. /\ DOMAIN rows' = 1..(Len(rows) + 1)
          /\ DOMAIN rows = 1..Len(rows)
          /\ \A i \in DOMAIN rows : rows'[i] = rows[i]
          /\ rows'[Len(rows) + 1] = r
          /\ Len(rows) \in Nat
      BY <1>1, <1>3, <2>3
    <3>. QED
      BY <2>1, <3>1 DEF FilteredFamilyNeverShown
  <2>. QED
    BY <2>2, <2>4 DEF FilteredFamilyNeverShown
<1>. QED
  BY <1>4, <1>5, <1>6

\* A report that does not beat the stored row joins `seen` and changes
\* nothing else.
LEMMA DropIInv ==
  ASSUME IInv, NEW d \in Reports, Drop(d)
  PROVE  IInv'
<1>1. UNCHANGED <<entries, order, rows>> /\ seen' = seen \cup {d}
  BY DEF Drop, Ignore, table
<1>2. d \in Device
  BY ReportsAssumption
<1>3. Keyed'
  BY <1>1, <1>2 DEF IInv, Keyed, TypeOK, EntriesKeyed
<1>4. OrderEnumeratesEntries' /\ StreamAgreesWithBatch' /\ RowsBelowEntries'
      /\ RowsImprove' /\ FilteredFamilyNeverShown'
  BY <1>1 DEF IInv, OrderEnumeratesEntries, StreamAgreesWithBatch,
              RowsBelowEntries, RowsImprove, FilteredFamilyNeverShown
<1>5. BestReportWins'
  <2>1. /\ KeyOf(d) \in DOMAIN entries
        /\ ~(d.version > entries[KeyOf(d)].version)
        /\ d.version \in Nat
    BY <1>2 DEF Drop, Ignore, Known, Better, Device
  <2>2. entries[KeyOf(d)].version \in Nat
    BY <2>1 DEF IInv, Keyed, TypeOK, Device
  <2>3. d.version <= entries[KeyOf(d)].version
    BY <2>1, <2>2
  <2>4. /\ \A c \in seen : /\ KeyOf(c) \in DOMAIN entries
                           /\ c.version <= entries[KeyOf(c)].version
        /\ \A k \in DOMAIN entries :
             \E c \in seen : /\ KeyOf(c) = k
                             /\ c.version  = entries[k].version
                             /\ c.protocol = entries[k].protocol
    BY DEF IInv, BestReportWins
  <2>. QED
    BY <1>1, <2>1, <2>3, <2>4 DEF BestReportWins
<1>6. MacBelongsToKey'
  BY <1>1 DEF IInv, MacBelongsToKey
<1>. QED
  BY <1>3, <1>4, <1>5, <1>6 DEF IInv

\* The invariant is inductive.
LEMMA NextIInv == IInv /\ [Next]_vars => IInv'
<1>. SUFFICES ASSUME IInv, [Next]_vars PROVE IInv'
  OBVIOUS
<1>1. ASSUME NEW d \in Reports, Accept(d) PROVE IInv'
  <2>. USE <1>1 DEF IInv
  <2>1. Keyed'
    BY AcceptKeyed
  <2>2. OrderEnumeratesEntries'
    BY AcceptOrder
  <2>3. StreamAgreesWithBatch' /\ RowsBelowEntries' /\ RowsImprove'
    BY AcceptStream
  <2>4. BestReportWins' /\ MacBelongsToKey' /\ FilteredFamilyNeverShown'
    BY AcceptReports
  <2>. QED
    BY <2>1, <2>2, <2>3, <2>4
<1>2. ASSUME NEW d \in Reports, Drop(d) PROVE IInv'
  BY <1>2, DropIInv
<1>3. CASE UNCHANGED vars
  BY <1>3 DEF vars, IInv, Keyed, TypeOK, EntriesKeyed, OrderEnumeratesEntries,
              StreamAgreesWithBatch, RowsBelowEntries, RowsImprove,
              BestReportWins, MacBelongsToKey, FilteredFamilyNeverShown
<1>. QED
  BY <1>1, <1>2, <1>3 DEF Next, Add, Reject

LEMMA SpecIInv == Spec => []IInv
BY InitIInv, NextIInv, PTL DEF Spec

-----------------------------------------------------------------------------
\* Type correctness, for every set of reports.
THEOREM TypeCorrect == Spec => []TypeOK
<1>1. IInv => TypeOK
  BY DEF IInv, Keyed
<1>. QED
  BY SpecIInv, <1>1, PTL

\* DeviceTable::all prints every device once and omits none.
THEOREM BatchPrintsEachDeviceOnce == Spec => []OrderEnumeratesEntries
<1>1. IInv => OrderEnumeratesEntries
  BY DEF IInv
<1>. QED
  BY SpecIInv, <1>1, PTL

\* The last row streamed for a device is the row --batch would print for it.
THEOREM StreamingAgreesWithBatch == Spec => []StreamAgreesWithBatch
<1>1. IInv => StreamAgreesWithBatch
  BY DEF IInv
<1>. QED
  BY SpecIInv, <1>1, PTL

\* Rows streamed for one device strictly improve and never lose the MAC.
THEOREM StreamedRowsImprove == Spec => []RowsImprove
<1>1. IInv => RowsImprove
  BY DEF IInv
<1>. QED
  BY SpecIInv, <1>1, PTL

\* The table is the best of the reports, in whatever order they came.
THEOREM TableHoldsBestReports == Spec => []BestReportWins
<1>1. IInv => BestReportWins
  BY DEF IInv
<1>. QED
  BY SpecIInv, <1>1, PTL

\* A MAC is never attributed to another device.
THEOREM MacNeverCrossesDevices == Spec => []MacBelongsToKey
<1>1. IInv => MacBelongsToKey
  BY DEF IInv
<1>. QED
  BY SpecIInv, <1>1, PTL

\* A disabled address family never shows.
THEOREM FamilyFilterHolds == Spec => []FilteredFamilyNeverShown
<1>1. IInv => FilteredFamilyNeverShown
  BY DEF IInv
<1>. QED
  BY SpecIInv, <1>1, PTL

-----------------------------------------------------------------------------
(***************************************************************************)
(* The loop.                                                               *)
(***************************************************************************)
\* The types that do not come from the table: an engine sends its reports only.
ChannelTyped ==
  /\ stdout \in Seq(Device \cup {Header})
  /\ sent \in Seq(Reports) /\ taken \in 0..Len(sent)

ControlTyped ==
  /\ args \in Args
  /\ pc \in {"boot", "polling", "waiting", "stopping", "flushing",
             "interrupted", "exited"}
  /\ code \in {NoCode, Killed, 0, 1, 130}
  /\ due \in BOOLEAN /\ installed \in BOOLEAN /\ notified \in BOOLEAN
  /\ guard \in {"none", "spawned", "listening"}

CountersTyped ==
  /\ ticks \in Nat /\ scans \in Nat /\ ticks + scans <= MaxTicks
  /\ signals \in 0..MaxSignals

LoopTyped == ChannelTyped /\ ControlTyped /\ CountersTyped /\ repeat \in BOOLEAN

\* How the program got where it is: the deadline or a signal.
CauseKnown ==
  /\ pc = "exited" <=> code # NoCode
  /\ pc \in {"stopping", "flushing"} \/ code = 0 => due
  /\ pc = "interrupted" \/ notified \/ code = 130 => signals > 0
  /\ guard # "none" => pc \in {"interrupted", "exited"}
  /\ code = 1 => stdout = << >>

\* What is on stdout, by where the program is.
OutputIs ==
  /\ pc = "boot" => stdout = << >> /\ entries = << >> /\ rows = << >>
  /\ pc \notin {"boot", "exited"} =>
       stdout = IF args.batch THEN HeaderLine ELSE HeaderLine \o rows
  /\ pc = "exited" /\ ~args.batch => stdout = HeaderLine \o rows \/ entries = << >>
  /\ code = 0 /\ args.batch => stdout = HeaderLine \o (HeaderLine \o All)

\* The table saw the reports received, and took up new keys as they came.
SeenIsArrived == seen = { sent[i] : i \in Arrivals }

OrderIsArrival == \A i, j \in DOMAIN order : i < j => ArrivedBefore(order[i], order[j])

RunInv ==
  /\ IInv
  /\ LoopTyped
  /\ CauseKnown
  /\ OutputIs
  /\ SeenIsArrived
  /\ OrderIsArrival

-----------------------------------------------------------------------------
LEMMA HeaderLineType ==
  /\ HeaderLine \in Seq({Header})
  /\ HeaderLine \in Seq(Device \cup {Header})
  /\ Len(HeaderLine) \in Nat
  /\ \A i \in 1..Len(HeaderLine) : HeaderLine[i] = Header
<1>1. CASE args.header
  BY <1>1 DEF HeaderLine
<1>2. CASE ~args.header
  BY <1>2, EmptySeq DEF HeaderLine
<1>. QED
  BY <1>1, <1>2

\* The parts of the assumption that the steps need.
LEMMA BoundsAndCodes ==
  /\ MaxSent \in Nat /\ MaxTicks \in Nat /\ MaxSignals \in Nat
  /\ Killed \notin {0, 1, 130} /\ NoCode \notin {Killed, 0, 1, 130}
BY RunAssumption

LEMMA InitRunInv == RunInit => RunInv
<1>. SUFFICES ASSUME RunInit PROVE RunInv
  OBVIOUS
<1>1. IInv
  BY InitIInv DEF RunInit
<1>2. LoopTyped
  <2>1. ChannelTyped
    BY EmptySeq DEF RunInit, ChannelTyped
  <2>2. ControlTyped
    BY DEF RunInit, ControlTyped
  <2>3. CountersTyped
    BY BoundsAndCodes DEF RunInit, CountersTyped
  <2>. QED
    BY <2>1, <2>2, <2>3 DEF LoopTyped, RunInit
<1>3. CauseKnown /\ OutputIs
  BY BoundsAndCodes DEF RunInit, Init, CauseKnown, OutputIs
<1>4. SeenIsArrived /\ OrderIsArrival
  BY DEF RunInit, Init, SeenIsArrived, OrderIsArrival, Arrivals
<1>. QED
  BY <1>1, <1>2, <1>3, <1>4 DEF RunInv

\* Steps of the loop, a timer or the user, and those about a repeated report.
Moves ==
  \/ BootFails \/ PollCtrlC \/ TakeRescan \/ TakeTimeout \/ TakeCtrlC \/ StopReturned
  \/ InterruptedStopReturned \/ GuardPolled \/ RescanTick \/ Deadline \/ Interrupt
  \/ TakeRepeat \/ EngineRepeats
  \/ UNCHANGED runVars

LEMMA StepCases ==
  ASSUME [RunNext]_runVars
  PROVE  \/ Moves \/ Boot \/ Finish \/ TakeReport
         \/ \E d \in Reports : EngineReports(d)
BY DEF RunNext, Loop, Environment, Moves, Terminated

\* A report that was received before is of a disabled family, or does not beat
\* the row stored: it changes nothing, and prints nothing.
LEMMA RepeatChangesNothing ==
  ASSUME IInv, LoopTyped, SeenIsArrived, TakeRepeat
  PROVE  UNCHANGED <<vars, stdout>>
<1>1. PICK i \in 1..taken : Handle(sent[i])
  BY DEF TakeRepeat
<1>. DEFINE d == sent[i]
<1>2. d \in Device
  BY ReportsAssumption DEF LoopTyped, ChannelTyped
<1>3. CASE FamilyOk(d)
  <2>1. d \in seen
    BY <1>3 DEF SeenIsArrived, Arrivals
  <2>2. Known(d) /\ d.version <= entries[KeyOf(d)].version
    BY <2>1 DEF IInv, BestReportWins, Known
  <2>3. d.version \in Nat /\ entries[KeyOf(d)].version \in Nat
    BY <1>2, <2>2 DEF IInv, Keyed, TypeOK, Known, Device
  <2>4. ~Accept(d)
    BY <2>2, <2>3 DEF Accept, Insert, Update, Better
  <2>5. Drop(d)
    BY <1>1, <1>3, <2>4 DEF Handle, Add, Reject
  <2>6. UNCHANGED vars
    BY <2>1, <2>5 DEF Drop, Ignore, table, vars
  <2>. QED
    BY <1>1, <2>6 DEF Handle, vars
<1>4. CASE ~FamilyOk(d)
  <2>1. UNCHANGED vars
    BY <1>1, <1>4 DEF Handle, Add, Reject, Accept, Drop
  <2>. QED
    BY <1>1, <2>1 DEF Handle, vars
<1>. QED
  BY <1>3, <1>4

\* The steps that leave the table, the output and the channel alone.
LEMMA MovesKeep ==
  ASSUME IInv, LoopTyped, SeenIsArrived, Moves
  PROVE  UNCHANGED <<args, vars, stdout, sent, taken>>
<1>1. CASE TakeRepeat
  BY <1>1, RepeatChangesNothing DEF TakeRepeat
<1>2. CASE ~TakeRepeat
  BY <1>2 DEF Moves, BootFails, PollCtrlC, TakeRescan, TakeTimeout, TakeCtrlC, StopReturned,
       InterruptedStopReturned, GuardPolled, RescanTick, Deadline, Interrupt, EngineRepeats,
       runVars, channel
<1>. QED
  BY <1>1, <1>2

-----------------------------------------------------------------------------
\* The next report is one that an engine may make.
LEMMA NextReport ==
  ASSUME LoopTyped, TakeReport
  PROVE  sent[taken + 1] \in Reports /\ taken + 1 \in 1..Len(sent)
<1>1. taken + 1 \in 1..Len(sent) /\ DOMAIN sent = 1..Len(sent)
  BY DEF LoopTyped, ChannelTyped, TakeReport
<1>. QED
  BY <1>1 DEF LoopTyped, ChannelTyped

\* The loop is an implementation of the device table.
LEMMA StepOfTable ==
  ASSUME IInv, LoopTyped, SeenIsArrived, [RunNext]_runVars
  PROVE  [Next]_vars
<1>1. CASE Moves
  BY <1>1, MovesKeep
<1>2. CASE Boot \/ Finish \/ \E d \in Reports : EngineReports(d)
  BY <1>2 DEF Boot, Finish, EngineReports
<1>3. CASE TakeReport
  BY <1>3, NextReport DEF TakeReport, Handle, Next
<1>. QED
  BY <1>1, <1>2, <1>3, StepCases

\* What the table stores and returns for the report received.
LEMMA RowPrinted ==
  ASSUME IInv, LoopTyped, TakeReport
  PROVE  \/ rows' = rows /\ stdout' = stdout
         \/ \E r \in Device :
              /\ rows' = Append(rows, r)
              /\ stdout' = IF args.batch THEN stdout ELSE Append(stdout, r)
<1>. DEFINE d == sent[taken + 1]
<1>1. d \in Reports /\ Add(d)
  BY NextReport DEF TakeReport, Handle
<1>2. rows \in Seq(Device)
  BY DEF IInv, Keyed, TypeOK
<1>3. CASE Accept(d)
  <2>1. PICK r : /\ RowFor(d, r) /\ rows' = Append(rows, r)
                 /\ entries'[KeyOf(d)] = r
    BY <1>1, <1>3, AcceptEffect DEF IInv
  <2>2. r \in Device
    BY <2>1 DEF RowFor
  <2>3. rows' # rows /\ Returned(d) = r
    BY <1>2, <2>1, <2>2 DEF Returned
  <2>. QED
    BY <2>1, <2>2, <2>3 DEF TakeReport, Handle, Streams, RowAsLine
<1>4. CASE rows' = rows
  BY <1>4 DEF TakeReport, Handle
<1>. QED
  BY <1>1, <1>3, <1>4 DEF Add, Reject, Drop, vars

LEMMA ControlTypedNext ==
  ASSUME ControlTyped, [RunNext]_runVars
  PROVE  ControlTyped'
<1>. USE DEF ControlTyped
<1>1. CASE BootFails \/ Boot
  BY <1>1 DEF BootFails, Boot, timers, ctrlC
<1>2. CASE PollCtrlC
  BY <1>2 DEF PollCtrlC, timers
<1>10. CASE StopReturned
  BY <1>10 DEF StopReturned, timers, ctrlC
<1>3. CASE TakeReport \/ TakeRepeat
  BY <1>3 DEF TakeReport, TakeRepeat, Handle, timers
<1>12. CASE TakeRescan
  BY <1>12 DEF TakeRescan, timers
<1>14. CASE EngineRepeats
  BY <1>14 DEF EngineRepeats, timers, ctrlC
<1>4. CASE TakeTimeout
  BY <1>4 DEF TakeTimeout, timers
<1>13. CASE TakeCtrlC
  BY <1>13 DEF TakeCtrlC, timers
<1>5. CASE Finish \/ InterruptedStopReturned
  BY <1>5 DEF Finish, InterruptedStopReturned, timers, ctrlC
<1>6. CASE GuardPolled \/ RescanTick
  BY <1>6 DEF GuardPolled, RescanTick, timers, ctrlC
<1>7. CASE Deadline
  BY <1>7 DEF Deadline, ctrlC
<1>11. CASE \E d \in Reports : EngineReports(d)
  BY <1>11 DEF EngineReports, timers, ctrlC
<1>8. CASE Interrupt
  <2>1. args' = args /\ due' = due /\ installed' = installed /\ guard' = guard
    BY <1>8 DEF Interrupt, timers
  <2>2. /\ pc' \in {pc, "exited"} /\ notified' \in {notified, TRUE}
        /\ code' \in {code, Killed, 130}
    BY <1>8 DEF Interrupt
  <2>3. due' \in BOOLEAN /\ installed' \in BOOLEAN /\ notified' \in BOOLEAN
    BY <2>1, <2>2, Zenon
  <2>4. code' \in {NoCode, Killed, 0, 1, 130}
    BY <2>2
  <2>. QED
    BY <2>1, <2>2, <2>3, <2>4
<1>9. CASE UNCHANGED runVars
  BY <1>9 DEF runVars, timers, ctrlC
<1>. QED
  BY <1>1, <1>2, <1>3, <1>4, <1>5, <1>6, <1>7, <1>8, <1>9, <1>10, <1>11,
     <1>12, <1>13, <1>14, StepCases DEF Moves

LEMMA RepeatTypedNext ==
  ASSUME repeat \in BOOLEAN, [RunNext]_runVars
  PROVE  repeat' \in BOOLEAN
<1>1. CASE TakeRepeat \/ EngineRepeats
  BY <1>1 DEF TakeRepeat, EngineRepeats
<1>2. CASE repeat' = repeat
  BY <1>2
<1>3. TakeRepeat \/ EngineRepeats \/ repeat' = repeat
  BY StepCases
     DEF Moves, Boot, BootFails, PollCtrlC, TakeReport, TakeRescan, TakeTimeout, TakeCtrlC,
         StopReturned, Finish, InterruptedStopReturned, GuardPolled, EngineReports,
         RescanTick, Deadline, Interrupt, runVars, channel
<1>. QED
  BY <1>1, <1>2, <1>3

LEMMA CountersTypedNext ==
  ASSUME CountersTyped, [RunNext]_runVars
  PROVE  CountersTyped'
<1>. USE BoundsAndCodes DEF CountersTyped
<1>1. CASE TakeRescan \/ RescanTick
  BY <1>1 DEF TakeRescan, RescanTick
<1>2. CASE Interrupt
  BY <1>2 DEF Interrupt, timers
<1>3. CASE UNCHANGED <<timers, signals>>
  BY <1>3 DEF timers
<1>4. CASE Deadline
  BY <1>4 DEF Deadline
<1>. QED
  BY <1>1, <1>2, <1>3, <1>4, StepCases
     DEF Moves, Boot, BootFails, PollCtrlC, TakeReport, TakeRepeat, EngineRepeats, TakeTimeout, TakeCtrlC,
         StopReturned, Finish, InterruptedStopReturned, GuardPolled, EngineReports, runVars

LEMMA ChannelTypedNext ==
  ASSUME IInv, LoopTyped, SeenIsArrived, [RunNext]_runVars
  PROVE  ChannelTyped'
<1>. USE DEF LoopTyped
<1>1. CASE Moves
  BY <1>1, MovesKeep DEF ChannelTyped
<1>2. CASE Boot
  <2>1. stdout' \in Seq(Device \cup {Header})
    BY <1>2, HeaderLineType DEF Boot
  <2>. QED
    BY <1>2, <2>1 DEF ChannelTyped, Boot, channel
<1>3. CASE Finish
  <2>1. All \in Seq(Device)
    <3>1. /\ order \in Seq(Key) /\ DOMAIN order = 1..Len(order)
          /\ \A i \in DOMAIN order : entries[order[i]] \in Device
      BY DEF IInv, Keyed, TypeOK, OrderEnumeratesEntries
    <3>. QED
      BY <3>1 DEF All
  <2>2. All \in Seq(Device \cup {Header}) /\ HeaderLine \in Seq(Device \cup {Header})
    BY <2>1, HeaderLineType
  <2>3. stdout' \in Seq(Device \cup {Header})
    BY <1>3, <2>2 DEF ChannelTyped, Finish, BatchLines
  <2>. QED
    BY <1>3, <2>3 DEF ChannelTyped, Finish, channel
<1>4. CASE TakeReport
  <2>1. stdout' \in Seq(Device \cup {Header})
    <3>1. stdout \in Seq(Device \cup {Header})
      BY DEF ChannelTyped
    <3>2. \A r \in Device : Append(stdout, r) \in Seq(Device \cup {Header})
      BY <3>1
    <3>. QED
      BY <1>4, <3>1, <3>2, RowPrinted
  <2>2. taken' \in 0..Len(sent')
    BY <1>4, NextReport DEF ChannelTyped, TakeReport
  <2>. QED
    BY <1>4, <2>1, <2>2 DEF ChannelTyped, TakeReport
<1>5. ASSUME NEW d \in Reports, EngineReports(d) PROVE ChannelTyped'
  <2>1. sent' \in Seq(Reports) /\ taken \in 0..Len(sent')
    BY <1>5 DEF ChannelTyped, EngineReports
  <2>. QED
    BY <1>5, <2>1 DEF ChannelTyped, EngineReports
<1>. QED
  BY <1>1, <1>2, <1>3, <1>4, <1>5, StepCases

LEMMA TypedNext ==
  ASSUME IInv, LoopTyped, SeenIsArrived, [RunNext]_runVars
  PROVE  LoopTyped'
BY ChannelTypedNext, ControlTypedNext, CountersTypedNext, RepeatTypedNext DEF LoopTyped

LEMMA CauseNext ==
  ASSUME LoopTyped, CauseKnown, OutputIs, [RunNext]_runVars
  PROVE  CauseKnown'
<1>. USE BoundsAndCodes DEF LoopTyped, ControlTyped, CountersTyped, CauseKnown
<1>1. CASE Boot
  BY <1>1 DEF Boot, timers, ctrlC
<1>8. CASE BootFails
  BY <1>8 DEF BootFails, OutputIs, timers, ctrlC
<1>7. CASE PollCtrlC
  BY <1>7 DEF PollCtrlC, timers
<1>5. CASE TakeReport \/ TakeRepeat \/ TakeRescan \/ EngineRepeats
  BY <1>5 DEF TakeReport, TakeRepeat, Handle, InLoop, TakeRescan, EngineRepeats, timers, ctrlC
<1>6. CASE TakeTimeout \/ TakeCtrlC
  BY <1>6 DEF TakeTimeout, InLoop, TakeCtrlC, timers
<1>2. CASE StopReturned \/ Finish \/ InterruptedStopReturned \/ GuardPolled
  BY <1>2 DEF StopReturned, Finish, InterruptedStopReturned, GuardPolled, timers, ctrlC
<1>3. CASE RescanTick \/ Deadline \/ Interrupt \/ \E d \in Reports : EngineReports(d)
  BY <1>3 DEF RescanTick, Deadline, Interrupt, EngineReports, timers, ctrlC
<1>4. CASE UNCHANGED runVars
  BY <1>4 DEF runVars, timers, ctrlC
<1>. QED
  BY <1>1, <1>2, <1>3, <1>4, <1>5, <1>6, <1>7, <1>8, StepCases DEF Moves

-----------------------------------------------------------------------------
LEMMA OutputNext ==
  ASSUME IInv, LoopTyped, CauseKnown, OutputIs, SeenIsArrived, [RunNext]_runVars
  PROVE  OutputIs'
<1>. USE BoundsAndCodes
<1>1. CASE Moves \/ \E d \in Reports : EngineReports(d)
  <2>1. UNCHANGED <<args, entries, order, rows, stdout>>
    BY <1>1, MovesKeep DEF EngineReports, vars
  <2>2. /\ pc' = "boot" => pc = "boot"
        /\ pc' \notin {"boot", "exited"} => pc \notin {"boot", "exited"}
        /\ pc' = "exited" => pc # "exited" \/ code' = code
        /\ code' = 0 => code = 0
    BY <1>1 DEF Moves, BootFails, PollCtrlC, TakeRescan, TakeTimeout, TakeCtrlC,
                InLoop, StopReturned, InterruptedStopReturned, GuardPolled, RescanTick,
                Deadline, Interrupt, TakeRepeat, Handle, EngineRepeats, EngineReports, runVars
  <2>. QED
    BY <2>1, <2>2 DEF OutputIs, HeaderLine, All
<1>2. CASE Boot
  <2>1. HeaderLine = HeaderLine \o << >>
    BY EmptySeq DEF HeaderLine
  <2>. QED
    BY <1>2, <2>1 DEF OutputIs, CauseKnown, Boot, HeaderLine, vars
<1>3. CASE Finish
  BY <1>3 DEF OutputIs, Finish, BatchLines, HeaderLine, All, vars
<1>4. CASE TakeReport
  <2>1. /\ HeaderLine \in Seq({Header}) /\ rows \in Seq(Device)
    BY HeaderLineType DEF IInv, Keyed, TypeOK
  <2>3. \A r \in Device : Append(HeaderLine \o rows, r) = HeaderLine \o Append(rows, r)
    BY <2>1, AppendIsConcat, ConcatAssociative
  <2>2. stdout' = IF args.batch THEN HeaderLine ELSE HeaderLine \o rows'
    BY <1>4, <2>3, RowPrinted DEF OutputIs, TakeReport, Handle, InLoop
  <2>. QED
    BY <1>4, <2>2 DEF OutputIs, CauseKnown, TakeReport, Handle, InLoop, HeaderLine
<1>. QED
  BY <1>1, <1>2, <1>3, <1>4, StepCases

-----------------------------------------------------------------------------
\* Reports that arrive on the channel, or are received, leave those received
\* before where they are.
LEMMA ArrivalsStay ==
  ASSUME LoopTyped, taken' = taken,
         sent' = sent \/ \E d \in Reports : sent' = Append(sent, d)
  PROVE  /\ Arrivals' = Arrivals
         /\ \A i \in Arrivals : sent'[i] = sent[i]
<1>1. \A i \in 1..taken : sent'[i] = sent[i]
  BY DEF LoopTyped, ChannelTyped
<1>. QED
  BY <1>1 DEF Arrivals, FamilyOk

LEMMA ReceivedJoins ==
  ASSUME LoopTyped, TakeReport
  PROVE  /\ sent' = sent
         /\ Arrivals' = IF FamilyOk(sent[taken + 1]) THEN Arrivals \cup {taken + 1}
                                                     ELSE Arrivals
         /\ \A i \in Arrivals : i < taken + 1
<1>1. /\ sent' = sent /\ taken' = taken + 1 /\ taken \in Nat
      /\ 1..(taken + 1) = (1..taken) \cup {taken + 1}
  BY DEF LoopTyped, ChannelTyped, TakeReport
<1>. QED
  BY <1>1 DEF Arrivals, FamilyOk

LEMMA ArrivalNext ==
  ASSUME IInv, LoopTyped, SeenIsArrived, OrderIsArrival, [RunNext]_runVars
  PROVE  SeenIsArrived' /\ OrderIsArrival'
<1>1. CASE Moves \/ Boot \/ Finish \/ \E d \in Reports : EngineReports(d)
  <2>1. /\ taken' = taken /\ UNCHANGED vars
        /\ sent' = sent \/ \E d \in Reports : sent' = Append(sent, d)
    BY <1>1, MovesKeep DEF Boot, Finish, EngineReports, channel
  <2>2. Arrivals' = Arrivals /\ \A i \in Arrivals : sent'[i] = sent[i]
    BY <2>1, ArrivalsStay
  <2>3. SeenIsArrived'
    BY <2>1, <2>2 DEF SeenIsArrived, vars
  <2>4. \A k, l : ArrivedBefore(k, l) => ArrivedBefore(k, l)'
    BY <2>2 DEF ArrivedBefore, KeyOf
  <2>. QED
    BY <2>1, <2>3, <2>4 DEF OrderIsArrival, vars
<1>2. CASE TakeReport
  <2>. DEFINE d == sent[taken + 1]
  <2>1. d \in Reports /\ Add(d)
    BY <1>2, NextReport DEF TakeReport, Handle
  <2>2. /\ sent' = sent /\ \A i \in Arrivals : i < taken + 1 /\ i \in Nat
        /\ Arrivals' = IF FamilyOk(d) THEN Arrivals \cup {taken + 1} ELSE Arrivals
    BY <1>2, ReceivedJoins DEF Arrivals
  <2>3. seen' = IF FamilyOk(d) THEN seen \cup {d} ELSE seen
    BY <2>1 DEF Add, Reject, Accept, Drop, vars
  <2>4. SeenIsArrived'
    BY <2>2, <2>3 DEF SeenIsArrived
  <2>5. order' = order \/ (FamilyOk(d) /\ ~Known(d) /\ order' = Append(order, KeyOf(d)))
    <3>1. CASE Accept(d)
      BY <2>1, <3>1, AcceptEffect DEF IInv, Accept
    <3>. QED
      BY <2>1, <3>1 DEF Add, Reject, Drop, Ignore, table, vars
  <2>6. \A k, l : ArrivedBefore(k, l) => ArrivedBefore(k, l)'
    <3>1. SUFFICES ASSUME NEW k, NEW l, ArrivedBefore(k, l) PROVE ArrivedBefore(k, l)'
      OBVIOUS
    <3>2. PICK i \in Arrivals : /\ KeyOf(sent[i]) = k
                                /\ \A j \in Arrivals : KeyOf(sent[j]) = l => i < j
      BY <3>1 DEF ArrivedBefore
    <3>3. i \in Arrivals' /\ \A j \in Arrivals' : KeyOf(sent[j]) = l => i < j
      BY <2>2, <3>2
    <3>. QED
      BY <2>2, <3>2, <3>3 DEF ArrivedBefore, KeyOf
  <2>7. OrderIsArrival'
    <3>1. CASE order' = order
      BY <2>6, <3>1 DEF OrderIsArrival
    <3>2. CASE FamilyOk(d) /\ ~Known(d) /\ order' = Append(order, KeyOf(d))
      <4>1. /\ order \in Seq(Key) /\ DOMAIN order = 1..Len(order) /\ Len(order) \in Nat
            /\ KeyOf(d) \in Key
        BY <2>1, ReportsAssumption, KeyOfType DEF IInv, Keyed, TypeOK
      <4>2. /\ DOMAIN order' = 1..(Len(order) + 1)
            /\ \A i \in DOMAIN order : order'[i] = order[i]
            /\ order'[Len(order) + 1] = KeyOf(d)
        BY <3>2, <4>1
      <4>0. PICK last : last = KeyOf(d)
        OBVIOUS
      <4>3. ASSUME NEW i \in DOMAIN order, NEW k, k = order[i]
            PROVE  ArrivedBefore(k, last)'
        <5>1. PICK a \in Arrivals : KeyOf(sent[a]) = k
          BY <4>3 DEF IInv, OrderEnumeratesEntries, BestReportWins, SeenIsArrived
        <5>2. \A b \in Arrivals : KeyOf(sent[b]) # last
          BY <3>2, <4>0 DEF IInv, BestReportWins, SeenIsArrived, Known
        <5>3. a \in Arrivals' /\ \A b \in Arrivals' : KeyOf(sent[b]) = last => a < b
          BY <2>2, <5>1, <5>2
        <5>. QED
          BY <2>2, <5>1, <5>3 DEF ArrivedBefore, KeyOf
      <4>4. ASSUME NEW i \in DOMAIN order', NEW j \in DOMAIN order', i < j
            PROVE  ArrivedBefore(order[i], order[j])'
        <5>0. PICK k, l : k = order'[i] /\ l = order'[j]
          OBVIOUS
        <5>4. ArrivedBefore(k, l)' => ArrivedBefore(order[i], order[j])'
          BY <5>0 DEF ArrivedBefore
        <5>1. i \in DOMAIN order
          BY <4>1, <4>2, <4>4
        <5>2. CASE j \in DOMAIN order
          <6>1. ArrivedBefore(k, l)
            BY <4>2, <4>4, <5>0, <5>1, <5>2 DEF OrderIsArrival
          <6>. QED
            BY <2>6, <5>4, <6>1
        <5>3. CASE j = Len(order) + 1
          <6>1. k = order[i] /\ l = last
            BY <4>0, <4>2, <5>0, <5>1, <5>3
          <6>. QED
            BY <4>3, <5>1, <5>4, <6>1
        <5>. QED
          BY <4>1, <4>2, <5>2, <5>3
      <4>. QED
        BY <4>4 DEF OrderIsArrival
    <3>. QED
      BY <2>5, <3>1, <3>2
  <2>. QED
    BY <2>4, <2>7
<1>. QED
  BY <1>1, <1>2, StepCases

LEMMA RunInvHolds == RunSpec => []RunInv
<1>1. RunInv /\ [RunNext]_runVars => RunInv'
  BY StepOfTable, NextIInv, TypedNext, CauseNext, OutputNext, ArrivalNext DEF RunInv
<1>. QED
  BY <1>1, InitRunInv, PTL DEF RunSpec

-----------------------------------------------------------------------------
(***************************************************************************)
(* The theorems.                                                           *)
(***************************************************************************)
\* The loop implements the device table: it feeds it the reports of the engines
\* and touches it in no other way (run.rs:55-63), so the table's theorems hold
\* of every run.
THEOREM RunKeepsTable == RunSpec => Spec
<1>1. RunInit => Init
  BY DEF RunInit
<1>2. RunInv /\ [RunNext]_runVars => [Next]_vars
  BY StepOfTable DEF RunInv
<1>. QED
  BY <1>1, <1>2, RunInvHolds, PTL DEF RunSpec, Spec

\* The loop's state keeps its types.
THEOREM RunTypeCorrect == RunSpec => []RunTypeOK
<1>1. RunInv => RunTypeOK
  BY ReportsAssumption, RunAssumption
     DEF RunInv, LoopTyped, ChannelTyped, ControlTyped, CountersTyped, IInv, Keyed,
         RunTypeOK
<1>. QED
  BY <1>1, RunInvHolds, PTL

\* Streaming: the last line printed for each device received is its row in the
\* table, at any moment (run.rs:57-61).
THEOREM StreamIsCurrent == RunSpec => []StreamedRowsAreCurrent
<1>1. RunInv => StreamedRowsAreCurrent
  <2>. SUFFICES ASSUME RunInv, ~args.batch, NEW k \in DOMAIN entries
                PROVE  \E i \in DeviceLines :
                         /\ stdout[i] = entries[k]
                         /\ \A j \in DeviceLines : j > i => KeyOf(stdout[j]) # k
    BY DEF StreamedRowsAreCurrent
  <2>1. stdout = HeaderLine \o rows
    BY EmptySeq DEF RunInv, OutputIs
  <2>2. /\ HeaderLine \in Seq({Header}) /\ rows \in Seq(Device) /\ Header \notin Device
        /\ \A i \in DOMAIN rows : rows[i] \in Device
    BY RunAssumption, HeaderLineType DEF RunInv, IInv, Keyed, TypeOK
  <2>. DEFINE h == Len(HeaderLine)
  <2>3. /\ h \in Nat /\ DOMAIN stdout = 1..(h + Len(rows)) /\ DOMAIN rows = 1..Len(rows)
        /\ \A i \in 1..h : stdout[i] = Header
        /\ \A i \in DOMAIN rows : stdout[h + i] = rows[i]
    BY <2>1, <2>2
  <2>4. PICK i \in DOMAIN rows : /\ rows[i] = entries[k]
                                 /\ \A j \in DOMAIN rows : j > i => KeyOf(rows[j]) # k
    BY DEF RunInv, IInv, StreamAgreesWithBatch
  <2>5. h + i \in DeviceLines /\ stdout[h + i] = entries[k]
    BY <2>2, <2>3, <2>4 DEF DeviceLines
  <2>6. ASSUME NEW j \in DeviceLines, j > h + i PROVE KeyOf(stdout[j]) # k
    <3>1. j - h \in DOMAIN rows /\ j - h > i /\ stdout[h + (j - h)] = stdout[j]
      BY <2>3, <2>6 DEF DeviceLines
    <3>. QED
      BY <2>3, <2>4, <3>1
  <2>. QED
    BY <2>5, <2>6
<1>. QED
  BY <1>1, RunInvHolds, PTL

\* --batch, ended by the deadline: a line for each device received, in the order
\* of first arrival, with the best version received (output.rs, batch_lines).
THEOREM BatchKeepsDiscoveryOrder == RunSpec => []BatchInDiscoveryOrder
<1>1. RunInv => BatchInDiscoveryOrder
  <2>. SUFFICES ASSUME RunInv, args.batch, code = 0
                PROVE  /\ { KeyOf(stdout[i]) : i \in DeviceLines }
                            = { KeyOf(sent[i]) : i \in Arrivals }
                       /\ \A i, j \in DeviceLines :
                            i < j => ArrivedBefore(KeyOf(stdout[i]), KeyOf(stdout[j]))
                       /\ \A i \in DeviceLines, j \in Arrivals :
                            KeyOf(sent[j]) = KeyOf(stdout[i]) =>
                              sent[j].version <= stdout[i].version
    BY DEF BatchInDiscoveryOrder
  <2>. DEFINE h == Len(HeaderLine) + Len(HeaderLine)
  <2>1. stdout = HeaderLine \o (HeaderLine \o All)
    BY DEF RunInv, OutputIs
  <2>2. /\ HeaderLine \in Seq({Header}) /\ Header \notin Device
        /\ order \in Seq(Key) /\ DOMAIN order = 1..Len(order) /\ Len(order) \in Nat
        /\ \A i \in DOMAIN order : /\ order[i] \in DOMAIN entries
                                   /\ entries[order[i]] \in Device
                                   /\ KeyOf(entries[order[i]]) = order[i]
    BY RunAssumption, HeaderLineType
       DEF RunInv, IInv, Keyed, TypeOK, EntriesKeyed, OrderEnumeratesEntries
  <2>3. /\ All \in Seq(Device) /\ Len(All) = Len(order)
        /\ \A i \in DOMAIN order : All[i] = entries[order[i]]
    BY <2>2 DEF All
  <2>4. /\ h \in Nat /\ DOMAIN stdout = 1..(h + Len(order))
        /\ \A i \in 1..h : stdout[i] = Header
        /\ \A i \in DOMAIN order : stdout[h + i] = entries[order[i]]
    BY <2>1, <2>2, <2>3
  <2>5. \A i \in DeviceLines : /\ i - h \in DOMAIN order /\ i \in Int
                               /\ stdout[i] = entries[order[i - h]]
                               /\ KeyOf(stdout[i]) = order[i - h]
    <3>1. TAKE i \in DeviceLines
    <3>2. i - h \in DOMAIN order /\ h + (i - h) = i /\ i \in Int
      BY <2>2, <2>4 DEF DeviceLines
    <3>. QED
      BY <2>2, <2>4, <3>2
  <2>6. \A n \in DOMAIN order : h + n \in DeviceLines /\ KeyOf(stdout[h + n]) = order[n]
    BY <2>2, <2>4 DEF DeviceLines
  <2>7. DOMAIN entries = { KeyOf(sent[i]) : i \in Arrivals }
    BY DEF RunInv, IInv, BestReportWins, SeenIsArrived
  <2>8. { KeyOf(stdout[i]) : i \in DeviceLines } = DOMAIN entries
    <3>1. \A i \in DeviceLines : KeyOf(stdout[i]) \in DOMAIN entries
      BY <2>2, <2>5
    <3>2. ASSUME NEW k \in DOMAIN entries
          PROVE  \E i \in DeviceLines : KeyOf(stdout[i]) = k
      <4>1. PICK n \in DOMAIN order : order[n] = k
        BY DEF RunInv, IInv, OrderEnumeratesEntries
      <4>. QED
        BY <2>6, <4>1
    <3>. QED
      BY <3>1, <3>2
  <2>9. ASSUME NEW i \in DeviceLines, NEW j \in DeviceLines, i < j
        PROVE  ArrivedBefore(KeyOf(stdout[i]), KeyOf(stdout[j]))
    <3>1. i - h < j - h
      BY <2>4, <2>5, <2>9
    <3>. QED
      BY <2>5, <3>1 DEF RunInv, OrderIsArrival
  <2>10. ASSUME NEW i \in DeviceLines, NEW j \in Arrivals,
                KeyOf(sent[j]) = KeyOf(stdout[i])
         PROVE  sent[j].version <= stdout[i].version
    <3>1. sent[j] \in seen
      BY DEF RunInv, SeenIsArrived
    <3>. QED
      BY <2>5, <2>10, <3>1 DEF RunInv, IInv, BestReportWins
  <2>. QED
    BY <2>7, <2>8, <2>9, <2>10
<1>. QED
  BY <1>1, RunInvHolds, PTL

\* run.rs:9, the exit codes: 0 only after the deadline, 130 only after a SIGINT,
\* 1 with nothing on stdout.
THEOREM ExitCodesTell == RunSpec => []ExitCodes
<1>1. RunInv => ExitCodes
  BY DEF RunInv, CauseKnown, ExitCodes
<1>. QED
  BY <1>1, RunInvHolds, PTL

\* run.rs:8: a stop is cut short by a second Ctrl-C only.
THEOREM FirstCtrlCIsGraceful == RunSpec => FirstCtrlCStopsGracefully
<1>. DEFINE Graceful ==
       (code' = 130 /\ code # 130) =>
         /\ pc = "interrupted"
         /\ signals' # signals => signals > 0
<1>1. RunInv /\ [RunNext]_runVars => [Graceful]_runVars
  <2>. SUFFICES ASSUME RunInv, [RunNext]_runVars PROVE Graceful
    OBVIOUS
  <2>. USE BoundsAndCodes DEF RunInv, CauseKnown
  <2>1. CASE Interrupt \/ InterruptedStopReturned
    BY <2>1 DEF Interrupt, InterruptedStopReturned
  <2>2. CASE BootFails \/ PollCtrlC \/ TakeRescan \/ TakeTimeout \/ TakeCtrlC \/ StopReturned
    BY <2>2 DEF BootFails, PollCtrlC, TakeRescan, TakeTimeout, TakeCtrlC, StopReturned
  <2>3. CASE \/ Boot \/ Finish \/ TakeReport \/ TakeRepeat \/ EngineRepeats
             \/ GuardPolled \/ RescanTick \/ Deadline
    BY <2>3 DEF Boot, Finish, TakeReport, TakeRepeat, EngineRepeats, GuardPolled, RescanTick,
                Deadline
  <2>4. CASE UNCHANGED runVars \/ \E d \in Reports : EngineReports(d)
    BY <2>4 DEF runVars, EngineReports
  <2>. QED
    BY <2>1, <2>2, <2>3, <2>4, StepCases DEF Moves
<1>. QED
  BY <1>1, RunInvHolds, PTL DEF RunSpec, FirstCtrlCStopsGracefully
=============================================================================
