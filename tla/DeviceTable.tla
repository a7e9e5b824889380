------------------------------ MODULE DeviceTable ------------------------------
(***************************************************************************)
(* The table of discovered devices: universal-scanner/src/devices.rs.      *)
(*                                                                         *)
(* Every engine reports devices on one channel; the receiver feeds them to *)
(* DeviceTable::add, which filters by address family, deduplicates by key, *)
(* lets only a strictly greater protocol version replace an entry, and     *)
(* returns the row to print when the table changed.                        *)
(*                                                                         *)
(* A report keeps what the table looks at: protocol, version, ip and MAC.  *)
(* device_type and serial travel with protocol (both are copied from the   *)
(* winning report, lines 83-84) and are left out.                          *)
(***************************************************************************)
EXTENDS Naturals, Sequences

CONSTANTS
  Protocols,     \* protocol names an engine puts in a report
  IPv4, IPv6,    \* addresses of the two families
  Macs,          \* MAC strings
  NoMac,         \* the empty MAC string
  Reports,       \* the reports the engines may make
  ForceGeneric,  \* config.force_generic_protocols
  EnableIPv4,    \* config.enable_ipv4
  EnableIPv6     \* config.enable_ipv6

IP == IPv4 \cup IPv6

Device == [protocol : Protocols, version : Nat, ip : IP, mac : Macs \cup {NoMac}]

ASSUME ReportsAssumption == Reports \subseteq Device
ASSUME FamilyAssumption  == IPv4 \cap IPv6 = {}
ASSUME MacAssumption     == NoMac \notin Macs
ASSUME ConfigAssumption  == {ForceGeneric, EnableIPv4, EnableIPv6} \subseteq BOOLEAN

VARIABLES
  entries,   \* DeviceTable::entries, a function from the keys present to rows
  order,     \* DeviceTable::order, the keys in discovery order
  rows,      \* history: the rows add() returned, in the order returned
  seen       \* history: the reports that passed the family filter

table == <<entries, order>>
vars  == <<entries, order, rows, seen>>

(***************************************************************************)
(* DeviceTable::add.                                                       *)
(***************************************************************************)
FamilyOk(d) == IF d.ip \in IPv4 THEN EnableIPv4 ELSE EnableIPv6

\* Mutant: force_generic_protocols is ignored.
KeyOfProtocolToo(d) == <<d.protocol, d.ip>>

\* The printed forms are injective, so the key is the value it prints.
KeyOf(d) == IF ForceGeneric THEN <<d.protocol, d.ip>> ELSE d.ip

Known(d)  == KeyOf(d) \in DOMAIN entries

\* Mutants: an equal version wins; the last report wins.
BetterOrEqual(d) == d.version >= entries[KeyOf(d)].version
LastWins(d)      == TRUE

Better(d) == d.version > entries[KeyOf(d)].version

\* Mutant: the MAC of the row printed last fills in.
MergedFromLastRow(d) ==
  [d EXCEPT !.mac = IF d.mac = NoMac THEN rows[Len(rows)].mac ELSE d.mac]

\* The updated row: the address and, when the report has no MAC, the MAC of
\* the entry it replaces.
Merged(d) ==
  LET old == entries[KeyOf(d)]
  IN  [d EXCEPT !.ip  = old.ip,
                !.mac = IF d.mac = NoMac THEN old.mac ELSE d.mac]

Insert(d) ==
  /\ ~Known(d)
  /\ order'   = Append(order, KeyOf(d))
  /\ entries' = [k \in DOMAIN entries \cup {KeyOf(d)} |->
                   IF k = KeyOf(d) THEN d ELSE entries[k]]

\* Mutant: an update joins the discovery order again.
UpdateReorders(d) ==
  /\ Known(d)
  /\ Better(d)
  /\ entries' = [entries EXCEPT ![KeyOf(d)] = Merged(d)]
  /\ order'   = Append(order, KeyOf(d))

Update(d) ==
  /\ Known(d)
  /\ Better(d)
  /\ entries' = [entries EXCEPT ![KeyOf(d)] = Merged(d)]
  /\ order'   = order

Ignore(d) ==
  /\ Known(d)
  /\ ~Better(d)
  /\ UNCHANGED table

\* Mutant: the report is returned as it came.
ReturnedReport(d) == d

\* What add() returns when it changed the table: the row now stored.
Returned(d) == entries'[KeyOf(d)]

\* DeviceTable::all, the rows --batch prints.
All == [i \in DOMAIN order |-> entries[order[i]]]

-----------------------------------------------------------------------------
Init ==
  /\ entries = << >>
  /\ order   = << >>
  /\ rows    = << >>
  /\ seen    = {}

\* A report of a disabled family: add() returns before it looks at the table.
Reject(d) ==
  /\ ~FamilyOk(d)
  /\ UNCHANGED vars

\* A report that changes the table, and the row add() returns for it.
Accept(d) ==
  /\ FamilyOk(d)
  /\ Insert(d) \/ Update(d)
  /\ rows' = Append(rows, Returned(d))
  /\ seen' = seen \cup {d}

\* A report of a known key that does not beat the stored version.
Drop(d) ==
  /\ FamilyOk(d)
  /\ Ignore(d)
  /\ rows' = rows
  /\ seen' = seen \cup {d}

Add(d) == Reject(d) \/ Accept(d) \/ Drop(d)

Next == \E d \in Reports : Add(d)

Spec == Init /\ [][Next]_vars

-----------------------------------------------------------------------------
(***************************************************************************)
(* Properties.                                                             *)
(***************************************************************************)
Key == IF ForceGeneric THEN Protocols \X IP ELSE IP

\* The types of the table, and of the history the properties read.
TypeOK ==
  /\ DOMAIN entries \subseteq Key
  /\ \A k \in DOMAIN entries : entries[k] \in Device
  /\ order \in Seq(Key)
  /\ rows \in Seq(Device)
  /\ seen \subseteq Device

\* all() walks `order` and looks each key up in `entries`: it must neither
\* print a device twice nor skip one, so `order` enumerates the keys present,
\* each once (lines 66-68 keep the two collections in step).
OrderEnumeratesEntries ==
  /\ \A i \in DOMAIN order : order[i] \in DOMAIN entries
  /\ \A k \in DOMAIN entries : \E i \in DOMAIN order : order[i] = k
  /\ \A i, j \in DOMAIN order : order[i] = order[j] => i = j

\* Streaming and --batch agree: for each key, the last row streamed is the
\* row all() would print, and nothing was streamed for a key it omits.
StreamAgreesWithBatch ==
  /\ \A i \in DOMAIN rows : KeyOf(rows[i]) \in DOMAIN entries
  /\ \A k \in DOMAIN entries :
       \E i \in DOMAIN rows :
         /\ rows[i] = entries[k]
         /\ \A j \in DOMAIN rows : j > i => KeyOf(rows[j]) # k

\* Two rows streamed for one key, however far apart, strictly improve: the
\* version grows, the address stays, and a MAC once shown is never blanked.
RowsImprove ==
  \A i, j \in DOMAIN rows :
    (i < j /\ KeyOf(rows[i]) = KeyOf(rows[j])) =>
      /\ rows[i].version < rows[j].version
      /\ rows[i].ip = rows[j].ip
      /\ rows[i].mac # NoMac => rows[j].mac # NoMac

\* Whatever the order the reports arrive in, the table holds exactly the keys
\* reported (and not filtered), each with the greatest version reported for it
\* and the protocol of a report that had that version.
BestReportWins ==
  /\ \A d \in seen : /\ KeyOf(d) \in DOMAIN entries
                     /\ d.version <= entries[KeyOf(d)].version
  /\ \A k \in DOMAIN entries :
       \E d \in seen : /\ KeyOf(d) = k
                       /\ d.version  = entries[k].version
                       /\ d.protocol = entries[k].protocol

\* A MAC in the table was reported for that very key: merging never carries a
\* MAC over from another device.
MacBelongsToKey ==
  \A k \in DOMAIN entries :
    entries[k].mac # NoMac =>
      \E d \in seen : KeyOf(d) = k /\ d.mac = entries[k].mac

FamilyEnabled(a) == (a \in IPv4 => EnableIPv4) /\ (a \in IPv6 => EnableIPv6)

\* No report of a disabled address family reaches the table or the output.
FilteredFamilyNeverShown ==
  /\ \A k \in DOMAIN entries : FamilyEnabled(entries[k].ip)
  /\ \A i \in DOMAIN rows : FamilyEnabled(rows[i].ip)
=============================================================================
