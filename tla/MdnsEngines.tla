------------------------------ MODULE MdnsEngines ------------------------------
(***************************************************************************)
(* The engines on the mDNS broker: how Axis, Google Cast and Arecont join  *)
(* the records of a packet into devices (protocols/axis.rs, googlecast.rs, *)
(* arecont.rs), and report_addresses of mdns.rs.                           *)
(*                                                                         *)
(* A text is a sequence of words and of the separators the joins look for: *)
(* "=", " - ", "-" and "/".  A name is a sequence of labels, each a text.  *)
(* The order of the devices of one packet is left out (DeviceTable takes   *)
(* them in any order), and so is their version, which is 1.                *)
(***************************************************************************)
EXTENDS DnsMessage, FiniteSets

CONSTANTS
  IPv4, IPv6,       \* the addresses in A and in AAAA records
  Autoconf,         \* those of 169.254/16 and fe80::/10
  ForceZeroconf,    \* config.force_zeroconf
  ForceLinkLocal    \* config.force_link_local

ASSUME MdnsAddressAssumption ==
  /\ IPv4 \cap IPv6 = {}
  /\ Autoconf \subseteq IPv4 \cup IPv6
  /\ Unspecified["A"] \in IPv4 \ Autoconf
  /\ Unspecified["AAAA"] \in IPv6 \ Autoconf
  /\ {ForceZeroconf, ForceLinkLocal} \subseteq BOOLEAN

MdnsEngineNames == {"Axis", "Google", "Arecont"}

Service(name) == << <<name>>, <<"_tcp">>, <<"local">> >>

Registration(e, name) == [engine |-> e, domain |-> Service(name)]

\* The domains of each engine, in the order of the registry and of their listen.
Registrations ==
  << Registration("Axis", "_axis-nvr"), Registration("Axis", "_axis-video"),
     Registration("Google", "_googlecast"), Registration("Arecont", "_arec") >>

DomainSet(e) ==
  { r.domain : r \in { Registrations[i] : i \in { j \in DOMAIN Registrations :
                                                 Registrations[j].engine = e } } }

\* The first of some positions, if there are any.
FirstAmong(positions) == { i \in positions : \A j \in positions : i <= j }

Unknown == <<"unknown">>

-----------------------------------------------------------------------------
FirstOf(t, seps) == SelectInSeq(t, LAMBDA word : word \in seps)
Has(t, seps)     == FirstOf(t, seps) # 0
Before(t, seps)  == SubSeq(t, 1, FirstOf(t, seps) - 1)
After(t, seps)   == SubSeq(t, FirstOf(t, seps) + 1, Len(t))
Equals           == {"="}
Spaced           == {" - "}
Dash             == {"-", " - "}
Slash            == {"/"}

PositionsOf(answers, types) == { i \in DOMAIN answers : answers[i].type \in types }

\* The records of some types, in the order of the packet.
OfType(answers, types) ==
  LET places  == PositionsOf(answers, types)
      kth(k)  == CHOOSE p \in places : Cardinality({ q \in places : q <= p }) = k
  IN  [k \in 1..Cardinality(places) |-> answers[kth(k)]]

EmptyTxts(answers) == { i \in PositionsOf(answers, {"TXT"}) : answers[i].data = << >> }

Addresses(answers) == { answers[i].data : i \in PositionsOf(answers, {"A", "AAAA"}) }

Txts(answers) ==
  LET txts == OfType(answers, {"TXT"}) IN [i \in DOMAIN txts |-> txts[i].data]

\* The first label of the first PTR, "unknown" without one.
NamedBy(answers) ==
  LET ptrs == OfType(answers, {"PTR"})
  IN  IF ptrs = << >> THEN Unknown
      ELSE IF Head(ptrs).data = << >> THEN NoText ELSE Head(Head(ptrs).data)

IsEntry(key, t) == Has(t, Equals) /\ Before(t, Equals) = <<key>>

\* The value of the first entry with that key, if there is one.
FirstValue(strings, key) ==
  After(strings[SelectInSeq(strings, LAMBDA t : IsEntry(key, t))], Equals)

HasEntry(strings, key) == \E i \in DOMAIN strings : IsEntry(key, strings[i])

\* Mutant: autoconfigured addresses are reported only when forced.
AutoconfOnlyForced(addrs, family, forced) == forced

\* An autoconfigured address counts when its family has no other address.
AutoconfCounts(addrs, family, forced) ==
  addrs \cap family \subseteq Autoconf \/ forced

\* report_addresses: the addresses that become devices.
Reported(addrs) ==
  { a \in addrs : \/ a \notin Autoconf
                  \/ a \in IPv4 /\ AutoconfCounts(addrs, IPv4, ForceZeroconf)
                  \/ a \in IPv6 /\ AutoconfCounts(addrs, IPv6, ForceLinkLocal) }

DeviceAt(e, a, model, serial, mac) ==
  [protocol |-> e, ip |-> a, model |-> model, serial |-> serial, mac |-> mac]

-----------------------------------------------------------------------------
\* Mutant: the name is looked at as soon as a PTR comes.
AxisSerialInOrder(answers) ==
  LET name == NamedBy(answers)
      said == OfType(answers, {"PTR", "TXT"})
  IN  IF said # << >> /\ Head(said).type = "PTR" /\ Has(name, Spaced)
        THEN After(name, Spaced)
        ELSE IF Txts(answers) # << >> THEN Head(Head(Txts(answers))) ELSE Unknown

\* axis_convert: the serial is the first string of the first TXT, else what
\* follows " - " in the name; nothing is reported when the first TXT is empty.
AxisSerial(answers) ==
  LET txts == Txts(answers)
      name == NamedBy(answers)
  IN  IF txts # << >>
        THEN LET first == Head(Head(txts))
             IN  IF Has(first, Equals) THEN After(first, Equals) ELSE first
        ELSE IF Has(name, Spaced) THEN After(name, Spaced) ELSE Unknown

AxisMac(answers) ==
  LET strings == FlattenSeq(Txts(answers))
      name    == NamedBy(answers)
  IN  IF HasEntry(strings, "macaddress") THEN FirstValue(strings, "macaddress")
      ELSE IF Txts(answers) = << >> /\ Has(name, Spaced) THEN After(name, Spaced)
      ELSE NoText

AxisConvert(answers) ==
  LET name  == NamedBy(answers)
      model == IF Has(name, Spaced) THEN Before(name, Spaced) ELSE name
  IN  IF FirstAmong(PositionsOf(answers, {"TXT"})) \cap EmptyTxts(answers) # {} THEN {}
      ELSE { DeviceAt("Axis", a, model, AxisSerial(answers), AxisMac(answers)) :
               a \in Reported(Addresses(answers)) }

\* googlecast_convert: nothing when any TXT is empty; the first address of each
\* family; the last "fn" and "md" of the TXTs whose first string has a "=".
LastValue(txts, key) ==
  LET strings == FlattenSeq(SelectSeq(txts, LAMBDA t : Has(Head(t), Equals)))
      isIt(t) == IsEntry(key, t) /\ ~Has(After(t, Equals), Equals)
      last    == SelectLastInSeq(strings, isIt)
  IN  IF last = 0 THEN Unknown ELSE After(strings[last], Equals)

GoogleValue(answers, key) == LastValue(Txts(answers), key)

FirstAddress(answers, type) ==
  { answers[i].data : i \in FirstAmong(PositionsOf(answers, {type})) }

GoogleConvert(answers) ==
  IF EmptyTxts(answers) # {} THEN {}
  ELSE { DeviceAt("Google", a, GoogleValue(answers, "md"), GoogleValue(answers, "fn"),
                  NoText) :
           a \in FirstAddress(answers, "A") \cup FirstAddress(answers, "AAAA") }

\* arecont_convert: the name is split at its first dash, and the variable MAC
\* overrides the model: "AV" with what follows its slash, or, when the name had
\* no dash, what precedes its own.
ArecontModel(name, strings) ==
  LET mac == FirstValue(strings, "MAC")
  IN  CASE HasEntry(strings, "MAC") /\ ~Has(name, Dash) /\ Has(mac, Dash) ->
             Before(mac, Dash)
        [] HasEntry(strings, "MAC") /\ (Has(name, Dash) \/ ~Has(mac, Dash))
             /\ Has(mac, Slash) -> <<"AV">> \o After(mac, Slash)
        [] OTHER -> IF Has(name, Dash) THEN Before(name, Dash) ELSE name

ArecontSerial(name) ==
  IF Has(name, Dash) THEN ReplaceAll(After(name, Dash), "AV", "001A07") ELSE NoText

ArecontConvert(answers) ==
  LET name    == NamedBy(answers)
      strings == FlattenSeq(Txts(answers))
  IN  { DeviceAt("Arecont", a, ArecontModel(name, strings), ArecontSerial(name), NoText) :
          a \in Reported(Addresses(answers)) }

Convert(e, answers) ==
  CASE e = "Axis"    -> AxisConvert(answers)
    [] e = "Google"  -> GoogleConvert(answers)
    [] e = "Arecont" -> ArecontConvert(answers)
=============================================================================
