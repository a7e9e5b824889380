------------------------------- MODULE Registry -------------------------------
(***************************************************************************)
(* The engines of protocols/mod.rs that own UDP sockets: where each one    *)
(* listens, which ports it reserves, where it sends its request, and what  *)
(* its parse takes for an answer.                                          *)
(*                                                                         *)
(* A datagram is its size, the leading or type bytes that parse compares   *)
(* (`text' for a text payload), and the features parse looks for: tags,    *)
(* keys, length fields that agree.  What a report says is left out.        *)
(***************************************************************************)
EXTENDS Naturals, FiniteSets

CONSTANT OnvifVerbatim   \* config.onvif_verbatim

ASSUME VerbatimAssumption == OnvifVerbatim \in BOOLEAN

Text(size, has)          == [size |-> size, magic |-> "text", has |-> has]
Binary(size, magic, has) == [size |-> size, magic |-> magic, has |-> has]

Multicast(port) == [cast |-> "multicast", port |-> port]
Broadcast(port) == [cast |-> "broadcast", port |-> port]

Group(port)  == [mode |-> "group", port |-> port]
Global(port) == [mode |-> "global", port |-> port]
NoPort       == 0
DrawnGlobal  == [mode |-> "drawn", port |-> NoPort]
NicsOnly     == [mode |-> "nics", port |-> NoPort]

Engine(listens, reserves, probes, request) ==
  [ listens |-> listens, reserves |-> reserves,
    probes  |-> probes,  request  |-> request ]

-----------------------------------------------------------------------------
\* A header USN; own searches have none.
Ssdp == Engine(Group(1900), {1900}, {Multicast(1900), Broadcast(1900)},
               Text(98, {"Host", "ST", "Man", "MX"}))
SsdpParses(d) == "USN" \in d.has

\* An address and types, both of which the announce payload has too; the
\* verbatim one writes its types in a form the extraction does not match.
Wsd == Engine(Group(3702), {3702}, {Multicast(3702)},
              IF OnvifVerbatim THEN Text(749, {"Address"})
              ELSE Text(744, {"Address", "Types"}))
WsdParses(d) == {"Address", "Types"} \subseteq d.has

Dahua1 == Engine(Global(5050), {5050}, {Broadcast(5050)},
                 Binary(32, "a3", {}))
Dahua1Parses(d) ==
  d.size >= 120 /\ d.magic = "b3" /\ "sections_fill_it" \in d.has

\* The header is that of the request; the method is not.
Dahua2 == Engine(Group(37810), {37810}, {Multicast(37810), Broadcast(37810)},
                 Binary(91, "20", {"length_fits", "DHDiscover.search"}))
Dahua2Parses(d) ==
  /\ d.size >= 32 /\ d.magic = "20"
  /\ {"length_fits", "client.notifyDevInfo"} \subseteq d.has

Hikvision == Engine(Group(37020), {37020}, {Multicast(37020)},
                    Text(124, {"Probe", "Types"}))
HikvisionParses(d) == "ProbeMatch" \in d.has

\* 32 bytes are the binary answer; anything else is taken for the XML one.
Bosch == Engine(Global(1758), {1758}, {Broadcast(1757)},
                Binary(12, "9939a427", {}))
BoschParses(d) == d.size = 32 => d.magic = "9939a427"

\* Whatever arrives, short or not, is reported.
Hanwha == Engine(Global(7711), {7711}, {Broadcast(7701)},
                 Binary(262, "01", {}))
HanwhaParses(d) == TRUE

Vivotek == Engine(NicsOnly, {}, {Broadcast(10000)},
                  Binary(5, "4a5d8f1c", {"values_fit"}))
VivotekParses(d) ==
  d.size >= 5 /\ d.magic = "4a5d8f1c" /\ {"values_fit", "ip"} \subseteq d.has

Sony == Engine(NicsOnly, {}, {Broadcast(2380)},
               Binary(14, "02", {"ends_03"}))
SonyParses(d) ==
  d.size >= 2 /\ d.magic = "02" /\ {"ends_03", "ipadr", "model"} \subseteq d.has

\* The magic is not checked; the four bytes of a request pass as an empty list.
Ubiquiti == Engine(Global(10001), {10001}, {Multicast(10001), Broadcast(10001)},
                   Binary(4, "0100", {"length_fits", "values_fit"}))
UbiquitiParses(d) ==
  d.size >= 4 /\ {"length_fits", "values_fit", "mac"} \subseteq d.has

\* Mutant: the echo of the request is not recognised.
Vision360ParsesEchoes(d) == TRUE

\* Anything but an echo of the request.
Vision360 == Engine(Global(3600), {3600}, {Broadcast(3600)},
                    Text(9, {"DISCOVER"}))
Vision360Parses(d) == d.has # {"DISCOVER"}

NiceVision == Engine(DrawnGlobal, {}, {Broadcast(2007)},
                     Binary(12, "4e494345", {}))
NiceVisionParses(d) == d.size >= 90

\* It listens on one port and reserves the other, the one it probes.
Panasonic == Engine(Global(10669), {10670}, {Broadcast(10670)},
                    Binary(52, "00010000", {}))
PanasonicParses(d) == d.size > 52 /\ {"name", "ip"} \subseteq d.has

GigEVision == Engine(NicsOnly, {3956}, {Broadcast(3956)},
                     Binary(8, "4211", {"length_fits"}))
GigEVisionParses(d) == d.size = 256 /\ "length_fits" \in d.has

Vstarcam == Engine(Global(8600), {8600}, {Broadcast(8600)},
                   Binary(4, "44480101", {}))
VstarcamParses(d) == d.size >= 256 /\ d.magic = "44480108"

Eaton == Engine(Global(4679), {4679}, {Broadcast(4679)},
                Text(15, {"SCAN_REQUEST"}))
EatonParses(d) ==
  {"System.Description", "UPS.PowerSummary.iProduct"} \cap d.has # {}

Foscam == Engine(Global(10000), {10000}, {Broadcast(10000)},
                 Binary(27, "4d4f5f49", {}))
FoscamParses(d) == d.size >= 87 /\ d.magic = "4d4f5f49"

Lantronix == Engine(Global(30718), {30718}, {Broadcast(30718)},
                    Binary(4, "f6", {}))
LantronixParses(d) == d.size = 30 /\ d.magic = "f7"

\* Bytes that are no UTF-8, or at least two lines and no echo of the request.
Microchip == Engine(Global(30303), {30303}, {Broadcast(30303)},
                    Text(20, {"Discover_GCE_Devices"}))
MicrochipParses(d) ==
  \/ d.magic # "text"
  \/ d.has # {"Discover_GCE_Devices"} /\ "two_lines" \in d.has

Advantech == Engine(NicsOnly, {}, {Broadcast(5048)},
                    Binary(60, "4d414441", {}))
AdvantechParses(d) == d.size >= 106

Eden == Engine(Global(8088), {8088}, {Broadcast(8088)},
               Text(10, {"DETECT_BOX"}))
EdenParses(d) == {"BOX_first", "body"} \subseteq d.has

\* The magic is not checked; the datagram must hold every field.
CyberPower == Engine(Global(53566), {53566}, {Broadcast(53566)},
                     Binary(3, "11", {}))
CyberPowerParses(d) == "every_field" \in d.has

Mssql == Engine(Global(1434), {1434}, {Broadcast(1434)},
                Binary(1, "02", {}))
MssqlParses(d) == d.size >= 3 /\ d.magic = "05" /\ "length_fits" \in d.has

Tvt == Engine(Group(23456), {23456}, {Multicast(23456)},
              Binary(140, "MHED_9_probe", {}))
TvtParses(d) == d.size >= 152 /\ d.magic = "MHED_8_answer"

-----------------------------------------------------------------------------
\* The registry, by engine name.
Registry ==
  [ Ssdp |-> Ssdp,
    Wsd |-> Wsd,
    Dahua1 |-> Dahua1,
    Dahua2 |-> Dahua2,
    Hikvision |-> Hikvision,
    Bosch |-> Bosch,
    Hanwha |-> Hanwha,
    Vivotek |-> Vivotek,
    Sony |-> Sony,
    Ubiquiti |-> Ubiquiti,
    Vision360 |-> Vision360,
    NiceVision |-> NiceVision,
    Panasonic |-> Panasonic,
    GigEVision |-> GigEVision,
    Vstarcam |-> Vstarcam,
    Eaton |-> Eaton,
    Foscam |-> Foscam,
    Lantronix |-> Lantronix,
    Microchip |-> Microchip,
    Advantech |-> Advantech,
    Eden |-> Eden,
    CyberPower |-> CyberPower,
    Mssql |-> Mssql,
    Tvt |-> Tvt ]

Parses(e, d) ==
  CASE e = "Ssdp" -> SsdpParses(d)
    [] e = "Wsd" -> WsdParses(d)
    [] e = "Dahua1" -> Dahua1Parses(d)
    [] e = "Dahua2" -> Dahua2Parses(d)
    [] e = "Hikvision" -> HikvisionParses(d)
    [] e = "Bosch" -> BoschParses(d)
    [] e = "Hanwha" -> HanwhaParses(d)
    [] e = "Vivotek" -> VivotekParses(d)
    [] e = "Sony" -> SonyParses(d)
    [] e = "Ubiquiti" -> UbiquitiParses(d)
    [] e = "Vision360" -> Vision360Parses(d)
    [] e = "NiceVision" -> NiceVisionParses(d)
    [] e = "Panasonic" -> PanasonicParses(d)
    [] e = "GigEVision" -> GigEVisionParses(d)
    [] e = "Vstarcam" -> VstarcamParses(d)
    [] e = "Eaton" -> EatonParses(d)
    [] e = "Foscam" -> FoscamParses(d)
    [] e = "Lantronix" -> LantronixParses(d)
    [] e = "Microchip" -> MicrochipParses(d)
    [] e = "Advantech" -> AdvantechParses(d)
    [] e = "Eden" -> EdenParses(d)
    [] e = "CyberPower" -> CyberPowerParses(d)
    [] e = "Mssql" -> MssqlParses(d)
    [] e = "Tvt" -> TvtParses(d)

\* What a device of each kind sends, after the fixtures of the tests.
Answers ==
  [ Ssdp |-> Text(300, {"USN", "SERVER"}),
    Wsd |-> Text(900, {"Address", "Types"}),
    Dahua1 |-> Binary(200, "b3", {"sections_fill_it"}),
    Dahua2 |-> Binary(600, "20", {"length_fits", "client.notifyDevInfo"}),
    Hikvision |-> Text(700, {"ProbeMatch", "DeviceSN"}),
    Bosch |-> Binary(32, "9939a427", {}),
    Hanwha |-> Binary(262, "0b", {}),
    Vivotek |-> Binary(60, "4a5d8f1c", {"values_fit", "ip"}),
    Sony |-> Binary(80, "02", {"ends_03", "ipadr", "model"}),
    Ubiquiti |-> Binary(60, "0206", {"length_fits", "values_fit", "mac"}),
    Vision360 |-> Text(60, {"TYPE", "KEY"}),
    NiceVision |-> Binary(90, "4e494345", {}),
    Panasonic |-> Binary(120, "00010000", {"name", "ip"}),
    GigEVision |-> Binary(256, "0000", {"length_fits"}),
    Vstarcam |-> Binary(256, "44480108", {}),
    Eaton |-> Text(400, {"System.Description"}),
    Foscam |-> Binary(87, "4d4f5f49", {}),
    Lantronix |-> Binary(30, "f7", {}),
    Microchip |-> Text(40, {"two_lines"}),
    Advantech |-> Binary(110, "4d414441", {}),
    Eden |-> Text(120, {"BOX_first", "body"}),
    CyberPower |-> Binary(90, "51", {"every_field"}),
    Mssql |-> Binary(80, "05", {"length_fits"}),
    Tvt |-> Binary(240, "MHED_8_answer", {}) ]

EngineNames == DOMAIN Registry

\* The engines on the mDNS broker have no sockets of their own; it does.
BrokerName == "mDNS"
BrokerPort == 5353

RegistryOwners == EngineNames \cup {BrokerName}

RegistryMode ==
  [ o \in RegistryOwners |->
      IF o = BrokerName THEN "group" ELSE Registry[o].listens.mode ]

RegistryFixed ==
  [ o \in RegistryOwners |->
      IF o = BrokerName THEN BrokerPort ELSE Registry[o].listens.port ]

\* The broker's own port is reserved by no one: get_used_ports has no caller.
RegistryReserves ==
  [ o \in RegistryOwners |->
      IF o = BrokerName THEN {} ELSE Registry[o].reserves ]
=============================================================================
