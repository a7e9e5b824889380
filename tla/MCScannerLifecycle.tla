-------------------------- MODULE MCScannerLifecycle --------------------------
(***************************************************************************)
(* ScannerLifecycle with an engine of each way to listen, in the order of  *)
(* the registry: Dahua2 (4, multicast, and a sweep), Bosch (7, global),    *)
(* Arecont (16, mDNS, and a sweep) and ARP (30).  An engine with interface *)
(* sockets only listens as the others do after their first bind.           *)
(***************************************************************************)
EXTENDS ScannerLifecycle

CONSTANTS dahua2, bosch, arecont, arp, nic1

RegistryKind ==
  [ e \in {dahua2, bosch, arecont, arp} |->
      CASE e = dahua2 -> "multicast" [] e = bosch -> "global"
        [] e = arecont -> "mdns"     [] e = arp -> "arp" ]

MCMixedEngines == <<dahua2, arecont, arp>>
MCLiveEngines  == <<dahua2, bosch, arp>>
MCOneGroup     == <<dahua2, bosch>>

MCEngines  == { EngineSeq[i] : i \in DOMAIN EngineSeq }
MCKind     == [e \in Engines |-> RegistryKind[e]]
MCSweepers == {dahua2, arecont} \cap Engines

MCHeard    == {<<dahua2, Fixed>>, <<Broker, Fixed>>}

OneNic == <<nic1>>
NoNic  == << >>      \* interfaces are up, but have no IPv4 address
=============================================================================
