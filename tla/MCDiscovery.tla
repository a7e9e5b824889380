------------------------------ MODULE MCDiscovery ------------------------------
(***************************************************************************)
(* Discovery with every engine of the registry: each alone, the engines    *)
(* that share a port (Vivotek probes where Foscam listens), and selections *)
(* that put one of each mode before an engine with a fixed port or with a  *)
(* port that nobody reserves.                                              *)
(***************************************************************************)
EXTENDS Discovery

CONSTANT nic1

MCOneNic == <<nic1>>

Shared(owners)   == [order |-> owners, sharing |-> TRUE]
Unshared(owners) == [order |-> owners, sharing |-> FALSE]

MCStarts ==
  { Shared(<<e>>) : e \in EngineNames }
    \cup { Shared(pair) : pair \in
             { <<"Bosch", "Panasonic">>, <<"NiceVision", "Panasonic">>,
               <<"NiceVision", "Hanwha">> } }
    \cup { Unshared(pair) : pair \in
             { <<"Vivotek", "Foscam">>, <<"mDNS", "NiceVision">>,
               <<"Hikvision", "Bosch">>, <<"Bosch", "Panasonic">>,
               <<"GigEVision", "Tvt">> } }

MCPair == { Shared(<<"Bosch", "Panasonic">>) }

\* Three fixed ports that may be drawn, and one that Hanwha only probes.
MCCandidates == {1758, 7701, 10669, 23456}
MCPorts == { RegistryFixed[o] : o \in RegistryOwners }
             \cup UNION { RegistryReserves[o] : o \in RegistryOwners }
             \cup MCCandidates
=============================================================================
