----------------------------- MODULE MCArpCapture -----------------------------
(***************************************************************************)
(* Two NICs with an address each.  Both addresses are in the subnet of the *)
(* first; the prefix of the other has no room for hosts.                   *)
(***************************************************************************)
EXTENDS ArpCapture

CONSTANTS nic1, nic2, ours, other, host

MCNics        == {nic1, nic2}
MCAddresses   == [n \in MCNics |-> IF n = nic1 THEN {ours} ELSE {other}]
MCSubnetHosts == [a \in {ours, other} |-> IF a = ours THEN {ours, other, host} ELSE {}]
=============================================================================
