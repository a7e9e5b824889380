------------------------------- MODULE MCRunLoop -------------------------------
(***************************************************************************)
(* RunLoop with the reports of ARP (version 0, with the MAC) and of an     *)
(* engine with two versions, with a MAC or without, of two hosts; and one  *)
(* of an address of the family that is disabled.                           *)
(***************************************************************************)
EXTENDS RunLoop

CONSTANTS arp, dahua, host, other, host6, mac1, mac2

Dev(p, v, a, m) == [protocol |-> p, version |-> v, ip |-> a, mac |-> m]

MCProtocols == {arp, dahua}
MCIPv4      == {host, other}
MCIPv6      == {host6}
MCMacs      == {mac1, mac2}
MCReports   == { Dev(arp, 0, host, mac1), Dev(arp, 0, other, mac2),
                 Dev(dahua, 1, host, NoMac), Dev(dahua, 2, host, NoMac),
                 Dev(dahua, 2, host, mac2), Dev(dahua, 1, other, NoMac),
                 Dev(dahua, 1, host6, mac1) }

Arg(b, t, r, h) == [batch |-> b, timeout |-> t, rescan |-> r, header |-> h]

MCTimed   == { Arg(FALSE, TRUE, TRUE, TRUE), Arg(TRUE, TRUE, FALSE, TRUE) }
MCForever == { Arg(FALSE, FALSE, FALSE, TRUE) }
MCBatch   == { Arg(TRUE, FALSE, FALSE, FALSE) }
=============================================================================
