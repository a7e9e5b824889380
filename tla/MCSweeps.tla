------------------------------- MODULE MCSweeps -------------------------------
(***************************************************************************)
(* Both sweeps, twice each, in an address space of 4 bits of which the     *)
(* upper half is private.                                                  *)
(***************************************************************************)
EXTENDS Sweeps

Address(ip, prefix) == [ip |-> ip, prefix |-> prefix]

\* A private address whose subnet has no room for hosts, loopback, and a private
\* address in a subnet with more hosts than the cap.
MCInterfaces == <<Address(10, 3), Address(1, 1), Address(9, 1)>>

MCPrivate == 8..14
=============================================================================
