----------------------------- MODULE MCCaptureFile -----------------------------
(***************************************************************************)
(* The capture file with two receive tasks, in lengths modulo 4 instead of *)
(* 2^16: of the payloads, 2 is the largest datagram there is, whose packet *)
(* fits and whose frame does not.                                          *)
(***************************************************************************)
EXTENDS CaptureFile

CONSTANTS task1, task2
=============================================================================
