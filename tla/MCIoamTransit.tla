---------------------------- MODULE MCIoamTransit ----------------------------
(***************************************************************************)
(* A small instance of IoamTransit for TLC.                                *)
(***************************************************************************)
EXTENDS IoamTransit

CONSTANTS d1, d2

MCDest == {d1, d2}
=============================================================================
