---------------------------- MODULE MCButtonInput ---------------------------
(* An instance of ButtonInput for TLC.                                       *)
EXTENDS ButtonInput

CONSTANTS top, confirm
=============================================================================
