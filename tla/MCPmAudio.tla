----------------------------- MODULE MCPmAudio ------------------------------
(* Instances of PmAudio for TLC.                                             *)
EXTENDS PmAudio

CONSTANTS lua, msd, bt
=============================================================================
