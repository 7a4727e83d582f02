----------------------------- MODULE MCSdPower ------------------------------
(* Instances of SdPower for TLC.  The Lua task runs at priority 1, below the *)
(* sd task and the USB mass-storage task, which both run at priority 2.      *)
EXTENDS SdPower

CONSTANTS lua, msd, accel
=============================================================================
