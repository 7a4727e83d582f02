---------------------------- MODULE MCLuaTimers -----------------------------
(* An instance of LuaTimers for TLC.                                         *)
EXTENDS LuaTimers

CONSTANTS b1, b2
=============================================================================
