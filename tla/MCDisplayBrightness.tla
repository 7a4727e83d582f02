------------------------ MODULE MCDisplayBrightness -------------------------
(* Instances of DisplayBrightness for TLC: the levels are small numbers, and *)
(* the configuration gives them directly.                                    *)
EXTENDS DisplayBrightness
=============================================================================
