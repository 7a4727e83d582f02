----------------------------- MODULE MCUsbPower -----------------------------
(* Instances of UsbPower for TLC. *)
EXTENDS UsbPower
=============================================================================
