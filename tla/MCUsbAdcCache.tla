---------------------------- MODULE MCUsbAdcCache ----------------------------
(* Instances of UsbAdcCache for TLC.                                       *)
EXTENDS UsbAdcCache

CONSTANTS r1, r2, s1, s2
=============================================================================
