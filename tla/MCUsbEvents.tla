---------------------------- MODULE MCUsbEvents ----------------------------
(* Instances of UsbEvents for TLC. *)
EXTENDS UsbEvents, TLC

CONSTANTS a, b, c, d1, d2

Symmetry == Permutations(Thread) \cup Permutations(Device)
=============================================================================
