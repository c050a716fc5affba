--------------------------- MODULE MCUsbTransfer ---------------------------
(* Instances of UsbTransfer for TLC. *)
EXTENDS UsbTransfer, TLC

CONSTANTS h, u1, u2, t1, t2

Symmetry == Permutations(User)

AllKinds == [t \in Transfer |-> TransferType]
SplitKinds == [t \in Transfer |-> {"bulk", "iso"}]
PairKinds == t1 :> {"bulk"} @@ t2 :> {"control"}
=============================================================================
