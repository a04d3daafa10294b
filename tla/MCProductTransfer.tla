-------------------------- MODULE MCProductTransfer --------------------------
(* A small instance of ProductTransfer for TLC: two bundles of one chunk,   *)
(* which a mixed-up transfer can take for each other until their checksums  *)
(* are compared, and one of two chunks, which can have a gap.               *)
EXTENDS ProductTransfer, TLC

CONSTANTS p1, p2, p3

MCSize == (p1 :> 1) @@ (p2 :> 1) @@ (p3 :> 2)
=============================================================================
