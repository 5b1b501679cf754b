--------------------------- MODULE MCControlStore ---------------------------
(* A small instance of ControlStore for TLC.                               *)
EXTENDS ControlStore, TLC

CONSTANTS g1, g2, k1

AnyGate == Permutations(Gates)
=============================================================================
