---------------------------- MODULE MC_Registry -----------------------------
(* Instances of UOP_Registry for TLC.                                      *)
EXTENDS UOP_Registry

CONSTANTS a, b, c

MCSymmetry == Permutations(Place)

=============================================================================
