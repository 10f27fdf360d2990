------------------------- MODULE MCSanityAndRecover -------------------------
(* Two managements that create entities and clean up after each other.     *)
EXTENDS SanityAndRecover, TLC

CONSTANTS m1, m2, e1

Symmetry == Permutations(Mgmt)
=============================================================================
