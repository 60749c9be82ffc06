------------------------- MODULE MCForeignInterface -------------------------
(* Symmetry for the instances of ForeignInterface.                          *)
EXTENDS ForeignInterface, TLC

Symmetry == Permutations(Object)
=============================================================================
