-------------------------------- MODULE Sums --------------------------------
(* The sum of a sequence of numbers.                                        *)
EXTENDS Integers, Sequences, SequencesExt

Sum(s) == FoldLeft(LAMBDA a, b : a + b, 0, s)
=============================================================================
