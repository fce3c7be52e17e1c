----------------------------- MODULE MCBoxGame -----------------------------
(* Instances of BoxGame small enough for TLC.                              *)
EXTENDS BoxGame, TLC

CONSTANTS b1, b2, b3

\* The boxes play the same part.
BoxSymmetry == Permutations(Boxes)
=============================================================================
