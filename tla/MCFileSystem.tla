---------------------------- MODULE MCFileSystem ----------------------------
(* Instances of FileSystem small enough for TLC.                           *)
EXTENDS FileSystem, TLC

CONSTANTS a, b

\* The names play the same part.
NameSymmetry == Permutations(Names)
=============================================================================
