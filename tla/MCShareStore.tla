---------------------------- MODULE MCShareStore ----------------------------
(* Finite instances of ShareStore for TLC.                                 *)
EXTENDS ShareStore, TLC

Symmetry == Permutations(Creators) \cup Permutations(Keys)
=============================================================================
