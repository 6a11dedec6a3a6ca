----------------------------- MODULE MCUserMemory -----------------------------
(* Constants for the runs of UserMemory: a region of eight granules of two  *)
(* bytes, in which the blocks cannot lie far apart.                         *)
EXTENDS UserMemory, TLC

(* The instance is one that the proofs are about. *)
ASSUME RequestsFit

Symmetry == Permutations(Uids)
=============================================================================
