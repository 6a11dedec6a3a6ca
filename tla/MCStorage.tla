------------------------------ MODULE MCStorage ------------------------------
(* Storage, with backup times that are alike. *)
EXTENDS Storage, TLC

MCSymmetry == Permutations(BackupDirs)
=============================================================================
