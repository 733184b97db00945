-------------------------- MODULE UploadIndexerMC --------------------------
(***************************************************************************)
(* Model-checking instance of UploadIndexer with model values.             *)
(***************************************************************************)
EXTENDS UploadIndexer, TLC

Symmetry == Permutations(Files) \cup Permutations(Contents) \cup Permutations(Jobs)
=============================================================================
