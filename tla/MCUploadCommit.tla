---------------------------- MODULE MCUploadCommit ----------------------------
(***************************************************************************)
(* A small instance of UploadCommit: the requests are interchangeable.      *)
(***************************************************************************)
EXTENDS UploadCommit, TLC

Symmetry == Permutations(Requests)
=============================================================================
