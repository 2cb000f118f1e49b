------------------------------ MODULE MCMDCopy ------------------------------
(* Clients of the copy engine are interchangeable. *)
EXTENDS MDCopy, TLC

ClientSymmetry == Permutations(Clients)
=============================================================================
