----------------------------- MODULE MCRPCKern -----------------------------
(* Small instances of RPCKern for TLC. *)
EXTENDS RPCKern, TLC

CallerSymmetry == Permutations(Callers)
=============================================================================
