----------------------------- MODULE MCRPCRing -----------------------------
(* Small instances of RPCRing for TLC. *)
EXTENDS RPCRing, TLC

\* Threads of one kind run the same code on the same device.
ThreadSymmetry == Permutations(Writers) \cup Permutations(Readers)
=============================================================================
