----------------------------- MODULE MCMarsCEC -----------------------------
(* Small instances of MarsCEC for TLC. *)
EXTENDS MarsCEC, TLC

\* Senders run the same code, and their order in the queue is kept.
SenderSymmetry == Permutations(Senders)
=============================================================================
