-------------------------- MODULE MCStreamEngine --------------------------
(* Small instances of StreamEngine for TLC. *)
EXTENDS StreamEngine
=============================================================================
