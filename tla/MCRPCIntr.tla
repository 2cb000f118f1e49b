----------------------------- MODULE MCRPCIntr -----------------------------
(* Small instances of RPCIntr for TLC. *)
EXTENDS RPCIntr, TLC

CONSTANTS audio, video, r1, r2, k1

\* Two readers share the audio device, whose interrupt also wakes k1.
SharedSide == r1 :> audio @@ r2 :> audio @@ k1 :> audio

\* A reader of audio and the kernel thread of video share the handler.
TwoSides == r1 :> audio @@ k1 :> video
=============================================================================
