--------------------------- MODULE MCSpeechRuntime ---------------------------
(* One speech process: a small queue, batch requests and streaming sessions. *)
EXTENDS SpeechRuntime, TLC

CONSTANTS r1, r2, r3, s1, s2

ThreeRequests == {r1, r2, r3}
TwoStreams    == {s1, s2}
=============================================================================
