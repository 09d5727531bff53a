--------------------------- MODULE MCStreamGateway ---------------------------
(* The assistant gateway with a small set of concurrent conversations. *)
EXTENDS StreamGateway, TLC

CONSTANTS c1, c2, c3

ThreeCallers == {c1, c2, c3}
CallerSymmetry == Permutations(ThreeCallers)
=============================================================================
