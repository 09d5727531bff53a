-------------------------- MODULE MCCompleteGateway --------------------------
(* The analysis gateway with the concurrent agent tasks of one or two runs. *)
EXTENDS CompleteGateway, TLC

CONSTANTS a1, a2, a3, a4

ThreeCallers == {a1, a2, a3}
FourCallers  == {a1, a2, a3, a4}
=============================================================================
