---------------------------- MODULE MCAssistant ----------------------------
(* A deployment with the capabilities tool and Trends, and a provider that  *)
(* may also name a tool nobody registered.                                  *)
EXTENDS Assistant

CONSTANTS capabilities, trends, unknown

TwoIndexes  == 0 .. 1
TwoIds      == 1 .. 2
TwoTools    == {capabilities, trends}
AnyName     == {capabilities, trends, unknown}
AnyFinish   == {"stop", "tool_calls"}
=============================================================================
