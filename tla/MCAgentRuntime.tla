--------------------------- MODULE MCAgentRuntime ---------------------------
(* An agent with one required and one optional retrieval. *)
EXTENDS AgentRuntime

CONSTANTS policy, history, submit, foreign

TwoReaders    == {policy, history}
RequiredTool  == {policy}
OneForeign    == {foreign}
FourIds       == 1 .. 4
=============================================================================
