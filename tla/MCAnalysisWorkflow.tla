------------------------- MODULE MCAnalysisWorkflow -------------------------
(* Runs that carry the same request id, as a client's retry does. *)
EXTENDS AnalysisWorkflow, TLC

CONSTANTS r1, r2, classifier, quality, compliance, req

OneRun      == {r1}
TwoRuns     == {r1, r2}
OneRequest  == {req}
SameRequestId == [r \in Runs |-> req]
TwoAgents   == {classifier, quality}
ThreeAgents == {classifier, quality, compliance}
SpeechTimeout == {"deadline_exceeded"}
TwoErrors   == {"provider_rate_limited", "terminal_submit_invalid"}
WorkflowSymmetry == Permutations(TwoRuns) \cup Permutations(TwoAgents)
=============================================================================
