-------------------------- MODULE GuardedSubmission --------------------------
(***************************************************************************)
(* What one run of an agent promises to the analysis workflow: it gathers  *)
(* results of its read tools, submits its answer only on top of all the    *)
(* required ones, and the answer counts only when the run has completed.   *)
(***************************************************************************)
CONSTANT Required

VARIABLES status, gathered

vars == <<status, gathered>>

\* Results are only ever added.
AddResults == gathered' \in {gathered \cup S : S \in SUBSET Required}

Init == status = "running" /\ gathered = {}

Gather ==
    /\ status = "running"
    /\ AddResults
    /\ status' = status

\* Retrievals of the turn that submits come too late to justify it.
Submit ==
    /\ status = "running"
    /\ Required \subseteq gathered
    /\ AddResults
    /\ status' = "submitted"

Complete ==
    /\ status = "submitted"
    /\ status' = "completed"
    /\ gathered' = gathered

Stop ==
    /\ status \in {"running", "submitted"}
    /\ status' \in {"failed", "cancelled"}
    /\ AddResults

Next == Gather \/ Submit \/ Complete \/ Stop

Safety == Init /\ [][Next]_vars

Spec == Safety /\ WF_vars(Complete \/ Stop)
=============================================================================
