----------------------------- MODULE RunLedger -----------------------------
(***************************************************************************)
(* What the analysis workflow promises to the outside: a run is opened and *)
(* closed once, it is entered into the ledger at most once and as a whole, *)
(* an answer is given only for a run entered as completed, and a request   *)
(* has at most one entry.                                                  *)
(***************************************************************************)
CONSTANTS Runs, RequestOf

VARIABLES state, entry, answered

vars == <<state, entry, answered>>

Init ==
    /\ state = [r \in Runs |-> "unseen"]
    /\ entry = [r \in Runs |-> "none"]
    /\ answered = {}

Open(r) ==
    /\ state[r] = "unseen"
    /\ state' = [state EXCEPT ![r] = "open"]
    /\ UNCHANGED <<entry, answered>>

\* The entry is made, if it is made, in the step that closes the run.
Enter(r, e) ==
    /\ e # "none" => \A q \in Runs : RequestOf[q] = RequestOf[r] => entry[q] = "none"
    /\ entry' = [entry EXCEPT ![r] = e]

Close(r) ==
    /\ state[r] = "open"
    /\ \E e \in {"none", "completed", "failed"} :
          /\ Enter(r, e)
          /\ answered' \in {answered} \cup
                              (IF e = "completed" THEN {answered \cup {r}} ELSE {})
    /\ state' = [state EXCEPT ![r] = "closed"]

Next == \E r \in Runs : Open(r) \/ Close(r)

Safety == Init /\ [][Next]_vars

Spec == Safety /\ \A r \in Runs : WF_vars(Close(r))
=============================================================================
