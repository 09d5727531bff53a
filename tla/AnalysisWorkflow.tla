-------------------------- MODULE AnalysisWorkflow --------------------------
(***************************************************************************)
(* AnalysisWorkflow._analyze of workflow/analysis.py: speech, the agents   *)
(* in one task group, the fan-in, and one transaction that stores the run. *)
(* Several runs share the database, where the request id is unique.        *)
(*                                                                         *)
(* phase[r]: "idle", "speech", "agents" (inside the task group), "storing" *)
(* and "over", with the answer in reply[r].                                *)
(* agent[r][a]: "none", then the task: "created", "running", "completed",  *)
(* "failed", "cancelled".  An agent is what GuardedSubmission promises:    *)
(* it ends, and completes only with a submitted output.                    *)
(*                                                                         *)
(* The collector never suspends, so an event is recorded atomically; the   *)
(* log keeps of an agent its start and its verdict (RUN_COMPLETED and      *)
(* RUN_FAILED of component "core_agent").  A crash of the process is a     *)
(* cancellation of all its runs: the database rolls their transactions     *)
(* back.                                                                   *)
(***************************************************************************)
EXTENDS Sequences, FiniteSets

CONSTANTS Runs, Agents,
          Requests, RequestOf,    \* request_id of each run
          SpeechErrors,           \* the ErrorCodes of fetch and speech
          AgentErrors             \* the AgentFailureCodes an agent may raise

ASSUME RequestOfAssumption == RequestOf \in [Runs -> Requests]
ASSUME AgentsAssumption == Agents # {} /\ "workflow" \notin Agents
ASSUME SpeechErrorsAssumption == "completed" \notin SpeechErrors

VARIABLES phase, agent,
          failure,        \* error of the run, mapped to an ErrorCode; "none"
          aborting,       \* the task group cancels its tasks
          interrupted,    \* the caller has cancelled the run
          log,            \* _EventCollector.events
          tx,             \* the open transaction: the row it would commit
          db,             \* committed rows
          reply

group == <<agent, aborting, interrupted>>
vars  == <<phase, agent, failure, aborting, interrupted, log, tx, db, reply>>

Event(by, type) == [by |-> by, type |-> type]
Row(status, events, analysis, code) ==
    [status |-> status, events |-> events, analysis |-> analysis, code |-> code]
NoRow == Row("none", <<>>, FALSE, "none")
Ended == {"completed", "failed", "cancelled"}

MapAgentFailure(code) ==
    CASE code = "provider_rate_limited"                    -> "quota_exceeded"
      [] code \in {"deadline_exceeded", "provider_timeout"} -> "deadline_exceeded"
      [] code = "circuit_open"                             -> "service_unavailable"
      [] code \in {"provider_authentication", "provider_permission",
                   "provider_invalid_request", "provider_transport",
                   "provider_server"}                      -> "provider_failure"
      [] OTHER                                             -> "agent_failure"

AgentFailures == {MapAgentFailure(c) : c \in AgentErrors} \cup {"agent_failure"}

Init ==
    /\ phase = [r \in Runs |-> "idle"]
    /\ agent = [r \in Runs |-> [a \in Agents |-> "none"]]
    /\ failure = [r \in Runs |-> "none"]
    /\ aborting = [r \in Runs |-> FALSE]
    /\ interrupted = [r \in Runs |-> FALSE]
    /\ log = [r \in Runs |-> <<>>]
    /\ tx = [r \in Runs |-> NoRow]
    /\ db = [r \in Runs |-> NoRow]
    /\ reply = [r \in Runs |-> "none"]

Record(r, events) == log' = [log EXCEPT ![r] = @ \o events]
Goto(r, p) == phase' = [phase EXCEPT ![r] = p]

\* _analyze ends: the caller gets the answer or the error.
End(r, answer) ==
    /\ Goto(r, "over")
    /\ reply' = [reply EXCEPT ![r] = answer]

-----------------------------------------------------------------------------
(* Speech *)

Begin(r) ==
    /\ phase[r] = "idle"
    /\ Goto(r, "speech")
    /\ Record(r, <<Event("workflow", "run_started"), Event("workflow", "speech_started")>>)
    /\ UNCHANGED <<group, failure, tx, db, reply>>

\* Fetch, speech or the deadline fail: there is no envelope yet, so the run
\* leaves no trace in the database.
SpeechFails(r) ==
    /\ phase[r] = "speech"
    /\ \E code \in SpeechErrors : End(r, code)
    /\ Record(r, <<Event("workflow", "speech_failed")>>)
    /\ UNCHANGED <<group, failure, tx, db>>

\* A prompt that cannot be read while the envelope is built: outside of the try.
EnvelopeFails(r) ==
    /\ phase[r] = "speech"
    /\ End(r, "internal_error")
    /\ Record(r, <<Event("workflow", "speech_completed")>>)
    /\ UNCHANGED <<group, failure, tx, db>>

\* The transcript, the envelope, and one task per agent.
SpeechSucceeds(r) ==
    /\ phase[r] = "speech"
    /\ Goto(r, "agents")
    /\ Record(r, <<Event("workflow", "speech_completed")>>)
    /\ agent' = [agent EXCEPT ![r] = [a \in Agents |-> "created"]]
    /\ UNCHANGED <<failure, aborting, interrupted, tx, db, reply>>

-----------------------------------------------------------------------------
(* The task group *)

MoveAgent(r, a, status) == agent' = [agent EXCEPT ![r][a] = status]

AgentStarts(r, a) ==
    /\ agent[r][a] = "created"
    /\ MoveAgent(r, a, "running")
    /\ Record(r, <<Event(a, "agent_started")>>)
    /\ UNCHANGED <<phase, failure, aborting, interrupted, tx, db, reply>>

\* Also after another agent has failed, until the cancellation reaches it.
AgentCompletes(r, a) ==
    /\ agent[r][a] = "running"
    /\ MoveAgent(r, a, "completed")
    /\ Record(r, <<Event(a, "run_completed")>>)
    /\ UNCHANGED <<phase, failure, aborting, interrupted, tx, db, reply>>

\* The first error of the group decides; the task group cancels the others.
\* An agent may fail before AGENT_STARTED, or outside of its runtime (a prompt
\* that cannot be read), which records no verdict.
AgentFails(r, a) ==
    /\ \/ agent[r][a] \in {"created", "running"} /\ Record(r, <<Event(a, "run_failed")>>)
       \/ agent[r][a] = "created" /\ UNCHANGED log
    /\ MoveAgent(r, a, "failed")
    /\ \/ failure[r] # "none" /\ UNCHANGED failure
       \/ /\ failure[r] = "none"
          /\ \E c \in AgentErrors : failure' = [failure EXCEPT ![r] = MapAgentFailure(c)]
    /\ aborting' = [aborting EXCEPT ![r] = TRUE]
    /\ UNCHANGED <<phase, interrupted, tx, db, reply>>

\* CancelledError passes through the agent runtime, which records nothing.
AgentCancelled(r, a) ==
    /\ aborting[r]
    /\ agent[r][a] \in {"created", "running"}
    /\ MoveAgent(r, a, "cancelled")
    /\ UNCHANGED <<phase, failure, aborting, interrupted, log, tx, db, reply>>

AllEnded(r) == \A a \in Agents : agent[r][a] \in Ended

\* Mutant: a failed agent is left out of the analysis.
AggregateRemaining(r) ==
    /\ phase[r] = "agents"
    /\ AllEnded(r)
    /\ ~interrupted[r]
    /\ failure' = [failure EXCEPT ![r] = "none"]
    /\ Goto(r, "storing")
    /\ Record(r, <<Event("workflow", "aggregation_completed"),
                   Event("workflow", "run_completed")>>)
    /\ UNCHANGED <<group, tx, db, reply>>

\* Everybody completed and the fan-in accepts the outputs.
Aggregate(r) ==
    /\ phase[r] = "agents"
    /\ \A a \in Agents : agent[r][a] = "completed"
    /\ ~interrupted[r]
    /\ Goto(r, "storing")
    /\ Record(r, <<Event("workflow", "aggregation_completed"),
                   Event("workflow", "run_completed")>>)
    /\ UNCHANGED <<group, failure, tx, db, reply>>

\* An AggregationError, or an output of the wrong type.
AggregationFails(r) ==
    /\ phase[r] = "agents"
    /\ \A a \in Agents : agent[r][a] = "completed"
    /\ ~interrupted[r]
    /\ failure' = [failure EXCEPT ![r] = "agent_failure"]
    /\ Goto(r, "storing")
    /\ Record(r, <<Event("workflow", "run_failed")>>)
    /\ UNCHANGED <<group, tx, db, reply>>

\* Mutant: the failure is handled without waiting for the other agents.
GroupFailsAtOnce(r) ==
    /\ phase[r] = "agents"
    /\ failure[r] # "none"
    /\ Goto(r, "storing")
    /\ Record(r, <<Event("workflow", "run_failed")>>)
    /\ UNCHANGED <<group, failure, tx, db, reply>>

\* Mutant: a failed group that was also cancelled is nobody's case.
GroupFailsUnlessInterrupted(r) ==
    /\ phase[r] = "agents"
    /\ AllEnded(r)
    /\ failure[r] # "none" /\ ~interrupted[r]
    /\ Goto(r, "storing")
    /\ Record(r, <<Event("workflow", "run_failed")>>)
    /\ UNCHANGED <<group, failure, tx, db, reply>>

\* The group raises the first error once all its tasks have ended.
GroupFails(r) ==
    /\ phase[r] = "agents"
    /\ AllEnded(r)
    /\ failure[r] # "none"
    /\ Goto(r, "storing")
    /\ Record(r, <<Event("workflow", "run_failed")>>)
    /\ UNCHANGED <<group, failure, tx, db, reply>>

\* A cancelled group without an error raises CancelledError, which no handler
\* of _analyze catches.
GroupCancelled(r) ==
    /\ phase[r] = "agents"
    /\ AllEnded(r)
    /\ interrupted[r]
    /\ failure[r] = "none"
    /\ End(r, "cancelled")
    /\ UNCHANGED <<group, failure, log, tx, db>>

-----------------------------------------------------------------------------
(* _persist and _persist_failure: one unit of work *)

Verdict(r) == IF failure[r] = "none" THEN "completed" ELSE "failed"

\* Mutant: a store that fails hides why the run had failed.
AfterLostStoreMasked(r) == "service_unavailable"

\* What the caller gets when the transaction fails: the failure of a failed
\* run is not replaced.
AfterLostStore(r) == IF failure[r] = "none" THEN "service_unavailable" ELSE failure[r]

\* INSERT into runs.  It waits for a transaction that inserted the same
\* request id, and a committed one refuses it (StoreFails).
SameRequest(r) == {q \in Runs \ {r} : RequestOf[q] = RequestOf[r]}

\* Mutant: the request id is looked up before the insert, without a constraint.
CreateUnlocked(r) ==
    /\ phase[r] = "storing"
    /\ tx[r] = NoRow
    /\ \A q \in SameRequest(r) : db[q] = NoRow
    /\ tx' = [tx EXCEPT ![r] = Row("queued", <<>>, FALSE, "none")]
    /\ UNCHANGED <<phase, group, failure, log, db, reply>>

Create(r) ==
    /\ phase[r] = "storing"
    /\ tx[r] = NoRow
    /\ \A q \in SameRequest(r) : tx[q] = NoRow /\ db[q] = NoRow
    /\ tx' = [tx EXCEPT ![r] = Row("queued", <<>>, FALSE, "none")]
    /\ UNCHANGED <<phase, group, failure, log, db, reply>>

\* set_status(PROCESSING) and the events.
AppendEvents(r) ==
    /\ tx[r].status = "queued"
    /\ tx' = [tx EXCEPT ![r] = Row("processing", log[r], FALSE, "none")]
    /\ UNCHANGED <<phase, group, failure, log, db, reply>>

\* save_sanitized, if there is a record, and the final status.
SetStatus(r) ==
    /\ tx[r].status = "processing"
    /\ tx' = [tx EXCEPT ![r] = Row(Verdict(r), tx[r].events, failure[r] = "none", failure[r])]
    /\ UNCHANGED <<phase, group, failure, log, db, reply>>

CloseTransaction(r) == tx' = [tx EXCEPT ![r] = NoRow]

\* Mutant: the events are committed before the record and the final status.
CommitEarly(r) ==
    /\ tx[r].status \in {"processing", "completed", "failed"}
    /\ db' = [db EXCEPT ![r] = tx[r]]
    /\ CloseTransaction(r)
    /\ End(r, IF failure[r] = "none" THEN "completed" ELSE failure[r])
    /\ UNCHANGED <<group, failure, log>>

Commit(r) ==
    /\ tx[r].status \in {"completed", "failed"}
    /\ db' = [db EXCEPT ![r] = tx[r]]
    /\ CloseTransaction(r)
    /\ End(r, IF failure[r] = "none" THEN "completed" ELSE failure[r])
    /\ UNCHANGED <<group, failure, log>>

\* A statement or the commit raises (a conflict, a timeout of the command or of
\* the pool, a lost connection) and the unit of work rolls back.  A commit
\* whose answer was lost may have happened.
StoreFails(r) ==
    /\ phase[r] = "storing"
    /\ \/ UNCHANGED db
       \/ tx[r].status \in {"completed", "failed"} /\ db' = [db EXCEPT ![r] = tx[r]]
    /\ CloseTransaction(r)
    /\ End(r, AfterLostStore(r))
    /\ UNCHANGED <<group, failure, log>>

-----------------------------------------------------------------------------
\* The client goes away, the websocket deadline passes, or the process stops.
Cancel(r) ==
    \/ /\ phase[r] = "speech"
       /\ End(r, "cancelled")
       /\ UNCHANGED <<agent, failure, aborting, interrupted, log, tx, db>>
    \/ /\ phase[r] = "agents"
       /\ ~interrupted[r]
       /\ interrupted' = [interrupted EXCEPT ![r] = TRUE]
       /\ aborting' = [aborting EXCEPT ![r] = TRUE]
       /\ UNCHANGED <<phase, agent, failure, log, tx, db, reply>>
    \/ /\ phase[r] = "storing"
       /\ \/ UNCHANGED db
          \/ tx[r].status \in {"completed", "failed"} /\ db' = [db EXCEPT ![r] = tx[r]]
       /\ CloseTransaction(r)
       /\ End(r, "cancelled")
       /\ UNCHANGED <<group, failure, log>>

AgentStep(r, a) ==
    AgentStarts(r, a) \/ AgentCompletes(r, a) \/ AgentFails(r, a) \/ AgentCancelled(r, a)
GroupEnds(r) == Aggregate(r) \/ AggregationFails(r) \/ GroupFails(r) \/ GroupCancelled(r)
StoreStep(r) == Create(r) \/ AppendEvents(r) \/ SetStatus(r) \/ Commit(r) \/ StoreFails(r)

Next == \E r \in Runs :
    \/ Begin(r) \/ SpeechFails(r) \/ EnvelopeFails(r) \/ SpeechSucceeds(r)
    \/ \E a \in Agents :
          AgentStarts(r, a) \/ AgentCompletes(r, a) \/ AgentFails(r, a) \/ AgentCancelled(r, a)
    \/ Aggregate(r) \/ AggregationFails(r) \/ GroupFails(r) \/ GroupCancelled(r)
    \/ Create(r) \/ AppendEvents(r) \/ SetStatus(r) \/ Commit(r) \/ StoreFails(r)
    \/ Cancel(r)

Spec == Init /\ [][Next]_vars

\* asyncio.timeout bounds speech, an agent ends (GuardedSubmission) and every
\* database command has a timeout (storage/postgres.py).  A run has finitely
\* many steps, so it is enough that it goes on.
RunStep(r) ==
    \/ SpeechFails(r) \/ EnvelopeFails(r) \/ SpeechSucceeds(r)
    \/ \E a \in Agents : AgentStep(r, a)
    \/ GroupEnds(r) \/ StoreStep(r)

Fairness == \A r \in Runs : WF_vars(RunStep(r))

FairSpec == Spec /\ Fairness

-----------------------------------------------------------------------------
TypeOK ==
    /\ phase \in [Runs -> {"idle", "speech", "agents", "storing", "over"}]
    /\ agent \in [Runs -> [Agents -> {"none", "created", "running"} \cup Ended]]
    /\ failure \in [Runs -> AgentFailures \cup {"none"}]
    /\ aborting \in [Runs -> BOOLEAN]
    /\ interrupted \in [Runs -> BOOLEAN]
    /\ \A r \in Runs : tx[r].status \in {"none", "queued", "processing", "completed", "failed"}
    /\ reply \in [Runs -> {"none", "completed", "cancelled", "internal_error", "service_unavailable"}
                          \cup SpeechErrors \cup AgentFailures]

\* A committed row is a whole run: a final status, its analysis exactly if it
\* completed, and a chain that ends with the one verdict of the workflow.
StoredWhole ==
    \A r \in Runs : db[r] # NoRow =>
        LET row == db[r]
            verdicts == {k \in DOMAIN row.events :
                            row.events[k] \in {Event("workflow", "run_completed"),
                                               Event("workflow", "run_failed")}}
        IN  /\ row.status \in {"completed", "failed"}
            /\ row.analysis <=> row.status = "completed"
            /\ row.code = "none" <=> row.status = "completed"
            /\ verdicts = {Len(row.events)}
            /\ row.events[Len(row.events)].type =
                  (IF row.status = "completed" THEN "run_completed" ELSE "run_failed")

\* The stored chain is all that was ever recorded: no agent of the run, and
\* none that was cancelled, records an event after the rows were written.
StoredChainIsFinal == \A r \in Runs : db[r] # NoRow => db[r].events = log[r]

\* No partial analysis: an analysis is stored or answered only if every agent
\* completed (README.md: Failure Handling).  One that is stored is answered, but
\* for a store whose commit got through although it reported a failure, and for
\* a caller who left while it committed: of these the caller hears no analysis.
NoPartialAnalysis ==
    \A r \in Runs :
        /\ db[r].analysis \/ reply[r] = "completed" =>
              \A a \in Agents : agent[r][a] = "completed"
        /\ db[r].analysis => reply[r] \in {"completed", "service_unavailable", "cancelled"}

\* Answer and record agree: what was answered is stored, and a stored failure
\* is the failure the caller got, unless the caller was gone.
AnswerMatchesRecord ==
    \A r \in Runs :
        /\ reply[r] = "completed" => db[r].status = "completed"
        /\ db[r].status = "failed" => reply[r] \in {db[r].code, "cancelled"}

\* The workflow keeps the ledger: a run is stored in the one step that closes
\* it, is answered only then, and of two concurrent runs of a request at most
\* one is stored.
LedgerState == [r \in Runs |-> CASE phase[r] = "idle" -> "unseen"
                                 [] phase[r] = "over" -> "closed"
                                 [] OTHER             -> "open"]
Ledger == INSTANCE RunLedger
            WITH state <- LedgerState,
                 entry <- [r \in Runs |-> db[r].status],
                 answered <- {r \in Runs : reply[r] = "completed"}
LedgerSafety == Ledger!Safety

\* Moreover every run that was begun is closed, also when some agents fail
\* while the caller cancels.
LedgerSpec == Ledger!Spec
=============================================================================
