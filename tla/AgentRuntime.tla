---------------------------- MODULE AgentRuntime ----------------------------
(***************************************************************************)
(* One run of AgentRuntime (agent_runtime/runtime.py): the model is asked  *)
(* turn by turn, its tool calls are validated, counted and authorised, the *)
(* read tools of a turn run as concurrent tasks and the single terminal    *)
(* submit runs alone after them.                                           *)
(*                                                                         *)
(* One action is the code between two suspensions: the provider call, a    *)
(* tool handler, and the two gathers.  Recording an event does not suspend:*)
(* the sinks of the workflow never wait (_EventCollector).                 *)
(*                                                                         *)
(* phase: "new", "model" awaits the provider, "reading" awaits the first   *)
(* gather, "draining" cancelled the other readers and awaits them all,     *)
(* "submitting" awaits the submit handler, then "completed", "failed" or   *)
(* "cancelled".                                                            *)
(*                                                                         *)
(* A tool stands for a tool with its arguments, so repeated_calls counts   *)
(* tools.  Budgets of tokens, cost and time are nondeterministic refusals. *)
(* The events of the turn's proposals (PROPOSED, VALIDATED, ALLOWED) are   *)
(* left out of the log: they are a function of the answer.                 *)
(***************************************************************************)
EXTENDS Integers, Sequences, FiniteSets

CONSTANTS ReadTools,        \* spec.allowed_read_tools
          Required,         \* spec.required_retrieval_tools
          SubmitTool,       \* spec.terminal_submit_tool
          ForeignTools,     \* registered, but not allowed to this agent
          CallIds,          \* ids the provider gives to its calls: 1 .. n
          MaxTurns, MaxToolCalls, MaxRepeated,    \* spec.budget
          MaxCalls          \* bound: calls of one answer

ASSUME RequiredAssumption == Required \subseteq ReadTools
ASSUME ToolsAssumption ==
    SubmitTool \notin ReadTools /\ SubmitTool \notin ForeignTools
        /\ ReadTools \cap ForeignTools = {}
ASSUME BudgetAssumption ==
    MaxTurns \in Nat \ {0} /\ MaxToolCalls \in Nat \ {0}
        /\ MaxRepeated \in Nat \ {0} /\ MaxCalls \in Nat \ {0}

VARIABLES phase, turn,
          seen,             \* seen_remote_tool_call_ids
          counted,          \* tool_call_count
          repeated,         \* repeated_calls
          retrieved,        \* retrieved_tools
          calls,            \* validated_calls of this turn
          task,             \* the read tasks of this turn, by their index
          interrupted,      \* the run was cancelled while it drains
          log               \* the recorded events

budget == <<seen, counted, repeated>>
vars   == <<phase, turn, seen, counted, repeated, retrieved, calls, task,
            interrupted, log>>

Tools   == ReadTools \cup ForeignTools \cup {SubmitTool}
Call    == [id : CallIds, tool : Tools]

\* Ids are only compared, so they are numbered as the run meets them.
Numbered(answer) ==
    \A i \in DOMAIN answer :
        answer[i].id <= 1 + Cardinality(seen \cup {answer[j].id : j \in 1 .. i - 1})

Answers == {answer \in UNION {[1 .. n -> Call] : n \in 1 .. MaxCalls} : Numbered(answer)}
Ended   == {"completed", "failed", "cancelled"}

Event(type)       == [type |-> type]
ToolEvent(type, c) == [type |-> type, call |-> c]

Reads(answer)   == {i \in DOMAIN answer : answer[i].tool # SubmitTool}
Submits(answer) == answer[Len(answer)].tool = SubmitTool
CountOf(answer, t) == Cardinality({i \in DOMAIN answer : answer[i].tool = t})

Init ==
    /\ phase = "new"
    /\ turn = 0
    /\ seen = {}
    /\ counted = 0
    /\ repeated = [t \in Tools |-> 0]
    /\ retrieved = {}
    /\ calls = <<>>
    /\ task = <<>>
    /\ interrupted = FALSE
    /\ log = <<>>

-----------------------------------------------------------------------------
\* run's except clauses: AGENT_OUTPUT_REJECTED and RUN_FAILED end the log.
FailAfter(events) ==
    /\ phase' = "failed"
    /\ log' = log \o events \o <<Event("run_failed")>>

\* The loop head: output budget and deadline, then MODEL_REQUESTED.
BeginTurn(events) ==
    \/ FailAfter(events) /\ UNCHANGED turn
    \/ /\ turn < MaxTurns
       /\ turn' = turn + 1
       /\ phase' = "model"
       /\ log' = log \o events \o <<Event("model_requested")>>

\* The checks in front of AGENT_STARTED, or the first turn.
Start ==
    /\ phase = "new"
    /\ BeginTurn(<<>>)
    /\ UNCHANGED <<budget, retrieved, calls, task, interrupted>>

\* The provider raises, answers too late, with the wrong model, over budget,
\* with text, without tools, with an unknown tool or with invalid arguments.
ModelRefused ==
    /\ phase = "model"
    /\ FailAfter(<<>>)
    /\ UNCHANGED <<turn, budget, retrieved, calls, task, interrupted>>

\* validate_calls: no id twice, neither in the answer nor in the run.
Fresh(answer) ==
    /\ \A i, j \in DOMAIN answer : i # j => answer[i].id # answer[j].id
    /\ \A i \in DOMAIN answer : answer[i].id \notin seen

\* Mutant: the loop guard looks at earlier turns only.
WithinBudgetLate(answer) ==
    counted < MaxToolCalls /\ \A t \in Tools : repeated[t] < MaxRepeated

WithinBudget(answer) ==
    /\ counted + Len(answer) <= MaxToolCalls
    /\ \A t \in Tools : repeated[t] + CountOf(answer, t) <= MaxRepeated

\* Mutant: the retrievals of the submitting turn itself count.
AuthorizedBySameTurn(answer) ==
    /\ \A i \in DOMAIN answer :
          answer[i].tool = SubmitTool \/ answer[i].tool \in ReadTools
    /\ \A i \in DOMAIN answer : answer[i].tool = SubmitTool => i = Len(answer)
    /\ Submits(answer) =>
          Required \subseteq retrieved \cup {answer[i].tool : i \in Reads(answer)}

\* Mutant: the required retrievals are not checked.
AuthorizedUnchecked(answer) ==
    /\ \A i \in DOMAIN answer :
          answer[i].tool = SubmitTool \/ answer[i].tool \in ReadTools
    /\ \A i \in DOMAIN answer : answer[i].tool = SubmitTool => i = Len(answer)

\* ToolAuthorizer: allowed readers, and at most one submit, in the last place,
\* once every required retrieval was completed in an earlier turn.
Authorized(answer) ==
    /\ \A i \in DOMAIN answer :
          answer[i].tool = SubmitTool \/ answer[i].tool \in ReadTools
    /\ \A i \in DOMAIN answer : answer[i].tool = SubmitTool => i = Len(answer)
    /\ Submits(answer) => Required \subseteq retrieved

\* The provider answers with tool calls: they are refused as a whole, or all
\* are counted, and the read tasks are created or the lone submit is started.
ModelAnswers(answer) ==
    /\ phase = "model"
    /\ IF Fresh(answer) /\ WithinBudget(answer) /\ Authorized(answer)
       THEN /\ seen' = seen \cup {answer[i].id : i \in DOMAIN answer}
            /\ counted' = counted + Len(answer)
            /\ repeated' = [t \in Tools |-> repeated[t] + CountOf(answer, t)]
            /\ calls' = answer
            /\ task' = [i \in Reads(answer) |-> "created"]
            /\ IF Reads(answer) = {}
               THEN /\ phase' = "submitting"
                    /\ log' = Append(log, ToolEvent("started", answer[Len(answer)]))
               ELSE phase' = "reading" /\ UNCHANGED log
       ELSE FailAfter(<<>>) /\ UNCHANGED <<budget, calls, task>>
    /\ UNCHANGED <<turn, retrieved, interrupted>>

-----------------------------------------------------------------------------
(* The read tasks *)

MoveTask(i, status, events) ==
    /\ task' = [task EXCEPT ![i] = status]
    /\ log' = log \o events
    /\ UNCHANGED <<phase, turn, budget, retrieved, calls, interrupted>>

ToolStarts(i) ==
    /\ task[i] = "created"
    /\ MoveTask(i, "running", <<ToolEvent("started", calls[i])>>)

ToolCompletes(i) ==
    /\ task[i] = "running"
    /\ MoveTask(i, "completed", <<ToolEvent("completed", calls[i])>>)

\* An error, a tool timeout, the deadline, an observation that is too large.
ToolFails(i) ==
    /\ task[i] = "running"
    /\ MoveTask(i, "failed", <<ToolEvent("failed", calls[i])>>)

\* A cancelled handler ends, or turns the cancellation into an error.
CancelledToolEnds(i) ==
    /\ task[i] = "cancelling"
    /\ \/ MoveTask(i, "cancelled", <<>>)
       \/ MoveTask(i, "failed", <<ToolEvent("failed", calls[i])>>)

\* task.cancel: a task that has not started never runs.
CancelTasks ==
    task' = [i \in DOMAIN task |->
                CASE task[i] = "created" -> "cancelled"
                  [] task[i] = "running" -> "cancelling"
                  [] OTHER               -> task[i]]

\* Mutant: the readers are started, and not waited for.
GatherCompletesEarly ==
    /\ phase = "reading"
    /\ retrieved' = retrieved \cup (Required \cap {calls[i].tool : i \in DOMAIN task})
    /\ IF Submits(calls)
       THEN /\ phase' = "submitting"
            /\ log' = Append(log, ToolEvent("started", calls[Len(calls)]))
            /\ UNCHANGED turn
       ELSE BeginTurn(<<>>)
    /\ UNCHANGED <<budget, calls, task, interrupted>>

\* Every reader is through: its tool counts as retrieved, then the submit of
\* the same answer starts, or the next turn, or the turns are used up.
GatherCompletes ==
    /\ phase = "reading"
    /\ \A i \in DOMAIN task : task[i] = "completed"
    /\ retrieved' = retrieved \cup (Required \cap {calls[i].tool : i \in DOMAIN task})
    /\ IF Submits(calls)
       THEN /\ phase' = "submitting"
            /\ log' = Append(log, ToolEvent("started", calls[Len(calls)]))
            /\ UNCHANGED turn
       ELSE BeginTurn(<<>>)
    /\ UNCHANGED <<budget, calls, task, interrupted>>

\* Mutant: the failure is raised without waiting for the other readers.
GatherFailsAtOnce ==
    /\ phase = "reading"
    /\ \E i \in DOMAIN task : task[i] = "failed"
    /\ FailAfter(<<>>)
    /\ UNCHANGED <<turn, budget, retrieved, calls, task, interrupted>>

\* The first failure wakes the run, which cancels the other readers.
GatherFails ==
    /\ phase = "reading"
    /\ \E i \in DOMAIN task : task[i] = "failed"
    /\ CancelTasks
    /\ phase' = "draining"
    /\ UNCHANGED <<turn, budget, retrieved, calls, interrupted, log>>

\* The second gather: everybody is done, the error or the cancellation goes on.
DrainEnds ==
    /\ phase = "draining"
    /\ \A i \in DOMAIN task : task[i] \in {"completed", "failed", "cancelled"}
    /\ IF interrupted
       THEN phase' = "cancelled" /\ UNCHANGED log
       ELSE FailAfter(<<>>)
    /\ UNCHANGED <<turn, budget, retrieved, calls, task, interrupted>>

-----------------------------------------------------------------------------
\* The submit handler returns; its output is valid, or the run fails.
SubmitCompletes ==
    /\ phase = "submitting"
    /\ \/ /\ phase' = "completed"
          /\ log' = log \o <<ToolEvent("completed", calls[Len(calls)]),
                             Event("run_completed")>>
       \/ FailAfter(<<ToolEvent("completed", calls[Len(calls)])>>)
    /\ UNCHANGED <<turn, budget, retrieved, calls, task, interrupted>>

SubmitFails ==
    /\ phase = "submitting"
    /\ FailAfter(<<ToolEvent("failed", calls[Len(calls)])>>)
    /\ UNCHANGED <<turn, budget, retrieved, calls, task, interrupted>>

\* The task group of the workflow cancels the run (once): nothing is recorded;
\* a run that awaits readers first cancels them and waits for them.
CancelRun ==
    /\ ~interrupted
    /\ \/ /\ phase \in {"new", "model", "submitting"}
          /\ phase' = "cancelled"
          /\ UNCHANGED task
       \/ /\ phase \in {"reading", "draining"}
          /\ phase' = "draining"
          /\ CancelTasks
    /\ interrupted' = TRUE
    /\ UNCHANGED <<turn, budget, retrieved, calls, log>>

Finished == phase \in Ended /\ UNCHANGED vars

ToolStep(i) == ToolStarts(i) \/ ToolCompletes(i) \/ ToolFails(i) \/ CancelledToolEnds(i)
RunStep == Start \/ ModelRefused \/ GatherCompletes \/ GatherFails \/ DrainEnds
              \/ SubmitCompletes \/ SubmitFails

Next ==
    \/ Start \/ ModelRefused
    \/ \E answer \in Answers : ModelAnswers(answer)
    \/ \E i \in DOMAIN task :
          ToolStarts(i) \/ ToolCompletes(i) \/ ToolFails(i) \/ CancelledToolEnds(i)
    \/ GatherCompletes \/ GatherFails \/ DrainEnds
    \/ SubmitCompletes \/ SubmitFails
    \/ CancelRun \/ Finished

Spec == Init /\ [][Next]_vars

\* The event loop runs a ready task; wait_for bounds the provider call by the
\* deadline and asyncio.timeout bounds a handler by the timeout of its tool.
Fairness ==
    /\ WF_vars(RunStep)
    /\ WF_vars(\E i \in DOMAIN task : ToolStep(i))

FairSpec == Spec /\ Fairness

-----------------------------------------------------------------------------
Statuses == {"created", "running", "completed", "failed", "cancelling", "cancelled"}

TypeOK ==
    /\ phase \in {"new", "model", "reading", "draining", "submitting"} \cup Ended
    /\ turn \in 0 .. MaxTurns
    /\ seen \subseteq CallIds
    /\ counted \in 0 .. MaxToolCalls
    /\ repeated \in [Tools -> 0 .. MaxRepeated]
    /\ retrieved \subseteq Required
    /\ DOMAIN task \subseteq DOMAIN calls
    /\ \A i \in DOMAIN task : task[i] \in Statuses
    /\ interrupted \in BOOLEAN

Positions(type) == {k \in DOMAIN log : log[k].type = type}
SubmitStarts == {k \in Positions("started") : log[k].call.tool = SubmitTool}

\* A submit is executed only on top of required retrievals whose results the
\* model has seen: each is completed before the last question to the model.
SubmitOnRetrieved ==
    \A k \in SubmitStarts, t \in Required :
        \E m \in Positions("model_requested"), j \in Positions("completed") :
            j < m /\ m < k /\ log[j].call.tool = t

\* The submit is executed once and alone: no reader starts or ends after it.
SubmitIsLast ==
    \A k \in SubmitStarts, j \in DOMAIN log :
        j > k /\ "call" \in DOMAIN log[j] => log[j].call = log[k].call

\* A run that has ended leaves no task behind, and the verdict of a run that
\* was not cancelled is its last event: no reader reports after RUN_FAILED.
NothingAfterTheEnd ==
    /\ phase \in Ended => \A i \in DOMAIN task :
                              task[i] \in {"completed", "failed", "cancelled"}
    /\ \A k \in Positions("run_failed") \cup Positions("run_completed") : k = Len(log)

\* A call of the provider is executed at most once, even if it is repeated in
\* a later answer, and no interplay of turns and answers executes more tools
\* than the budget.
CallsAccounted ==
    /\ \A j, k \in Positions("started") : j # k => log[j].call.id # log[k].call.id
    /\ Cardinality(Positions("started")) <= MaxToolCalls
    /\ \A t \in Tools :
          Cardinality({k \in Positions("started") : log[k].call.tool = t}) <= MaxRepeated

\* The run implements the promise to the workflow.
Status ==
    CASE phase = "submitting" -> "submitted"
      [] phase \in Ended      -> phase
      [] OTHER                -> "running"
Contract == INSTANCE GuardedSubmission WITH status <- Status, gathered <- retrieved
ContractSpec == Contract!Spec
=============================================================================
