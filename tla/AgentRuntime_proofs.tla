------------------------ MODULE AgentRuntime_proofs ------------------------
(***************************************************************************)
(* The safety of AgentRuntime for every set of tools and every budget.     *)
(* Four inductive invariants build on each other: the types; the verdict   *)
(* as the last event (Verdicts); what the log holds when a submit starts   *)
(* (Retrieval); and the balance of the calls that were counted, started    *)
(* and are still to be started (Balance).                                  *)
(***************************************************************************)
EXTENDS AgentRuntime, FiniteSetTheorems, TLAPS

USE RequiredAssumption, ToolsAssumption, BudgetAssumption

ToolEvents == [type : {"started", "completed", "failed"}, call : Call]
RunEvents  == [type : {"model_requested", "run_failed", "run_completed"}]
LogEvents  == ToolEvents \cup RunEvents

Typed ==
    /\ TypeOK
    /\ calls \in Seq(Call)
    /\ log \in Seq(LogEvents)
    /\ \A i \in DOMAIN task : calls[i].tool # SubmitTool
    /\ phase \in {"reading", "draining", "submitting"} => Len(calls) > 0

-----------------------------------------------------------------------------
(* Logs *)

LEMMA AppendFacts ==
    ASSUME NEW S, NEW s \in Seq(S), NEW e \in S
    PROVE  /\ Append(s, e) \in Seq(S)
           /\ Len(Append(s, e)) = Len(s) + 1
           /\ DOMAIN Append(s, e) = DOMAIN s \cup {Len(s) + 1}
           /\ \A k \in DOMAIN s : Append(s, e)[k] = s[k]
           /\ Append(s, e)[Len(s) + 1] = e
OBVIOUS

LEMMA ConcatFacts ==
    ASSUME NEW S, NEW s \in Seq(S), NEW a \in S, NEW b \in S
    PROVE  /\ s \o <<>> = s
           /\ s \o <<a>> = Append(s, a)
           /\ s \o <<a, b>> = Append(Append(s, a), b)
OBVIOUS

LEMMA EventTypes ==
    /\ \A type \in {"model_requested", "run_failed", "run_completed"} : Event(type) \in LogEvents
    /\ \A type \in {"started", "completed", "failed"}, c \in Call : ToolEvent(type, c) \in LogEvents
BY DEF LogEvents, ToolEvents, RunEvents, Event, ToolEvent

\* The log of a typed run stays typed.
LEMMA LogTyped ==
    ASSUME log \in Seq(LogEvents)
    PROVE  /\ \A type \in {"model_requested", "run_failed", "run_completed"} :
                 Append(log, Event(type)) \in Seq(LogEvents)
           /\ \A type \in {"started", "completed", "failed"}, c \in Call :
                 Append(log, ToolEvent(type, c)) \in Seq(LogEvents)
           /\ \A type \in {"started", "completed", "failed"}, c \in Call,
                 verdict \in {"run_failed", "run_completed"} :
                    Append(Append(log, ToolEvent(type, c)), Event(verdict)) \in Seq(LogEvents)
BY EventTypes, AppendFacts

\* FailAfter and BeginTurn with the events they append.
LEMMA FailAppends ==
    ASSUME log \in Seq(LogEvents)
    PROVE  /\ FailAfter(<<>>) <=> phase' = "failed" /\ log' = Append(log, Event("run_failed"))
           /\ \A e \in LogEvents : FailAfter(<<e>>) <=>
                 phase' = "failed" /\ log' = Append(Append(log, e), Event("run_failed"))
<1>1. log \o <<>> \o <<Event("run_failed")>> = Append(log, Event("run_failed"))
  BY ConcatFacts, EventTypes
<1>2. ASSUME NEW e \in LogEvents
      PROVE  log \o <<e>> \o <<Event("run_failed")>> = Append(Append(log, e), Event("run_failed"))
  <2>1. log \o <<e>> = Append(log, e) /\ Append(log, e) \in Seq(LogEvents)
    BY ConcatFacts, AppendFacts
  <2> QED BY <2>1, ConcatFacts, EventTypes
<1> QED BY <1>1, <1>2 DEF FailAfter

LEMMA TurnAppends ==
    ASSUME log \in Seq(LogEvents), BeginTurn(<<>>)
    PROVE  \/ phase' = "failed" /\ log' = Append(log, Event("run_failed")) /\ turn' = turn
           \/ /\ phase' = "model" /\ log' = Append(log, Event("model_requested"))
              /\ turn < MaxTurns /\ turn' = turn + 1
<1>1. log \o <<>> \o <<Event("model_requested")>> = Append(log, Event("model_requested"))
  BY ConcatFacts, EventTypes
<1> QED BY <1>1, FailAppends DEF BeginTurn

\* A read task moves and reports at most one event of its call.
ToolReports(i) ==
    /\ i \in DOMAIN task /\ UNCHANGED <<phase, turn, budget, retrieved, calls, interrupted>>
    /\ \/ /\ task[i] = "created" /\ task' = [task EXCEPT ![i] = "running"]
          /\ log' = Append(log, ToolEvent("started", calls[i]))
       \/ /\ task[i] = "running" /\ task' = [task EXCEPT ![i] = "completed"]
          /\ log' = Append(log, ToolEvent("completed", calls[i]))
       \/ /\ task[i] \in {"running", "cancelling"} /\ task' = [task EXCEPT ![i] = "failed"]
          /\ log' = Append(log, ToolEvent("failed", calls[i]))
       \/ /\ task[i] = "cancelling" /\ task' = [task EXCEPT ![i] = "cancelled"]
          /\ log' = log

LEMMA ToolStepReports ==
    ASSUME Typed, NEW i \in DOMAIN task, ToolStep(i)
    PROVE  ToolReports(i)
<1>1. calls[i] \in Call
  BY DEF Typed, TypeOK
<1>2. /\ log \o <<>> = log
      /\ \A type \in {"started", "completed", "failed"} :
            log \o <<ToolEvent(type, calls[i])>> = Append(log, ToolEvent(type, calls[i]))
  BY <1>1, EventTypes, ConcatFacts DEF Typed
<1> QED
  BY <1>2 DEF ToolStep, ToolStarts, ToolCompletes, ToolFails, CancelledToolEnds, MoveTask, ToolReports

\* A submit that returned ends the run, with one event or two.
SubmitReports ==
    /\ phase = "submitting" /\ UNCHANGED <<turn, budget, retrieved, calls, task, interrupted>>
    /\ \E type \in {"completed", "failed"} :
          \E verdict \in {"run_completed", "run_failed"} :
             /\ phase' = IF verdict = "run_completed" THEN "completed" ELSE "failed"
             /\ verdict = "run_completed" => type = "completed"
             /\ log' = Append(Append(log, ToolEvent(type, calls[Len(calls)])), Event(verdict))

LEMMA SubmitStepReports ==
    ASSUME Typed, SubmitCompletes \/ SubmitFails
    PROVE  SubmitReports
<1>0. phase = "submitting"
  BY DEF SubmitCompletes, SubmitFails
<1>1. calls[Len(calls)] \in Call
  BY <1>0 DEF Typed
<1>2. \A type \in {"completed", "failed"} : ToolEvent(type, calls[Len(calls)]) \in LogEvents
  BY <1>1, EventTypes
<1>3. log \o <<ToolEvent("completed", calls[Len(calls)]), Event("run_completed")>>
         = Append(Append(log, ToolEvent("completed", calls[Len(calls)])), Event("run_completed"))
  BY <1>2, EventTypes, ConcatFacts DEF Typed
<1>4. \A type \in {"completed", "failed"} :
         FailAfter(<<ToolEvent(type, calls[Len(calls)])>>) =>
            /\ phase' = "failed"
            /\ log' = Append(Append(log, ToolEvent(type, calls[Len(calls)])), Event("run_failed"))
  BY <1>2, FailAppends DEF Typed
<1>5. CASE SubmitCompletes
  BY <1>3, <1>4, <1>5 DEF SubmitCompletes, SubmitReports
<1>6. CASE SubmitFails
  BY <1>4, <1>6 DEF SubmitFails, SubmitReports
<1> QED BY <1>5, <1>6

-----------------------------------------------------------------------------
(* Types *)

LEMMA AnswerFacts ==
    ASSUME NEW answer \in Answers
    PROVE  answer \in Seq(Call) /\ Len(answer) \in Nat \ {0} /\ DOMAIN answer = 1 .. Len(answer)
<1>1. PICK n \in 1 .. MaxCalls : answer \in [1 .. n -> Call]
  BY DEF Answers
<1>2. n \in Nat \ {0}
  BY <1>1
<1> QED BY <1>1, <1>2

LEMMA CountFacts ==
    ASSUME NEW answer \in Seq(Call), NEW t
    PROVE  CountOf(answer, t) \in Nat /\ IsFiniteSet({i \in DOMAIN answer : answer[i].tool = t})
<1>1. DOMAIN answer = 1 .. Len(answer) /\ Len(answer) \in Nat
  OBVIOUS
<1>2. IsFiniteSet(1 .. Len(answer))
  BY <1>1, FS_Interval
<1>3. IsFiniteSet({i \in DOMAIN answer : answer[i].tool = t})
  BY <1>1, <1>2, FS_Subset
<1> QED BY <1>3, FS_CardinalityType DEF CountOf

LEMMA TypedInit == Init => Typed
<1> SUFFICES ASSUME Init PROVE Typed
  OBVIOUS
<1>1. calls = <<>> /\ log = <<>> /\ task = <<>>
  BY DEF Init
<1>2. DOMAIN task = {} /\ calls \in Seq(Call) /\ log \in Seq(LogEvents)
  BY <1>1
<1>3. repeated \in [Tools -> 0 .. MaxRepeated] /\ turn \in 0 .. MaxTurns /\ counted \in 0 .. MaxToolCalls
  BY DEF Init
<1>4. TypeOK
  BY <1>2, <1>3 DEF Init, TypeOK
<1> QED BY <1>2, <1>4 DEF Init, Typed

\* What an accepted answer starts.
LEMMA AnswerTyped ==
    ASSUME Typed, NEW answer \in Answers, ModelAnswers(answer)
    PROVE  Typed'
<1>1. CASE Fresh(answer) /\ WithinBudget(answer) /\ Authorized(answer)
  <2>1. answer \in Seq(Call) /\ Len(answer) \in Nat \ {0} /\ DOMAIN answer = 1 .. Len(answer)
    BY AnswerFacts
  <2>2. seen' \subseteq CallIds /\ counted' \in 0 .. MaxToolCalls
    <3>1. \A i \in DOMAIN answer : answer[i].id \in CallIds
      <4>1. \A i \in DOMAIN answer : answer[i] \in Call
        BY <2>1
      <4> QED BY <4>1 DEF Call
    <3>2. seen' = seen \cup {answer[i].id : i \in DOMAIN answer} /\ counted' = counted + Len(answer)
      BY <1>1 DEF ModelAnswers
    <3>3. counted + Len(answer) <= MaxToolCalls
      BY <1>1 DEF WithinBudget
    <3> QED BY <2>1, <3>1, <3>2, <3>3 DEF Typed, TypeOK
  <2>3. repeated' \in [Tools -> 0 .. MaxRepeated]
    <3>1. \A t \in Tools : CountOf(answer, t) \in Nat
      BY <2>1, CountFacts
    <3>2. ASSUME NEW t \in Tools
          PROVE  repeated[t] + CountOf(answer, t) \in 0 .. MaxRepeated
      BY <1>1, <3>1 DEF WithinBudget, Typed, TypeOK
    <3> QED BY <1>1, <3>2 DEF ModelAnswers
  <2>4. /\ calls' = answer /\ DOMAIN task' = Reads(answer)
        /\ \A i \in DOMAIN task' : task'[i] = "created"
    BY <1>1 DEF ModelAnswers
  <2>5. phase' \in {"reading", "submitting"} /\ log' \in Seq(LogEvents)
    <3>1. answer[Len(answer)] \in Call
      BY <2>1
    <3> QED BY <1>1, <3>1, LogTyped DEF ModelAnswers, Typed
  <2> QED BY <1>1, <2>1, <2>2, <2>3, <2>4, <2>5
          DEF ModelAnswers, Typed, TypeOK, Reads, Statuses
<1>2. CASE ~(Fresh(answer) /\ WithinBudget(answer) /\ Authorized(answer))
  <2>1. phase' = "failed" /\ log' \in Seq(LogEvents)
    BY <1>2, FailAppends, LogTyped DEF ModelAnswers, Typed
  <2> QED BY <1>2, <2>1 DEF ModelAnswers, Typed, TypeOK, budget, Ended
<1> QED BY <1>1, <1>2

LEMMA TurnTyped ==
    ASSUME Typed, BeginTurn(<<>>)
    PROVE  phase' \in {"model", "failed"} /\ turn' \in 0 .. MaxTurns /\ log' \in Seq(LogEvents)
<1>1. log \in Seq(LogEvents) /\ turn \in 0 .. MaxTurns
  BY DEF Typed, TypeOK
<1>2. CASE phase' = "failed" /\ log' = Append(log, Event("run_failed")) /\ turn' = turn
  BY <1>1, <1>2, LogTyped
<1>3. CASE /\ phase' = "model" /\ log' = Append(log, Event("model_requested"))
           /\ turn < MaxTurns /\ turn' = turn + 1
  BY <1>1, <1>3, LogTyped
<1> QED BY <1>1, <1>2, <1>3, TurnAppends

LEMMA TypedNext == Typed /\ [Next]_vars => Typed'
<1> SUFFICES ASSUME Typed, [Next]_vars PROVE Typed'
  OBVIOUS
<1>1. CASE Start
  <2>1. phase' \in {"model", "failed"} /\ turn' \in 0 .. MaxTurns /\ log' \in Seq(LogEvents)
    BY <1>1, TurnTyped DEF Start
  <2>2. UNCHANGED <<seen, counted, repeated, retrieved, calls, task, interrupted>>
    BY <1>1 DEF Start, budget
  <2> QED BY <2>1, <2>2 DEF Typed, TypeOK, Ended
<1>2. CASE ModelRefused
  BY <1>2, FailAppends, LogTyped DEF ModelRefused, Typed, TypeOK, budget, Ended
<1>3. CASE \E answer \in Answers : ModelAnswers(answer)
  BY <1>3, AnswerTyped
<1>4. ASSUME NEW i \in DOMAIN task, ToolStep(i) PROVE Typed'
  <2>1. calls[i] \in Call
    BY DEF Typed, TypeOK
  <2>2. ToolReports(i)
    BY <1>4, ToolStepReports
  <2>3. log' \in Seq(LogEvents)
    BY <2>1, <2>2, LogTyped DEF ToolReports, Typed
  <2>4. DOMAIN task' = DOMAIN task /\ \A j \in DOMAIN task : task'[j] \in Statuses
    BY <2>2 DEF ToolReports, Typed, TypeOK, Statuses
  <2> QED BY <2>2, <2>3, <2>4 DEF ToolReports, Typed, TypeOK, budget
<1>5. CASE GatherCompletes
  <2>1. retrieved' \subseteq Required
    BY <1>5 DEF GatherCompletes, Typed, TypeOK
  <2>2. /\ phase' \in {"submitting", "model", "failed"} /\ turn' \in 0 .. MaxTurns
        /\ log' \in Seq(LogEvents) /\ Len(calls) > 0
    <3>1. CASE Submits(calls)
      <4>1. calls[Len(calls)] \in Call
        BY <1>5 DEF GatherCompletes, Typed
      <4> QED BY <1>5, <3>1, <4>1, LogTyped DEF GatherCompletes, Typed, TypeOK
    <3>2. CASE ~Submits(calls)
      BY <1>5, <3>2, TurnTyped DEF GatherCompletes, Typed
    <3> QED BY <3>1, <3>2
  <2> QED BY <1>5, <2>1, <2>2 DEF GatherCompletes, Typed, TypeOK, budget, Ended
<1>6. CASE GatherFails
  BY <1>6 DEF GatherFails, CancelTasks, Typed, TypeOK, Statuses, budget
<1>7. CASE DrainEnds
  BY <1>7, FailAppends, LogTyped DEF DrainEnds, Typed, TypeOK, budget, Ended
<1>8. CASE SubmitCompletes \/ SubmitFails
  <2>1. SubmitReports /\ calls[Len(calls)] \in Call
    BY <1>8, SubmitStepReports DEF SubmitCompletes, SubmitFails, Typed
  <2>2. log' \in Seq(LogEvents)
    BY <2>1, LogTyped DEF SubmitReports, Typed
  <2> QED BY <2>1, <2>2 DEF SubmitReports, Typed, TypeOK, budget, Ended
<1>9. CASE CancelRun
  BY <1>9 DEF CancelRun, CancelTasks, Typed, TypeOK, Statuses, budget, Ended
<1>10. CASE UNCHANGED vars
  BY <1>10 DEF Typed, TypeOK, vars, budget
<1> QED
  BY <1>1, <1>2, <1>3, <1>4, <1>5, <1>6, <1>7, <1>8, <1>9, <1>10 DEF Next, Finished, ToolStep

\* TypeOK: every field of the run (AgentRuntime.run) keeps its range, the budgets
\* of turns, calls and repetitions included.
THEOREM TypeCorrect == Spec => []TypeOK
<1>1. Typed => TypeOK
  BY DEF Typed
<1> QED BY <1>1, TypedInit, TypedNext, PTL DEF Spec
-----------------------------------------------------------------------------
(* The end of the run *)

Done == {"completed", "failed", "cancelled"}

Verdicts ==
    /\ phase \notin {"reading", "draining"} => \A i \in DOMAIN task : task[i] \in Done
    /\ \A k \in DOMAIN log : log[k].type \in {"run_failed", "run_completed"} =>
          k = Len(log) /\ phase \in {"completed", "failed"}

\* One more event: the verdicts are where they were, or the event is one.
LEMMA VerdictsAppend ==
    ASSUME log \in Seq(LogEvents), Verdicts, phase \notin Ended, NEW e \in LogEvents,
           log' = Append(log, e),
           e.type \in {"run_failed", "run_completed"} => phase' \in {"completed", "failed"}
    PROVE  \A k \in DOMAIN log' : log'[k].type \in {"run_failed", "run_completed"} =>
              k = Len(log') /\ phase' \in {"completed", "failed"}
<1>1. \A k \in DOMAIN log : log[k].type \notin {"run_failed", "run_completed"}
  BY DEF Verdicts, Ended
<1> QED BY <1>1, AppendFacts

LEMMA VerdictsNext == Typed /\ Verdicts /\ [Next]_vars => Verdicts'
<1> SUFFICES ASSUME Typed, Verdicts, [Next]_vars PROVE Verdicts'
  OBVIOUS
<1> DEFINE VerdictIsLast ==
             \A k \in DOMAIN log : log[k].type \in {"run_failed", "run_completed"} =>
                k = Len(log) /\ phase \in {"completed", "failed"}
<1>0. log \in Seq(LogEvents)
  BY DEF Typed
<1>a. ASSUME phase \notin Ended, UNCHANGED task, \A i \in DOMAIN task : task[i] \in Done,
             NEW e \in LogEvents, log' = Append(log, e),
             e.type \in {"run_failed", "run_completed"} => phase' \in {"completed", "failed"}
      PROVE  Verdicts'
  <2>1. VerdictIsLast'
    BY <1>0, <1>a, VerdictsAppend
  <2> QED BY <1>a, <2>1 DEF Verdicts
<1>b. Event("run_failed") \in LogEvents /\ Event("run_failed").type = "run_failed"
      /\ Event("run_completed") \in LogEvents /\ Event("run_completed").type = "run_completed"
      /\ Event("model_requested") \in LogEvents /\ Event("model_requested").type = "model_requested"
  BY EventTypes DEF Event
<1>c. \A c \in Call, type \in {"started", "completed", "failed"} :
         ToolEvent(type, c) \in LogEvents /\ ToolEvent(type, c).type = type
  BY EventTypes DEF ToolEvent
<1>d. ASSUME phase \notin Ended, UNCHANGED log PROVE VerdictIsLast'
  BY <1>d DEF Verdicts, Ended
<1>e. phase \notin {"reading", "draining"} => \A i \in DOMAIN task : task[i] \in Done
  BY DEF Verdicts
<1>1. CASE Start
  <2>1. phase = "new" /\ UNCHANGED task /\ BeginTurn(<<>>)
    BY <1>1 DEF Start
  <2> QED BY <2>1, <1>0, <1>a, <1>b, <1>e, TurnAppends DEF Ended
<1>2. CASE ModelRefused
  <2>1. phase = "model" /\ UNCHANGED task /\ FailAfter(<<>>)
    BY <1>2 DEF ModelRefused
  <2> QED BY <2>1, <1>0, <1>a, <1>b, <1>e, FailAppends DEF Ended
<1>3. ASSUME NEW answer \in Answers, ModelAnswers(answer) PROVE Verdicts'
  <2>0. phase = "model"
    BY <1>3 DEF ModelAnswers
  <2>1. CASE Fresh(answer) /\ WithinBudget(answer) /\ Authorized(answer)
    <3>1. task' = [i \in Reads(answer) |-> "created"]
      BY <1>3, <2>1 DEF ModelAnswers
    <3>2. CASE Reads(answer) = {}
      <4>1. answer[Len(answer)] \in Call
        BY AnswerFacts
      <4>2. phase' = "submitting" /\ log' = Append(log, ToolEvent("started", answer[Len(answer)]))
        BY <1>3, <2>1, <3>2 DEF ModelAnswers
      <4>3. VerdictIsLast'
        BY <1>0, <1>c, <2>0, <4>1, <4>2, VerdictsAppend DEF Ended
      <4> QED BY <3>1, <3>2, <4>3 DEF Verdicts
    <3>3. CASE Reads(answer) # {}
      <4>1. phase' = "reading" /\ UNCHANGED log
        BY <1>3, <2>1, <3>3 DEF ModelAnswers
      <4> QED BY <1>d, <2>0, <4>1 DEF Verdicts, Ended
    <3> QED BY <3>2, <3>3
  <2>2. CASE ~(Fresh(answer) /\ WithinBudget(answer) /\ Authorized(answer))
    <3>1. UNCHANGED task /\ FailAfter(<<>>)
      BY <1>3, <2>2 DEF ModelAnswers
    <3> QED BY <3>1, <2>0, <1>0, <1>a, <1>b, <1>e, FailAppends DEF Ended
  <2> QED BY <2>1, <2>2
<1>4. ASSUME NEW i \in DOMAIN task, ToolStep(i) PROVE Verdicts'
  <2>1. calls[i] \in Call /\ ToolReports(i)
    BY <1>4, ToolStepReports DEF Typed, TypeOK
  <2>2. phase \in {"reading", "draining"} /\ phase' = phase
    BY <2>1 DEF Verdicts, Done, ToolReports
  <2>3. VerdictIsLast'
    <3>1. CASE UNCHANGED log
      BY <1>d, <2>2, <3>1 DEF Ended
    <3>2. CASE \E type \in {"started", "completed", "failed"} :
                  log' = Append(log, ToolEvent(type, calls[i]))
      BY <1>0, <1>c, <2>1, <2>2, <3>2, VerdictsAppend DEF Ended
    <3> QED BY <2>1, <3>1, <3>2 DEF ToolReports
  <2> QED BY <2>2, <2>3 DEF Verdicts
<1>5. CASE GatherCompletes
  <2>1. phase = "reading" /\ UNCHANGED task /\ \A i \in DOMAIN task : task[i] \in Done
    BY <1>5 DEF GatherCompletes, Done
  <2>2. CASE Submits(calls)
    <3>1. calls[Len(calls)] \in Call
      BY <2>1 DEF Typed
    <3>2. log' = Append(log, ToolEvent("started", calls[Len(calls)]))
      BY <1>5, <2>2 DEF GatherCompletes
    <3> QED BY <1>a, <1>c, <2>1, <3>1, <3>2 DEF Ended
  <2>3. CASE ~Submits(calls)
    <3>1. BeginTurn(<<>>)
      BY <1>5, <2>3 DEF GatherCompletes
    <3> QED BY <2>1, <3>1, <1>0, <1>a, <1>b, TurnAppends DEF Ended
  <2> QED BY <2>2, <2>3
<1>6. CASE GatherFails
  BY <1>6, <1>d DEF GatherFails, Verdicts, Ended
<1>7. CASE DrainEnds
  <2>1. phase = "draining" /\ UNCHANGED task /\ \A i \in DOMAIN task : task[i] \in Done
    BY <1>7 DEF DrainEnds, Done
  <2>2. CASE interrupted
    BY <1>7, <2>1, <2>2, <1>d DEF DrainEnds, Verdicts, Ended
  <2>3. CASE ~interrupted
    <3>1. FailAfter(<<>>)
      BY <1>7, <2>3 DEF DrainEnds
    <3> QED BY <2>1, <3>1, <1>0, <1>a, <1>b, FailAppends DEF Ended
  <2> QED BY <2>2, <2>3
<1>8. CASE SubmitCompletes \/ SubmitFails
  <2>1. SubmitReports /\ calls[Len(calls)] \in Call
    BY <1>8, SubmitStepReports DEF SubmitCompletes, SubmitFails, Typed
  <2>2. PICK type \in {"completed", "failed"}, verdict \in {"run_completed", "run_failed"} :
              /\ phase' = IF verdict = "run_completed" THEN "completed" ELSE "failed"
              /\ log' = Append(Append(log, ToolEvent(type, calls[Len(calls)])), Event(verdict))
    BY <2>1 DEF SubmitReports
  <2> DEFINE reported == Append(log, ToolEvent(type, calls[Len(calls)]))
  <2>3. phase' \in {"completed", "failed"} /\ phase = "submitting" /\ UNCHANGED task
    BY <2>1, <2>2 DEF SubmitReports
  <2>4. reported \in Seq(LogEvents)
        /\ \A k \in DOMAIN reported : reported[k].type \notin {"run_failed", "run_completed"}
    <3>1. \A k \in DOMAIN log : log[k].type \notin {"run_failed", "run_completed"}
      BY <2>3 DEF Verdicts
    <3> QED BY <3>1, <2>1, <1>0, <1>c, AppendFacts
  <2>5. VerdictIsLast'
    <3> HIDE DEF reported
    <3>1. log' = Append(reported, Event(verdict))
      BY <2>2 DEF reported
    <3> QED BY <1>b, <2>3, <2>4, <3>1, AppendFacts
  <2> QED BY <2>3, <2>5, <1>e DEF Verdicts
<1>9. CASE CancelRun
  <2>1. phase \notin Ended /\ UNCHANGED log
    BY <1>9 DEF CancelRun, Ended
  <2> QED BY <1>9, <1>d, <1>e, <2>1 DEF CancelRun, Verdicts
<1>10. CASE UNCHANGED vars
  BY <1>10 DEF Verdicts, vars
<1> QED
  BY <1>1, <1>2, <1>3, <1>4, <1>5, <1>6, <1>7, <1>8, <1>9, <1>10 DEF Next, Finished, ToolStep

LEMMA VerdictsInit == Init => Verdicts
<1>1. Init => DOMAIN log = {} /\ DOMAIN task = {}
  BY DEF Init
<1> QED BY <1>1 DEF Verdicts

\* NothingAfterTheEnd: a run that has ended leaves no read task behind, and its
\* verdict is its last event (the except clauses of AgentRuntime.run).
THEOREM VerdictIsTheEnd == Spec => []NothingAfterTheEnd
<1>1. Verdicts => NothingAfterTheEnd
  BY DEF Verdicts, NothingAfterTheEnd, Ended, Done, Positions
<1> QED BY <1>1, TypedInit, TypedNext, VerdictsInit, VerdictsNext, PTL DEF Spec
-----------------------------------------------------------------------------
(* The submit and the retrievals it rests on *)

\* A result of tool t was in front of the model: it is completed in the log
\* before a question to the model.
Known(t) ==
    \E m, j \in DOMAIN log :
        /\ j < m
        /\ log[m].type = "model_requested"
        /\ log[j].type = "completed" /\ log[j].call.tool = t

Reported(i) == \E j \in DOMAIN log : log[j].type = "completed" /\ log[j].call = calls[i]

Retrieval ==
    /\ phase \in {"new", "model", "reading", "draining"} => SubmitStarts = {}
    /\ phase \in {"new", "model", "reading"} => \A t \in retrieved : Known(t)
    /\ phase = "reading" /\ Submits(calls) => Required \subseteq retrieved
    /\ phase = "reading" => \A i \in DOMAIN task : task[i] = "completed" => Reported(i)
    /\ phase = "submitting" =>
          \A k \in SubmitStarts : k = Len(log) /\ log[k].call = calls[Len(calls)]
    /\ SubmitOnRetrieved /\ SubmitIsLast

LEMMA NoSubmitYet == SubmitStarts = {} => SubmitOnRetrieved /\ SubmitIsLast
BY DEF SubmitOnRetrieved, SubmitIsLast

\* An event that is not the start of a submit.
LEMMA QuietAppend ==
    ASSUME log \in Seq(LogEvents), NEW e \in LogEvents, log' = Append(log, e),
           ~(e.type = "started" /\ e.call.tool = SubmitTool)
    PROVE  /\ SubmitStarts' = SubmitStarts
           /\ \A t : Known(t) => Known(t)'
           /\ \A k \in DOMAIN log : k \in DOMAIN log' /\ log'[k] = log[k]
<1>1. /\ DOMAIN log' = DOMAIN log \cup {Len(log) + 1}
      /\ \A k \in DOMAIN log : log'[k] = log[k]
      /\ log'[Len(log) + 1] = e
  BY AppendFacts
<1>2. SubmitStarts' = SubmitStarts
  BY <1>1 DEF SubmitStarts, Positions
<1>3. \A t : Known(t) => Known(t)'
  BY <1>1 DEF Known
<1> QED BY <1>1, <1>2, <1>3

\* The start of the submit: everything it needs was in front of the model.
LEMMA SubmitAppend ==
    ASSUME log \in Seq(LogEvents), NEW c \in Call, c.tool = SubmitTool,
           log' = Append(log, ToolEvent("started", c)),
           SubmitStarts = {}, \A t \in Required : Known(t)
    PROVE  /\ \A k \in SubmitStarts' : k = Len(log') /\ log'[k].call = c
           /\ SubmitOnRetrieved' /\ SubmitIsLast'
<1>1. /\ DOMAIN log' = DOMAIN log \cup {Len(log) + 1} /\ Len(log') = Len(log) + 1
      /\ \A k \in DOMAIN log : log'[k] = log[k]
      /\ log'[Len(log) + 1] = ToolEvent("started", c)
  BY EventTypes, AppendFacts
<1>2. \A k \in SubmitStarts' : k = Len(log') /\ log'[k].call = c
  BY <1>1 DEF SubmitStarts, Positions, ToolEvent
<1>3. DOMAIN log' = 1 .. Len(log') /\ DOMAIN log = 1 .. Len(log) /\ Len(log) \in Nat
  BY <1>1
<1>4. SubmitIsLast'
  BY <1>2, <1>3 DEF SubmitIsLast
<1>5. SubmitOnRetrieved'
  <2> SUFFICES ASSUME NEW k \in SubmitStarts', NEW t \in Required
               PROVE  \E m \in Positions("model_requested")', j \in Positions("completed")' :
                         j < m /\ m < k /\ log'[j].call.tool = t
    BY DEF SubmitOnRetrieved
  <2>1. PICK m, j \in DOMAIN log : /\ j < m /\ log[m].type = "model_requested"
                                   /\ log[j].type = "completed" /\ log[j].call.tool = t
    BY DEF Known
  <2>2. m \in Positions("model_requested")' /\ j \in Positions("completed")'
    BY <1>1, <2>1 DEF Positions
  <2>3. m < k
    BY <1>1, <1>2, <1>3
  <2> QED BY <1>1, <2>1, <2>2, <2>3
<1> QED BY <1>2, <1>4, <1>5

\* The end of the submit: its report and the verdict change none of it.
LEMMA SubmitEndAppends ==
    ASSUME log \in Seq(LogEvents), NEW c \in Call,
           NEW type \in {"completed", "failed"}, NEW verdict \in {"run_completed", "run_failed"},
           log' = Append(Append(log, ToolEvent(type, c)), Event(verdict)),
           \A k \in SubmitStarts : k = Len(log) /\ log[k].call = c,
           SubmitOnRetrieved
    PROVE  SubmitOnRetrieved' /\ SubmitIsLast'
<1> DEFINE reported == Append(log, ToolEvent(type, c))
<1>1. /\ reported \in Seq(LogEvents) /\ Len(reported) = Len(log) + 1
      /\ DOMAIN reported = DOMAIN log \cup {Len(log) + 1}
      /\ \A k \in DOMAIN log : reported[k] = log[k]
      /\ reported[Len(log) + 1] = ToolEvent(type, c)
  BY EventTypes, AppendFacts
<1> HIDE DEF reported
<1>2. /\ Len(log') = Len(log) + 2 /\ DOMAIN log' = DOMAIN log \cup {Len(log) + 1, Len(log) + 2}
      /\ \A k \in DOMAIN log : log'[k] = log[k]
      /\ log'[Len(log) + 1] = ToolEvent(type, c)
      /\ log'[Len(log) + 2] = Event(verdict)
  <2>1. log' = Append(reported, Event(verdict)) /\ Event(verdict) \in LogEvents
    BY EventTypes DEF reported
  <2>2. /\ Len(log') = Len(reported) + 1
        /\ DOMAIN log' = DOMAIN reported \cup {Len(reported) + 1}
        /\ \A k \in DOMAIN reported : log'[k] = reported[k]
        /\ log'[Len(reported) + 1] = Event(verdict)
    BY <1>1, <2>1, AppendFacts
  <2> QED BY <1>1, <2>2
<1>3. SubmitStarts' = SubmitStarts
  BY <1>2 DEF SubmitStarts, Positions, ToolEvent, Event
<1>4. SubmitOnRetrieved'
  BY <1>2, <1>3 DEF SubmitOnRetrieved, SubmitStarts, Positions
<1>5. SubmitIsLast'
  <2>1. "call" \notin DOMAIN Event(verdict)
    BY DEF Event
  <2>2. ToolEvent(type, c).call = c
    BY DEF ToolEvent
  <2>3. DOMAIN log = 1 .. Len(log) /\ Len(log) \in Nat
    OBVIOUS
  <2>4. \A k \in SubmitStarts : k = Len(log) /\ k \in DOMAIN log /\ log'[k].call = c
    BY <1>2 DEF SubmitStarts, Positions
  <2> QED BY <1>2, <1>3, <2>1, <2>2, <2>3, <2>4 DEF SubmitIsLast
<1> QED BY <1>4, <1>5

\* The run goes from one question towards the next, or fails.
LEMMA RetrievalQuiet ==
    ASSUME Typed, Retrieval, phase \in {"new", "model", "draining"}, UNCHANGED retrieved,
           NEW e \in LogEvents, log' = Append(log, e),
           e.type \in {"model_requested", "run_failed"},
           phase' = "failed" \/ (phase' = "model" /\ phase # "draining")
    PROVE  Retrieval'
<1>1. SubmitStarts' = {} /\ \A t \in retrieved : Known(t) => Known(t)'
  BY QuietAppend DEF Typed, Retrieval
<1>2. SubmitOnRetrieved' /\ SubmitIsLast'
  BY <1>1, NoSubmitYet DEF SubmitOnRetrieved, SubmitIsLast
<1> QED BY <1>1, <1>2 DEF Retrieval

LEMMA RetrievalInit == Init => Retrieval
<1>1. Init => SubmitStarts = {}
  BY DEF Init, SubmitStarts, Positions
<1> QED BY <1>1, NoSubmitYet DEF Init, Retrieval

LEMMA AnswerRetrieval ==
    ASSUME Typed, Retrieval, NEW answer \in Answers, ModelAnswers(answer)
    PROVE  Retrieval'
<1>0. phase = "model" /\ UNCHANGED retrieved /\ SubmitStarts = {} /\ log \in Seq(LogEvents)
  BY DEF ModelAnswers, Retrieval, Typed
<1>1. CASE Fresh(answer) /\ WithinBudget(answer) /\ Authorized(answer)
  <2>1. /\ calls' = answer /\ DOMAIN task' = Reads(answer)
        /\ \A i \in DOMAIN task' : task'[i] = "created"
    BY <1>1 DEF ModelAnswers
  <2>2. Submits(answer) => \A t \in Required : Known(t)
    BY <1>0, <1>1 DEF Authorized, Retrieval
  <2>3. CASE Reads(answer) = {}
    <3>1. answer[Len(answer)] \in Call /\ answer[Len(answer)].tool = SubmitTool
      BY <2>3, AnswerFacts DEF Reads
    <3>2. phase' = "submitting" /\ log' = Append(log, ToolEvent("started", answer[Len(answer)]))
      BY <1>1, <2>3 DEF ModelAnswers
    <3>3. /\ \A k \in SubmitStarts' : k = Len(log') /\ log'[k].call = answer[Len(answer)]
          /\ SubmitOnRetrieved' /\ SubmitIsLast'
      BY <1>0, <2>2, <3>1, <3>2, SubmitAppend DEF Submits
    <3> QED BY <2>1, <3>2, <3>3 DEF Retrieval
  <2>4. CASE Reads(answer) # {}
    <3>1. phase' = "reading" /\ UNCHANGED log
      BY <1>1, <2>4 DEF ModelAnswers
    <3>2. SubmitStarts' = {} /\ \A t \in retrieved' : Known(t)'
      BY <1>0, <3>1 DEF Retrieval, SubmitStarts, Positions, Known
    <3>3. SubmitOnRetrieved' /\ SubmitIsLast'
      BY <3>2 DEF SubmitOnRetrieved, SubmitIsLast
    <3>4. Submits(calls') => Required \subseteq retrieved'
      BY <1>0, <1>1, <2>1 DEF Authorized
    <3> QED BY <2>1, <3>1, <3>2, <3>3, <3>4 DEF Retrieval, Submits
  <2> QED BY <2>3, <2>4
<1>2. CASE ~(Fresh(answer) /\ WithinBudget(answer) /\ Authorized(answer))
  <2>1. FailAfter(<<>>)
    BY <1>2 DEF ModelAnswers
  <2> QED BY <1>0, <2>1, FailAppends, EventTypes, RetrievalQuiet DEF Event
<1> QED BY <1>1, <1>2

LEMMA ToolRetrieval ==
    ASSUME Typed, Verdicts, Retrieval, NEW i \in DOMAIN task, ToolStep(i)
    PROVE  Retrieval'
<1>1. /\ calls[i] \in Call /\ calls[i].tool # SubmitTool /\ ToolReports(i)
      /\ log \in Seq(LogEvents) /\ i \in DOMAIN calls
  BY ToolStepReports DEF Typed, TypeOK
<1>2. phase \in {"reading", "draining"} /\ UNCHANGED <<phase, retrieved, calls>>
  BY <1>1 DEF Verdicts, Done, ToolReports
<1>3. SubmitStarts = {}
  BY <1>2 DEF Retrieval
<1>4. CASE UNCHANGED log /\ task' = [task EXCEPT ![i] = "cancelled"]
  <2>1. SubmitStarts' = {} /\ \A t : Known(t) => Known(t)'
    BY <1>3, <1>4 DEF SubmitStarts, Positions, Known
  <2>2. \A j \in DOMAIN task : task'[j] = "completed" /\ phase = "reading" => Reported(j)'
    BY <1>2, <1>4 DEF Retrieval, Reported
  <2> QED BY <1>2, <1>4, <2>1, <2>2 DEF Retrieval, SubmitOnRetrieved, SubmitIsLast, Submits
<1>5. ASSUME NEW type \in {"started", "completed", "failed"},
             log' = Append(log, ToolEvent(type, calls[i])),
             task' = [task EXCEPT ![i] = IF type = "started" THEN "running" ELSE type]
      PROVE  Retrieval'
  <2>1. ToolEvent(type, calls[i]) \in LogEvents
        /\ ToolEvent(type, calls[i]).call = calls[i] /\ ToolEvent(type, calls[i]).type = type
    BY <1>1, EventTypes DEF ToolEvent
  <2>2. /\ SubmitStarts' = {} /\ \A t : Known(t) => Known(t)'
        /\ \A k \in DOMAIN log : k \in DOMAIN log' /\ log'[k] = log[k]
    BY <1>1, <1>3, <1>5, <2>1, QuietAppend
  <2>3. Len(log) + 1 \in DOMAIN log' /\ log'[Len(log) + 1] = ToolEvent(type, calls[i])
    BY <1>1, <1>5, <2>1, AppendFacts
  <2>4. ASSUME NEW j \in DOMAIN task, task'[j] = "completed", phase = "reading"
        PROVE  Reported(j)'
    <3>1. CASE j = i
      <4>1. type = "completed"
        BY <1>5, <2>4, <3>1
      <4> QED BY <1>2, <2>1, <2>3, <3>1, <4>1 DEF Reported
    <3>2. CASE j # i
      BY <1>2, <1>5, <2>2, <2>4, <3>2 DEF Retrieval, Reported
    <3> QED BY <3>1, <3>2
  <2>5. DOMAIN task' = DOMAIN task
    BY <1>5
  <2> QED BY <1>2, <2>2, <2>4, <2>5 DEF Retrieval, SubmitOnRetrieved, SubmitIsLast, Submits
<1> QED BY <1>1, <1>4, <1>5 DEF ToolReports

LEMMA GatherRetrieval ==
    ASSUME Typed, Retrieval, GatherCompletes
    PROVE  Retrieval'
<1>0. /\ phase = "reading" /\ \A i \in DOMAIN task : task[i] = "completed"
      /\ retrieved' = retrieved \cup (Required \cap {calls[i].tool : i \in DOMAIN task})
      /\ UNCHANGED calls /\ SubmitStarts = {} /\ log \in Seq(LogEvents)
  BY DEF GatherCompletes, Retrieval, Typed
<1>1. CASE Submits(calls)
  <2>1. calls[Len(calls)] \in Call /\ calls[Len(calls)].tool = SubmitTool
    BY <1>0, <1>1 DEF Typed, Submits
  <2>2. phase' = "submitting" /\ log' = Append(log, ToolEvent("started", calls[Len(calls)]))
    BY <1>1 DEF GatherCompletes
  <2>3. \A t \in Required : Known(t)
    BY <1>0, <1>1 DEF Retrieval
  <2> QED BY <1>0, <2>1, <2>2, <2>3, SubmitAppend DEF Retrieval
<1>2. CASE ~Submits(calls)
  <2>1. BeginTurn(<<>>)
    BY <1>2 DEF GatherCompletes
  <2>2. CASE phase' = "failed" /\ log' = Append(log, Event("run_failed"))
    <3>1. SubmitStarts' = {}
      BY <1>0, <2>2, EventTypes, QuietAppend DEF Event
    <3> QED BY <2>2, <3>1 DEF Retrieval, SubmitOnRetrieved, SubmitIsLast
  <2>3. CASE phase' = "model" /\ log' = Append(log, Event("model_requested"))
    <3>1. /\ SubmitStarts' = {} /\ \A t : Known(t) => Known(t)'
          /\ \A k \in DOMAIN log : k \in DOMAIN log' /\ log'[k] = log[k]
      BY <1>0, <2>3, EventTypes, QuietAppend DEF Event
    <3>2. Len(log) + 1 \in DOMAIN log' /\ log'[Len(log) + 1].type = "model_requested"
      BY <1>0, <2>3, EventTypes, AppendFacts DEF Event
    <3>3. ASSUME NEW i \in DOMAIN task PROVE Known(calls[i].tool)'
      <4>1. PICK j \in DOMAIN log : log[j].type = "completed" /\ log[j].call = calls[i]
        BY <1>0 DEF Retrieval, Reported
      <4>2. j < Len(log) + 1
        BY <1>0
      <4> QED BY <1>0, <3>1, <3>2, <4>1, <4>2 DEF Known
    <3>4. \A t \in retrieved' : Known(t)'
      BY <1>0, <3>1, <3>3 DEF Retrieval
    <3> QED BY <2>3, <3>1, <3>4 DEF Retrieval, SubmitOnRetrieved, SubmitIsLast
  <2> QED BY <1>0, <2>1, <2>2, <2>3, TurnAppends
<1> QED BY <1>1, <1>2

LEMMA RetrievalNext == Typed /\ Verdicts /\ Retrieval /\ [Next]_vars => Retrieval'
<1> SUFFICES ASSUME Typed, Verdicts, Retrieval, [Next]_vars PROVE Retrieval'
  OBVIOUS
<1>a. log \in Seq(LogEvents)
  BY DEF Typed
<1>b. \A type \in {"model_requested", "run_failed"} :
         Event(type) \in LogEvents /\ Event(type).type = type
  BY EventTypes DEF Event
<1>c. ASSUME UNCHANGED <<log, retrieved>>, phase' \in Ended \cup {"draining"},
             phase' = "draining" => phase \in {"reading", "draining"}
      PROVE  Retrieval'
  <2>1. SubmitStarts' = SubmitStarts /\ (SubmitOnRetrieved /\ SubmitIsLast)'
    BY <1>c DEF Retrieval, SubmitOnRetrieved, SubmitIsLast, SubmitStarts, Positions
  <2> QED BY <1>c, <2>1 DEF Retrieval, Ended
<1>1. CASE Start
  BY <1>1, <1>a, <1>b, TurnAppends, RetrievalQuiet DEF Start
<1>2. CASE ModelRefused
  BY <1>2, <1>a, <1>b, FailAppends, RetrievalQuiet DEF ModelRefused
<1>3. CASE \E answer \in Answers : ModelAnswers(answer)
  BY <1>3, AnswerRetrieval
<1>4. ASSUME NEW i \in DOMAIN task, ToolStep(i) PROVE Retrieval'
  BY <1>4, ToolRetrieval
<1>5. CASE GatherCompletes
  BY <1>5, GatherRetrieval
<1>6. CASE GatherFails
  BY <1>6, <1>c DEF GatherFails
<1>7. CASE DrainEnds
  <2>1. CASE interrupted
    BY <1>7, <2>1, <1>c DEF DrainEnds, Ended
  <2>2. CASE ~interrupted
    <3>1. phase = "draining" /\ UNCHANGED retrieved /\ FailAfter(<<>>)
      BY <1>7, <2>2 DEF DrainEnds
    <3>2. phase' = "failed" /\ log' = Append(log, Event("run_failed"))
      BY <3>1, <1>a, FailAppends
    <3>3. Event("run_failed") \in LogEvents /\ Event("run_failed").type = "run_failed"
      BY <1>b
    <3> QED BY <3>1, <3>2, <3>3, RetrievalQuiet
  <2> QED BY <2>1, <2>2
<1>8. CASE SubmitCompletes \/ SubmitFails
  <2>1. SubmitReports /\ calls[Len(calls)] \in Call
    BY <1>8, SubmitStepReports DEF SubmitCompletes, SubmitFails, Typed
  <2>2. phase = "submitting" /\ phase' \in {"completed", "failed"}
    BY <2>1 DEF SubmitReports
  <2>3. SubmitOnRetrieved' /\ SubmitIsLast'
    BY <2>1, <2>2, <1>a, SubmitEndAppends DEF SubmitReports, Retrieval
  <2> QED BY <2>2, <2>3 DEF Retrieval
<1>9. CASE CancelRun
  BY <1>9, <1>c DEF CancelRun, Ended
<1>10. CASE UNCHANGED vars
  BY <1>10 DEF vars, Retrieval, SubmitOnRetrieved, SubmitIsLast, SubmitStarts, Positions,
               Known, Reported, Submits
<1> QED
  BY <1>1, <1>2, <1>3, <1>4, <1>5, <1>6, <1>7, <1>8, <1>9, <1>10 DEF Next, Finished, ToolStep

LEMMA RetrievalHolds == Spec => [](Typed /\ Verdicts /\ Retrieval)
BY TypedInit, TypedNext, VerdictsInit, VerdictsNext, RetrievalInit, RetrievalNext, PTL DEF Spec

\* SubmitOnRetrieved: a submit is executed only on top of required retrievals
\* whose results the model has seen (ToolAuthorizer, run_with_task_control).
THEOREM SubmitHasItsEvidence == Spec => []SubmitOnRetrieved
<1>1. Retrieval => SubmitOnRetrieved
  BY DEF Retrieval
<1> QED BY <1>1, RetrievalHolds, PTL

\* SubmitIsLast: no read tool of the run starts or ends once its submit runs.
THEOREM SubmitRunsAlone == Spec => []SubmitIsLast
<1>1. Retrieval => SubmitIsLast
  BY DEF Retrieval
<1> QED BY <1>1, RetrievalHolds, PTL

-----------------------------------------------------------------------------
(* The promise to the workflow *)

\* A step of the run is a step of GuardedSubmission or a stutter: the results
\* only grow, and a submit has all the required ones (run_with_task_control).
LEMMA StepKeepsThePromise ==
    ASSUME Typed, Typed', Retrieval, [Next]_vars
    PROVE  [Contract!Next]_(Contract!vars)
<1> USE DEF Contract!Next, Contract!vars, Contract!Gather, Contract!Submit, Contract!Complete,
            Contract!Stop, Contract!AddResults
<1>a. retrieved \subseteq Required /\ retrieved' \subseteq Required
  BY DEF Typed, TypeOK
<1>b. retrieved \subseteq retrieved' => retrieved' \in {retrieved \cup S : S \in SUBSET Required}
  <2>1. retrieved \subseteq retrieved' => retrieved' = retrieved \cup retrieved'
    OBVIOUS
  <2> QED BY <1>a, <2>1
<1>c. ASSUME phase \in {"new", "model", "reading", "draining", "submitting"},
             phase' \in {"failed", "cancelled"}, retrieved \subseteq retrieved'
      PROVE  Contract!Next
  BY <1>b, <1>c DEF Status, Ended
<1>1. CASE Start
  <2>1. phase = "new" /\ UNCHANGED retrieved /\ phase' \in {"failed", "model"}
    BY <1>1 DEF Start, BeginTurn, FailAfter
  <2> QED BY <2>1, <1>c DEF Status, Ended
<1>2. CASE ModelRefused
  BY <1>2, <1>c DEF ModelRefused, FailAfter
<1>3. ASSUME NEW answer \in Answers, ModelAnswers(answer) PROVE [Contract!Next]_(Contract!vars)
  <2>1. phase = "model" /\ UNCHANGED retrieved
        /\ phase' \in {"reading", "submitting", "failed"}
    BY <1>3 DEF ModelAnswers, FailAfter
  <2>2. phase' = "submitting" => Required \subseteq retrieved
    <3>1. phase' = "submitting" => Reads(answer) = {} /\ Authorized(answer)
      BY <1>3 DEF ModelAnswers, FailAfter
    <3>2. Reads(answer) = {} => Submits(answer)
      BY AnswerFacts DEF Reads, Submits
    <3> QED BY <3>1, <3>2 DEF Authorized
  <2> QED BY <2>1, <2>2, <1>b, <1>c DEF Status, Ended
<1>4. ASSUME NEW i \in DOMAIN task, ToolStep(i) PROVE UNCHANGED <<phase, retrieved>>
  BY <1>4 DEF ToolStep, ToolStarts, ToolCompletes, ToolFails, CancelledToolEnds, MoveTask
<1>5. CASE GatherCompletes
  <2>1. phase = "reading" /\ retrieved \subseteq retrieved'
        /\ phase' \in {"submitting", "model", "failed"}
        /\ (phase' = "submitting" => Submits(calls))
    BY <1>5 DEF GatherCompletes, BeginTurn, FailAfter
  <2>2. phase' = "submitting" => Required \subseteq retrieved
    BY <2>1 DEF Retrieval
  <2> QED BY <2>1, <2>2, <1>b, <1>c DEF Status, Ended
<1>6. CASE GatherFails
  BY <1>6 DEF GatherFails, Status, Ended
<1>7. CASE DrainEnds
  BY <1>7, <1>c DEF DrainEnds, FailAfter
<1>8. CASE SubmitCompletes \/ SubmitFails
  <2>1. phase = "submitting" /\ UNCHANGED retrieved /\ phase' \in {"completed", "failed"}
    BY <1>8 DEF SubmitCompletes, SubmitFails, FailAfter
  <2> QED BY <2>1, <1>c DEF Status, Ended
<1>9. CASE CancelRun
  <2>1. \/ phase \in {"new", "model", "submitting"} /\ phase' = "cancelled"
        \/ phase \in {"reading", "draining"} /\ phase' = "draining"
    BY <1>9 DEF CancelRun
  <2>2. UNCHANGED retrieved
    BY <1>9 DEF CancelRun
  <2> QED BY <2>1, <2>2, <1>c DEF Status, Ended
<1>10. CASE UNCHANGED vars
  BY <1>10 DEF vars, Status
<1>11. UNCHANGED <<phase, retrieved>> => UNCHANGED Contract!vars
  BY DEF Status
<1> QED
  BY <1>1, <1>2, <1>3, <1>4, <1>5, <1>6, <1>7, <1>8, <1>9, <1>10, <1>11 DEF Next, Finished, ToolStep

\* A run of the agent implements the safety of its promise to the workflow; its
\* end under fairness is checked by the run over ContractSpec.
THEOREM RunKeepsThePromise == Spec => Contract!Safety
<1>1. Init => Contract!Init
  BY DEF Init, Contract!Init, Status, Ended
<1>2. Spec => [](Typed /\ Retrieval)
  BY RetrievalHolds, PTL
<1> QED BY <1>1, <1>2, StepKeepsThePromise, PTL DEF Spec, Contract!Safety
-----------------------------------------------------------------------------
(* The balance of the calls *)

\* The calls of the current answer that may still start, and the calls of the
\* tools T that have started or are still to be started.
Pending == {i \in DOMAIN calls :
               /\ phase = "reading"
               /\ calls[i].tool = SubmitTool \/ (i \in DOMAIN task /\ task[i] = "created")}
Started(T) == {k \in Positions("started") : log[k].call.tool \in T}
Waiting(T) == {i \in Pending : calls[i].tool \in T}
Charged(T) == Cardinality(Started(T)) + Cardinality(Waiting(T))

\* No id starts twice, and whatever starts or still may start was counted.
Identities ==
    /\ \A i \in Pending : calls[i].id \in seen
    /\ \A i, j \in Pending : i # j => calls[i].id # calls[j].id
    /\ \A k \in Positions("started") :
          log[k].call.id \in seen /\ \A i \in Pending : log[k].call.id # calls[i].id
    /\ \A j, k \in Positions("started") : j # k => log[j].call.id # log[k].call.id

Balance ==
    /\ phase = "draining" => \A i \in DOMAIN task : task[i] # "created"
    /\ Identities
    /\ \A t \in Tools : Charged({t}) <= repeated[t]
    /\ Charged(Tools) <= counted

LEMMA ChargedFinite ==
    ASSUME Typed, NEW T
    PROVE  /\ IsFiniteSet(Started(T)) /\ IsFiniteSet(Waiting(T))
           /\ Cardinality(Started(T)) \in Nat /\ Cardinality(Waiting(T)) \in Nat
           /\ Charged(T) \in Nat
<1>1. DOMAIN log = 1 .. Len(log) /\ Len(log) \in Nat /\ DOMAIN calls = 1 .. Len(calls) /\ Len(calls) \in Nat
  BY DEF Typed
<1>2. IsFiniteSet(DOMAIN log) /\ IsFiniteSet(DOMAIN calls)
  BY <1>1, FS_Interval
<1>3. Started(T) \subseteq DOMAIN log /\ Waiting(T) \subseteq DOMAIN calls
  BY DEF Started, Positions, Waiting, Pending
<1>4. IsFiniteSet(Started(T)) /\ IsFiniteSet(Waiting(T))
  BY <1>2, <1>3, FS_Subset
<1>5. Cardinality(Started(T)) \in Nat /\ Cardinality(Waiting(T)) \in Nat
  BY <1>4, FS_CardinalityType
<1> QED BY <1>4, <1>5 DEF Charged

\* A step that starts nothing charges nothing.
LEMMA QuietCharge ==
    ASSUME Typed, UNCHANGED calls, Pending' \subseteq Pending,
           Positions("started")' = Positions("started"),
           \A k \in DOMAIN log : log'[k] = log[k]
    PROVE  /\ \A T : Charged(T)' \in 0 .. Charged(T)
           /\ seen' = seen /\ Identities => Identities'
<1>1. ASSUME NEW T PROVE Charged(T)' \in 0 .. Charged(T)
  <2>1. Started(T)' = Started(T) /\ Waiting(T)' \subseteq Waiting(T)
    BY DEF Started, Waiting, Positions
  <2>2. IsFiniteSet(Waiting(T)) /\ Cardinality(Started(T)) \in Nat /\ Cardinality(Waiting(T)) \in Nat
    BY ChargedFinite
  <2>3. IsFiniteSet(Waiting(T)') /\ Cardinality(Waiting(T)') <= Cardinality(Waiting(T))
    BY <2>1, <2>2, FS_Subset
  <2>4. Cardinality(Waiting(T)') \in Nat
    BY <2>3, FS_CardinalityType
  <2>5. Charged(T)' = Cardinality(Started(T)) + Cardinality(Waiting(T)')
    BY <2>1 DEF Charged
  <2> QED BY <2>2, <2>3, <2>4, <2>5 DEF Charged
<1>2. seen' = seen /\ Identities => Identities'
  BY DEF Identities, Positions
<1> QED BY <1>1, <1>2

\* A call that starts was waiting: what it is charged for does not grow.
LEMMA StartCharge ==
    ASSUME Typed, UNCHANGED <<calls, seen>>, NEW i \in Pending, Identities,
           log' = Append(log, ToolEvent("started", calls[i])),
           Pending' \subseteq Pending \ {i}
    PROVE  /\ \A T : Charged(T)' \in 0 .. Charged(T)
           /\ Identities'
<1>0. log \in Seq(LogEvents) /\ Len(log) \in Nat /\ DOMAIN log = 1 .. Len(log) /\ calls[i] \in Call
      /\ ToolEvent("started", calls[i]) \in LogEvents
  BY EventTypes DEF Typed, Pending
<1>1. /\ DOMAIN log' = DOMAIN log \cup {Len(log) + 1}
      /\ \A k \in DOMAIN log : log'[k] = log[k]
      /\ log'[Len(log) + 1] = ToolEvent("started", calls[i])
  BY <1>0, AppendFacts
<1>2. /\ Positions("started")' = Positions("started") \cup {Len(log) + 1}
      /\ Len(log) + 1 \notin Positions("started")
      /\ log'[Len(log) + 1].call = calls[i]
  BY <1>0, <1>1 DEF Positions, ToolEvent
<1>3. ASSUME NEW T PROVE Charged(T)' \in 0 .. Charged(T)
  <2>0. /\ IsFiniteSet(Started(T)) /\ IsFiniteSet(Waiting(T))
        /\ Cardinality(Started(T)) \in Nat /\ Cardinality(Waiting(T)) \in Nat
    BY ChargedFinite
  <2>1. CASE calls[i].tool \in T
    <3>1. Started(T)' = Started(T) \cup {Len(log) + 1} /\ Len(log) + 1 \notin Started(T)
      BY <1>1, <1>2, <2>1 DEF Started, Positions
    <3>2. Cardinality(Started(T)') = Cardinality(Started(T)) + 1
      BY <2>0, <3>1, FS_AddElement
    <3>3. Waiting(T)' \subseteq Waiting(T) \ {i} /\ i \in Waiting(T)
      BY <2>1 DEF Waiting
    <3>4. IsFiniteSet(Waiting(T) \ {i}) /\ Cardinality(Waiting(T) \ {i}) = Cardinality(Waiting(T)) - 1
      BY <2>0, <3>3, FS_RemoveElement
    <3>5. IsFiniteSet(Waiting(T)') /\ Cardinality(Waiting(T)') <= Cardinality(Waiting(T)) - 1
      BY <3>3, <3>4, FS_Subset
    <3>6. Cardinality(Waiting(T)') \in Nat
      BY <3>5, FS_CardinalityType
    <3>7. Charged(T)' = Cardinality(Started(T)') + Cardinality(Waiting(T)')
      BY DEF Charged
    <3> QED BY <2>0, <3>2, <3>5, <3>6, <3>7 DEF Charged
  <2>2. CASE calls[i].tool \notin T
    <3>1. Started(T)' = Started(T) /\ Waiting(T)' \subseteq Waiting(T)
      BY <1>1, <1>2, <2>2 DEF Started, Positions, Waiting
    <3>2. IsFiniteSet(Waiting(T)') /\ Cardinality(Waiting(T)') <= Cardinality(Waiting(T))
      BY <2>0, <3>1, FS_Subset
    <3>3. Cardinality(Waiting(T)') \in Nat
      BY <3>2, FS_CardinalityType
    <3>4. Charged(T)' = Cardinality(Started(T)) + Cardinality(Waiting(T)')
      BY <3>1 DEF Charged
    <3> QED BY <2>0, <3>2, <3>3, <3>4 DEF Charged
  <2> QED BY <2>1, <2>2
<1>4. Identities'
  <2>1. \A j \in Pending' : j \in Pending /\ j # i /\ calls'[j] = calls[j]
    OBVIOUS
  <2>2. \A k \in Positions("started") : k \in DOMAIN log /\ log'[k] = log[k]
    BY <1>1 DEF Positions
  <2> QED BY <1>2, <2>1, <2>2 DEF Identities
<1> QED BY <1>3, <1>4

LEMMA BalanceInit == Init => Balance
<1> SUFFICES ASSUME Init PROVE Balance
  OBVIOUS
<1>1. Pending = {} /\ Positions("started") = {}
  BY DEF Init, Pending, Positions
<1>2. \A T : Started(T) = {} /\ Waiting(T) = {}
  BY <1>1 DEF Started, Waiting
<1>3. \A T : Charged(T) = 0
  BY <1>2, FS_EmptySet DEF Charged
<1>4. counted = 0 /\ (\A t \in Tools : repeated[t] = 0) /\ phase = "new"
  BY DEF Init
<1> QED BY <1>1, <1>3, <1>4 DEF Balance, Identities

\* A step after which nothing costs more, and which leaves the counts alone.
LEMMA BalanceKept ==
    ASSUME Typed, Balance, UNCHANGED budget, \A T : Charged(T)' \in 0 .. Charged(T),
           Identities', phase' = "draining" => \A i \in DOMAIN task' : task'[i] # "created"
    PROVE  Balance'
<1>1. \A T : Charged(T) \in Nat
  BY ChargedFinite
<1>2. (\A t \in Tools : repeated[t] \in Int) /\ counted \in Int
  BY DEF Typed, TypeOK
<1> QED BY <1>1, <1>2 DEF Balance, budget

\* What an accepted answer adds to the charges: at most its calls of the tools.
Asked(answer, T) == {i \in DOMAIN answer : answer[i].tool \in T}

LEMMA AskedFacts ==
    ASSUME NEW answer \in Answers
    PROVE  /\ \A T : IsFiniteSet(Asked(answer, T)) /\ Cardinality(Asked(answer, T)) \in Nat
           /\ \A t : Cardinality(Asked(answer, {t})) = CountOf(answer, t)
           /\ Cardinality(Asked(answer, Tools)) = Len(answer)
<1>1. /\ DOMAIN answer = 1 .. Len(answer) /\ Len(answer) \in Nat \ {0}
      /\ \A i \in DOMAIN answer : answer[i] \in Call
  BY AnswerFacts
<1>2. IsFiniteSet(DOMAIN answer) /\ Cardinality(DOMAIN answer) = Len(answer)
  BY <1>1, FS_Interval
<1>3. \A T : IsFiniteSet(Asked(answer, T))
  BY <1>2, FS_Subset DEF Asked
<1>4. \A T : Cardinality(Asked(answer, T)) \in Nat
  BY <1>3, FS_CardinalityType
<1>5. \A t : Asked(answer, {t}) = {i \in DOMAIN answer : answer[i].tool = t}
  BY DEF Asked
<1>6. Asked(answer, Tools) = DOMAIN answer
  BY <1>1 DEF Asked, Call
<1> QED BY <1>2, <1>3, <1>4, <1>5, <1>6 DEF CountOf

\* The readers of an accepted answer wait; its log is as it was.
LEMMA ReadingCharge ==
    ASSUME Typed, Balance, NEW answer \in Answers, phase = "model", Fresh(answer),
           phase' = "reading", UNCHANGED log, calls' = answer,
           seen' = seen \cup {answer[i].id : i \in DOMAIN answer}
    PROVE  /\ \A T : Charged(T)' \in 0 .. Charged(T) + Cardinality(Asked(answer, T))
           /\ Identities'
<1>1. Pending = {} /\ Pending' \subseteq DOMAIN answer /\ Positions("started")' = Positions("started")
  BY DEF Pending, Positions
<1>2. ASSUME NEW T
      PROVE  Charged(T)' \in 0 .. Charged(T) + Cardinality(Asked(answer, T))
  <2>1. Started(T)' = Started(T) /\ Waiting(T)' \subseteq Asked(answer, T)
    BY <1>1 DEF Started, Waiting, Asked
  <2>2. /\ Cardinality(Started(T)) \in Nat /\ Cardinality(Waiting(T)) \in Nat
        /\ IsFiniteSet(Asked(answer, T)) /\ Cardinality(Asked(answer, T)) \in Nat
    BY ChargedFinite, AskedFacts
  <2>3. IsFiniteSet(Waiting(T)') /\ Cardinality(Waiting(T)') <= Cardinality(Asked(answer, T))
    BY <2>1, <2>2, FS_Subset
  <2>4. Cardinality(Waiting(T)') \in Nat
    BY <2>3, FS_CardinalityType
  <2>5. Charged(T)' = Cardinality(Started(T)) + Cardinality(Waiting(T)')
    BY <2>1 DEF Charged
  <2> QED BY <2>2, <2>3, <2>4, <2>5 DEF Charged
<1>3. Identities'
  <2>1. \A i \in DOMAIN answer : answer[i].id \in seen' /\ answer[i].id \notin seen
    BY DEF Fresh
  <2>2. \A k \in Positions("started") : log[k].call.id \in seen
    BY DEF Balance, Identities
  <2>3. \A i, j \in DOMAIN answer : i # j => answer[i].id # answer[j].id
    BY DEF Fresh
  <2>4. \A j, k \in Positions("started") : j # k => log[j].call.id # log[k].call.id
    BY DEF Balance, Identities
  <2>5. \A i \in Pending' : calls'[i] = answer[i] /\ i \in DOMAIN answer
    BY <1>1
  <2> QED BY <1>1, <2>1, <2>2, <2>3, <2>4, <2>5 DEF Identities
<1> QED BY <1>2, <1>3

\* A lone submit starts at once.
LEMMA LoneSubmitCharge ==
    ASSUME Typed, Balance, NEW answer \in Answers, phase = "model", Fresh(answer),
           phase' = "submitting",
           log' = Append(log, ToolEvent("started", answer[Len(answer)])),
           seen' = seen \cup {answer[i].id : i \in DOMAIN answer}
    PROVE  /\ \A T : Charged(T)' \in 0 .. Charged(T) + Cardinality(Asked(answer, T))
           /\ Identities'
<1> DEFINE c == answer[Len(answer)]
<1>0. /\ log \in Seq(LogEvents) /\ Len(log) \in Nat /\ DOMAIN log = 1 .. Len(log)
      /\ c \in Call /\ Len(answer) \in DOMAIN answer
  BY AnswerFacts DEF Typed
<1>1. /\ DOMAIN log' = DOMAIN log \cup {Len(log) + 1}
      /\ \A k \in DOMAIN log : log'[k] = log[k]
      /\ log'[Len(log) + 1] = ToolEvent("started", c)
  BY <1>0, EventTypes, AppendFacts
<1>2. /\ Positions("started")' = Positions("started") \cup {Len(log) + 1}
      /\ Len(log) + 1 \notin Positions("started") /\ log'[Len(log) + 1].call = c
  BY <1>0, <1>1 DEF Positions, ToolEvent
<1>3. Pending = {} /\ Pending' = {}
  BY DEF Pending
<1>4. ASSUME NEW T
      PROVE  Charged(T)' \in 0 .. Charged(T) + Cardinality(Asked(answer, T))
  <2>1. /\ Cardinality(Started(T)) \in Nat /\ IsFiniteSet(Started(T))
        /\ IsFiniteSet(Asked(answer, T)) /\ Cardinality(Asked(answer, T)) \in Nat
    BY ChargedFinite, AskedFacts
  <2>2. Waiting(T) = {} /\ Waiting(T)' = {}
    BY <1>3 DEF Waiting
  <2>3. /\ Charged(T) = Cardinality(Started(T)) + 0
        /\ Charged(T)' = Cardinality(Started(T)') + 0
    BY <2>2, FS_EmptySet DEF Charged
  <2>4. CASE c.tool \in T
    <3>1. Started(T)' = Started(T) \cup {Len(log) + 1} /\ Len(log) + 1 \notin Started(T)
      BY <1>1, <1>2, <2>4 DEF Started, Positions
    <3>2. Cardinality(Started(T)') = Cardinality(Started(T)) + 1
      BY <2>1, <3>1, FS_AddElement
    <3>3. Asked(answer, T) # {}
      BY <1>0, <2>4 DEF Asked
    <3>4. Cardinality(Asked(answer, T)) # 0
      BY <2>1, <3>3, FS_EmptySet
    <3> QED BY <2>1, <2>3, <3>2, <3>4
  <2>5. CASE c.tool \notin T
    <3>1. Started(T)' = Started(T)
      BY <1>1, <1>2, <2>5 DEF Started, Positions
    <3> QED BY <2>1, <2>3, <3>1
  <2> QED BY <2>4, <2>5
<1>5. Identities'
  <2>1. c.id \notin seen /\ c.id \in seen' /\ seen \subseteq seen'
    BY <1>0 DEF Fresh
  <2>2. \A k \in Positions("started") : log[k].call.id \in seen /\ log'[k] = log[k]
    BY <1>1 DEF Balance, Identities, Positions
  <2>3. \A j, k \in Positions("started") : j # k => log[j].call.id # log[k].call.id
    BY DEF Balance, Identities
  <2> QED BY <1>2, <1>3, <2>1, <2>2, <2>3 DEF Identities
<1> QED BY <1>4, <1>5

LEMMA AnswerBalance ==
    ASSUME Typed, Balance, NEW answer \in Answers, ModelAnswers(answer),
           Fresh(answer), WithinBudget(answer), Authorized(answer)
    PROVE  Balance'
<1>1. /\ phase = "model" /\ calls' = answer
      /\ seen' = seen \cup {answer[i].id : i \in DOMAIN answer}
      /\ counted' = counted + Len(answer)
      /\ repeated' = [t \in Tools |-> repeated[t] + CountOf(answer, t)]
      /\ \/ phase' = "reading" /\ UNCHANGED log
         \/ /\ phase' = "submitting"
            /\ log' = Append(log, ToolEvent("started", answer[Len(answer)]))
  BY DEF ModelAnswers
<1>2. /\ \A T : Charged(T)' \in 0 .. Charged(T) + Cardinality(Asked(answer, T))
      /\ Identities'
  BY <1>1, ReadingCharge, LoneSubmitCharge
<1>3. \A T : Charged(T) \in Nat
  BY ChargedFinite
<1>4. Charged(Tools)' <= counted'
  <2>1. Cardinality(Asked(answer, Tools)) = Len(answer) /\ Len(answer) \in Nat
    BY AskedFacts, AnswerFacts
  <2>2. Charged(Tools)' \in 0 .. Charged(Tools) + Len(answer) /\ Charged(Tools) <= counted
    BY <1>2, <2>1 DEF Balance
  <2> QED BY <1>1, <1>3, <2>1, <2>2 DEF Typed, TypeOK
<1>5. ASSUME NEW t \in Tools PROVE Charged({t})' <= repeated'[t]
  <2>1. Cardinality(Asked(answer, {t})) = CountOf(answer, t) /\ CountOf(answer, t) \in Nat
    BY AskedFacts
  <2>2. Charged({t})' \in 0 .. Charged({t}) + CountOf(answer, t) /\ Charged({t}) <= repeated[t]
    BY <1>2, <2>1 DEF Balance
  <2> QED BY <1>1, <1>3, <2>1, <2>2 DEF Typed, TypeOK
<1> QED BY <1>1, <1>2, <1>4, <1>5 DEF Balance

\* An event that starts nothing.
LEMMA NoStartAppended ==
    ASSUME log \in Seq(LogEvents), NEW e \in LogEvents, e.type # "started", log' = Append(log, e)
    PROVE  /\ Positions("started")' = Positions("started")
           /\ \A k \in DOMAIN log : log'[k] = log[k]
<1>1. /\ DOMAIN log' = DOMAIN log \cup {Len(log) + 1}
      /\ \A k \in DOMAIN log : log'[k] = log[k]
      /\ log'[Len(log) + 1] = e
  BY AppendFacts
<1> QED BY <1>1 DEF Positions

\* A step that starts nothing keeps the balance.
LEMMA QuietBalance ==
    ASSUME Typed, Balance, UNCHANGED <<budget, calls>>, Pending' \subseteq Pending,
           Positions("started")' = Positions("started"),
           \A k \in DOMAIN log : log'[k] = log[k],
           phase' = "draining" => \A i \in DOMAIN task' : task'[i] # "created"
    PROVE  Balance'
<1>1. (\A T : Charged(T)' \in 0 .. Charged(T)) /\ Identities'
  BY QuietCharge DEF Balance, budget
<1> QED BY <1>1, BalanceKept

LEMMA ToolBalance ==
    ASSUME Typed, Verdicts, Balance, NEW i \in DOMAIN task, ToolStep(i)
    PROVE  Balance'
<1>0. calls[i] \in Call /\ i \in DOMAIN calls /\ ToolReports(i) /\ log \in Seq(LogEvents)
  BY ToolStepReports DEF Typed, TypeOK
<1>1. UNCHANGED <<budget, calls, phase>> /\ phase \in {"reading", "draining"}
  BY <1>0 DEF ToolReports, Verdicts, Done
<1>2. phase' = "draining" => \A j \in DOMAIN task' : task'[j] # "created"
  BY <1>0, <1>1 DEF ToolReports, Balance
<1>3. CASE /\ task[i] = "created" /\ task' = [task EXCEPT ![i] = "running"]
           /\ log' = Append(log, ToolEvent("started", calls[i]))
  <2>1. i \in Pending /\ calls[i].tool # SubmitTool
    BY <1>0, <1>1, <1>3 DEF Pending, Balance, Typed
  <2>2. Pending' \subseteq Pending \ {i}
    BY <1>1, <1>3, <2>1 DEF Pending
  <2>3. (\A T : Charged(T)' \in 0 .. Charged(T)) /\ Identities'
    BY <1>1, <1>3, <2>1, <2>2, StartCharge DEF Balance, budget
  <2> QED BY <1>1, <1>2, <2>3, BalanceKept
<1>4. CASE /\ task[i] # "created" /\ UNCHANGED log
           /\ task' = [task EXCEPT ![i] = "cancelled"]
  <2>1. Pending' \subseteq Pending /\ Positions("started")' = Positions("started")
    BY <1>1, <1>4 DEF Pending, Positions
  <2> QED BY <1>1, <1>2, <1>4, <2>1, QuietBalance
<1>5. ASSUME NEW type \in {"completed", "failed"}, task[i] # "created",
             task' = [task EXCEPT ![i] = type], log' = Append(log, ToolEvent(type, calls[i]))
      PROVE  Balance'
  <2>1. ToolEvent(type, calls[i]) \in LogEvents /\ ToolEvent(type, calls[i]).type # "started"
    BY <1>0, EventTypes DEF ToolEvent
  <2>2. /\ Positions("started")' = Positions("started")
        /\ \A k \in DOMAIN log : log'[k] = log[k]
    BY <1>0, <1>5, <2>1, NoStartAppended
  <2>3. Pending' \subseteq Pending
    BY <1>1, <1>5 DEF Pending
  <2> QED BY <1>1, <1>2, <2>2, <2>3, QuietBalance
<1> QED BY <1>0, <1>3, <1>4, <1>5 DEF ToolReports

LEMMA BalanceNext == Typed /\ Verdicts /\ Balance /\ [Next]_vars => Balance'
<1> SUFFICES ASSUME Typed, Verdicts, Balance, [Next]_vars PROVE Balance'
  OBVIOUS
<1>0. log \in Seq(LogEvents)
  BY DEF Typed
<1>a. \A type \in {"model_requested", "run_failed", "run_completed"} :
         Event(type) \in LogEvents /\ Event(type).type = type
  BY EventTypes DEF Event
<1>b. ASSUME UNCHANGED <<budget, calls>>, phase' \notin {"reading", "draining"},
             NEW e \in LogEvents, e.type # "started", log' = Append(log, e)
      PROVE  Balance'
  <2>1. Pending' = {}
    BY <1>b DEF Pending
  <2>2. /\ Positions("started")' = Positions("started")
        /\ \A k \in DOMAIN log : log'[k] = log[k]
    BY <1>0, <1>b, NoStartAppended
  <2> QED BY <1>b, <2>1, <2>2, QuietBalance
<1>c. ASSUME UNCHANGED <<budget, calls, log>>, phase' # "reading",
             phase' = "draining" => \A i \in DOMAIN task' : task'[i] # "created"
      PROVE  Balance'
  <2>1. Pending' = {} /\ Positions("started")' = Positions("started")
    BY <1>c DEF Pending, Positions
  <2> QED BY <1>c, <2>1, QuietBalance
<1>d. CancelTasks => \A i \in DOMAIN task' : task'[i] # "created"
  BY DEF CancelTasks
<1>1. CASE Start
  <2>1. UNCHANGED <<budget, calls>> /\ BeginTurn(<<>>)
    BY <1>1 DEF Start
  <2> QED BY <2>1, <1>0, <1>a, <1>b, TurnAppends
<1>2. CASE ModelRefused
  <2>1. UNCHANGED <<budget, calls>> /\ FailAfter(<<>>)
    BY <1>2 DEF ModelRefused
  <2> QED BY <2>1, <1>0, <1>a, <1>b, FailAppends
<1>3. ASSUME NEW answer \in Answers, ModelAnswers(answer) PROVE Balance'
  <2>1. CASE Fresh(answer) /\ WithinBudget(answer) /\ Authorized(answer)
    BY <1>3, <2>1, AnswerBalance
  <2>2. CASE ~(Fresh(answer) /\ WithinBudget(answer) /\ Authorized(answer))
    <3>1. UNCHANGED <<budget, calls>> /\ FailAfter(<<>>)
      BY <1>3, <2>2 DEF ModelAnswers
    <3> QED BY <3>1, <1>0, <1>a, <1>b, FailAppends
  <2> QED BY <2>1, <2>2
<1>4. ASSUME NEW i \in DOMAIN task, ToolStep(i) PROVE Balance'
  BY <1>4, ToolBalance
<1>5. CASE GatherCompletes
  <2>0. phase = "reading" /\ UNCHANGED <<budget, calls, task>>
    BY <1>5 DEF GatherCompletes
  <2>1. CASE Submits(calls)
    <3>1. Len(calls) \in Pending
      BY <2>0, <2>1 DEF Pending, Submits, Typed
    <3>2. phase' = "submitting" /\ log' = Append(log, ToolEvent("started", calls[Len(calls)]))
      BY <1>5, <2>1 DEF GatherCompletes
    <3>3. Pending' = {}
      BY <3>2 DEF Pending
    <3>4. (\A T : Charged(T)' \in 0 .. Charged(T)) /\ Identities'
      BY <2>0, <3>1, <3>2, <3>3, StartCharge DEF Balance, budget
    <3> QED BY <2>0, <3>2, <3>4, BalanceKept
  <2>2. CASE ~Submits(calls)
    <3>1. BeginTurn(<<>>)
      BY <1>5, <2>2 DEF GatherCompletes
    <3> QED BY <2>0, <3>1, <1>0, <1>a, <1>b, TurnAppends
  <2> QED BY <2>1, <2>2
<1>6. CASE GatherFails
  BY <1>6, <1>c, <1>d DEF GatherFails
<1>7. CASE DrainEnds
  <2>1. CASE interrupted
    BY <1>7, <2>1, <1>c DEF DrainEnds
  <2>2. CASE ~interrupted
    <3>1. UNCHANGED <<budget, calls>> /\ FailAfter(<<>>)
      BY <1>7, <2>2 DEF DrainEnds
    <3> QED BY <3>1, <1>0, <1>a, <1>b, FailAppends
  <2> QED BY <2>1, <2>2
<1>8. CASE SubmitCompletes \/ SubmitFails
  <2>1. SubmitReports /\ calls[Len(calls)] \in Call
    BY <1>8, SubmitStepReports DEF SubmitCompletes, SubmitFails, Typed
  <2>2. PICK type \in {"completed", "failed"}, verdict \in {"run_completed", "run_failed"} :
              log' = Append(Append(log, ToolEvent(type, calls[Len(calls)])), Event(verdict))
    BY <2>1 DEF SubmitReports
  <2>3. UNCHANGED <<budget, calls>> /\ phase' \in {"completed", "failed"}
    BY <2>1 DEF SubmitReports
  <2>4. /\ Positions("started")' = Positions("started")
        /\ \A k \in DOMAIN log : log'[k] = log[k]
    <3> DEFINE reported == Append(log, ToolEvent(type, calls[Len(calls)]))
    <3>1. ToolEvent(type, calls[Len(calls)]) \in LogEvents
          /\ ToolEvent(type, calls[Len(calls)]).type # "started"
      BY <2>1, EventTypes DEF ToolEvent
    <3>2. /\ reported \in Seq(LogEvents) /\ DOMAIN reported = DOMAIN log \cup {Len(log) + 1}
          /\ \A k \in DOMAIN log : reported[k] = log[k]
          /\ reported[Len(log) + 1] = ToolEvent(type, calls[Len(calls)])
      BY <1>0, <3>1, AppendFacts
    <3> HIDE DEF reported
    <3>3. /\ DOMAIN log' = DOMAIN reported \cup {Len(reported) + 1}
          /\ \A k \in DOMAIN reported : log'[k] = reported[k]
          /\ log'[Len(reported) + 1] = Event(verdict)
      BY <1>a, <2>2, <3>2, AppendFacts DEF reported
    <3>4. Event(verdict).type # "started"
      BY <1>a
    <3> QED BY <3>1, <3>2, <3>3, <3>4 DEF Positions
  <2>5. Pending' = {}
    BY <2>3 DEF Pending
  <2> QED BY <2>3, <2>4, <2>5, QuietBalance
<1>9. CASE CancelRun
  <2>1. phase' \in {"cancelled", "draining"} /\ (phase' = "draining" => CancelTasks)
        /\ UNCHANGED <<budget, calls, log>>
    BY <1>9 DEF CancelRun
  <2> QED BY <2>1, <1>c, <1>d
<1>10. CASE UNCHANGED vars
  BY <1>10 DEF vars, budget, Balance, Identities, Charged, Started, Waiting, Pending, Positions
<1> QED
  BY <1>1, <1>2, <1>3, <1>4, <1>5, <1>6, <1>7, <1>8, <1>9, <1>10 DEF Next, Finished, ToolStep

\* CallsAccounted: no call of the provider is executed twice, and no interplay of
\* turns and answers executes more tools than the budget (validate_calls, run).
THEOREM CallsAreAccounted == Spec => []CallsAccounted
<1>1. Typed /\ Balance => CallsAccounted
  <2> SUFFICES ASSUME Typed, Balance PROVE CallsAccounted
    OBVIOUS
  <2>1. \A T : /\ Cardinality(Started(T)) <= Charged(T)
               /\ Cardinality(Started(T)) \in Nat /\ Charged(T) \in Nat
    BY ChargedFinite DEF Charged
  <2>2. Started(Tools) = Positions("started")
    <3>1. \A k \in Positions("started") : log[k] \in ToolEvents
      BY DEF Typed, Positions, LogEvents, RunEvents
    <3> QED BY <3>1 DEF Started, ToolEvents, Call
  <2>3. \A t \in Tools : Started({t}) = {k \in Positions("started") : log[k].call.tool = t}
    BY DEF Started
  <2>4. Cardinality(Positions("started")) <= MaxToolCalls
    BY <2>1, <2>2 DEF Balance, Typed, TypeOK
  <2>5. ASSUME NEW t \in Tools
        PROVE  Cardinality({k \in Positions("started") : log[k].call.tool = t}) <= MaxRepeated
    <3>1. Cardinality(Started({t})) <= Charged({t}) /\ Charged({t}) <= repeated[t]
          /\ repeated[t] \in 0 .. MaxRepeated
      BY <2>1 DEF Balance, Typed, TypeOK
    <3>2. Cardinality(Started({t})) \in Nat /\ Charged({t}) \in Nat
      BY <2>1
    <3>3. Cardinality(Started({t})) <= MaxRepeated
      BY <3>1, <3>2
    <3>4. Started({t}) = {k \in Positions("started") : log[k].call.tool = t}
      BY <2>3
    <3> QED BY <3>3, <3>4
  <2> QED BY <2>4, <2>5 DEF CallsAccounted, Balance, Identities
<1> QED BY <1>1, TypedInit, TypedNext, VerdictsInit, VerdictsNext, BalanceInit, BalanceNext, PTL
        DEF Spec
=============================================================================
