----------------------------- MODULE Assistant -----------------------------
(***************************************************************************)
(* One request to POST /assistant/stream: the tool loop of DemoAssistant   *)
(* (assistant.py) over the streamed completions of ProviderStream, and the *)
(* SSE adapter that numbers and closes what the client sees                *)
(* (api/routes/assistant.py).                                              *)
(*                                                                         *)
(* phase: "new"; "turn" is the head of the loop; "streaming" awaits the    *)
(* provider; "announcing" publishes the tools of the turn; "tools" awaits  *)
(* their gather; "draining" awaits the cancelled tools; "ended".           *)
(*                                                                         *)
(* permit is the gateway's permit of the turn's stream.  A generator that  *)
(* is left half read ("orphaned") keeps it until the event loop's hook for *)
(* abandoned generators closes it.                                         *)
(*                                                                         *)
(* Tokens are counted in units.  Input tokens, cost and the deadline are   *)
(* nondeterministic refusals.  A tool stands for a call with its arguments.*)
(***************************************************************************)
EXTENDS ProviderStream, AssistantClient

CONSTANTS Tools,           \* names in the tool registry of this deployment
          Trends,          \* the one expensive tool
          MaxTurns, MaxToolCalls, MaxRepeated, MaxExpensive,
          MaxOutput,       \* output tokens of the whole answer
          MaxAnswer        \* units of text in an answer

\* AssistantStreamEvent lets no tool label out that the chat does not know.
ASSUME ToolsAssumption ==
    Tools \subseteq Names /\ Tools \subseteq PublicTools /\ None \notin Names
\* None is no failure of a turn.
ASSUME NoneAssumption ==
    None \notin {"unexpected_runtime_failure", "text_completion_rejected",
                 "malformed_provider_response", "unknown_tool", "tool_loop_guard"}
ASSUME BoundsAssumption ==
    MaxTurns \in Nat \ {0} /\ MaxToolCalls \in Nat /\ MaxRepeated \in Nat
        /\ MaxExpensive \in Nat /\ MaxOutput \in Nat \ {0} /\ MaxAnswer \in Nat \ {0}

VARIABLES phase, turn,
          acc,             \* the completion of this turn
          spent,           \* total_output_tokens
          counted,         \* tool_call_count
          expensive,       \* expensive_tool_call_count
          repeated,        \* repeated_calls
          calls,           \* the tools of the validated calls of this turn
          announced,       \* how many of them were published
          task,            \* the tool tasks of this turn
          cause,           \* why tools are drained
          permit,          \* the permit of the provider stream
          sequence,        \* sequence of the generator
          out              \* the SSE frames sent

budget == <<spent, counted, expensive, repeated>>
tools  == <<calls, announced, task, cause>>
vars   == <<phase, turn, acc, budget, tools, permit, sequence, out>>

Frame(n, type, label, marker) ==
    [seq |-> n, type |-> type, label |-> label, marker |-> marker]

Init ==
    /\ phase = "new"
    /\ turn = 0
    /\ acc = EmptyStream
    /\ spent = 0 /\ counted = 0 /\ expensive = 0
    /\ repeated = [t \in Tools |-> 0]
    /\ calls = <<>> /\ announced = 0 /\ task = <<>> /\ cause = None
    /\ permit = "free"
    /\ sequence = 0
    /\ out = <<>>

\* One event of the generator and its frame.
Publish(type, label, marker) ==
    /\ sequence' = sequence + 1
    /\ out' = Append(out, Frame(sequence + 1, type, label, marker))

\* The public code of an agent failure.
PublicCode(code) ==
    CASE code = "provider_rate_limited" -> "quota_exceeded"
      [] code \in {"deadline_exceeded", "provider_timeout"} -> "deadline_exceeded"
      [] code = "circuit_open" -> "service_unavailable"
      [] code \in {"provider_authentication", "provider_permission",
                   "provider_invalid_request", "provider_transport",
                   "provider_server"} -> "provider_failure"
      [] OTHER -> "agent_failure"

\* The adapter's error frame is numbered after the last frame it sent.
ErrorFrame(code) ==
    LET last == IF out = <<>> THEN 0 ELSE out[Len(out)].seq
    IN Frame(last + 1, "error", PublicCode(code), FALSE)

\* The generator raises: one error frame ends the stream.
Fail(code) ==
    /\ phase' = "ended"
    /\ out' = Append(out, ErrorFrame(code))
    /\ UNCHANGED sequence

-----------------------------------------------------------------------------
(* The loop *)

Start ==
    /\ phase = "new"
    /\ phase' = "turn"
    /\ Publish("start", None, FALSE)
    /\ UNCHANGED <<turn, acc, budget, tools, permit>>

\* The head of the loop: turns, output budget, deadline, then a new stream.
BeginTurn ==
    /\ phase = "turn"
    /\ \/ /\ turn = MaxTurns
          /\ Fail("turn_limit_exceeded")
          /\ UNCHANGED <<turn, acc, permit>>
       \/ /\ turn < MaxTurns
          /\ \/ spent >= MaxOutput /\ Fail("budget_exceeded")
             \/ spent < MaxOutput /\ Fail("deadline_exceeded")
          /\ UNCHANGED <<turn, acc, permit>>
       \/ /\ turn < MaxTurns
          /\ spent < MaxOutput
          /\ turn' = turn + 1
          /\ acc' = EmptyStream
          /\ permit' = "held"
          /\ phase' = "streaming"
          /\ Publish("model", None, FALSE)
    /\ UNCHANGED <<budget, tools>>

\* A delta is published as it comes; the one that makes the answer too long
\* is rejected and leaves the provider's generator half read.
TextDelta(marker) ==
    /\ phase = "streaming"
    /\ IF acc.text < MaxAnswer
       THEN /\ acc' = TakeText(acc, marker)
            /\ Publish("delta", None, marker)
            /\ UNCHANGED <<phase, permit>>
       ELSE /\ Fail("text_completion_rejected")
            /\ permit' = "orphaned"
            /\ acc' = EmptyStream
    /\ UNCHANGED <<turn, budget, tools>>

\* A part that is folded without a visible event, or rejected by the adapter,
\* whose finally closes the stream.
Fold(next) ==
    /\ phase = "streaming"
    /\ next # acc
    /\ IF next.error
       THEN /\ Fail("malformed_provider_response")
            /\ permit' = "free"
            /\ acc' = EmptyStream
       ELSE acc' = next /\ UNCHANGED <<phase, permit, sequence, out>>
    /\ UNCHANGED <<turn, budget, tools>>

SilentPart ==
    \/ \E index \in Indexes, id \in CallIds, name \in Names :
          Fold(TakeHead(acc, index, id, name))
    \/ \E index \in Indexes : Fold(TakeArguments(acc, index))
    \/ \E reason \in Finishes : Fold(TakeFinish(acc, reason))
    \/ \E tokens \in 1 .. MaxOutput : Fold(TakeUsage(acc, tokens))

\* The SDK, the gateway's circuit or the adapter's own checks fail the stream.
ProviderFails(code) ==
    /\ phase = "streaming"
    /\ Fail(code)
    /\ permit' = "free"
    /\ acc' = EmptyStream
    /\ UNCHANGED <<turn, budget, tools>>

\* Mutant: text in front of tool calls is let through.
ToolTurnAcceptedWithText(response) == response.finish = "tool_calls"

\* A turn with tool calls must have had no text and the matching finish reason.
ToolTurnAccepted(response) ==
    response.text = 0 /\ response.finish = "tool_calls"

\* validate_calls: known tools and no id twice.
ValidCalls(answer) ==
    /\ \A i \in DOMAIN answer : answer[i].name \in Tools
    /\ \A i, j \in DOMAIN answer : i # j => answer[i].id # answer[j].id

CountOf(answer, t) == Cardinality({i \in DOMAIN answer : answer[i].name = t})
ExpensiveRound == \E i \in DOMAIN calls : calls[i] = Trends

WithinLoopGuard(answer) ==
    /\ counted + Len(answer) <= MaxToolCalls
    /\ expensive + CountOf(answer, Trends) <= MaxExpensive
    /\ \A t \in Tools : repeated[t] + CountOf(answer, t) <= MaxRepeated

\* The final answer: exactly the text that was sent, without tool protocol.
FinalAccepted(response) == response.finish = "stop" /\ ~response.marker

\* The end of the provider's stream: a final answer, a round of tools, or an
\* error.  A response with neither text nor tools trips an assertion.
TurnEnds ==
    LET answer  == CallsInOrder(acc)
        verdict == EndError(acc, MaxOutput - spent)
        failure ==
          CASE verdict # None -> verdict
            [] answer = <<>> /\ acc.text = 0 -> "unexpected_runtime_failure"
            [] answer = <<>> /\ ~FinalAccepted(acc) -> "text_completion_rejected"
            [] answer # <<>> /\ ~ToolTurnAccepted(acc) -> "malformed_provider_response"
            [] answer # <<>> /\ ~ValidCalls(answer) -> "unknown_tool"
            [] answer # <<>> /\ ~WithinLoopGuard(answer) -> "tool_loop_guard"
            [] OTHER -> None
    IN /\ phase = "streaming"
       /\ permit' = "free"
       /\ \/ /\ \/ failure # None /\ Fail(failure)
                \/ failure = None /\ Fail("budget_exceeded")
             /\ UNCHANGED <<budget, tools>>
          \/ /\ failure = None
             /\ spent' = spent + acc.usage
             /\ IF answer = <<>>
                THEN /\ phase' = "ended"
                     /\ Publish("done", None, FALSE)
                     /\ UNCHANGED <<counted, expensive, repeated, tools>>
                ELSE /\ phase' = "announcing"
                     /\ counted' = counted + Len(answer)
                     /\ expensive' = expensive + CountOf(answer, Trends)
                     /\ repeated' = [t \in Tools |-> repeated[t] + CountOf(answer, t)]
                     /\ calls' = [n \in DOMAIN answer |-> answer[n].name]
                     /\ announced' = 0
                     /\ UNCHANGED <<task, cause, sequence, out>>
       /\ acc' = EmptyStream
       /\ UNCHANGED turn

-----------------------------------------------------------------------------
(* The tools of a turn *)

AnnounceTool ==
    /\ phase = "announcing"
    /\ announced < Len(calls)
    /\ announced' = announced + 1
    /\ Publish("tool", calls[announced + 1], FALSE)
    /\ UNCHANGED <<phase, turn, acc, budget, calls, task, cause, permit>>

RunTools ==
    /\ phase = "announcing"
    /\ announced = Len(calls)
    /\ phase' = "tools"
    /\ task' = [i \in DOMAIN calls |-> "running"]
    /\ UNCHANGED <<turn, acc, budget, calls, announced, cause, permit, sequence, out>>

\* A tool answers, fails or times out; a cancelled one ends as well.
ToolEnds(i) ==
    /\ task[i] \in {"running", "cancelling"}
    /\ \/ task[i] = "running" /\ task' = [task EXCEPT ![i] = "completed"]
       \/ task' = [task EXCEPT ![i] = "failed"]
    /\ UNCHANGED <<phase, turn, acc, budget, calls, announced, cause, permit, sequence, out>>

Settled == \A i \in DOMAIN task : task[i] \in {"completed", "failed"}

CancelTasks ==
    task' = [i \in DOMAIN task |-> IF task[i] = "running" THEN "cancelling" ELSE task[i]]

\* Every tool answered: nested Trends tokens join the budget, the next turn
\* begins.
ToolsComplete(tokens) ==
    /\ phase = "tools"
    /\ \A i \in DOMAIN task : task[i] = "completed"
    /\ ~ExpensiveRound => tokens = 0
    /\ spent' = spent + tokens
    /\ IF spent' > MaxOutput
       THEN Fail("budget_exceeded")
       ELSE phase' = "turn" /\ UNCHANGED <<sequence, out>>
    /\ calls' = <<>> /\ announced' = 0 /\ task' = <<>>
    /\ UNCHANGED <<turn, acc, counted, expensive, repeated, cause, permit>>

\* Mutant: the failure is raised without waiting for the other tools.
ToolsFailAtOnce ==
    /\ phase = "tools"
    /\ \E i \in DOMAIN task : task[i] = "failed"
    /\ Fail("tool_execution_failed")
    /\ UNCHANGED <<turn, acc, budget, tools, permit>>

\* The first failure cancels the other tools, which are awaited.
ToolsFail ==
    /\ phase = "tools"
    /\ \E i \in DOMAIN task : task[i] = "failed"
    /\ phase' = "draining"
    /\ cause' = "failure"
    /\ CancelTasks
    /\ UNCHANGED <<turn, acc, budget, calls, announced, permit, sequence, out>>

DrainEnds ==
    /\ phase = "draining"
    /\ Settled
    /\ IF cause = "failure"
       THEN Fail("tool_execution_failed")
       ELSE phase' = "ended" /\ UNCHANGED <<sequence, out>>
    /\ UNCHANGED <<turn, acc, budget, tools, permit>>

-----------------------------------------------------------------------------
(* The client goes away *)

\* The response task is cancelled: the await it is in ends, and with it every
\* generator on the way; running tools are cancelled and awaited.
Disconnect ==
    /\ \/ /\ phase \in {"new", "turn", "streaming", "announcing"}
          /\ phase' = "ended"
          /\ permit' = IF permit = "held" THEN "free" ELSE permit
          /\ acc' = EmptyStream
          /\ UNCHANGED <<task, cause>>
       \/ /\ phase \in {"tools", "draining"}
          /\ phase' = "draining"
          /\ cause' = "disconnect"
          /\ CancelTasks
          /\ UNCHANGED <<permit, acc>>
    /\ UNCHANGED <<turn, budget, calls, announced, sequence, out>>

\* The adapter sees the disconnect before it sends a delta: it closes the
\* outer generator, and the provider's one stays half read.
DisconnectSeen ==
    /\ phase = "streaming"
    /\ phase' = "ended"
    /\ permit' = "orphaned"
    /\ acc' = EmptyStream
    /\ UNCHANGED <<turn, budget, tools, sequence, out>>

\* Mutant: the generators are not finalised.
CloseAbandonedNever ==
    /\ permit = "orphaned" /\ phase = "new"
    /\ permit' = "free"
    /\ UNCHANGED <<phase, turn, acc, budget, tools, sequence, out>>

\* The event loop closes the abandoned generator, whose finally gives the
\* permit back.
CloseAbandoned ==
    /\ permit = "orphaned"
    /\ permit' = "free"
    /\ UNCHANGED <<phase, turn, acc, budget, tools, sequence, out>>

Refusals == {FailureCode(e) : e \in SdkErrors} \cup {"circuit_open", "model_mismatch"}

ToolStep == \E i \in DOMAIN task : ToolEnds(i)
ProviderEnds == TurnEnds \/ (\E code \in Refusals : ProviderFails(code))
LoopStep == Start \/ BeginTurn \/ AnnounceTool \/ RunTools
               \/ (\E tokens \in 0 .. MaxOutput : ToolsComplete(tokens))
               \/ ToolsFail \/ DrainEnds

Finished == phase = "ended" /\ UNCHANGED vars

Next ==
    \/ Start \/ BeginTurn
    \/ \E marker \in BOOLEAN : TextDelta(marker)
    \/ SilentPart
    \/ \E code \in Refusals : ProviderFails(code)
    \/ TurnEnds
    \/ AnnounceTool \/ RunTools
    \/ \E i \in DOMAIN task : ToolEnds(i)
    \/ \E tokens \in 0 .. MaxOutput : ToolsComplete(tokens)
    \/ ToolsFail \/ DrainEnds
    \/ Disconnect \/ DisconnectSeen \/ CloseAbandoned
    \/ Finished

Spec == Init /\ [][Next]_vars

\* The event loop runs what is ready; asyncio.timeout bounds a provider stream
\* by the deadline and every tool by its timeout.
Fairness ==
    /\ WF_vars(LoopStep)
    /\ WF_vars(ProviderEnds)
    /\ WF_vars(ToolStep)
    /\ WF_vars(CloseAbandoned)

FairSpec == Spec /\ Fairness

-----------------------------------------------------------------------------
Sent(type) == {i \in DOMAIN out : out[i].type = type}

\* The frames are numbered without a gap, the first is "start", and "done" or
\* "error" is the last one and the only one.
FrameOrder ==
    /\ \A i \in DOMAIN out : out[i].seq = i /\ (out[i].type = "start" <=> i = 1)
    /\ \A i \in Sent("done") \cup Sent("error") : i = Len(out) /\ phase = "ended"

\* An answer that is closed with "done" is the text of the last turn alone, so
\* that joining every delta (answer) gives the text that was validated, and no
\* part of it speaks the tool protocol.
AnswerIsLastTurn ==
    Sent("done") # {} =>
        /\ Sent("delta") # {}
        /\ \A i \in Sent("delta") :
              /\ \A j \in Sent("model") \cup Sent("tool") : j < i
              /\ ~out[i].marker

\* However early the connection breaks off, the chat takes what it received for
\* an answer only if it is all of a finished one, and then always, unless the
\* answer has more frames than the chat reads.
ChatAgrees ==
    \A n \in 0 .. Len(out) :
        Shown(SubSeq(out, 1, n)) = "answer" <=>
            n = Len(out) /\ Sent("done") # {} /\ n <= MaxEvents

\* What the client reads off the stream is a well formed, validated answer.
PublishedStream == FrameOrder /\ AnswerIsLastTurn /\ ChatAgrees

\* Over all turns of a request the client is never shown more tools than the
\* loop guard allows, and no tool runs on after the response has ended.
ToolsBounded ==
    /\ Cardinality(Sent("tool")) <= MaxToolCalls
    /\ Cardinality({i \in Sent("tool") : out[i].label = Trends}) <= MaxExpensive
    /\ \A t \in Tools : Cardinality({i \in Sent("tool") : out[i].label = t}) <= MaxRepeated
    /\ phase = "ended" => Settled

\* ADR 0003: the provider's text of a tool turn is not published.
ToolTurnIsSilent == acc.text > 0 => DOMAIN acc.calls = {}

\* The harness ends by itself, whatever the provider does, and gives back the
\* permit of its last stream, also when a generator was left half read.
HarnessEnds == (phase = "turn") ~> (phase = "ended" /\ permit = "free")
=============================================================================
