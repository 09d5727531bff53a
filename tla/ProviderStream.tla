--------------------------- MODULE ProviderStream ---------------------------
(***************************************************************************)
(* OpenAICompatibleProvider._stream and _ToolCallParts: the parts of a     *)
(* streamed completion are folded into one response.  A part is what the   *)
(* loop body handles in one go: a piece of text, a fragment of a tool      *)
(* call, a finish reason, a usage block, or a chunk the adapter rejects    *)
(* (bad index, changed model or request id, too many chunks).  How parts   *)
(* are packed into chunks and choices makes no difference to the fold.     *)
(*                                                                         *)
(* A text is its length in units and whether it holds a marker of the tool *)
(* protocol; the arguments of a call are complete once a fragment came.    *)
(***************************************************************************)
EXTENDS Integers, Sequences, FiniteSets

CONSTANTS Indexes,      \* places of tool calls in a completion
          CallIds,      \* remote ids of tool calls
          Names,        \* tool names a provider may emit
          Finishes,     \* finish reasons
          None          \* no value

EmptyStream == [text |-> 0, marker |-> FALSE, calls |-> <<>>,
                finish |-> None, usage |-> 0, error |-> FALSE]

Rejected(acc) == [acc EXCEPT !.error = TRUE]

TakeText(acc, marker) ==
    [acc EXCEPT !.text = @ + 1, !.marker = @ \/ marker]

\* The part of a tool call at an index, empty if no fragment came for it yet.
PartAt(acc, index) ==
    IF index \in DOMAIN acc.calls
    THEN acc.calls[index]
    ELSE [id |-> None, name |-> None, arguments |-> FALSE]

With(calls, index, part) ==
    [i \in DOMAIN calls \cup {index} |-> IF i = index THEN part ELSE calls[i]]

\* set_id and set_name: the first value stays, another one is an error.
TakeHead(acc, index, id, name) ==
    LET part == PartAt(acc, index)
    IN IF part.id \in {None, id} /\ part.name \in {None, name}
       THEN [acc EXCEPT !.calls = With(@, index, [part EXCEPT !.id = id, !.name = name])]
       ELSE Rejected(acc)

TakeArguments(acc, index) ==
    [acc EXCEPT !.calls = With(@, index, [PartAt(acc, index) EXCEPT !.arguments = TRUE])]

TakeFinish(acc, reason) == [acc EXCEPT !.finish = reason]

\* A later usage block replaces an earlier one.
TakeUsage(acc, tokens) == [acc EXCEPT !.usage = tokens]

Complete(acc) ==
    \A i \in DOMAIN acc.calls :
        acc.calls[i].id # None /\ acc.calls[i].name # None /\ acc.calls[i].arguments

\* The tool calls of the response, in the order of their indexes.
CallsInOrder(acc) ==
    LET places == DOMAIN acc.calls
        Rank(i) == Cardinality({j \in places : j <= i})
    IN [n \in 1 .. Cardinality(places) |->
          LET i == CHOOSE j \in places : Rank(j) = n
          IN [id |-> acc.calls[i].id, name |-> acc.calls[i].name]]

\* How the end of the stream is judged: no usage or a half tool call is
\* malformed, more output than was asked for breaks the budget.
EndError(acc, limit) ==
    CASE acc.error \/ acc.usage = 0 -> "malformed_provider_response"
      [] acc.usage > limit          -> "budget_exceeded"
      [] ~Complete(acc)             -> "malformed_provider_response"
      [] OTHER                      -> None

-----------------------------------------------------------------------------
(* The failures of the SDK and the codes the adapter gives them *)

SdkErrors == {"timeout", "connection", "status_401", "status_403", "status_429",
              "status_400", "tool_use_failed", "status_404", "status_500", "api_error"}

FailureCode(error) ==
    CASE error = "timeout"         -> "provider_timeout"
      [] error = "connection"      -> "provider_transport"
      [] error = "status_401"      -> "provider_authentication"
      [] error = "status_403"      -> "provider_permission"
      [] error = "status_429"      -> "provider_rate_limited"
      [] error = "tool_use_failed" -> "provider_tool_use_failed"
      [] error = "status_500"      -> "provider_server"
      [] error \in {"status_400", "status_404"} -> "provider_invalid_request"
      [] OTHER                     -> "malformed_provider_response"
=============================================================================
