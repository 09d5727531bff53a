--------------------------- MODULE StreamGateway ---------------------------
(***************************************************************************)
(* ResilientModelClient.stream of agent_runtime/retry.py, the gateway of   *)
(* the assistant: an async generator per caller that holds a permit while  *)
(* it waits for the provider, while its consumer looks at a delta and      *)
(* while it backs off, and that may be closed at any of its suspensions.   *)
(*                                                                         *)
(* pc[c]:  "idle", "waiting", "granted", "backoff" as in CompleteGateway   *)
(*         "streaming"  awaits the next provider event                     *)
(*         "yielding"   suspended at the yield of a delta                  *)
(*         "terminal"   suspended at the yield of the completed event      *)
(*                                                                         *)
(* emitted and completed are the generator's locals of the attempt;        *)
(* delivered[c] (history) maps an attempt to the deltas its consumer saw;  *)
(* probes (history) are the callers that hold the half-open lease.         *)
(***************************************************************************)
EXTENDS CircuitBreaker, FiniteSets

CONSTANTS Callers, MaxConcurrency, MaxAttempts,
          MaxDeltas          \* bound: deltas of one attempt (1024 chunks in provider.py)

ASSUME CallersAssumption == IsFiniteSet(Callers)
ASSUME MaxConcurrencyAssumption == MaxConcurrency \in Nat \ {0}
ASSUME MaxAttemptsAssumption == MaxAttempts \in Nat \ {0}
ASSUME MaxDeltasAssumption == MaxDeltas \in Nat \ {0}

VARIABLES pc, attempt, emitted, completed, delivered, free, breaker, probes

local == <<attempt, emitted, completed, delivered>>
vars  == <<pc, attempt, emitted, completed, delivered, free, breaker, probes>>

Phases  == {"idle", "waiting", "granted", "streaming", "yielding", "backoff",
            "terminal"}
Holders == {c \in Callers : pc[c] \in {"granted", "streaming", "yielding", "backoff"}}
Waiting == {c \in Callers : pc[c] = "waiting"}

NothingDelivered == [k \in 1 .. MaxAttempts |-> 0]

Init ==
    /\ pc = [c \in Callers |-> "idle"]
    /\ attempt = [c \in Callers |-> 0]
    /\ emitted = [c \in Callers |-> FALSE]
    /\ completed = [c \in Callers |-> FALSE]
    /\ delivered = [c \in Callers |-> NothingDelivered]
    /\ free = MaxConcurrency
    /\ breaker = ClosedBreaker
    /\ probes = {}

-----------------------------------------------------------------------------
\* The generator is over (or parked at its terminal event): locals forgotten.
Forget(c) ==
    /\ attempt' = [attempt EXCEPT ![c] = 0]
    /\ emitted' = [emitted EXCEPT ![c] = FALSE]
    /\ completed' = [completed EXCEPT ![c] = FALSE]
    /\ delivered' = [delivered EXCEPT ![c] = NothingDelivered]

\* The finally clause: c goes to phase p and its permit to a waiter, if any.
Release(c, p) ==
    \/ /\ Waiting = {}
       /\ pc' = [pc EXCEPT ![c] = p]
       /\ free' = free + 1
    \/ \E w \in Waiting :
          /\ pc' = [pc EXCEPT ![c] = p, ![w] = "granted"]
          /\ free' = free

\* The generator ends, the breaker left as b.
Finish(c, b) ==
    /\ breaker' = b
    /\ probes' = probes \ {c}
    /\ Release(c, "idle")
    /\ Forget(c)

Start(c) ==
    /\ pc[c] = "idle"
    /\ IF free > 0
       THEN pc' = [pc EXCEPT ![c] = "granted"] /\ free' = free - 1
       ELSE pc' = [pc EXCEPT ![c] = "waiting"] /\ free' = free
    /\ UNCHANGED <<local, breaker, probes>>

\* Mutant: before_call guards only the first attempt, as in complete.
BeginAttemptUnguarded(c) ==
    /\ pc[c] \in {"granted", "backoff"}
    /\ \/ pc[c] = "granted" /\ ~Admits(breaker) /\ Finish(c, breaker)
       \/ /\ pc[c] = "backoff" \/ Admits(breaker)
          /\ breaker' = IF pc[c] = "granted" THEN BeforeCall(breaker) ELSE breaker
          /\ probes' = IF breaker.state = "closed" THEN probes \ {c}
                       ELSE probes \cup {c}
          /\ pc' = [pc EXCEPT ![c] = "streaming"]
          /\ attempt' = [attempt EXCEPT ![c] = @ + 1]
          /\ emitted' = [emitted EXCEPT ![c] = FALSE]
          /\ completed' = [completed EXCEPT ![c] = FALSE]
          /\ UNCHANGED <<delivered, free>>

\* Mutant: the retry loop does not count its attempts.
BeginAttemptUncounted(c) ==
    /\ pc[c] \in {"granted", "backoff"}
    /\ \/ ~Admits(breaker) /\ Finish(c, breaker)
       \/ /\ Admits(breaker)
          /\ breaker' = BeforeCall(breaker)
          /\ pc' = [pc EXCEPT ![c] = "streaming"]
          /\ attempt' = [attempt EXCEPT ![c] = 1]
          /\ UNCHANGED <<emitted, completed, delivered, free, probes>>

\* One turn of the retry loop: before_call raises CIRCUIT_OPEN (admitted is
\* FALSE, nothing is recorded, the code is not retryable), or the provider
\* stream is opened.
BeginAttempt(c) ==
    /\ pc[c] \in {"granted", "backoff"}
    /\ \/ ~Admits(breaker) /\ Finish(c, breaker)
       \/ /\ Admits(breaker)
          /\ breaker' = BeforeCall(breaker)
          /\ probes' = IF breaker.state = "closed" THEN probes \ {c}
                       ELSE probes \cup {c}
          /\ pc' = [pc EXCEPT ![c] = "streaming"]
          /\ attempt' = [attempt EXCEPT ![c] = @ + 1]
          /\ emitted' = [emitted EXCEPT ![c] = FALSE]
          /\ completed' = [completed EXCEPT ![c] = FALSE]
          /\ UNCHANGED <<delivered, free>>

\* A text delta is handed to the consumer.
Delta(c) ==
    /\ pc[c] = "streaming"
    /\ ~completed[c]
    /\ delivered[c][attempt[c]] < MaxDeltas
    /\ pc' = [pc EXCEPT ![c] = "yielding"]
    /\ emitted' = [emitted EXCEPT ![c] = TRUE]
    /\ delivered' = [delivered EXCEPT ![c][attempt[c]] = @ + 1]
    /\ UNCHANGED <<attempt, completed, free, breaker, probes>>

Resume(c) ==
    /\ pc[c] = "yielding"
    /\ pc' = [pc EXCEPT ![c] = "streaming"]
    /\ UNCHANGED <<local, free, breaker, probes>>

\* The completed event is kept back until the provider stream has ended.
CompletedEvent(c) ==
    /\ pc[c] = "streaming"
    /\ ~completed[c]
    /\ emitted' = [emitted EXCEPT ![c] = TRUE]
    /\ completed' = [completed EXCEPT ![c] = TRUE]
    /\ UNCHANGED <<pc, attempt, delivered, free, breaker, probes>>

\* The provider stream is exhausted: success and the terminal event, or a
\* malformed answer, which is a failure that is not retried.
EndOfStream(c) ==
    /\ pc[c] = "streaming"
    /\ \/ /\ completed[c]
          /\ breaker' = RecordSuccess(breaker)
          /\ probes' = probes \ {c}
          /\ Release(c, "terminal")
          /\ Forget(c)
       \/ ~completed[c] /\ Finish(c, RecordFailure(breaker))

\* Mutant: a failed attempt is retried although its events were published.
FailRepeatsDeltas(c) ==
    LET failed == RecordFailure(breaker) IN
    /\ pc[c] = "streaming"
    /\ \/ Finish(c, failed)
       \/ /\ attempt[c] < MaxAttempts
          /\ Admits(failed)
          /\ breaker' = RecordAborted(BeforeCall(failed))
          /\ probes' = probes \ {c}
          /\ pc' = [pc EXCEPT ![c] = "backoff"]
          /\ UNCHANGED <<local, free>>

\* The provider raises.  Every error of an admitted attempt is recorded; only
\* a retryable one of a silent attempt that is not the last goes on, after a
\* before_call whose lease is given back at once, to sleep.  All other ways
\* (CIRCUIT_OPEN from that before_call and a delay beyond the deadline among
\* them) raise.
Fail(c) ==
    LET failed == RecordFailure(breaker) IN
    /\ pc[c] = "streaming"
    /\ \/ Finish(c, failed)
       \/ /\ ~emitted[c]
          /\ attempt[c] < MaxAttempts
          /\ Admits(failed)
          /\ \/ Finish(c, RecordAborted(BeforeCall(failed)))
             \/ /\ breaker' = RecordAborted(BeforeCall(failed))
                /\ probes' = probes \ {c}
                /\ pc' = [pc EXCEPT ![c] = "backoff"]
                /\ UNCHANGED <<local, free>>

\* CancelledError while the provider is awaited, or the consumer closes the
\* generator at a delta (an abandoned generator is closed by the event loop).
Abort(c) ==
    /\ pc[c] \in {"streaming", "yielding"}
    /\ Finish(c, RecordAborted(breaker))

\* The deadline or a cancellation ends a sleep; neither touches the breaker.
BackoffEnds(c) ==
    /\ pc[c] = "backoff"
    /\ Finish(c, breaker)

GiveUp(c) ==
    \/ /\ pc[c] = "waiting"
       /\ pc' = [pc EXCEPT ![c] = "idle"]
       /\ UNCHANGED <<local, free, breaker, probes>>
    \/ /\ pc[c] = "granted"
       /\ Finish(c, breaker)

\* The consumer takes the completed event or closes the generator at it.
TakeTerminal(c) ==
    /\ pc[c] = "terminal"
    /\ pc' = [pc EXCEPT ![c] = "idle"]
    /\ UNCHANGED <<local, free, breaker, probes>>

RecoveryElapses ==
    /\ CanCool(breaker)
    /\ breaker' = Cooled(breaker)
    /\ UNCHANGED <<pc, local, free, probes>>

ProviderAnswers(c) ==
    Delta(c) \/ CompletedEvent(c) \/ EndOfStream(c) \/ Fail(c) \/ Abort(c)

Next ==
    \/ RecoveryElapses
    \/ \E c \in Callers :
          \/ Start(c) \/ BeginAttempt(c) \/ GiveUp(c)
          \/ Delta(c) \/ Resume(c) \/ CompletedEvent(c) \/ EndOfStream(c)
          \/ Fail(c) \/ Abort(c) \/ BackoffEnds(c) \/ TakeTerminal(c)

Spec == Init /\ [][Next]_vars

\* A ready task runs, the provider stream is bounded in time and in chunks, a
\* consumer goes on or closes the generator, and the clock moves on.
Fairness ==
    /\ WF_vars(RecoveryElapses)
    /\ \A c \in Callers :
          /\ WF_vars(BeginAttempt(c) \/ BackoffEnds(c))
          /\ WF_vars(GiveUp(c))
          /\ WF_vars(ProviderAnswers(c))
          /\ WF_vars(Resume(c) \/ Abort(c))

FairSpec == Spec /\ Fairness

-----------------------------------------------------------------------------
TypeOK ==
    /\ pc \in [Callers -> Phases]
    /\ attempt \in [Callers -> 0 .. MaxAttempts]
    /\ emitted \in [Callers -> BOOLEAN]
    /\ completed \in [Callers -> BOOLEAN]
    /\ delivered \in [Callers -> [1 .. MaxAttempts -> 0 .. MaxDeltas]]
    /\ free \in 0 .. MaxConcurrency
    /\ breaker \in Breakers
    /\ probes \subseteq {c \in Callers : pc[c] \in {"streaming", "yielding"}}

\* No permit is lost or made up.  Parked at the terminal event a generator
\* has none: its permit is back before the consumer sees the event.
PermitsConserved == free + Cardinality(Holders) = MaxConcurrency

\* The half-open lease belongs to a stream that is still running: closing,
\* cancelling or failing a stream never leaves the circuit locked.
LeaseHasHolder == breaker.inFlight => probes # {}

\* A consumer never sees deltas of two attempts glued together.
OneAttemptDelivers ==
    \A c \in Callers : Cardinality({k \in 1 .. MaxAttempts : delivered[c][k] > 0}) <= 1

\* No attempt, first or repeated, reaches the provider on an open circuit.
NoCallOnOpenCircuit ==
    [][\A c \in Callers :
          attempt'[c] > attempt[c] => breaker'.state # "open"]_vars

\* After any failure the circuit comes back to admitting calls.
CircuitRecovers == []<>Admits(breaker)

\* The gateway is a bounded pool of permit holders, all of whom leave.
Pool == INSTANCE BoundedPool
            WITH Clients <- Callers, Capacity <- MaxConcurrency, inside <- Holders
PoolSpec == Pool!Spec

\* retry.py:61 promises a "process-local breaker with one half-open probe".
OneProbe == Cardinality(probes) <= 1
=============================================================================
