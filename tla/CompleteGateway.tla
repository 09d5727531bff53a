-------------------------- MODULE CompleteGateway --------------------------
(***************************************************************************)
(* ResilientModelClient.complete of agent_runtime/retry.py: concurrent     *)
(* agent tasks share one semaphore and one circuit breaker.  One action is *)
(* the code between two awaits of a task.  The gateways of the analysis    *)
(* workflow and of trends serve only complete calls, so this module has no *)
(* streams; StreamGateway is the gateway of the assistant.                 *)
(*                                                                         *)
(* pc[c]:  "idle"     outside complete                                     *)
(*         "waiting"  queued in semaphore.acquire                          *)
(*         "granted"  has a permit, the task has not run on yet            *)
(*         "calling"  awaits the provider                                  *)
(*         "backoff"  sleeps before the next attempt, still with a permit  *)
(*                                                                         *)
(* A deadline is a nondeterministic outcome of each check: the first check *)
(* that fails ends the call.  `probes' is a history variable: the tasks    *)
(* whose before_call took the half-open lease and that neither recorded a  *)
(* verdict nor left since.                                                 *)
(***************************************************************************)
EXTENDS CircuitBreaker, FiniteSets

CONSTANTS Callers, MaxConcurrency, MaxAttempts

ASSUME CallersAssumption == IsFiniteSet(Callers)
ASSUME MaxConcurrencyAssumption == MaxConcurrency \in Nat \ {0}
ASSUME MaxAttemptsAssumption == MaxAttempts \in Nat \ {0}

VARIABLES pc, attempt, free, breaker, probes

vars == <<pc, attempt, free, breaker, probes>>

Phases  == {"idle", "waiting", "granted", "calling", "backoff"}
Holders == {c \in Callers : pc[c] \in {"granted", "calling", "backoff"}}
Waiting == {c \in Callers : pc[c] = "waiting"}

Init ==
    /\ pc = [c \in Callers |-> "idle"]
    /\ attempt = [c \in Callers |-> 0]
    /\ free = MaxConcurrency
    /\ breaker = ClosedBreaker
    /\ probes = {}

-----------------------------------------------------------------------------
\* Mutant: the freed permit goes back to the counter while a task is queued.
LeaveWithoutWaking(c) ==
    /\ attempt' = [attempt EXCEPT ![c] = 0]
    /\ pc' = [pc EXCEPT ![c] = "idle"]
    /\ free' = free + 1

\* The finally clause: release hands the permit to a waiter if there is one.
Leave(c) ==
    /\ attempt' = [attempt EXCEPT ![c] = 0]
    /\ \/ /\ Waiting = {}
          /\ pc' = [pc EXCEPT ![c] = "idle"]
          /\ free' = free + 1
       \/ \E w \in Waiting :
             /\ pc' = [pc EXCEPT ![c] = "idle", ![w] = "granted"]
             /\ free' = free

\* The call ends, by return or by an exception, with the breaker left as b.
Finish(c, b) ==
    /\ breaker' = b
    /\ probes' = probes \ {c}
    /\ Leave(c)

\* before_call on the breaker b returned and the call goes on.
Admitted(c, b) ==
    /\ breaker' = BeforeCall(b)
    /\ probes' = IF b.state = "closed" THEN probes \ {c} ELSE probes \cup {c}

\* Mutant: the semaphore lets one task too many in.
StartOneTooMany(c) ==
    /\ pc[c] = "idle"
    /\ pc' = [pc EXCEPT ![c] = "granted"]
    /\ free' = IF free > 0 THEN free - 1 ELSE 0
    /\ UNCHANGED <<attempt, breaker, probes>>

\* wait_for(semaphore.acquire()): a free permit is taken at once.
Start(c) ==
    /\ pc[c] = "idle"
    /\ IF free > 0
       THEN pc' = [pc EXCEPT ![c] = "granted"] /\ free' = free - 1
       ELSE pc' = [pc EXCEPT ![c] = "waiting"] /\ free' = free
    /\ UNCHANGED <<attempt, breaker, probes>>

\* The permit is there: CIRCUIT_OPEN, or the deadline check after before_call
\* fails (the lease, if one was taken, stays), or the first provider call.
Enter(c) ==
    /\ pc[c] = "granted"
    /\ \/ ~Admits(breaker) /\ Finish(c, breaker)
       \/ Admits(breaker) /\ Finish(c, BeforeCall(breaker))
       \/ /\ Admits(breaker)
          /\ Admitted(c, breaker)
          /\ pc' = [pc EXCEPT ![c] = "calling"]
          /\ attempt' = [attempt EXCEPT ![c] = 1]
          /\ UNCHANGED free

Succeed(c) ==
    /\ pc[c] = "calling"
    /\ Finish(c, RecordSuccess(breaker))

\* A retryable error, the wait_for timeout included: record_failure, then the
\* last attempt raises, before_call refuses, the delay does not fit into the
\* deadline, or the task sleeps.
FailRetryable(c) ==
    LET failed == RecordFailure(breaker) IN
    /\ pc[c] = "calling"
    /\ \/ (attempt[c] = MaxAttempts \/ ~Admits(failed)) /\ Finish(c, failed)
       \/ /\ attempt[c] < MaxAttempts
          /\ Admits(failed)
          /\ Finish(c, BeforeCall(failed))
       \/ /\ attempt[c] < MaxAttempts
          /\ Admits(failed)
          /\ Admitted(c, failed)
          /\ pc' = [pc EXCEPT ![c] = "backoff"]
          /\ UNCHANGED <<attempt, free>>

\* A non-retryable AgentRuntimeError, an unexpected exception or the
\* cancellation of the task (a TaskGroup sibling failed): nothing is recorded.
Abort(c) ==
    /\ pc[c] \in {"calling", "backoff"}
    /\ Finish(c, breaker)

\* Mutant: the loop forgets to count the attempt.
WakeUpUncounted(c) ==
    /\ pc[c] = "backoff"
    /\ \/ Finish(c, breaker)
       \/ /\ pc' = [pc EXCEPT ![c] = "calling"]
          /\ UNCHANGED <<attempt, free, breaker, probes>>

\* The sleep ends: the deadline check, then the provider is called again
\* without another look at the breaker.
WakeUp(c) ==
    /\ pc[c] = "backoff"
    /\ \/ Finish(c, breaker)
       \/ /\ pc' = [pc EXCEPT ![c] = "calling"]
          /\ attempt' = [attempt EXCEPT ![c] = @ + 1]
          /\ UNCHANGED <<free, breaker, probes>>

\* wait_for times out, or the task is cancelled, before acquire returned; a
\* permit granted in between is put back by acquire itself.
GiveUp(c) ==
    \/ /\ pc[c] = "waiting"
       /\ pc' = [pc EXCEPT ![c] = "idle"]
       /\ UNCHANGED <<attempt, free, breaker, probes>>
    \/ /\ pc[c] = "granted"
       /\ Finish(c, breaker)

RecoveryElapses ==
    /\ CanCool(breaker)
    /\ breaker' = Cooled(breaker)
    /\ UNCHANGED <<pc, attempt, free, probes>>

ProviderAnswers(c) == Succeed(c) \/ FailRetryable(c) \/ Abort(c)

Next ==
    \/ RecoveryElapses
    \/ \E c \in Callers :
          \/ Start(c) \/ Enter(c) \/ GiveUp(c)
          \/ Succeed(c) \/ FailRetryable(c) \/ Abort(c) \/ WakeUp(c)

Spec == Init /\ [][Next]_vars

\* The event loop runs a ready task, wait_for bounds the wait for a permit and
\* the provider call by the request deadline, the sleep is finite and the clock
\* moves on.  Nobody is obliged to start a call.
Fairness ==
    /\ WF_vars(RecoveryElapses)
    /\ \A c \in Callers :
          /\ WF_vars(Enter(c))
          /\ WF_vars(GiveUp(c))
          /\ WF_vars(ProviderAnswers(c))
          /\ WF_vars(WakeUp(c))

FairSpec == Spec /\ Fairness

-----------------------------------------------------------------------------
TypeOK ==
    /\ pc \in [Callers -> Phases]
    /\ attempt \in [Callers -> 0 .. MaxAttempts]
    /\ \A c \in Callers : pc[c] = "backoff" => attempt[c] < MaxAttempts
    /\ free \in 0 .. MaxConcurrency
    /\ breaker \in Breakers
    /\ probes \subseteq Holders

\* No permit is lost or made up, whichever way calls end: refusal, deadline,
\* error, timeout in the queue, cancellation before or after the grant.
PermitsConserved == free + Cardinality(Holders) = MaxConcurrency

\* A task queues only while every permit is taken (release wakes a waiter).
NoStrandedWaiter == Waiting # {} => free = 0

\* Complete has no record_aborted, so half-open is exactly "a probe was let
\* in and nobody has recorded a verdict": nothing else may set or clear it.
HalfOpenIsLeased == breaker.inFlight <=> breaker.state = "half_open"

\* Every call comes back to its agent, also when the circuit never closes.
CallReturns == \A c \in Callers : (pc[c] # "idle") ~> (pc[c] = "idle")

\* The gateway is a bounded pool of permit holders, all of whom leave.
Pool == INSTANCE BoundedPool
            WITH Clients <- Callers, Capacity <- MaxConcurrency, inside <- Holders
PoolSpec == Pool!Spec

\* retry.py:103 says of record_aborted "Release a half-open lease without
\* treating caller cancellation as provider health": a lease that is taken
\* belongs to a task that is still in the gateway.
LeaseHasHolder == breaker.inFlight => probes # {}
=============================================================================
