--------------------------- MODULE CircuitBreaker ---------------------------
(***************************************************************************)
(* The process-local circuit breaker of agent_runtime/retry.py as a data   *)
(* type: a record and one operator per method.  Both gateway modules hold  *)
(* one breaker in a variable and apply these operators inside their steps, *)
(* because every method runs without an await and is therefore atomic.     *)
(*                                                                         *)
(* The monotonic clock is abstracted to one bit: `cooled' says that        *)
(* recovery_seconds have passed since opened_at.                           *)
(***************************************************************************)
EXTENDS Integers

CONSTANT FailureThreshold        \* CircuitBreakerPolicy.failure_threshold (PositiveInt)

ASSUME FailureThresholdAssumption == FailureThreshold \in Nat \ {0}

Breakers == [state    : {"closed", "open", "half_open"},
             failures : 0 .. (FailureThreshold - 1),
             inFlight : BOOLEAN,
             cooled   : BOOLEAN]

ClosedBreaker ==
    [state |-> "closed", failures |-> 0, inFlight |-> FALSE, cooled |-> FALSE]

\* before_call returns; otherwise it raises CIRCUIT_OPEN and changes nothing.
Admits(b) ==
    \/ b.state = "closed"
    \/ b.state = "open" /\ b.cooled
    \/ b.state = "half_open" /\ ~b.inFlight

\* The breaker after a before_call that returned.
BeforeCall(b) ==
    IF b.state = "closed" THEN b
    ELSE [b EXCEPT !.state = "half_open", !.inFlight = TRUE]

RecordSuccess(b) == ClosedBreaker

Opened(b) ==
    [state |-> "open", failures |-> 0, inFlight |-> b.inFlight, cooled |-> FALSE]

\* Mutant: a failed probe is only counted; the half-open branch is missing.
RecordFailureCountsProbe(b) ==
    IF b.failures + 1 >= FailureThreshold
    THEN Opened([b EXCEPT !.inFlight = FALSE])
    ELSE [b EXCEPT !.inFlight = FALSE, !.failures = @ + 1]

\* A failure of any caller, also of one admitted before the breaker opened.
RecordFailure(b) ==
    IF b.state = "half_open" \/ b.failures + 1 >= FailureThreshold
    THEN Opened([b EXCEPT !.inFlight = FALSE])
    ELSE [b EXCEPT !.inFlight = FALSE, !.failures = @ + 1]

\* Mutant: an aborted call keeps the half-open lease.
RecordAbortedKeepsLease(b) == b

RecordAborted(b) ==
    IF b.state = "half_open" THEN [b EXCEPT !.inFlight = FALSE] ELSE b

\* The clock reaches opened_at + recovery_seconds.
CanCool(b) == b.state = "open" /\ ~b.cooled
Cooled(b)  == [b EXCEPT !.cooled = TRUE]
=============================================================================
