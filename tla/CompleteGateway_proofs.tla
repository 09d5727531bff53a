----------------------- MODULE CompleteGateway_proofs -----------------------
(***************************************************************************)
(* The safety of CompleteGateway for every number of callers, permits,     *)
(* attempts and every failure threshold.  The inductive invariant joins    *)
(* the types with the permit accounting (free stays below MaxConcurrency   *)
(* only because every leaver held a permit) and with the two facts about   *)
(* the queue and the breaker.                                              *)
(***************************************************************************)
EXTENDS CompleteGateway, FiniteSetTheorems, TLAPS

USE FailureThresholdAssumption, CallersAssumption, MaxConcurrencyAssumption,
    MaxAttemptsAssumption

IInv == TypeOK /\ PermitsConserved /\ NoStrandedWaiter /\ HalfOpenIsLeased

-----------------------------------------------------------------------------
(* The breaker and the permits *)

\* A well-formed breaker in which exactly the half-open state is leased.
Consistent(b) == b \in Breakers /\ (b.inFlight = TRUE <=> b.state = "half_open")

\* _open: the lease flag is as its caller left it.
LEMMA OpenedFields ==
    ASSUME NEW e \in Breakers
    PROVE  /\ Opened(e) \in Breakers
           /\ Opened(e).state = "open"
           /\ Opened(e).inFlight = e.inFlight
BY FailureThresholdAssumption DEF Opened, Breakers

\* record_failure frees the lease and never stays half-open.
LEMMA RecordFailureFields ==
    ASSUME NEW b \in Breakers
    PROVE  /\ RecordFailure(b) \in Breakers
           /\ RecordFailure(b).inFlight = FALSE
           /\ RecordFailure(b).state # "half_open"
<1> USE FailureThresholdAssumption
<1> DEFINE freed == [b EXCEPT !.inFlight = FALSE]
<1>1. freed \in Breakers /\ freed.inFlight = FALSE
  BY DEF Breakers
<1>2. CASE b.state = "half_open" \/ b.failures + 1 >= FailureThreshold
  <2>1. RecordFailure(b) = Opened(freed)
    BY <1>2 DEF RecordFailure
  <2> QED BY <1>1, <2>1, OpenedFields
<1>3. CASE ~(b.state = "half_open" \/ b.failures + 1 >= FailureThreshold)
  <2>1. RecordFailure(b) = [b EXCEPT !.inFlight = FALSE, !.failures = b.failures + 1]
    BY <1>3 DEF RecordFailure
  <2>2. b.failures + 1 \in 0 .. (FailureThreshold - 1)
    BY <1>3 DEF Breakers
  <2> QED BY <1>3, <2>1, <2>2 DEF Breakers
<1> QED BY <1>2, <1>3

\* Without record_aborted, half-open and leased stay one and the same.
LEMMA VerdictsKeepConsistent ==
    ASSUME NEW b, Consistent(b)
    PROVE  /\ Consistent(BeforeCall(b))
           /\ Consistent(RecordSuccess(b))
           /\ Consistent(RecordFailure(b))
           /\ Consistent(Cooled(b))
<1>1. b \in Breakers /\ Consistent(BeforeCall(b)) /\ Consistent(Cooled(b))
  BY DEF Consistent, BeforeCall, Cooled, Breakers
<1>2. Consistent(RecordSuccess(b))
  BY DEF Consistent, RecordSuccess, ClosedBreaker, Breakers
<1>3. Consistent(RecordFailure(b))
  BY <1>1, RecordFailureFields DEF Consistent
<1> QED BY <1>1, <1>2, <1>3

\* A holder hands its place to somebody outside.
LEMMA HolderHandsOver ==
    ASSUME NEW H, IsFiniteSet(H), NEW c, c \in H, NEW d, d \notin H
    PROVE  /\ IsFiniteSet((H \ {c}) \cup {d})
           /\ Cardinality((H \ {c}) \cup {d}) = Cardinality(H)
<1>1. /\ IsFiniteSet(H \ {c})
      /\ Cardinality(H \ {c}) = Cardinality(H) - 1
  BY FS_RemoveElement
<1>2. Cardinality((H \ {c}) \cup {d}) = (Cardinality(H) - 1) + 1
  BY <1>1, FS_AddElement
<1>3. Cardinality(H) \in Nat
  BY FS_CardinalityType
<1> QED BY <1>1, <1>2, <1>3, FS_AddElement

\* The holders are a finite set.
LEMMA HoldersFinite == IsFiniteSet(Holders)
BY FS_Subset DEF Holders

\* A holder that leaves gives its permit to a waiter or to the counter.
LEMMA LeaveAccounts ==
    ASSUME IInv, NEW c \in Holders, Leave(c)
    PROVE  /\ pc' \in [Callers -> Phases]
           /\ attempt' \in [Callers -> 0 .. MaxAttempts]
           /\ \A d \in Callers : pc'[d] = "backoff" => attempt'[d] < MaxAttempts
           /\ free' \in 0 .. MaxConcurrency
           /\ PermitsConserved'
           /\ NoStrandedWaiter'
           /\ Holders \ {c} \subseteq Holders'
<1> USE DEF IInv, TypeOK, Phases
<1>1. IsFiniteSet(Holders) /\ Cardinality(Holders) \in Nat /\ Cardinality(Holders) > 0
  BY HoldersFinite, FS_EmptySet, FS_CardinalityType
<1>2. attempt' \in [Callers -> 0 .. MaxAttempts]
  BY DEF Leave, Holders
<1>b. \A d \in Callers : pc'[d] = "backoff" => attempt'[d] < MaxAttempts
  BY DEF Leave, Holders, Waiting
<1>3. CASE Waiting = {} /\ pc' = [pc EXCEPT ![c] = "idle"] /\ free' = free + 1
  <2>1. Holders' = Holders \ {c}
    BY <1>3 DEF Holders
  <2>2. Waiting' = {}
    BY <1>3 DEF Waiting, Holders
  <2>3. Cardinality(Holders') = Cardinality(Holders) - 1
    BY <2>1, <1>1, FS_RemoveElement
  <2>4. free + 1 \in 0 .. MaxConcurrency
    BY <1>1 DEF PermitsConserved
  <2>5. PermitsConserved' /\ free' \in 0 .. MaxConcurrency
    BY <1>1, <1>3, <2>3, <2>4 DEF PermitsConserved
  <2>6. pc' \in [Callers -> Phases] /\ Holders \ {c} \subseteq Holders'
    BY <1>3, <2>1 DEF Holders
  <2> QED BY <1>2, <1>b, <2>2, <2>5, <2>6 DEF NoStrandedWaiter
<1>4. ASSUME NEW w \in Waiting,
             pc' = [pc EXCEPT ![c] = "idle", ![w] = "granted"], free' = free
      PROVE  /\ pc' \in [Callers -> Phases]
             /\ free' \in 0 .. MaxConcurrency
             /\ PermitsConserved'
             /\ NoStrandedWaiter'
             /\ Holders \ {c} \subseteq Holders'
  <2>1. w \in Callers /\ w \notin Holders /\ w # c
    BY DEF Waiting, Holders
  <2>2. Holders' = (Holders \ {c}) \cup {w}
    BY <1>4, <2>1 DEF Holders
  <2>3. Cardinality(Holders') = Cardinality(Holders)
    BY <2>1, <2>2, <1>1, HolderHandsOver
  <2>4. Waiting' \subseteq Waiting
    BY <1>4, <2>1 DEF Waiting, Holders
  <2> QED BY <1>4, <2>1, <2>2, <2>3, <2>4 DEF PermitsConserved, NoStrandedWaiter, Holders
<1> QED BY <1>2, <1>b, <1>3, <1>4 DEF Leave

\* A call that ends with a well-formed breaker keeps the invariant.
LEMMA FinishKeeps ==
    ASSUME IInv, NEW c \in Holders, NEW b \in Breakers,
           b.inFlight <=> b.state = "half_open", Finish(c, b)
    PROVE  IInv'
<1>1. Leave(c) /\ breaker' = b /\ probes' = probes \ {c}
  BY DEF Finish
<1>2. probes' \subseteq Holders'
  BY <1>1, LeaveAccounts DEF IInv, TypeOK
<1> QED BY <1>1, <1>2, LeaveAccounts DEF IInv, TypeOK, HalfOpenIsLeased, Consistent

\* A call that goes on keeps its permit.
LEMMA HolderStays ==
    ASSUME IInv, NEW c \in Holders, NEW p \in {"calling", "backoff"},
           pc' = [pc EXCEPT ![c] = p], UNCHANGED free
    PROVE  /\ pc' \in [Callers -> Phases]
           /\ Holders' = Holders
           /\ PermitsConserved'
           /\ NoStrandedWaiter'
<1>1. Holders' = Holders /\ Waiting' = Waiting
  BY DEF IInv, TypeOK, Holders, Waiting, Phases
<1> QED BY <1>1 DEF IInv, TypeOK, PermitsConserved, NoStrandedWaiter, Holders, Phases

\* A step that is admitted by before_call and goes on keeps the invariant.
LEMMA AdmittedKeeps ==
    ASSUME IInv, NEW c \in Holders, NEW p \in {"calling", "backoff"},
           NEW b \in Breakers, Consistent(b),
           NEW n \in 0 .. MaxAttempts, p = "backoff" => n < MaxAttempts,
           Admitted(c, b), pc' = [pc EXCEPT ![c] = p],
           attempt' = [attempt EXCEPT ![c] = n], UNCHANGED free
    PROVE  IInv'
<1>1. /\ pc' \in [Callers -> Phases]
      /\ Holders' = Holders
      /\ PermitsConserved'
      /\ NoStrandedWaiter'
  BY HolderStays
<1>2. Consistent(breaker')
  BY VerdictsKeepConsistent DEF Admitted
<1>3. probes' \subseteq Holders
  BY DEF Admitted, IInv, TypeOK
<1>4. /\ attempt' \in [Callers -> 0 .. MaxAttempts]
      /\ \A d \in Callers : pc'[d] = "backoff" => attempt'[d] < MaxAttempts
  BY DEF IInv, TypeOK, Holders
<1> QED BY <1>1, <1>2, <1>3, <1>4 DEF IInv, TypeOK, HalfOpenIsLeased, Consistent

-----------------------------------------------------------------------------
\* Initially every permit is free and nobody holds one.
LEMMA InitIInv == Init => IInv
<1> SUFFICES ASSUME Init PROVE IInv
  OBVIOUS
<1>1. Holders = {} /\ Waiting = {}
  BY DEF Init, Holders, Waiting
<1>2. Cardinality(Holders) = 0
  BY <1>1, FS_EmptySet
<1>3. TypeOK
  BY <1>1 DEF Init, TypeOK, Phases, Breakers, ClosedBreaker
<1> QED BY <1>1, <1>2, <1>3
        DEF Init, IInv, PermitsConserved, NoStrandedWaiter, HalfOpenIsLeased, ClosedBreaker

\* Every step keeps the invariant.
LEMMA NextIInv == IInv /\ [Next]_vars => IInv'
<1> SUFFICES ASSUME IInv, [Next]_vars PROVE IInv'
  OBVIOUS
<1>t. /\ TypeOK /\ PermitsConserved /\ NoStrandedWaiter
      /\ breaker \in Breakers /\ Consistent(breaker)
      /\ Holders \subseteq Callers
  BY DEF IInv, TypeOK, HalfOpenIsLeased, Holders, Consistent
<1>1. CASE UNCHANGED vars
  BY <1>1 DEF vars, IInv, TypeOK, PermitsConserved, NoStrandedWaiter,
              HalfOpenIsLeased, Holders, Waiting
<1>2. CASE RecoveryElapses
  <2>1. Consistent(breaker')
    BY <1>2, <1>t, VerdictsKeepConsistent DEF RecoveryElapses
  <2> QED BY <1>2, <1>t, <2>1
          DEF RecoveryElapses, IInv, TypeOK, PermitsConserved, NoStrandedWaiter,
              HalfOpenIsLeased, Holders, Waiting, Consistent
<1>3. ASSUME NEW c \in Callers, Start(c) PROVE IInv'
  <2>1. c \notin Holders /\ IsFiniteSet(Holders) /\ Cardinality(Holders) \in Nat
    BY <1>3, HoldersFinite, FS_EmptySet, FS_CardinalityType DEF Start, Holders
  <2>2. CASE free > 0
    <3>1. /\ pc' = [pc EXCEPT ![c] = "granted"]
          /\ free' = free - 1
          /\ UNCHANGED <<attempt, breaker, probes>>
      BY <1>3, <2>2 DEF Start
    <3>2. Holders' = Holders \cup {c} /\ Waiting' = Waiting
      BY <1>3, <1>t, <3>1 DEF Start, TypeOK, Holders, Waiting, Phases
    <3>3. Cardinality(Holders') = Cardinality(Holders) + 1
      BY <2>1, <3>2, FS_AddElement
    <3> QED BY <1>t, <2>1, <2>2, <3>1, <3>2, <3>3
            DEF IInv, TypeOK, PermitsConserved, NoStrandedWaiter, HalfOpenIsLeased, Phases
  <2>3. CASE ~(free > 0)
    <3>1. /\ pc' = [pc EXCEPT ![c] = "waiting"]
          /\ UNCHANGED <<free, attempt, breaker, probes>>
      BY <1>3, <2>3 DEF Start
    <3>2. Holders' = Holders
      BY <1>3, <1>t, <3>1 DEF Start, TypeOK, Holders, Phases
    <3>3. free = 0
      BY <1>t, <2>3 DEF TypeOK
    <3> QED BY <1>t, <3>1, <3>2, <3>3
            DEF IInv, TypeOK, PermitsConserved, NoStrandedWaiter, HalfOpenIsLeased, Phases
  <2> QED BY <2>2, <2>3
<1>4. ASSUME NEW c \in Callers, Enter(c) PROVE IInv'
  <2>1. c \in Holders
    BY <1>4 DEF Enter, Holders
  <2>2. CASE Finish(c, breaker)
    BY <1>t, <2>1, <2>2, FinishKeeps DEF Consistent
  <2>3. CASE Finish(c, BeforeCall(breaker))
    BY <1>t, <2>1, <2>3, VerdictsKeepConsistent, FinishKeeps DEF Consistent
  <2>4. CASE /\ Admitted(c, breaker)
             /\ pc' = [pc EXCEPT ![c] = "calling"]
             /\ attempt' = [attempt EXCEPT ![c] = 1]
             /\ UNCHANGED free
    <3>1. 1 \in 0 .. MaxAttempts
      OBVIOUS
    <3> QED BY <1>t, <2>1, <2>4, <3>1, AdmittedKeeps DEF Consistent
  <2> QED BY <1>4, <2>2, <2>3, <2>4 DEF Enter
<1>5. ASSUME NEW c \in Callers, GiveUp(c) PROVE IInv'
  <2>1. CASE pc[c] = "granted" /\ Finish(c, breaker)
    <3>1. c \in Holders
      BY <2>1 DEF Holders
    <3> QED BY <1>t, <2>1, <3>1, FinishKeeps DEF Consistent
  <2>2. CASE /\ pc[c] = "waiting"
             /\ pc' = [pc EXCEPT ![c] = "idle"]
             /\ UNCHANGED <<attempt, free, breaker, probes>>
    <3>1. Holders' = Holders /\ Waiting' = Waiting \ {c}
      BY <1>t, <2>2 DEF TypeOK, Holders, Waiting, Phases
    <3> QED BY <1>t, <2>2, <3>1
            DEF IInv, TypeOK, PermitsConserved, NoStrandedWaiter, HalfOpenIsLeased, Phases
  <2> QED BY <1>5, <2>1, <2>2 DEF GiveUp
<1>6. ASSUME NEW c \in Callers, Succeed(c) PROVE IInv'
  <2>1. c \in Holders /\ Finish(c, RecordSuccess(breaker))
    BY <1>6 DEF Succeed, Holders
  <2> QED BY <1>t, <2>1, VerdictsKeepConsistent, FinishKeeps DEF Consistent
<1>7. ASSUME NEW c \in Callers, FailRetryable(c) PROVE IInv'
  <2> DEFINE failed == RecordFailure(breaker)
  <2>1. c \in Holders
    BY <1>7 DEF FailRetryable, Holders
  <2>2. /\ failed \in Breakers /\ Consistent(failed)
        /\ BeforeCall(failed) \in Breakers /\ Consistent(BeforeCall(failed))
    BY <1>t, VerdictsKeepConsistent DEF Consistent
  <2>3. CASE Finish(c, failed)
    BY <1>t, <2>1, <2>2, <2>3, FinishKeeps DEF Consistent
  <2>4. CASE Finish(c, BeforeCall(failed))
    BY <1>t, <2>1, <2>2, <2>4, FinishKeeps DEF Consistent
  <2>5. CASE /\ attempt[c] < MaxAttempts
             /\ Admitted(c, failed)
             /\ pc' = [pc EXCEPT ![c] = "backoff"]
             /\ UNCHANGED <<attempt, free>>
    <3>1. /\ attempt[c] \in 0 .. MaxAttempts
          /\ attempt' = [attempt EXCEPT ![c] = attempt[c]]
      BY <1>t, <2>5 DEF TypeOK
    <3> HIDE DEF failed
    <3> QED BY <1>t, <2>1, <2>2, <2>5, <3>1, AdmittedKeeps DEF Consistent
  <2> QED BY <1>7, <2>3, <2>4, <2>5 DEF FailRetryable
<1>8. ASSUME NEW c \in Callers, Abort(c) PROVE IInv'
  <2>1. c \in Holders /\ Finish(c, breaker)
    BY <1>8 DEF Abort, Holders
  <2> QED BY <1>t, <2>1, FinishKeeps DEF Consistent
<1>9. ASSUME NEW c \in Callers, WakeUp(c) PROVE IInv'
  <2>1. c \in Holders
    BY <1>9 DEF WakeUp, Holders
  <2>2. CASE Finish(c, breaker)
    BY <1>t, <2>1, <2>2, FinishKeeps DEF Consistent
  <2>3. CASE /\ pc' = [pc EXCEPT ![c] = "calling"]
             /\ attempt' = [attempt EXCEPT ![c] = @ + 1]
             /\ UNCHANGED <<free, breaker, probes>>
    <3>1. /\ attempt' \in [Callers -> 0 .. MaxAttempts]
          /\ \A d \in Callers : pc'[d] = "backoff" => attempt'[d] < MaxAttempts
      BY <1>t, <1>9, <2>3 DEF TypeOK, WakeUp
    <3> QED BY <1>t, <2>1, <2>3, <3>1, HolderStays DEF IInv, TypeOK, HalfOpenIsLeased
  <2> QED BY <1>9, <2>2, <2>3 DEF WakeUp
<1> QED BY <1>1, <1>2, <1>3, <1>4, <1>5, <1>6, <1>7, <1>8, <1>9 DEF Next
-----------------------------------------------------------------------------
\* In every behaviour, for every number of callers: the types, no permit lost
\* or made up, nobody queued beside a free permit, half-open means leased.
THEOREM Invariance == Spec => []IInv
<1>1. Init => IInv
  BY InitIInv
<1>2. IInv /\ [Next]_vars => IInv'
  BY NextIInv
<1> QED BY <1>1, <1>2, PTL DEF Spec

\* Program counters, attempts, permits and breaker stay in their types.
THEOREM TypeCorrect == Spec => []TypeOK
<1>1. IInv => TypeOK
  BY DEF IInv
<1> QED BY <1>1, Invariance, PTL

\* No permit of the gateway is ever lost or made up.
THEOREM PermitsAreConserved == Spec => []PermitsConserved
<1>1. IInv => PermitsConserved
  BY DEF IInv
<1> QED BY <1>1, Invariance, PTL

\* Nobody queues while a permit is free.
THEOREM NobodyStranded == Spec => []NoStrandedWaiter
<1>1. IInv => NoStrandedWaiter
  BY DEF IInv
<1> QED BY <1>1, Invariance, PTL

\* The breaker is half-open exactly while its lease is taken.
THEOREM HalfOpenLeased == Spec => []HalfOpenIsLeased
<1>1. IInv => HalfOpenIsLeased
  BY DEF IInv
<1> QED BY <1>1, Invariance, PTL

-----------------------------------------------------------------------------
\* release is an exit from the pool, by leaving or by handing over.
LEMMA LeaveExits ==
    ASSUME IInv, NEW c \in Holders, Leave(c)
    PROVE  Pool!Exit(c)
<1> USE DEF IInv, TypeOK, Phases
<1>1. CASE pc' = [pc EXCEPT ![c] = "idle"]
  <2>1. Holders' = Holders \ {c}
    BY <1>1 DEF Holders
  <2> QED BY <2>1 DEF Pool!Exit, Pool!Leave
<1>2. ASSUME NEW w \in Waiting, pc' = [pc EXCEPT ![c] = "idle", ![w] = "granted"]
      PROVE  Pool!Exit(c)
  <2>1. w \in Callers \ Holders
    BY DEF Waiting, Holders
  <2>2. Holders' = (Holders \ {c}) \cup {w}
    BY <1>2, <2>1 DEF Holders, Waiting
  <2> QED BY <2>1, <2>2 DEF Pool!Exit, Pool!HandOver
<1> QED BY <1>1, <1>2 DEF Leave

\* Every step of the gateway is a step of the pool or leaves the holders alone.
LEMMA StepSimulation == IInv /\ [Next]_vars => [Pool!Next]_Holders
<1> SUFFICES ASSUME IInv, [Next]_vars PROVE Pool!Next \/ UNCHANGED Holders
  OBVIOUS
<1>t. TypeOK /\ PermitsConserved /\ Holders \subseteq Callers
  BY DEF IInv, Holders
<1>x. ASSUME NEW c \in Holders, Leave(c) PROVE Pool!Next
  BY <1>t, <1>x, LeaveExits DEF Pool!Next
<1>y. ASSUME NEW c \in Holders, NEW p \in {"calling", "backoff"},
             pc' = [pc EXCEPT ![c] = p]
      PROVE  UNCHANGED Holders
  BY <1>t, <1>y DEF TypeOK, Holders, Phases
<1>1. CASE UNCHANGED vars \/ RecoveryElapses
  BY <1>1 DEF vars, RecoveryElapses, Holders
<1>2. ASSUME NEW c \in Callers, Start(c) PROVE Pool!Next \/ UNCHANGED Holders
  <2>1. c \notin Holders
    BY <1>2 DEF Start, Holders
  <2>2. CASE free > 0
    <3>1. Holders' = Holders \cup {c}
      BY <1>2, <1>t, <2>2 DEF Start, TypeOK, Holders, Phases
    <3>2. Cardinality(Holders) < MaxConcurrency
      BY <1>t, <2>2, HoldersFinite, FS_EmptySet, FS_CardinalityType DEF TypeOK, PermitsConserved
    <3>3. Pool!Cardinality(Holders) = Cardinality(Holders)
      BY DEF Pool!Cardinality, Cardinality
    <3> QED BY <2>1, <3>1, <3>2, <3>3 DEF Pool!Next, Pool!Enter
  <2>3. CASE ~(free > 0)
    BY <1>2, <1>t, <2>3 DEF Start, TypeOK, Holders, Phases
  <2> QED BY <2>2, <2>3
<1>3. ASSUME NEW c \in Callers,
             Enter(c) \/ Succeed(c) \/ FailRetryable(c) \/ Abort(c) \/ WakeUp(c)
      PROVE  Pool!Next \/ UNCHANGED Holders
  <2>1. c \in Holders
    BY <1>3 DEF Enter, Succeed, FailRetryable, Abort, WakeUp, Holders
  <2>2. \/ Leave(c)
        \/ \E p \in {"calling", "backoff"} : pc' = [pc EXCEPT ![c] = p]
    BY <1>3 DEF Enter, Succeed, FailRetryable, Abort, WakeUp, Finish
  <2> QED BY <2>1, <2>2, <1>x, <1>y
<1>4. ASSUME NEW c \in Callers, GiveUp(c) PROVE Pool!Next \/ UNCHANGED Holders
  <2>1. CASE pc[c] = "granted" /\ Leave(c)
    BY <1>x, <2>1 DEF Holders
  <2>2. CASE pc[c] = "waiting" /\ pc' = [pc EXCEPT ![c] = "idle"]
    BY <1>t, <2>2 DEF TypeOK, Holders, Phases
  <2> QED BY <1>4, <2>1, <2>2 DEF GiveUp, Finish
<1> QED BY <1>1, <1>2, <1>3, <1>4 DEF Next

\* The gateway implements the safety of the bounded pool: at no time more than
\* MaxConcurrency calls between acquire and release, and places only change
\* hands the way the pool allows.
THEOREM GatewayIsBoundedPool == Spec => Pool!Safety
<1>1. Init => Pool!Init
  BY DEF Init, Pool!Init, Holders
<1>2. IInv /\ [Next]_vars => [Pool!Next]_Holders
  BY StepSimulation
<1> QED BY <1>1, <1>2, Invariance, PTL DEF Spec, Pool!Safety
=============================================================================
