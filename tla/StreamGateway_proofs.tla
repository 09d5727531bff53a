------------------------ MODULE StreamGateway_proofs ------------------------
(***************************************************************************)
(* The safety of StreamGateway for every number of callers, permits,       *)
(* attempts and deltas.  The inductive invariant adds to the checked       *)
(* properties that the lease flag is set only in half-open, and what the   *)
(* locals of a generator say in each of its phases.                        *)
(***************************************************************************)
EXTENDS StreamGateway, FiniteSetTheorems, TLAPS

USE FailureThresholdAssumption, CallersAssumption, MaxConcurrencyAssumption,
    MaxAttemptsAssumption, MaxDeltasAssumption

Calling == {"streaming", "yielding"}

\* The locals of one generator: attempts are counted from 1, a silent
\* generator has not emitted, and what was delivered is of this attempt.
LocalsFit(c) ==
    /\ pc[c] \in {"idle", "waiting", "granted", "terminal"} => attempt[c] = 0
    /\ pc[c] = "backoff" => attempt[c] < MaxAttempts
    /\ pc[c] \in Calling => attempt[c] > 0
    /\ pc[c] \notin Calling => emitted[c] = FALSE
    /\ \A k \in 1 .. MaxAttempts :
          delivered[c][k] > 0 => k = attempt[c] /\ emitted[c] = TRUE

Leased == breaker.inFlight = TRUE => breaker.state = "half_open" /\ probes # {}

IInv == TypeOK /\ PermitsConserved /\ Leased /\ \A c \in Callers : LocalsFit(c)

-----------------------------------------------------------------------------
(* The breaker and the permits *)

\* _open: the lease flag is as its caller left it.
LEMMA OpenedFields ==
    ASSUME NEW e \in Breakers
    PROVE  /\ Opened(e) \in Breakers
           /\ Opened(e).state = "open"
           /\ Opened(e).inFlight = e.inFlight
BY FailureThresholdAssumption DEF Opened, Breakers

\* before_call leaves the breaker closed or takes the half-open lease.
LEMMA BeforeCallFields ==
    ASSUME NEW b \in Breakers
    PROVE  /\ BeforeCall(b) \in Breakers
           /\ b.state = "closed" => BeforeCall(b) = b
           /\ b.state # "closed" => /\ BeforeCall(b).state = "half_open"
                                    /\ BeforeCall(b).inFlight = TRUE
BY DEF BeforeCall, Breakers

\* record_failure frees the lease and never stays half-open.
LEMMA RecordFailureFields ==
    ASSUME NEW b \in Breakers
    PROVE  /\ RecordFailure(b) \in Breakers
           /\ RecordFailure(b).inFlight = FALSE
           /\ RecordFailure(b).state # "half_open"
<1> USE FailureThresholdAssumption
<1> DEFINE freed == [b EXCEPT !.inFlight = FALSE]
<1>1. freed \in Breakers /\ freed.inFlight = FALSE
  BY DEF Breakers
<1>2. CASE b.state = "half_open" \/ b.failures + 1 >= FailureThreshold
  <2>1. RecordFailure(b) = Opened(freed)
    BY <1>2 DEF RecordFailure
  <2> QED BY <1>1, <2>1, OpenedFields
<1>3. CASE ~(b.state = "half_open" \/ b.failures + 1 >= FailureThreshold)
  <2>1. RecordFailure(b) = [b EXCEPT !.inFlight = FALSE, !.failures = b.failures + 1]
    BY <1>3 DEF RecordFailure
  <2>2. b.failures + 1 \in 0 .. (FailureThreshold - 1)
    BY <1>3 DEF Breakers
  <2> QED BY <1>3, <2>1, <2>2 DEF Breakers
<1> QED BY <1>2, <1>3

\* record_success closes.
LEMMA RecordSuccessFields ==
    ASSUME NEW b \in Breakers
    PROVE  /\ RecordSuccess(b) \in Breakers
           /\ RecordSuccess(b).inFlight = FALSE
           /\ RecordSuccess(b).state = "closed"
BY FailureThresholdAssumption DEF RecordSuccess, ClosedBreaker, Breakers

\* record_aborted frees the lease and decides nothing.
LEMMA RecordAbortedFields ==
    ASSUME NEW b \in Breakers
    PROVE  /\ RecordAborted(b) \in Breakers
           /\ RecordAborted(b).state = b.state
           /\ b.state = "half_open" => RecordAborted(b).inFlight = FALSE
           /\ b.state # "half_open" => RecordAborted(b) = b
BY DEF RecordAborted, Breakers

\* The clock changes neither the state nor the lease.
LEMMA CooledFields ==
    ASSUME NEW b \in Breakers
    PROVE  /\ Cooled(b) \in Breakers
           /\ Cooled(b).state = b.state
           /\ Cooled(b).inFlight = b.inFlight
BY DEF Cooled, Breakers

\* A holder hands its place to somebody outside.
LEMMA HolderHandsOver ==
    ASSUME NEW H, IsFiniteSet(H), NEW c, c \in H, NEW d, d \notin H
    PROVE  /\ IsFiniteSet((H \ {c}) \cup {d})
           /\ Cardinality((H \ {c}) \cup {d}) = Cardinality(H)
<1>1. /\ IsFiniteSet(H \ {c})
      /\ Cardinality(H \ {c}) = Cardinality(H) - 1
  BY FS_RemoveElement
<1>2. Cardinality((H \ {c}) \cup {d}) = (Cardinality(H) - 1) + 1
  BY <1>1, FS_AddElement
<1>3. Cardinality(H) \in Nat
  BY FS_CardinalityType
<1> QED BY <1>1, <1>2, <1>3, FS_AddElement

\* The holders are a finite set.
LEMMA HoldersFinite == IsFiniteSet(Holders)
BY FS_Subset DEF Holders

\* A generator that leaves gives its permit to a waiter or to the counter,
\* and nobody else moves but from waiting to granted.
LEMMA ReleaseAccounts ==
    ASSUME IInv, NEW c \in Holders, NEW p \in {"idle", "terminal"}, Release(c, p)
    PROVE  /\ pc' \in [Callers -> Phases]
           /\ pc'[c] = p
           /\ \A d \in Callers \ {c} :
                 pc'[d] = pc[d] \/ (pc[d] = "waiting" /\ pc'[d] = "granted")
           /\ free' \in 0 .. MaxConcurrency
           /\ PermitsConserved'
<1> USE DEF IInv, TypeOK, Phases
<1>1. IsFiniteSet(Holders) /\ Cardinality(Holders) \in Nat /\ Cardinality(Holders) > 0
  BY HoldersFinite, FS_EmptySet, FS_CardinalityType
<1>2. CASE pc' = [pc EXCEPT ![c] = p] /\ free' = free + 1
  <2>1. Holders' = Holders \ {c}
    BY <1>2 DEF Holders
  <2>2. Cardinality(Holders') = Cardinality(Holders) - 1
    BY <2>1, <1>1, FS_RemoveElement
  <2>3. free' \in 0 .. MaxConcurrency /\ PermitsConserved'
    BY <1>1, <1>2, <2>2 DEF PermitsConserved
  <2>4. pc' \in [Callers -> Phases] /\ pc'[c] = p /\ \A d \in Callers \ {c} : pc'[d] = pc[d]
    BY <1>2 DEF Holders
  <2> QED BY <2>3, <2>4
<1>3. ASSUME NEW w \in Waiting,
             pc' = [pc EXCEPT ![c] = p, ![w] = "granted"], free' = free
      PROVE  /\ pc' \in [Callers -> Phases]
             /\ pc'[c] = p
             /\ \A d \in Callers \ {c} :
                   pc'[d] = pc[d] \/ (pc[d] = "waiting" /\ pc'[d] = "granted")
             /\ free' \in 0 .. MaxConcurrency
             /\ PermitsConserved'
  <2>1. w \in Callers /\ w \notin Holders /\ w # c
    BY DEF Waiting, Holders
  <2>2. Holders' = (Holders \ {c}) \cup {w}
    BY <1>3, <2>1 DEF Holders
  <2>3. Cardinality(Holders') = Cardinality(Holders)
    BY <2>1, <2>2, <1>1, HolderHandsOver
  <2>4. free' \in 0 .. MaxConcurrency /\ PermitsConserved'
    BY <1>1, <1>3, <2>3 DEF PermitsConserved
  <2> QED BY <1>3, <2>1, <2>4 DEF Waiting, Holders
<1> QED BY <1>2, <1>3 DEF Release

\* Permits of steps that leave the holders alone.
LEMMA HolderStays ==
    ASSUME IInv, NEW c \in Holders,
           NEW p \in {"granted", "streaming", "yielding", "backoff"},
           pc' = [pc EXCEPT ![c] = p], UNCHANGED free
    PROVE  /\ pc' \in [Callers -> Phases]
           /\ Holders' = Holders
           /\ PermitsConserved'
<1>1. Holders' = Holders
  BY DEF IInv, TypeOK, Holders, Phases
<1> QED BY <1>1 DEF IInv, TypeOK, PermitsConserved, Holders, Phases

\* The locals of a generator that is over.
LEMMA ForgetKeeps ==
    ASSUME IInv, NEW c \in Callers, Forget(c), pc' \in [Callers -> Phases],
           pc'[c] \in {"idle", "terminal"},
           \A d \in Callers \ {c} :
              pc'[d] = pc[d] \/ (pc[d] = "waiting" /\ pc'[d] = "granted")
    PROVE  /\ attempt' \in [Callers -> 0 .. MaxAttempts]
           /\ emitted' \in [Callers -> BOOLEAN]
           /\ completed' \in [Callers -> BOOLEAN]
           /\ delivered' \in [Callers -> [1 .. MaxAttempts -> 0 .. MaxDeltas]]
           /\ \A d \in Callers : LocalsFit(d)'
<1> USE DEF IInv, TypeOK, Forget
<1>1. NothingDelivered \in [1 .. MaxAttempts -> 0 .. MaxDeltas]
  BY DEF NothingDelivered
<1>2. /\ attempt' \in [Callers -> 0 .. MaxAttempts]
      /\ emitted' \in [Callers -> BOOLEAN]
      /\ completed' \in [Callers -> BOOLEAN]
      /\ delivered' \in [Callers -> [1 .. MaxAttempts -> 0 .. MaxDeltas]]
  BY <1>1
<1>3. LocalsFit(c)'
  BY DEF LocalsFit, Calling, NothingDelivered
<1>4. ASSUME NEW d \in Callers \ {c} PROVE LocalsFit(d)'
  <2>1. /\ attempt'[d] = attempt[d] /\ emitted'[d] = emitted[d]
        /\ delivered'[d] = delivered[d]
    OBVIOUS
  <2>2. LocalsFit(d)
    OBVIOUS
  <2> QED BY <2>1, <2>2 DEF LocalsFit, Calling
<1> QED BY <1>2, <1>3, <1>4

\* A generator that ends with a leasable breaker b keeps the invariant.
LEMMA FinishKeeps ==
    ASSUME IInv, NEW c \in Holders, NEW b \in Breakers, Finish(c, b),
           b.inFlight = TRUE => b.state = "half_open" /\ probes \ {c} # {}
    PROVE  IInv'
<1>1. /\ Release(c, "idle") /\ Forget(c) /\ c \in Callers
      /\ breaker' = b /\ probes' = probes \ {c}
  BY DEF Finish, Holders
<1>2. /\ pc' \in [Callers -> Phases] /\ pc'[c] = "idle"
      /\ \A d \in Callers \ {c} :
            pc'[d] = pc[d] \/ (pc[d] = "waiting" /\ pc'[d] = "granted")
      /\ free' \in 0 .. MaxConcurrency
      /\ PermitsConserved'
  BY <1>1, ReleaseAccounts
<1>3. probes' \subseteq {d \in Callers : pc'[d] \in {"streaming", "yielding"}}
  BY <1>1, <1>2 DEF IInv, TypeOK
<1> QED BY <1>1, <1>2, <1>3, ForgetKeeps DEF IInv, TypeOK, Leased

-----------------------------------------------------------------------------
\* Initially nobody holds anything and the invariant is true.
LEMMA InitIInv == Init => IInv
<1> SUFFICES ASSUME Init PROVE IInv
  OBVIOUS
<1>1. Holders = {} /\ Cardinality(Holders) = 0
  BY FS_EmptySet DEF Init, Holders
<1>2. TypeOK
  BY DEF Init, TypeOK, Phases, Breakers, ClosedBreaker, NothingDelivered
<1>3. \A c \in Callers : LocalsFit(c)
  BY DEF Init, LocalsFit, Calling, NothingDelivered
<1> QED BY <1>1, <1>2, <1>3 DEF Init, IInv, PermitsConserved, Leased, ClosedBreaker

\* One turn of the retry loop.
LEMMA BeginAttemptKeeps ==
    ASSUME IInv, NEW c \in Callers, BeginAttempt(c)
    PROVE  IInv'
<1>1. c \in Holders /\ c \notin probes
  BY DEF BeginAttempt, Holders, IInv, TypeOK
<1>2. breaker \in Breakers
  BY DEF IInv, TypeOK
<1>3. CASE Finish(c, breaker)
  <2>1. breaker.inFlight = TRUE => breaker.state = "half_open" /\ probes \ {c} # {}
    BY <1>1 DEF IInv, Leased
  <2> QED BY <1>1, <1>2, <1>3, <2>1, FinishKeeps
<1>4. CASE /\ breaker' = BeforeCall(breaker)
           /\ probes' = IF breaker.state = "closed" THEN probes \ {c}
                        ELSE probes \cup {c}
           /\ pc' = [pc EXCEPT ![c] = "streaming"]
           /\ attempt' = [attempt EXCEPT ![c] = @ + 1]
           /\ emitted' = [emitted EXCEPT ![c] = FALSE]
           /\ completed' = [completed EXCEPT ![c] = FALSE]
           /\ UNCHANGED <<delivered, free>>
  <2>1. /\ pc' \in [Callers -> Phases]
        /\ PermitsConserved'
    BY <1>1, <1>4, HolderStays
  <2>2. attempt[c] < MaxAttempts /\ emitted[c] = FALSE
    BY DEF BeginAttempt, IInv, LocalsFit, Calling
  <2>3. breaker' \in Breakers /\ Leased'
    BY <1>2, <1>4, BeforeCallFields DEF IInv, Leased
  <2>4. probes' \subseteq {d \in Callers : pc'[d] \in {"streaming", "yielding"}}
    BY <1>4 DEF IInv, TypeOK
  <2>5. TypeOK'
    BY <1>4, <2>1, <2>2, <2>3, <2>4 DEF IInv, TypeOK
  <2>6. ASSUME NEW d \in Callers PROVE LocalsFit(d)'
    <3>1. CASE d = c
      BY <1>4, <2>2, <3>1 DEF IInv, TypeOK, LocalsFit, Calling
    <3>2. CASE d # c
      BY <1>4, <3>2 DEF IInv, TypeOK, LocalsFit, Calling
    <3> QED BY <3>1, <3>2
  <2> QED BY <2>1, <2>3, <2>5, <2>6 DEF IInv
<1> QED BY <1>3, <1>4 DEF BeginAttempt

\* Deltas, resumptions and the completed event touch only one generator.
LEMMA StreamingKeeps ==
    ASSUME IInv, NEW c \in Callers, Delta(c) \/ Resume(c) \/ CompletedEvent(c)
    PROVE  IInv'
<1>1. /\ c \in Holders /\ pc[c] \in {"streaming", "yielding"}
      /\ attempt[c] \in 1 .. MaxAttempts
  BY DEF Delta, Resume, CompletedEvent, Holders, IInv, TypeOK, LocalsFit, Calling
<1>2. \E p \in {"streaming", "yielding"} : pc' = [pc EXCEPT ![c] = p]
  BY <1>1 DEF Delta, Resume, CompletedEvent, IInv, TypeOK
<1>3. UNCHANGED <<attempt, free, breaker, probes>>
  BY DEF Delta, Resume, CompletedEvent, local
<1>4. pc' \in [Callers -> Phases] /\ PermitsConserved'
  BY <1>1, <1>2, <1>3, HolderStays
<1>5. /\ emitted' \in [Callers -> BOOLEAN]
      /\ completed' \in [Callers -> BOOLEAN]
  BY DEF Delta, Resume, CompletedEvent, IInv, TypeOK, local
<1>6. CASE Delta(c)
  <2>1. /\ delivered[c] \in [1 .. MaxAttempts -> 0 .. MaxDeltas]
        /\ delivered[c][attempt[c]] + 1 \in 0 .. MaxDeltas
        /\ delivered' = [delivered EXCEPT ![c] =
                            [delivered[c] EXCEPT ![attempt[c]] = delivered[c][attempt[c]] + 1]]
        /\ emitted' = [emitted EXCEPT ![c] = TRUE]
    BY <1>1, <1>6 DEF Delta, IInv, TypeOK
  <2>2. delivered' \in [Callers -> [1 .. MaxAttempts -> 0 .. MaxDeltas]]
    BY <2>1 DEF IInv, TypeOK
  <2>3. TypeOK'
    BY <1>2, <1>3, <1>4, <1>5, <2>2 DEF IInv, TypeOK
  <2>4. ASSUME NEW d \in Callers PROVE LocalsFit(d)'
    <3>1. CASE d = c
      BY <1>1, <1>2, <1>3, <2>1, <3>1 DEF IInv, TypeOK, LocalsFit, Calling
    <3>2. CASE d # c
      BY <1>2, <1>3, <2>1, <3>2 DEF IInv, TypeOK, LocalsFit, Calling
    <3> QED BY <3>1, <3>2
  <2> QED BY <1>3, <1>4, <2>3, <2>4 DEF IInv, Leased
<1>7. CASE Resume(c) \/ CompletedEvent(c)
  <2>1. /\ delivered' = delivered
        /\ emitted' = emitted \/ emitted' = [emitted EXCEPT ![c] = TRUE]
    BY <1>7 DEF Resume, CompletedEvent, local
  <2>2. TypeOK'
    BY <1>2, <1>3, <1>4, <1>5, <2>1 DEF IInv, TypeOK
  <2>3. ASSUME NEW d \in Callers PROVE LocalsFit(d)'
    <3>1. CASE d = c
      BY <1>1, <1>2, <1>3, <2>1, <3>1 DEF IInv, TypeOK, LocalsFit, Calling
    <3>2. CASE d # c
      BY <1>2, <1>3, <2>1, <3>2 DEF IInv, TypeOK, LocalsFit, Calling
    <3> QED BY <3>1, <3>2
  <2> QED BY <1>3, <1>4, <2>2, <2>3 DEF IInv, Leased
<1> QED BY <1>6, <1>7

\* A failed attempt frees the lease it may hold, then ends or backs off.
LEMMA FailKeeps ==
    ASSUME IInv, NEW c \in Callers, Fail(c)
    PROVE  IInv'
<1> DEFINE failed == RecordFailure(breaker)
           checked == RecordAborted(BeforeCall(failed))
<1>1. c \in Holders
  BY DEF Fail, Holders
<1>2. failed \in Breakers /\ failed.inFlight = FALSE
  BY RecordFailureFields DEF IInv, TypeOK
<1>3. checked \in Breakers /\ checked.inFlight = FALSE
  <2>1. BeforeCall(failed) \in Breakers
    BY <1>2, BeforeCallFields
  <2>2. CASE failed.state = "closed"
    <3>1. BeforeCall(failed) = failed
      BY <1>2, <2>2, BeforeCallFields
    <3>2. checked = failed
      BY <1>2, <2>2, <3>1, RecordAbortedFields
    <3> QED BY <1>2, <3>2
  <2>3. CASE failed.state # "closed"
    <3>1. BeforeCall(failed).state = "half_open"
      BY <1>2, <2>3, BeforeCallFields
    <3> QED BY <2>1, <3>1, RecordAbortedFields
  <2> QED BY <2>2, <2>3
<1> HIDE DEF failed, checked
<1>4. CASE Finish(c, failed)
  BY <1>1, <1>2, <1>4, FinishKeeps
<1>5. CASE Finish(c, checked)
  BY <1>1, <1>3, <1>5, FinishKeeps
<1>6. CASE /\ ~emitted[c]
           /\ attempt[c] < MaxAttempts
           /\ breaker' = checked
           /\ probes' = probes \ {c}
           /\ pc' = [pc EXCEPT ![c] = "backoff"]
           /\ UNCHANGED <<local, free>>
  <2>1. pc' \in [Callers -> Phases] /\ PermitsConserved'
    BY <1>1, <1>6, HolderStays
  <2>2. TypeOK'
    BY <1>3, <1>6, <2>1 DEF IInv, TypeOK, local
  <2>3. ASSUME NEW d \in Callers PROVE LocalsFit(d)'
    BY <1>6 DEF IInv, TypeOK, LocalsFit, Calling, local
  <2> QED BY <1>3, <1>6, <2>1, <2>2, <2>3 DEF IInv, Leased
<1> QED BY <1>4, <1>5, <1>6 DEF Fail, failed, checked

\* The provider stream is exhausted: the success frees the lease as well.
LEMMA EndOfStreamKeeps ==
    ASSUME IInv, NEW c \in Callers, EndOfStream(c)
    PROVE  IInv'
<1>1. c \in Holders /\ breaker \in Breakers
  BY DEF EndOfStream, Holders, IInv, TypeOK
<1>2. CASE Finish(c, RecordFailure(breaker))
  BY <1>1, <1>2, RecordFailureFields, FinishKeeps
<1>3. CASE /\ breaker' = RecordSuccess(breaker)
           /\ probes' = probes \ {c}
           /\ Release(c, "terminal")
           /\ Forget(c)
  <2>1. /\ pc' \in [Callers -> Phases] /\ pc'[c] = "terminal"
        /\ \A d \in Callers \ {c} :
              pc'[d] = pc[d] \/ (pc[d] = "waiting" /\ pc'[d] = "granted")
        /\ free' \in 0 .. MaxConcurrency
        /\ PermitsConserved'
    BY <1>1, <1>3, ReleaseAccounts
  <2>2. breaker' \in Breakers /\ breaker'.inFlight = FALSE
    BY <1>1, <1>3, RecordSuccessFields
  <2>3. probes' \subseteq {d \in Callers : pc'[d] \in {"streaming", "yielding"}}
    BY <1>3, <2>1 DEF IInv, TypeOK
  <2> QED BY <1>3, <2>1, <2>2, <2>3, ForgetKeeps DEF IInv, TypeOK, Leased
<1> QED BY <1>2, <1>3 DEF EndOfStream

\* Cancellation and closing: only a lease that is given up is ever cleared.
LEMMA AbortKeeps ==
    ASSUME IInv, NEW c \in Callers, Abort(c)
    PROVE  IInv'
<1>1. c \in Holders /\ breaker \in Breakers /\ Finish(c, RecordAborted(breaker))
  BY DEF Abort, Holders, IInv, TypeOK
<1>2. RecordAborted(breaker) \in Breakers /\ RecordAborted(breaker).inFlight # TRUE
  BY <1>1, RecordAbortedFields DEF IInv, Leased
<1> QED BY <1>1, <1>2, FinishKeeps

\* A generator that leaves before or between attempts holds no lease.
LEMMA QuietExitKeeps ==
    ASSUME IInv, NEW c \in Callers, pc[c] \in {"granted", "backoff"}, Finish(c, breaker)
    PROVE  IInv'
<1>1. c \in Holders /\ c \notin probes /\ breaker \in Breakers
  BY DEF Holders, IInv, TypeOK
<1>2. breaker.inFlight = TRUE => breaker.state = "half_open" /\ probes \ {c} # {}
  BY <1>1 DEF IInv, Leased
<1> QED BY <1>1, <1>2, FinishKeeps

\* Steps of a caller outside the pool that keep it outside.
LEMMA OutsideKeeps ==
    ASSUME IInv, NEW c \in Callers, pc[c] \in {"idle", "waiting", "terminal"},
           NEW p \in {"idle", "waiting"}, pc' = [pc EXCEPT ![c] = p],
           UNCHANGED <<local, free, breaker, probes>>
    PROVE  IInv'
<1>1. Holders' = Holders
  BY DEF IInv, TypeOK, Holders, Phases
<1>2. TypeOK'
  BY DEF IInv, TypeOK, Phases, local
<1>3. ASSUME NEW d \in Callers PROVE LocalsFit(d)'
  BY DEF IInv, TypeOK, LocalsFit, Calling, local
<1> QED BY <1>1, <1>2, <1>3 DEF IInv, PermitsConserved, Leased

\* A call starts: it takes a free permit or queues.
LEMMA StartKeeps ==
    ASSUME IInv, NEW c \in Callers, Start(c)
    PROVE  IInv'
<1>1. /\ c \notin Holders /\ IsFiniteSet(Holders) /\ Cardinality(Holders) \in Nat
      /\ pc[c] = "idle"
  BY HoldersFinite, FS_EmptySet, FS_CardinalityType DEF Start, Holders
<1>2. CASE free > 0
  <2>1. /\ pc' = [pc EXCEPT ![c] = "granted"]
        /\ free' = free - 1
        /\ UNCHANGED <<attempt, emitted, completed, delivered, breaker, probes>>
    BY <1>2 DEF Start, local
  <2>2. Holders' = Holders \cup {c}
    BY <1>1, <2>1 DEF IInv, TypeOK, Holders, Phases
  <2>3. Cardinality(Holders') = Cardinality(Holders) + 1
    BY <1>1, <2>2, FS_AddElement
  <2>4. free' \in 0 .. MaxConcurrency /\ PermitsConserved'
    BY <1>1, <1>2, <2>1, <2>3 DEF IInv, TypeOK, PermitsConserved
  <2>5. TypeOK'
    BY <1>1, <2>1, <2>4 DEF IInv, TypeOK, Phases
  <2>6. ASSUME NEW d \in Callers PROVE LocalsFit(d)'
    BY <1>1, <2>1 DEF IInv, TypeOK, LocalsFit, Calling
  <2> QED BY <2>1, <2>4, <2>5, <2>6 DEF IInv, Leased
<1>3. CASE ~(free > 0)
  BY <1>1, <1>3, OutsideKeeps DEF Start
<1> QED BY <1>2, <1>3

\* The breaker cools down.
LEMMA RecoveryKeeps ==
    ASSUME IInv, RecoveryElapses
    PROVE  IInv'
<1>1. /\ breaker' \in Breakers
      /\ breaker'.state = breaker.state
      /\ breaker'.inFlight = breaker.inFlight
  BY CooledFields DEF IInv, TypeOK, RecoveryElapses
<1>2. UNCHANGED <<pc, attempt, emitted, completed, delivered, free, probes>>
  BY DEF RecoveryElapses, local
<1>3. TypeOK' /\ Leased' /\ PermitsConserved'
  BY <1>1, <1>2 DEF IInv, TypeOK, Leased, PermitsConserved, Holders
<1>4. ASSUME NEW d \in Callers PROVE LocalsFit(d)'
  BY <1>2 DEF IInv, LocalsFit
<1> QED BY <1>3, <1>4 DEF IInv

\* Every step keeps the invariant.
LEMMA NextIInv == IInv /\ [Next]_vars => IInv'
<1> SUFFICES ASSUME IInv, [Next]_vars PROVE IInv'
  OBVIOUS
<1>1. CASE UNCHANGED vars
  <2>1. \A d \in Callers : LocalsFit(d)'
    BY <1>1 DEF vars, IInv, LocalsFit
  <2> QED BY <1>1, <2>1 DEF vars, IInv, TypeOK, PermitsConserved, Leased, Holders
<1>2. CASE RecoveryElapses
  BY <1>2, RecoveryKeeps
<1>3. ASSUME NEW c \in Callers, GiveUp(c) PROVE IInv'
  BY <1>3, QuietExitKeeps, OutsideKeeps DEF GiveUp
<1>4. ASSUME NEW c \in Callers, BackoffEnds(c) PROVE IInv'
  BY <1>4, QuietExitKeeps DEF BackoffEnds
<1>5. ASSUME NEW c \in Callers, TakeTerminal(c) PROVE IInv'
  BY <1>5, OutsideKeeps DEF TakeTerminal
<1> QED BY <1>1, <1>2, <1>3, <1>4, <1>5, StartKeeps, BeginAttemptKeeps, StreamingKeeps,
           EndOfStreamKeeps, FailKeeps, AbortKeeps DEF Next

-----------------------------------------------------------------------------
\* In every behaviour the inductive invariant holds.
THEOREM Invariance == Spec => []IInv
<1>1. Init => IInv
  BY InitIInv
<1>2. IInv /\ [Next]_vars => IInv'
  BY NextIInv
<1> QED BY <1>1, <1>2, PTL DEF Spec

\* Phases, locals, permits and breaker stay in their types.
THEOREM TypeCorrect == Spec => []TypeOK
<1>1. IInv => TypeOK
  BY DEF IInv
<1> QED BY <1>1, Invariance, PTL

\* No permit is lost or made up by streams, wherever they are closed.
THEOREM PermitsAreConserved == Spec => []PermitsConserved
<1>1. IInv => PermitsConserved
  BY DEF IInv
<1> QED BY <1>1, Invariance, PTL

\* A half-open lease always belongs to a stream that is still running.
THEOREM LeaseIsHeld == Spec => []LeaseHasHolder
<1>1. IInv => LeaseHasHolder
  BY DEF IInv, Leased, LeaseHasHolder
<1> QED BY <1>1, Invariance, PTL

\* A consumer sees the deltas of one attempt only, however often it is retried.
THEOREM DeltasOfOneAttempt == Spec => []OneAttemptDelivers
<1>1. ASSUME IInv, NEW c \in Callers
      PROVE  Cardinality({k \in 1 .. MaxAttempts : delivered[c][k] > 0}) <= 1
  <2> DEFINE Seen == {k \in 1 .. MaxAttempts : delivered[c][k] > 0}
  <2>1. Seen \subseteq {attempt[c]}
    BY <1>1 DEF IInv, LocalsFit
  <2>2. IsFiniteSet({attempt[c]}) /\ Cardinality({attempt[c]}) = 1
    BY FS_Singleton
  <2>3. Cardinality(Seen) <= Cardinality({attempt[c]})
    BY <2>1, <2>2, FS_Subset
  <2> QED BY <2>2, <2>3
<1>2. IInv => OneAttemptDelivers
  BY <1>1 DEF OneAttemptDelivers
<1> QED BY <1>2, Invariance, PTL

\* No attempt, first or repeated, starts while the circuit is open: between
\* before_call and the provider call nothing else can run.
THEOREM OpenCircuitIsRespected == Spec => NoCallOnOpenCircuit
<1>1. IInv /\ [Next]_vars =>
         [\A c \in Callers : attempt'[c] > attempt[c] => breaker'.state # "open"]_vars
  <2> SUFFICES ASSUME IInv, Next, NEW d \in Callers, attempt'[d] > attempt[d]
               PROVE  breaker'.state # "open"
    BY DEF vars
  <2>1. \A c \in Callers : Forget(c) => ~(attempt'[d] > attempt[d])
    BY DEF Forget, IInv, TypeOK
  <2>2. ~(UNCHANGED attempt)
    BY DEF IInv, TypeOK
  <2>3. PICK c \in Callers : BeginAttempt(c)
    BY <2>1, <2>2 DEF Next, RecoveryElapses, Start, GiveUp, Finish, Delta, Resume,
       CompletedEvent, EndOfStream, Fail, Abort, BackoffEnds, TakeTerminal, local
  <2>4. breaker' = BeforeCall(breaker) /\ breaker \in Breakers /\ Admits(breaker)
    BY <2>1, <2>3 DEF BeginAttempt, Finish, IInv, TypeOK
  <2> QED BY <2>4, BeforeCallFields
<1> QED BY <1>1, Invariance, PTL DEF Spec, NoCallOnOpenCircuit
-----------------------------------------------------------------------------
\* The finally clause is an exit from the pool, by leaving or by handing over:
\* also when the generator stays, parked at its terminal event.
LEMMA ReleaseExits ==
    ASSUME IInv, NEW c \in Holders, NEW p \in {"idle", "terminal"}, Release(c, p)
    PROVE  Pool!Exit(c)
<1> USE DEF IInv, TypeOK, Phases
<1>1. CASE pc' = [pc EXCEPT ![c] = p]
  <2>1. Holders' = Holders \ {c}
    BY <1>1 DEF Holders
  <2> QED BY <2>1 DEF Pool!Exit, Pool!Leave
<1>2. ASSUME NEW w \in Waiting, pc' = [pc EXCEPT ![c] = p, ![w] = "granted"]
      PROVE  Pool!Exit(c)
  <2>1. w \in Callers \ Holders
    BY DEF Waiting, Holders
  <2>2. Holders' = (Holders \ {c}) \cup {w}
    BY <1>2, <2>1 DEF Holders, Waiting
  <2> QED BY <2>1, <2>2 DEF Pool!Exit, Pool!HandOver
<1> QED BY <1>1, <1>2 DEF Release

\* Every step of the gateway is a step of the pool or leaves the holders alone.
LEMMA StepSimulation == IInv /\ [Next]_vars => [Pool!Next]_Holders
<1> SUFFICES ASSUME IInv, [Next]_vars PROVE Pool!Next \/ UNCHANGED Holders
  OBVIOUS
<1>t. TypeOK /\ PermitsConserved /\ Holders \subseteq Callers
  BY DEF IInv, Holders
<1>x. ASSUME NEW c \in Holders, NEW p \in {"idle", "terminal"}, Release(c, p)
      PROVE  Pool!Next
  BY <1>t, <1>x, ReleaseExits DEF Pool!Next
<1>y. ASSUME NEW c \in Holders, NEW p \in {"streaming", "yielding", "backoff"},
             pc' = [pc EXCEPT ![c] = p]
      PROVE  UNCHANGED Holders
  BY <1>t, <1>y DEF TypeOK, Holders, Phases
<1>1. CASE UNCHANGED vars \/ RecoveryElapses
  BY <1>1 DEF vars, RecoveryElapses, Holders
<1>2. ASSUME NEW c \in Callers, Start(c) PROVE Pool!Next \/ UNCHANGED Holders
  <2>1. c \notin Holders
    BY <1>2 DEF Start, Holders
  <2>2. CASE free > 0
    <3>1. Holders' = Holders \cup {c}
      BY <1>2, <1>t, <2>2 DEF Start, TypeOK, Holders, Phases
    <3>2. Cardinality(Holders) < MaxConcurrency
      BY <1>t, <2>2, HoldersFinite, FS_CardinalityType DEF TypeOK, PermitsConserved
    <3>3. Pool!Cardinality(Holders) = Cardinality(Holders)
      BY DEF Pool!Cardinality, Cardinality
    <3> QED BY <2>1, <3>1, <3>2, <3>3 DEF Pool!Next, Pool!Enter
  <2>3. CASE ~(free > 0)
    BY <1>2, <1>t, <2>3 DEF Start, TypeOK, Holders, Phases
  <2> QED BY <2>2, <2>3
<1>3. ASSUME NEW c \in Callers,
             \/ BeginAttempt(c) \/ Delta(c) \/ Resume(c) \/ EndOfStream(c)
             \/ Fail(c) \/ Abort(c) \/ BackoffEnds(c)
      PROVE  Pool!Next \/ UNCHANGED Holders
  <2>1. c \in Holders
    BY <1>3 DEF BeginAttempt, Delta, Resume, EndOfStream, Fail, Abort, BackoffEnds,
       Holders
  <2>2. \/ \E p \in {"idle", "terminal"} : Release(c, p)
        \/ \E p \in {"streaming", "yielding", "backoff"} : pc' = [pc EXCEPT ![c] = p]
    BY <1>3 DEF BeginAttempt, Delta, Resume, EndOfStream, Fail, Abort, BackoffEnds,
       Finish
  <2> QED BY <2>1, <2>2, <1>x, <1>y
<1>4. ASSUME NEW c \in Callers, CompletedEvent(c) PROVE UNCHANGED Holders
  BY <1>4 DEF CompletedEvent, Holders
<1>5. ASSUME NEW c \in Callers, GiveUp(c) PROVE Pool!Next \/ UNCHANGED Holders
  <2>1. CASE pc[c] = "granted" /\ Release(c, "idle")
    BY <1>x, <2>1 DEF Holders
  <2>2. CASE pc[c] = "waiting" /\ pc' = [pc EXCEPT ![c] = "idle"]
    BY <1>t, <2>2 DEF TypeOK, Holders, Phases
  <2> QED BY <1>5, <2>1, <2>2 DEF GiveUp, Finish
<1>6. ASSUME NEW c \in Callers, TakeTerminal(c) PROVE UNCHANGED Holders
  BY <1>t, <1>6 DEF TakeTerminal, TypeOK, Holders, Phases
<1> QED BY <1>1, <1>2, <1>3, <1>4, <1>5, <1>6 DEF Next

\* The streaming gateway implements the safety of the bounded pool: at no time
\* more than MaxConcurrency streams hold a permit, and a permit only changes
\* hands the way the pool allows, wherever a stream is closed.
THEOREM StreamIsBoundedPool == Spec => Pool!Safety
<1>1. Init => Pool!Init
  BY DEF Init, Pool!Init, Holders
<1>2. IInv /\ [Next]_vars => [Pool!Next]_Holders
  BY StepSimulation
<1> QED BY <1>1, <1>2, Invariance, PTL DEF Spec, Pool!Safety
=============================================================================
