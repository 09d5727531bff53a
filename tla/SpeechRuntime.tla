--------------------------- MODULE SpeechRuntime ---------------------------
(***************************************************************************)
(* LazySpeechRuntime of services/speech/runtime.py under the routes of     *)
(* services/speech/app.py: batch transcriptions and streaming sessions     *)
(* share an admission counter (_outstanding) and the model slots           *)
(* (_model_slot).  One action is the code between two awaits; the          *)
(* admission lock is never held across an await, so _reserve_slot and      *)
(* _release_slot are atomic.                                               *)
(*                                                                         *)
(* client[r]: the HTTP handler   "idle"  "uploading"  "waiting"  "gone"    *)
(* worker[r]: the shielded task  "none"  "queued"  "loading"  "running"    *)
(*            "succeeded"  "failed", and "releasing" once the task that    *)
(*            gives the admission back has been created                    *)
(* threads:   requests whose engine.transcribe thread is alive             *)
(* stream[s]: "idle", "waiting" for a slot, "opening", "open",             *)
(*            "finishing" (finish, then its close), "finished" (closed, the*)
(*            handler still sends), "closing" (close called by the handler)*)
(* A request that was answered by a timeout leaves its worker behind; the  *)
(* identifier is reused when the worker's admission has come back.         *)
(***************************************************************************)
EXTENDS Integers, FiniteSets

CONSTANTS Requests, Streams,
          MaxConcurrency,     \* runtime.max_concurrency (settings.py:232 allows only 1)
          QueueCapacity,      \* runtime.queue_capacity
          Cuda                \* runtime.device = "cuda"

ASSUME RequestsAssumption == IsFiniteSet(Requests)
ASSUME StreamsAssumption  == IsFiniteSet(Streams)
ASSUME DisjointAssumption == Requests \cap Streams = {}
ASSUME MaxConcurrencyAssumption == MaxConcurrency \in Nat \ {0}
ASSUME QueueCapacityAssumption  == QueueCapacity \in Nat
ASSUME CudaAssumption == Cuda \in BOOLEAN

VARIABLES client, worker, threads, stream, outstanding, slots,
          engine,             \* _engine is built
          warmed, fatal,      \* _warmup_complete, _fatal_provider_failure
          warmup              \* the warm-up: "pending", "running", "abandoned", "over"

batch    == <<client, worker, threads>>
lifetime == <<engine, warmed, fatal, warmup>>
vars     == <<client, worker, threads, stream, outstanding, slots,
              engine, warmed, fatal, warmup>>

Capacity == MaxConcurrency + QueueCapacity

HasSlot(s) == stream[s] \in {"opening", "open", "finishing", "closing"}
Admitted ==
    {r \in Requests : worker[r] # "none"}
        \cup {s \in Streams : HasSlot(s) \/ stream[s] = "waiting"}
SlotHolders ==
    {r \in Requests : worker[r] \in {"loading", "running"}}
        \cup {s \in Streams : HasSlot(s)}

\* Mutant: readiness on CUDA does not wait for the warm-up.
ReadyBeforeWarmup == ~fatal

Ready == ~fatal /\ (Cuda => warmed)

Init ==
    /\ client = [r \in Requests |-> "idle"]
    /\ worker = [r \in Requests |-> "none"]
    /\ threads = {}
    /\ stream = [s \in Streams |-> "idle"]
    /\ outstanding = 0
    /\ slots = MaxConcurrency
    /\ engine = FALSE
    /\ warmed = FALSE
    /\ fatal = FALSE
    /\ warmup = IF Cuda THEN "pending" ELSE "over"

-----------------------------------------------------------------------------
(* POST /v1/transcribe *)

\* The first gate (only CUDA has it), then the body is read across awaits.
Upload(r) ==
    /\ client[r] = "idle"
    /\ worker[r] = "none"
    /\ Cuda => Ready
    /\ client' = [client EXCEPT ![r] = "uploading"]
    /\ UNCHANGED <<worker, threads, stream, outstanding, slots, lifetime>>

\* The body is refused or the service is not ready any more.
Reject(r) ==
    /\ client[r] = "uploading"
    /\ client' = [client EXCEPT ![r] = "idle"]
    /\ UNCHANGED <<worker, threads, stream, outstanding, slots, lifetime>>

\* Ready again, then transcribe: admission and the creation of the worker.  A
\* full queue answers SpeechOverloadedError, which is Reject.
Submit(r) ==
    /\ client[r] = "uploading"
    /\ Ready
    /\ outstanding < Capacity
    /\ outstanding' = outstanding + 1
    /\ client' = [client EXCEPT ![r] = "waiting"]
    /\ worker' = [worker EXCEPT ![r] = "queued"]
    /\ UNCHANGED <<threads, stream, slots, lifetime>>

TakeSlot(r) ==
    /\ worker[r] = "queued"
    /\ slots > 0
    /\ slots' = slots - 1
    /\ worker' = [worker EXCEPT ![r] = "loading"]
    /\ UNCHANGED <<client, threads, stream, outstanding, lifetime>>

\* _get_engine, serialised by _engine_lock: the engine exists or is built, and
\* the thread starts; or the artifacts are not ready and the worker raises.
Load(r) ==
    /\ worker[r] = "loading"
    /\ \/ /\ worker' = [worker EXCEPT ![r] = "running"]
          /\ threads' = threads \cup {r}
          /\ engine' = TRUE
          /\ slots' = slots
       \/ /\ ~engine
          /\ worker' = [worker EXCEPT ![r] = "failed"]
          /\ slots' = slots + 1
          /\ UNCHANGED <<threads, engine>>
    /\ UNCHANGED <<client, stream, outstanding, warmed, fatal, warmup>>

\* engine.transcribe returns or raises; async with gives the slot back.
ThreadEnds(r) ==
    /\ r \in threads
    /\ threads' = threads \ {r}
    /\ IF worker[r] = "running"
       THEN /\ worker' \in {[worker EXCEPT ![r] = e] : e \in {"succeeded", "failed"}}
            /\ slots' = slots + 1
       ELSE UNCHANGED <<worker, slots>>
    /\ UNCHANGED <<client, stream, outstanding, lifetime>>

\* wait_for hands the worker's end over: a result releases the admission at
\* once, an exception creates the task that does it.
Answer(r) ==
    /\ client[r] = "waiting"
    /\ \/ /\ worker[r] = "succeeded"
          /\ client' = [client EXCEPT ![r] = "idle"]
          /\ worker' = [worker EXCEPT ![r] = "none"]
          /\ outstanding' = outstanding - 1
       \/ /\ worker[r] = "failed"
          /\ client' = [client EXCEPT ![r] = "gone"]
          /\ worker' = [worker EXCEPT ![r] = "releasing"]
          /\ UNCHANGED outstanding
    /\ UNCHANGED <<threads, stream, slots, lifetime>>

\* Mutant: without the shield the timeout cancels the worker, whose async with
\* frees the slot although the thread cannot be stopped.
ExpireCancelsWorker(r) ==
    /\ client[r] = "waiting"
    /\ client' = [client EXCEPT ![r] = "gone"]
    /\ worker' = [worker EXCEPT ![r] = "failed"]
    /\ slots' = IF worker[r] \in {"loading", "running"} THEN slots + 1 ELSE slots
    /\ UNCHANGED <<threads, stream, outstanding, lifetime>>

\* Mutant: the deadline is checked only when the worker has ended.
ExpireAfterWorker(r) ==
    /\ client[r] = "waiting"
    /\ worker[r] \in {"succeeded", "failed"}
    /\ client' = [client EXCEPT ![r] = "gone"]
    /\ worker' = [worker EXCEPT ![r] = "releasing"]
    /\ UNCHANGED <<threads, stream, outstanding, slots, lifetime>>

\* The request deadline or the cancellation of the handler.  The shielded
\* worker goes on; if it has ended meanwhile the release task is created now.
Expire(r) ==
    /\ client[r] = "waiting"
    /\ client' = [client EXCEPT ![r] = "gone"]
    /\ worker' = [worker EXCEPT ![r] =
                     IF @ \in {"succeeded", "failed"} THEN "releasing" ELSE @]
    /\ UNCHANGED <<threads, stream, outstanding, slots, lifetime>>

\* Mutant: the done callback of an abandoned worker is not registered.
CallbackMissing(r) == FALSE /\ UNCHANGED vars

\* The done callback of an abandoned worker.
Callback(r) ==
    /\ client[r] = "gone"
    /\ worker[r] \in {"succeeded", "failed"}
    /\ worker' = [worker EXCEPT ![r] = "releasing"]
    /\ UNCHANGED <<client, threads, stream, outstanding, slots, lifetime>>

ReleaseTask(r) ==
    /\ worker[r] = "releasing"
    /\ worker' = [worker EXCEPT ![r] = "none"]
    /\ client' = [client EXCEPT ![r] = "idle"]
    /\ outstanding' = outstanding - 1
    /\ UNCHANGED <<threads, stream, slots, lifetime>>

-----------------------------------------------------------------------------
(* WebSocket /v1/stream *)

OpenStream(s) ==
    /\ stream[s] = "idle"
    /\ Ready
    /\ outstanding < Capacity
    /\ outstanding' = outstanding + 1
    /\ stream' = [stream EXCEPT ![s] = "waiting"]
    /\ UNCHANGED <<batch, slots, lifetime>>

StreamTakesSlot(s) ==
    /\ stream[s] = "waiting"
    /\ slots > 0
    /\ slots' = slots - 1
    /\ stream' = [stream EXCEPT ![s] = "opening"]
    /\ UNCHANGED <<batch, outstanding, lifetime>>

StreamOpened(s) ==
    /\ stream[s] = "opening"
    /\ stream' = [stream EXCEPT ![s] = "open"]
    /\ UNCHANGED <<batch, outstanding, slots, lifetime>>

\* The deadline of the session, or an error of the adapter, ends open_stream.
OpenFails(s) ==
    /\ stream[s] \in {"waiting", "opening"}
    /\ stream' = [stream EXCEPT ![s] = "idle"]
    /\ slots' = IF stream[s] = "opening" THEN slots + 1 ELSE slots
    /\ outstanding' = outstanding - 1
    /\ UNCHANGED <<batch, lifetime>>

\* {"type": "end"}: session.finish, whose finally clause closes the session.
FinishStream(s) ==
    /\ stream[s] = "open"
    /\ stream' = [stream EXCEPT ![s] = "finishing"]
    /\ UNCHANGED <<batch, outstanding, slots, lifetime>>

\* Disconnect, error or deadline: the handler closes the open session.
CloseStream(s) ==
    /\ stream[s] = "open"
    /\ stream' = [stream EXCEPT ![s] = "closing"]
    /\ UNCHANGED <<batch, outstanding, slots, lifetime>>

\* The session's own close is over: the slot and the admission come back.
StreamClosed(s) ==
    /\ stream[s] \in {"finishing", "closing"}
    /\ stream' = [stream EXCEPT ![s] =
                     IF @ = "finishing" THEN "finished" ELSE "idle"]
    /\ slots' = slots + 1
    /\ outstanding' = outstanding - 1
    /\ UNCHANGED <<batch, lifetime>>

\* Mutant: close is not idempotent.
HandlerLeavesReleasing(s) ==
    /\ stream[s] = "finished"
    /\ stream' = [stream EXCEPT ![s] = "idle"]
    /\ slots' = slots + 1
    /\ outstanding' = outstanding - 1
    /\ UNCHANGED <<batch, lifetime>>

\* The handler's finally clause closes a second time: _closed makes it a no-op.
HandlerLeaves(s) ==
    /\ stream[s] = "finished"
    /\ stream' = [stream EXCEPT ![s] = "idle"]
    /\ UNCHANGED <<batch, outstanding, slots, lifetime>>

-----------------------------------------------------------------------------
(* The eager warm-up of the CUDA models *)

WarmupStarts ==
    /\ warmup = "pending"
    /\ engine' = TRUE
    /\ warmup' = "running"
    /\ UNCHANGED <<batch, stream, outstanding, slots, warmed, fatal>>

WarmupSucceeds ==
    /\ warmup = "running"
    /\ warmup' = "over"
    /\ warmed' = TRUE
    /\ UNCHANGED <<batch, stream, outstanding, slots, engine, fatal>>

\* Timeout or cancellation leave engine.warm running in its thread; artifacts
\* that are not ready, or an exception, end the warm-up without one.
WarmupFails ==
    /\ warmup \in {"pending", "running"}
    /\ warmup' \in IF warmup = "running" THEN {"abandoned", "over"} ELSE {"over"}
    /\ fatal' = TRUE
    /\ UNCHANGED <<batch, stream, outstanding, slots, engine, warmed>>

AbandonedWarmupEnds ==
    /\ warmup = "abandoned"
    /\ warmup' = "over"
    /\ UNCHANGED <<batch, stream, outstanding, slots, engine, warmed, fatal>>

-----------------------------------------------------------------------------
WorkerStep(r) == Load(r) \/ ThreadEnds(r) \/ Callback(r) \/ ReleaseTask(r)
StreamEnds(s) ==
    StreamOpened(s) \/ OpenFails(s) \/ FinishStream(s) \/ CloseStream(s)
        \/ StreamClosed(s) \/ HandlerLeaves(s)

Next ==
    \/ \E r \in Requests :
          \/ Upload(r) \/ Reject(r) \/ Submit(r) \/ TakeSlot(r)
          \/ Load(r) \/ ThreadEnds(r) \/ Answer(r) \/ Expire(r)
          \/ Callback(r) \/ ReleaseTask(r)
    \/ \E s \in Streams :
          \/ OpenStream(s) \/ StreamTakesSlot(s) \/ StreamOpened(s)
          \/ OpenFails(s) \/ FinishStream(s) \/ CloseStream(s)
          \/ StreamClosed(s) \/ HandlerLeaves(s)
    \/ WarmupStarts \/ WarmupSucceeds \/ WarmupFails \/ AbandonedWarmupEnds

Spec == Init /\ [][Next]_vars

\* wait_for comes back: the worker ended or the request timeout passed.
HandlerFairness == \A r \in Requests : WF_vars(Answer(r) \/ Expire(r))

\* Ready tasks run, an engine thread ends and a session ends by its
\* max_duration_seconds at the latest.  The semaphore is first in, first out:
\* nobody is overtaken for ever, hence the strong fairness of a worker's turn.
DeviceFairness ==
    /\ \A r \in Requests : WF_vars(WorkerStep(r)) /\ SF_vars(TakeSlot(r))
    /\ \A s \in Streams : WF_vars(StreamEnds(s))

\* The device may hang: no thread and no session has to end.
FairSpec == Spec /\ HandlerFairness

-----------------------------------------------------------------------------
TypeOK ==
    /\ client \in [Requests -> {"idle", "uploading", "waiting", "gone"}]
    /\ worker \in [Requests -> {"none", "queued", "loading", "running",
                                "succeeded", "failed", "releasing"}]
    /\ threads \subseteq Requests
    /\ stream \in [Streams -> {"idle", "waiting", "opening", "open",
                               "finishing", "finished", "closing"}]
    /\ outstanding \in 0 .. Capacity
    /\ slots \in 0 .. MaxConcurrency
    /\ engine \in BOOLEAN /\ warmed \in BOOLEAN /\ fatal \in BOOLEAN
    /\ warmup \in {"pending", "running", "abandoned", "over"}

\* Every admission is given back exactly once, whichever of the answer, the
\* timeout, the cancellation and the worker's end comes first, and however
\* often a session is closed.
AdmissionExact == outstanding = Cardinality(Admitted)

\* So is every model slot.
SlotsExact == slots + Cardinality(SlotHolders) = MaxConcurrency

\* Neither is lost or given back twice, whoever is cancelled where.
CountersExact == AdmissionExact /\ SlotsExact

\* The device never serves more than MaxConcurrency inferences and sessions,
\* the threads of requests that were answered long ago included.
DeviceNotShared ==
    Cardinality(threads \cup {s \in Streams : HasSlot(s)}) <= MaxConcurrency

\* No inference runs beside the thread that loads the CUDA models, not even
\* when that warm-up was given up.
WarmupAlone == warmup \in {"running", "abandoned"} => threads = {}

\* The speech service promises its callers a bounded pool of admissions that
\* are all returned if the device answers: abandoned workers do not eat up the
\* queue.
Pool == INSTANCE BoundedPool WITH Clients <- Requests \cup Streams, inside <- Admitted
PoolSpec == Pool!Safety /\ (DeviceFairness => Pool!Fairness)

\* A caller that waits gets an answer, even when the device hangs for ever.
CallerAnswered ==
    \A r \in Requests : (client[r] = "waiting") ~> (client[r] # "waiting")
=============================================================================
