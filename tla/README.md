# TLA+ models of mtbank-ai-call-analytics

The program takes a recorded call (from a chat, a client or a URL, or live from a
browser), transcribes it in a separate speech process, lets four language-model
agents analyse the transcript, merges their answers deterministically, stores a
sanitised record and answers questions about trends over the stored calls. What
is hard in it is the machinery around the analysis: a shared model gateway with
a circuit breaker and retries, agents and an assistant that run tools
concurrently, a speech device that must never be shared, live transcription over
two sockets with a decoder process behind them, files and tokens that change
while they are used, faults that are translated four times before somebody reads
them, migrations and model downloads beside each other, and cancellation that may
arrive at every `await`. This directory models that machinery in TLA+, checks it
with TLC on small instances and proves the main safety results with TLAPS for
all sizes.

Python paths below are relative to the repository; `retry.py`, `runtime.py` and
so on without a directory are in `src/mtbank_ai/agent_runtime/`.

## 1. Inventory

| Component | State it keeps | Operations | Talks to |
|---|---|---|---|
| Model gateway (`retry.py`) | semaphore, circuit breaker, attempt of each call | `complete`, `stream`, breaker methods | provider adapter below; agents, assistant, trends above |
| Provider adapter (`provider.py`) | the parts of a streamed completion | `_stream`, `_ToolCallParts` | gateway |
| Agent runtime (`runtime.py`, `authorization.py`, `tools.py`) | turn, budgets, retrieved tools, read tasks | `run`: turn loop, `_execute_concurrent_reads`, terminal submit | gateway, tool registry, event sink |
| Run events (`events.py`, `_EventCollector`) | sequence, hash of the last event, list | `record`, `append` | every agent of a run |
| Analysis workflow (`workflow/analysis.py`) | outcome of speech, four tasks, outputs | `analyze`, `_run_agents`, `_persist`, `_persist_failure` | speech client, agents, aggregation, unit of work |
| Aggregation (`workflow/aggregation.py`) | none (pure) | `aggregate_analysis` | policies |
| Run storage (`storage/`) | rows of runs, run_events, analyses | unit of work: create, set_status, append, save, commit; the trend query | PostgreSQL |
| Speech admission (`services/speech/runtime.py`, `app.py`) | `_outstanding`, `_model_slot`, worker tasks and threads, warm-up flags | `transcribe`, `open_stream`, session `finish`/`close`, `warmup` | engine threads, HTTP and WebSocket handlers |
| Speech inference (`services/speech/engine.py`, `media.py`, `adapters.py`, `role_agent.py`) | the words of one recording | media checks, word repair, speakers, roles, validation | ffmpeg, recogniser, diariser, role model |
| Streaming session (`services/speech/streaming.py`) | Ogg stream, decoder process, rolling window, committed prefix, calls | `push`, `finish`, `close` | ffmpeg, remote recogniser |
| Transcription WebSocket (`api/routes/transcribe_ws.py`, `speech/streaming.py`) | connection slots, receive and emit state, client session | accept, push, finish, analyse, release | speech service, workflow |
| Assistant (`assistant.py`, `api/routes/assistant.py`) | conversation, turn count, repeated calls, frames | `stream`: turns, tools, final turn; SSE | gateway's `stream` |
| OpenWebUI pipeline (`pipeline.py`, `pipeline_bridge.py`) | token cache and lock, valves, clients | `inlet`, `pipe`, SSE reader | OpenWebUI, API |
| Remote fetch (`workflow/fetch.py`) | hop, pinned address, bytes read | `fetch` | DNS, the far server |
| Errors (`domain/errors.py`, `speech/client.py`, `api/error_handlers.py`) | none | code to status and back | every boundary |
| Trends (`trends.py`, `api/routes/trends.py`) | snapshot of a request | preflight, agent, finalisation | storage, gateway |
| Migrations (`storage/migrations/`) | schema, version table, rows | two revisions, up and down | PostgreSQL |
| Provisioning (`scripts/provision_speech_models.py`) | staged and published directories, manifest | `provision` | model hub, file system |

Hard behaviours, and what correctness means for each of them:

* **Gateway.** Calls wait, retry, back off and are cancelled while they share
  permits and one breaker. Permits must be conserved; a half-open lease must
  belong to a running call; a consumer must not see two attempts; the circuit
  must recover; every call must return.
* **Agent runtime.** Reads run concurrently and fail, are cancelled or repeat
  ids. The submit must be based on results the model has seen, run alone and at
  most once; nothing may happen after the end; budgets hold; the run ends.
* **Speech admission.** A worker thread outlives the request that started it.
  Admissions and slots must be returned exactly once and the device must not be
  shared, with threads of answered requests and the warm-up counted.
* **Workflow and storage.** Events of concurrent agents form one hash chain; a
  failed agent cancels the others; one transaction stores all or nothing.
* **Assistant.** Deltas are published before a turn is known to be the last; the
  client leaves at any moment; a generator may stay half read. What was published
  must be a well formed, validated answer; tools stay within the guard over all
  turns; the harness ends and gives its permit back.
* **Live transcription.** Three parties with deadlines of their own, closes that
  are cancelled half way, threads that run on after a timeout. Nothing
  acknowledged may be lost or reordered; slots, permits, calls and audio keep
  their limits; no decoder stays behind; everything ends.
* **Chat, fetch, speech text, faults.** A file is overwritten between its
  description and its bytes; a token is renewed by somebody else; a name is bound
  anew between check and connection; words without a duration are pushed along.
  What is sent must be what was verified, no word may be lost or given to the
  wrong speaker, a fault must reach its sender as what it is.
* **Trends.** Calls go on being stored while a trend is computed: its numbers
  and its evidence must come from one moment, and not from too few calls.
* **Deployment.** A migration or a provisioning run is killed between two steps,
  beside another one and a running application.

`PROJECT.json` lists every component with its status, and every hazard at its line.

## 2. Modules

| Module | Models | Notes |
|---|---|---|
| `CircuitBreaker` | `retry.py:41-110` as a record and an operator per method | extended by both gateways |
| `BoundedPool` | abstract: at most `Capacity` clients inside, everyone leaves | implemented by three components |
| `CompleteGateway` | `ResilientModelClient.complete` for concurrent agent tasks | analysis and trends gateways |
| `StreamGateway` | `ResilientModelClient.stream` as a generator per consumer | assistant gateway |
| `AgentRuntime` | `AgentRuntime.run` of one agent | implements `GuardedSubmission` |
| `GuardedSubmission` | abstract: what the workflow is promised of an agent run | |
| `AnalysisWorkflow` | `AnalysisWorkflow._analyze`, the task group, the unit of work of `storage/` | implements `RunLedger`; its agents are what `GuardedSubmission` promises |
| `RunLedger` | abstract: a run is closed once, entered whole and at most once per request | |
| `SpeechRuntime` | `LazySpeechRuntime` under its HTTP and WebSocket routes | implements `BoundedPool` |
| `ProviderStream` | the fold of a streamed completion | extended by `Assistant` |
| `AssistantClient` | the chat's reader of the assistant's stream | extended by `Assistant` |
| `Assistant` | `DemoAssistant.stream` and the SSE route | composes the two above |
| `OggStream` | pages of a payload, stable and final text | extended by `RollingSession` |
| `RollingSession` | `/v1/stream` of the speech service: session, ffmpeg, recogniser | extended by `LiveTranscription` |
| `LiveTranscription` | `/ws/transcribe` and its client session over `RollingSession` | end to end |
| `Records` | `Updated(old, new)`: some fields of a record replaced | helper |
| `ChatPipeline` | inlet and pipe, reference, JWT cache, file checks | part of `BatchRequest` |
| `RemoteFetch` | `SafeUrlFetcher` | part of `BatchRequest` |
| `AnalyzeErrors` | codes and statuses at every boundary | operators of `SpeechText` and `BatchRequest` |
| `SpeechText` | `SpeechEngine.transcribe` from bytes to a validated transcript | part of `BatchRequest` |
| `CallReport` | fan-in of the agents' results, stored calls, trends over them | part of `BatchRequest` |
| `BatchRequest` | one recording from its sender to the answer | composes the five above |
| `Migrations` | both revisions, up and down, under `env.py` | part of `Deployment` |
| `Provisioning` | `provision_speech_models.py` | part of `Deployment` |
| `Deployment` | the two side by side | |
| `*_proofs` | theorems and proofs | see section 5 |
| `MC*` | constants of the runs | |

Correspondence. An action is the code a task runs between two suspensions: an
`await` that really suspends, a `yield`, or the end of the coroutine. asyncio
runs such a piece atomically, so nothing finer is needed, and nothing coarser
would be right. Methods without an `await` (the breaker's, the admission
counter's under its lock) are operators applied inside an action. In code that
runs in threads or processes (the pipeline, provisioning, migrations) an action
is the code up to the next call that others can see: a request, a lock, a rename,
a statement.

* `asyncio.Semaphore.release` hands the permit to the first waiter; the models
  let any waiter be chosen, which includes the FIFO order.
* Cancellation, a deadline that has passed and an unexpected exception are
  disjuncts of the actions, possible wherever the code can meet them.
* The clock of the breaker is one bit, `cooled`. Deadlines are nondeterministic:
  each check may fail, which over-approximates any clock.
* In `AgentRuntime` a tool stands for a tool with its arguments (the code
  compares a hash of both), and the log leaves out the events that are a
  function of the model's answer.
* In `SpeechRuntime` an identifier of a request is reused only after its worker
  is gone, so the set of identifiers bounds requests in flight, not in total.
* In `AnalysisWorkflow` an agent is reduced to what `GuardedSubmission` promises:
  it ends, and completes only with a submitted output. Its log keeps of an agent
  the start and the verdict. The transaction is the row it would commit; other
  connections see `db` only. An INSERT of a request id that another transaction
  has inserted waits (PostgreSQL's unique index); the answer to a COMMIT may be
  lost. A crash is a cancellation of all runs. Cancellation of a group in which
  an agent failed goes on to the failure handler (Python 3.11) or is raised at
  the next `await` (3.13): both are behaviours of the model.
* In `Assistant` a text is its length and whether it holds a marker of the tool
  protocol; input tokens, cost and the deadline are refusals. A generator that a
  leaving client left half read keeps its permit until the event loop's hook
  closes it (`CloseAbandoned`).
* In `LiveTranscription` the messages of the service's WebSocket are two queues;
  the browser's socket is the sequence `out` of what it was sent. The API, the
  client and the service have deadlines of their own, so each may pass first.
  A page is what its header says and whether it is sound; PCM is counted in
  units. `closer` is the close that `asyncio.shield` leaves in the background.
* In `ChatPipeline` the clock is a number the environment advances; a content is
  its size, format and checksum; OpenWebUI may overwrite the file, describe it
  anew and revoke tokens between any two steps.
* In `RemoteFetch` a URL is what `_normalize_url` and the host tests see of it,
  and DNS answers anew at each lookup.
* In `SpeechText` words, segments and turns are intervals in milliseconds; the
  recogniser's and diariser's answers are chosen from `Recordings`.
* `BatchRequest` and `Deployment` compose parts that share little; `load` and
  `part` say which of them move in a behaviour, the others rest.
* In `Migrations` a transaction shows to others when it commits, and its locks
  are PostgreSQL's: the ACCESS EXCLUSIVE lock on `alembic_version`
  (`env.py:325`), its readers, and the lock of the managed tables. A migrator that
  read no revision and then meets a version table another has committed clashes
  with it, or goes on without that lock. In `Provisioning` an invocation is killed
  between any two steps, and the initial disk holds anything an earlier one may
  have left, a manifest over artifacts that are gone included.

History variables: `probes` (who holds the half-open lease), `delivered` (deltas
a consumer saw), `log` and `interrupted` in `AgentRuntime`, `out` of the two
streams, `made` and `heard` in the live session, `cleared` in the pipeline,
`dialled` in the fetch. Everything else is state of the code or its environment.

## 3. Runs

| Run | Shows | Bounds, and why they are enough |
|---|---|---|
| `complete` | no waiter beside a free permit, half-open iff leased, every call returns; the gateway implements `BoundedPool!Spec` | 4 callers for 2 permits: holders, a queue and a hand-over at once; threshold 3 and 3 attempts are the defaults |
| `complete_lease` | **violation**: finding 1 | |
| `stream` | lease, one delivering attempt, no attempt on an open circuit, the circuit keeps recovering; `BoundedPool!Spec` | 3 streams, 2 permits, 2 attempts, 1 delta: a retry after a delta would show |
| `stream_probe` | **violation**: finding 2 | |
| `speech` | counters exact, device not shared, warm-up alone; a caller is answered even if the device hangs; all admissions return if it answers (`BoundedPool`) | CUDA, 3 requests and 2 sessions for 3 admissions: the queue overflows |
| `agent` | submit on seen results, alone, once; silence after the end; budgets; every run ends and implements `GuardedSubmission!Spec` | 3 turns of up to 2 calls (two readers, the submit, a foreign name), 4 ids, 4 calls, 2 repetitions: each guard is hit over several turns. Answers of three calls are left to the proofs |
| `workflow` | what is stored is whole, final, agrees with the answer, no partial analysis, and a stored one is answered unless the store reported failure or the caller left; the ledger's safety | 2 runs of one request, 2 agents, 2 failure codes: conflict in the database and in the group |
| `workflow_live` | every begun run is closed; `RunLedger!Spec` | 1 run, 3 agents: a failed one, a cancelled one and one that still completes |
| `assistant` | numbered frames with one end, an answer is the whole last turn and never the tool protocol, the chat takes it for one exactly if it is complete; tools within the guard; the harness ends and returns its permit | 2 turns, each with tools or an answer, 3 tool calls, 2 repetitions, 1 trend call, 2 indexes and ids, texts up to 3 units of which 2 may be shown, 8 frames: every budget is hit, also between turns |
| `live` | the browser sees the session's updates unchanged and in order, acknowledged frames are those that are analysed; slots, permits, calls and audio; no running decoder of a closed session; everything ends | 2 connections for 1 API slot, 1 service slot and 1 recogniser permit; window 2, step 1, 2 calls, 3 units of audio, 4 updates; a long PCM or Ogg session alone, the latter with first, torn, last and misplaced pages, or two connections for the one slot |
| `batch` | `SentIsVerified`, `TokenDiscipline`, `OnlyCheckedHosts`, `TranscriptFaithful`, `TrendBacked`, `FaultsAreTold` | 2 chats of two users over one file client, 2 tokens, 1 new configuration, clock 0 to 2, two versions of the file; 1 redirect, a public and a private address; recordings up to 2 ms with at most 2 segments and turns, and talks of three words, one of them an interruption; 3 calls, 1 question, a minimum of 2 |
| `deployment` | a migration commits whole or not at all, one to the head leaves the whole head, and one that keeps the tables (all but a downgrade to base, which drops them) loses no run or event and has met no analysis; a published manifest names artifacts that are there, invocations undo only their own work | 2 migrators, 1 run with up to 2 events and 2 hashes, 1 fault of the operator, on an empty database or any content of the first revision; 2 components of which 1 is gated, 2 invocations on any leftovers of an earlier one. Symmetric in migrators and hashes |

`speech` turns deadlock checking off: after a failed warm-up the process
refuses everything and really stops. So do the workflow runs, `batch` and
`deployment`, whose work is over in the end. Symmetry is used only in runs whose
specification has no fairness.

Type invariants are not spent on the runs. `TypeOK` of both gateways, the speech
process, the workflow and the agent runtime is a theorem (section 5), and the
inductive invariants of the assistant (`Typed`), the live session (`Domains`) and
`BatchRequest` type what their proofs need, as those of the migrations
(`MigrationsFit`) and of the provisioning (`ProvisionTyped`) do.

Fairness, and what justifies it:

* A ready task runs: the event loop serves ready callbacks in order. Weak
  fairness of each task's next step.
* Waits end: `wait_for` and `asyncio.timeout` bound the wait for a permit and
  for the provider (`retry.py:205-217`), `asyncio.sleep` is finite, a consumer
  goes on or its generator is closed by the event loop. Weak fairness of the
  disjunction of the outcomes, never of one particular outcome.
* `TakeSlot` is strongly fair: the semaphore is first in, first out.
* A run of the workflow goes on (`RunStep`): speech is under `asyncio.timeout`,
  agents end by their contract, every database command has `command_timeout`.
* Only the handler is fair in `speech`; the return of all admissions is stated
  under `DeviceFairness`, as an assumption of that property.
* `assistant`: the loop's own steps, the end of the provider's stream
  (`asyncio.timeout` around it), the end of a tool (its timeout) and the hook for
  abandoned generators are weakly fair. The client's leaving is not.
* `live`: the handlers' steps at the API and the service, each a disjunction of
  the answer, the failure and the deadline; the background close; the end of a
  recogniser's thread (its HTTP timeout); and ffmpeg, once its input is closed or
  it was killed. Nothing obliges the browser to send or to stay.
* `batch` and `deployment` check safety only.
* No environment action is fair: nobody has to start a call, open a session or
  answer with a particular tool.

## 4. Findings

1. `complete` never gives a half-open lease back when the probing call is
   cancelled, runs into its deadline or fails with a non-retryable error
   (`retry.py:213`). The lease stays taken, `before_call` refuses everybody and
   no call is left that could record a verdict: the circuit stays open until the
   process restarts. `_stream` calls `record_aborted`, whose docstring
   (`retry.py:103`) names the case. Run `complete_lease`.
1. `record_failure` and `record_aborted` clear the lease whoever calls them, so
   the late verdict of a call that was admitted before the circuit opened lets a
   second probe in. The class promises one (`retry.py:61`). Run `stream_probe`.

Met while modelling, and kept as the code has it in the models (no run states
the opposite):

* ADR 0003, lines 52-55, says the provider's text of a tool turn is not
  published. `assistant.py:239` publishes deltas of a turn before its tool calls
  are known; `ToolTurnIsSilent` of `Assistant` states the ADR and does not hold.
  What does hold is `AnswerIsLastTurn`: such a turn ends in an error, never in
  an answer that mixes two turns.
* ADR 0002, lines 38-40, an accepted decision, says that "zero-overlap words
  remain unassigned", after which the role policy would fail closed.
  `services/speech/adapters.py:443` gives such a word to the speaker of the nearest
  turn, so it counts among his lines and for his role; the comment there and
  `tests/unit/speech/test_groq_adapters.py:172` want it so. `TranscriptFaithful`
  follows code and test (`NobodyIsNearer`); `ZeroOverlapUnassigned` of `SpeechText`
  states the ADR and does not hold, in six steps of `batch`: every recording with a
  word in a gap of its turns shows it.
* ADR 0002, line 56, and ADR 0004, line 11, speak of common-prefix stabilisation;
  `services/speech/streaming.py:575` replaces the committed prefix by a longer
  hypothesis that does not extend it, so a stable text may change
  (`StableUpdates` of `OggStream`).
* A provisioning run whose publication fails takes back artifacts another run
  has counted on in between (`Withdrawn` of `Provisioning`); the manifest of the
  other then names what is gone, against the docstring at
  `scripts/provision_speech_models.py:149`, and later runs are refused at line 165.
  `PublishedIsVerified` allows this case and no other.
* A word without a duration at the very end of a recording is widened past the
  end, and the whole transcript is refused (`WellTimed` of `SpeechText`).
* The pipeline accepts webm; the API answers 415 to it. `ROLE_RESOLUTION_REQUIRED`
  (409) reaches the chat as the retryable `SERVICE_UNAVAILABLE`.
* `_atomically_replace_provenance` and `refresh_existing_provenance` of the
  provisioning script are never reached from its `main`.

## 5. Proofs

The theorems hold for every value of the constants under the named assumptions
of the modules; TLC evaluates the assumptions in the runs. They say that limits
are natural and `MaxConcurrency`, `MaxAttempts`, `FailureThreshold`, `MaxDeltas`,
`MaxTurns`, `MaxSessions` and `MaxRolling` positive, that the sets of callers,
requests, streams, connections and calls are finite and disjoint where the
code's are, and that names kept apart by the code are apart: no agent is called
"workflow", no speech error "completed", the submit is no read tool, the
assistant's tools are public, and the `None` of a module is none of its values.
`ReportAssumption` is what the code checks of its policies (`policies/loader.py:95`
and `:115`): every criterion weighs something, in hundredths, and all together 100.
That some criteria come to no more is proved (`WeightBounded`).
`RecordingsAssumption` types what the recogniser and the diariser answer (times are
natural, milliseconds), and `UploadsAssumption` says that an upload is such a
recording and names no roles yet.

* `CompleteGateway_proofs`: `TypeOK`, `PermitsConserved`, `NoStrandedWaiter`,
  `HalfOpenIsLeased`, and the step simulation of `Pool!Safety`. The inductive
  invariant is their conjunction. `NoStrandedWaiter` is needed by the hand-over
  case: without it a release could overshoot `MaxConcurrency`. Lemmas on the
  breaker's methods (they stay in `Breakers`; which of them keep "half-open iff
  leased") and on a set of holders that one client enters or leaves come first,
  as in the next two modules.
* `StreamGateway_proofs`: `TypeOK`, `PermitsConserved`, `LeaseHasHolder`,
  `OneAttemptDelivers`, `NoCallOnOpenCircuit`, and the step simulation of
  `Pool!Safety`, in which the end of an attempt, of a stream or of an abandoned
  generator is an exit or a hand-over of the pool (`ReleaseExits`). The invariant adds `LocalsFit`
  (which attempts may have delivered, given the generator's phase and its
  `emitted`) and `Leased` (a taken lease means half-open *and* a known holder):
  `LeaseHasHolder` alone does not survive a failure recorded by somebody else.
* `SpeechDeployment_proofs`, the speech service: `TypeOK`, `AdmissionExact`,
  `SlotsExact`, `DeviceNotShared`, `WarmupAlone`, and the simulation of
  `Pool!Safety`. The invariant adds `ThreadsRun` (a live thread belongs to a worker
  that still has its slot), `UploadFirst` and `WarmupFirst` (nothing is submitted
  before the warm-up is over); the two device properties follow from these, not
  from the counters.
* `SpeechDeployment_proofs`, what is run before it: `MigrationWhole` and
  `PublishedIsVerified`, two action properties of `Deployment`.
  The first needs `MigrationsFit`. The committed rows fit their schema and the
  schema its version (`DatabaseFits`). A lock belongs to an
  open transaction in the phases that take it (`LocksHeld`). What a migrator has done and not committed
  depends on whether it locked the tables (`WorkFits`): if so, its rows are the
  committed ones in the words of the other schema; if not, it starts from no
  revision, or it holds the version table (`VersionHeld`) and the version it
  started from is still the committed one. Without this a migrator could commit
  over the version that another has written since; the lock of the version at the
  commit says that no other holds that table, so that what is left beside it is a
  migrator that starts from none, which the tables that are there make fail.
  The second needs `ProvisionFits`: what an invocation has renamed into place,
  recorded or not (`Owned`), is reviewed until it takes it back and is nobody
  else's (`NobodyShares`); whoever linked the manifest had a complete set, in the
  phases from the link on (`InvocationFits`); under a manifest of an
  earlier run nobody owns anything, and nobody works on where that has lost an
  artifact (`EarlierStays`).
  `Undo` is the hard step: it removes artifacts that a manifest of another
  invocation may count on, which is the case `Withdrawn` allows, and no other.
* `AgentRuntime_proofs`: `TypeOK`, `NothingAfterTheEnd`, `SubmitOnRetrieved`,
  `SubmitIsLast`, `CallsAccounted`, and that every behaviour is, through
  `Status`, one of `GuardedSubmission`'s safety. Four invariants build on each
  other. `Typed` types the calls and the log. `Verdicts`: outside the two
  gathers no read task is alive, and a verdict is the last event. `Retrieval`:
  before the submit no submit has started; every tool counted as retrieved was
  completed before a question to the model (`Known`); an answer being read that
  ends in a submit had all its retrievals before. `Balance`: the calls of a tool
  that have started and those of the current answer that may still start are, in
  sum, no more than were counted, and their ids are pairwise different and seen.
  `CallsAccounted` is not inductive without the waiting calls: a reader that
  starts late would exceed a count nobody had reserved for it.
* `Assistant_proofs`: `PublishedStream` and `ToolsBounded`. The invariant of the
  first is `Frames`: `Typed`; `Numbers` (a frame has its place as its number, an
  end is the last); and `Text`, which relates the text of the frames to the fold
  of the provider's stream and to the phase, since deltas are out before the
  turn is known to be the last. The second needs `Counters`: the guard has
  counted a call before it is published, so the calls shown and those of the
  round that still are to be shown are, together, no more than were counted
  (`Reserved`), and tasks exist only within a round (`Rounds`). As in
  `AgentRuntime`, the bound alone is not inductive.
* `LiveTranscription_proofs`: `LimitsHold`, `DecoderLetGo` and
  `FaithfulTranscript`, for any number of connections, in two invariants.
  `Limits` counts: a permit is gone for each call under way (`Permits`), a slot
  for each handler between its acceptance and its release (`Slots`), and
  `Session` says for each phase of the service's handler what session, decoder
  and call may look like, the paid call and audio included. `Told` speaks of one
  connection at a time (`Ok`). `UpFits`: the frames the API keeps are those the
  session heard and at most one on its way. `Phase`: what is still unread on the
  two sockets in each phase of the API's handler. A push is unread, in service,
  or answered, and an answer is the updates that the browser lacks and then a
  confirmation, or a part of that and a close (`Exchange`, `Answer`, `Cut`).
  `Story`: what the browser was told, namely the first so many of the session's
  updates, acknowledgements in order, and nothing after a last word; what was
  reconciled is all that was heard, by a service that has ended. None of the
  parts stands alone: a frame is acknowledged because its confirmation was read,
  which is a fact about a message sent two steps ago by the other process, and
  after a failure or a deadline that message may still arrive.
* `BatchRequest_proofs`: all invariants of the run, each with an invariant
  of its own over the whole composition.
  `OnlyCheckedHosts`: `FetchFits`, a fetch that connects has a target that was
  checked in this hop, and what was read is what the reply holds so far.
  `SentIsVerified`: `ChatFits` and `RequestFits`, what a request has learnt of
  its file by each phase, so that bytes are kept only when they fit the
  description and the verified reference.
  `TokenDiscipline`: `TokensFit`, in which every minted token is with one client
  or was thrown away (`TokensShared`), a lock is held by the request that signs
  in and by no other (`LocksFit`), and a request that repeats a call has a token
  its client no longer has (`TokenFits`). The bound on sign-ins is a counting
  argument over the first of these.
  `FaultsAreTold`: `SpeechFits`, `AnalysisFits` and `LeadFits` follow a fault
  from the engine to the message, a set of codes at each boundary.
  `TrendBacked`: `ReportFits`, in which a question's cohort is what was counted
  at one moment between its start and now (`Backed`); calls stored later do not
  change the answer for that moment. A report's total is within 0 to 100 by
  `WeightBounded`, an induction over the finite set of criteria.
  `TranscriptFaithful`: `TextFits`, by how far the transcription got. `WordsFit`:
  the words are those of the repaired segments, in that order. `StartsFit`, checked
  before the roles are asked for: lines follow each other by their starts, and the
  words of a line do. `EndsFit`, checked at the end: lines follow each other by
  their ends, within the recording. The second half of the property
  follows a sound recording (`Sound`): its segments and words are in order after the
  repair (`SegmentsInOrder`), so that no check of them fails and what is left are the
  role model, roles that do not cover the parties, and models that are not ready
  (`OnlyRolesFail`). That words are kept, once each and
  no earlier than heard (`RepairedWords`), under the speaker who overlaps them most
  or is nearest (`MostHeard`), in lines that share them out (`LinesFollow`), are lemmas.
  The repair recurses along the words and lines are cut by a fold, so the lemmas
  below it are inductions over data. The library's induction theorems take an
  operator and cannot be used; these proofs go through the least element of a set
  of naturals instead (`UpTo`), which takes a set, and `Recursion`, by which a step
  function given as a value defines a sequence. `FlattenUnfold` and `EndsUnfold`
  are what the two recursive definitions then amount to.
  `LinesInOrder` says less than "no line starts before the one above has ended",
  because that is not so: with crosstalk a line may start before the other
  speaker's last word is over. What the code orders is the lines, by
  their starts and by their ends, and the words within a line; the `CrossTalk`
  recording of the `batch` run is such a case.
* `AnalysisWorkflow_proofs`: `TypeOK`, `StoredWhole`, `StoredChainIsFinal`,
  `NoPartialAnalysis`, `AnswerMatchesRecord`, and `LedgerSafety`. The invariant
  speaks of one run at a time (`RunInv`): the chain has no verdict before the
  group is over and then exactly the one that fits `failure` (`VerdictLast`); a
  run that stores has no agent left that could record anything, and no failure
  exactly if all completed (`GroupOutcome`); the open transaction and the
  committed row are functions of chain and failure (`TransactionFits`,
  `RowFits`). The one fact about two runs is `OneHolder`: runs of one request
  never both have a row, open or committed; it is what makes a step that commits
  a step of the ledger. A step of one run keeps the others' part by
  `OneRunMoves`, so each action is proved for its own run only.

Only model-checked:

* Liveness (`CallReturns`, `CircuitRecovers`, `CallerAnswered`, `HarnessEnds`,
  `EverythingEnds`, and the fairness parts of `PoolSpec`, `ContractSpec` and
  `LedgerSpec`, whose safety is proved): beyond the prover.

Every safety invariant and every action property that a passing run checks is
stated by a theorem.

## 6. Not modelled

* Wire formats: HTTP headers and bodies, the JSON of providers, SSE bytes,
  multipart; the models see what the code makes of them.
* Libraries and services: ffmpeg, the recogniser and diariser, PostgreSQL, DNS,
  the model hub and OpenWebUI are environments, modelled from what the code
  expects of them.
* Statistics of trends and texts of reports; explanations, prompts, policies
  beyond the values the aggregation reads.
* `agents/`: static configuration and paging of observations; what an agent may
  call is a constant of `AgentRuntime`.
* `openwebui_guard.py`, `openwebui_image_guard.py`, `trusted_http.py`: start-up
  checks of a third-party front end and thin wrappers of a library, without
  state. `observability.py`: no behaviour depends on it.
* `release/`, `evidence/`, `speech/dataset.py` and the scripts other than
  provisioning: offline tooling over files, one pass each.
* Token and cost budgets are one failure outcome of a turn. The CPU build's
  unavailable speech runtime and HTTP body parsing are one refusal.

See `components` in `PROJECT.json` for each part.

## 7. Possible next steps

1. An abstract live session (audio in, updates out, one end) that
   `LiveTranscription` implements, as the other components do; `Told` is the
   invariant its simulation would need.
2. Liveness of the batch request once its deadlines are modelled as such.
