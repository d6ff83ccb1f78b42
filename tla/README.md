# Xymphony Voice: a TLA+ verification project

Xymphony Voice is a platform for voice agents. A control plane (FastAPI and
Postgres) stores agents, versions, tools and knowledge; a runtime worker runs
one conversation session: it joins a LiveKit room, transcribes the user's speech,
asks an LLM for an answer (with summary, knowledge, memory and tools), speaks
it and keeps the conversation. This directory holds the TLA+ models of that
code, the TLC configurations that check them and the TLAPS proofs about them.

`PROJECT.json` lists components, runs, mutants, the map from definitions to
source lines, findings, hazards and theorems. Paths below are relative to
`src/`; `R/` stands for `packages/agent-runtime/src/xymphony_runtime/`.

## 1. Inventory

| Component | Source | State | Operations | Interacts with |
|---|---|---|---|---|
| AgentRuntime | `R/runtime.py`, `turn.py`, `context.py`, `dispatch.py`, `cancellation.py` | running/shutdown flags, session status, turns, current turn, cancelled ids, admitted events, cancel tokens, STT queues and tasks | `start`, `stop`, `handle_input` (text, speech started/ended, audio frame, cancel, shutdown, error), the assistant pipeline, the STT task | listeners (bridge), providers, repositories, tools |
| Summarizer | `R/summarization.py` | stored summary with its watermark | `prepare` | LLM provider, summary repository; called by the pipeline |
| LLM context and budget | `R/llm_context.py`, `context_budget.py`, `token_estimate.py` | none (pure) | `assemble`, `select_history` | called by pipeline and summarizer |
| Media bridge | `R/bridge.py` | lifecycle state, background and publish tasks, last turn | `run`, transport callbacks, TTS publishing, teardown | transport, AgentRuntime |
| Transports | `packages/realtime` | room, connection flag, audio tasks | connect, disconnect, publish, room callbacks | LiveKit, bridge |
| Tool execution | `packages/tools` | registry of definitions and handlers | `execute`, register, validate | pipeline |
| Providers | `packages/providers` | streaming sessions, queues, audio cache | `stream`, `transcribe` | AssemblyAI, ElevenLabs, Groq, OpenAI |
| Control plane | `apps/api` | agents, versions, tools, sessions, messages, summaries, knowledge bases, documents, chunks | CRUD services, publish, ingest, search | Postgres, worker |
| Worker | `apps/runtime-worker` | one bridge and its repositories | load the session bundle, build, run | control-plane tables |
| Dashboard, migrations | `apps/dashboard`, `apps/api/alembic` | - | - | not modelled: user interface, schema history |

What is hard in this system:

- **Interleaving.** All of a session runs on one asyncio loop. Every `await`
  is a point where an input, a barge-in, a session error or `stop()` may run.
  A speech turn is worked on by a caller (`USER_SPEECH_ENDED`) and by its own
  STT task at the same time.
- **Cancellation** is cooperative: a token, the set of cancelled turn ids and
  the turn's own state are three places that must agree.
- **Ordering.** Events take a sequence number when they are built, before
  `admit_event` decides whether they are stale.
- **Failure.** Providers raise, the prompt may exceed its budget, the
  repository may raise between two appends.
- **Waiting.** Callers await the STT task, the task awaits audio, `stop()`
  awaits the tasks.
- **Transactions.** A request of the control plane reads, decides and writes at
  READ COMMITTED without locks: what it decided on may have changed. Numbers
  are "maximum plus one". Only the constraints of the tables stand between two
  such requests.
- **Crashes.** A worker may die between any two statements, and nothing keeps
  a second worker from serving the same session.

Properties that make each part correct: one open turn, terminal turns are
final, nothing of an interrupted turn is heard, the conversation holds exactly
the exchanges of committed turns, no sequence gaps, everything ends after
shutdown (AgentRuntime); the summary never loses or repeats a message and
always fits (Summarizer); the request fits the budget and drops parts in a
fixed order (context); frames and speech belong to the current turn, teardown
leaves nothing running (bridge, transports); one result per
call, only of tools the version binds (tools); every recognised turn is
delivered and the adapters' streams end (providers); versions are numbered once,
references resolve and a published version is immutable (control plane); what
was acknowledged is stored, in order, through crashes (worker, adapters); a
document is chunked completely (knowledge); pages miss no row (listings).

## 2. Modules

### `AgentRuntime`

The turn engine, one action per run of a coroutine between two suspension
points (asyncio does not preempt, so such a run is atomic). Processes are the
*callers* (coroutines inside `handle_input` or `stop`) and, for every speech
turn `t`, its STT task, which is named `t`. `pc[p]` is where a process is
suspended, `turnOf[p]` the turn it works on.

| State | Code |
|---|---|
| `running`, `shutdown`, `status` | `_running`, `context.shutdown_requested`, the session status |
| `turns`, `current`, `cancelledIds`, `turnSeq` | `_turns[..].state`, `_current_turn_id`, `context.cancelled_turn_ids`, the turn counter |
| `emitted`, `dropped` | events admitted by the last step; events numbered by `build_event` and refused by `admit_event` |
| `transcript`, `conversation` | the last final TranscriptFrame of a turn; the conversation repository |
| `tokenOf`, `tokenCancelled` | `_llm_cancel_tokens`/`_tts_cancel_tokens` (always the same object) and which tokens are set |
| `queue`, `audio`, `sttEntries`, `sttTokenCancelled`, `finalizing`, `speechEnded` | the STT dictionaries and sets |
| `cancelReq` | tasks on which `task.cancel()` was called |

| Action | Code |
|---|---|
| `Start`, `Stop`, `StopFinish` | `start`, `stop` up to its `gather`, and after it |
| `HandleTextInput` ... `HandleError` | the branches of `handle_input`; `Stop` is the SHUTDOWN branch |
| `FinalizeSpeechTurn`, `AwaitSttReturns` | `_finalize_speech_turn` before and after `await task` |
| `EnrichDone`, `LlmChunk`, `LlmResponds`, `LlmCallsTools`, `ToolReturns`, `NextIteration` | `_run_llm_stream` |
| `TtsChunk`, `TtsReturns`, `ProviderFails`, `PipelineAborted` | `_run_tts_stream`, the `except ProviderError` branches, the cancellation checks |
| `PersistAndComplete` | `_persist_turn_exchange`, `_complete_turn` and the `finally` |
| `AudioRequested`, `AudioReceived` | `_audio_from_queue` |
| `SttPartial`, `SttFinal`, `SttEnds`, `SttAborted`, `SttFails`, `TaskCancelled` | `_run_stt_stream` |

Abstractions: event payloads are left out except the type and turn; text is
blank or not; the providers, the retriever, the memory store, the summarizer
and the tool executor are suspensions that return, fail or yield
nondeterministically; whether the prompt fits its budget is a choice. Inputs
that `handle_input` rejects with an exception change nothing and are left out.
A caller itself is never cancelled (see section 7).

### `TurnLifecycle`

The abstract specification: turns open one after the other, one at a time,
close once, and an exchange is kept exactly when its turn commits. Its
statuses are those of the contract `Turn`. `AgentRuntime!ImplementsLifecycle`
is the refinement, with `to_turn_status` as the map of the turn states.

### `MCAgentRuntime`, `AgentRuntimeProofs`

The instance for TLC (symmetry of the callers, used only where no liveness
property is checked), and the proofs.

### `MediaBridge`

`RuntimeMediaBridge` around a `LiveKitMediaTransport`
(`packages/realtime/src/xymphony_realtime/livekit_transport.py`). A step again
runs one coroutine to its next suspension. The processes are `run()`, the audio
task of each subscribed track, the coroutine of `_handle_room_disconnected`,
`runtime.stop()` and the publish tasks.

| State | Code |
|---|---|
| `lifecycle`, `run`, `shutdownSet` | `_lifecycle_state`, where `run()` is suspended, the `_shutdown` event |
| `tState`, `gone`, `source` | the transport's `_state`, `_disconnect_event`, `_audio_source` |
| `registered`, `audio`, `sidOf`, `cancelReq` | `_audio_tasks` (keyed by the track's sid), each task, its track, `task.cancel()` |
| `awaited`, `left`, `leftAwaits` | the two places that `gather` the audio tasks |
| `publish`, `chunks`, `heard` | publish tasks not yet run, speech admitted by the runtime, frames given to the audio source |
| `running`, `stopRequested`, `current`, `speech`, `cancelledIds` | the runtime as the bridge sees it |

| Action | Code |
|---|---|
| `RunStarts`, `RoomConnects`, `ConnectFails`, `TrackPublished`, `RunWakes`, `RunCancelled` | `run` up to its wait, `connect`, `_setup_outgoing_audio`, the wait on shutdown or disconnect |
| `TeardownCancels` ... `RunEnds` | `_teardown`: cancel tasks, stop the runtime, disconnect, final state |
| `TrackSubscribed`, `TrackUnsubscribed`, `TaskDone` | room handlers and the done callback of an audio task |
| `FrameOpensTurn`, `AudioEnds`, `AudioFails`, `AudioCancelled`, `EndingReturns` | `_consume_remote_audio` and the bridge's audio callbacks |
| `RoomStateChanged`, `RoomDisconnected`, `RoomLeft` | `_set_state`, `_handle_room_disconnected` before and after its `gather` |
| `ChunkAdmitted`, `PublishTtsOutput` | the runtime listener and `_publish_tts_output` |
| `TextInput`, `CancelInput`, `ShutdownInput`, `RequestShutdown` | inputs passed through the bridge, the worker's signal handler |

Abstractions: the runtime is reduced to an open turn that may close, the
cancelled ids and the speech it admits. Publish tasks run in the order of their
creation (the loop's queue is first in, first out). `rtc.Room` is external: it
may lose the connection, subscribe a track again under its sid and end or fail
a stream. Participant events, which only append to a list, observations and
logs are left out. `MediaBridgeProofs` holds the proofs.

### `ContextBudget`

`ContextBudgetPolicy`, `build_system_prompt`, `approximate_token_count` and
`LLMContextAssembler.assemble` as operators. A text is its length in
characters, because all the code asks of it is an estimate of four characters
a token, rounded up; headers and separators of the system prompt are counted.
`Left` is the loop of `select_history`, `Ladder` the nested retries of
`assemble` (memory, then knowledge, then summary is dropped; the branches for an
absent section repeat an attempt that has already failed, so the ladder has
always four attempts).

### `Summarizer`

`ConversationSummarizer.prepare` and the assembly of the request, for all turns
of a session. Pipelines of different turns overlap, since one outlives its
turn when the turn is cancelled, failed by an ERROR input or completed by
`USER_SPEECH_ENDED`.

| State | Code |
|---|---|
| `history`, `stored` | conversation and summary repositories; `covers` is a ghost: the messages whose content the summary was made from |
| `current`, `turnSeq`, `tokenSet`, `cancelledIds` | the open turn, cancelled tokens, `context.cancelled_turn_ids` |
| `place`, `user`, `size`, `existing` | where the pipeline is suspended, and the locals of `prepare` |
| `prepared`, `request` | the `SummaryPreparation` (with the return statement it is from), the assembled request |

| Action | Code |
|---|---|
| `Prepare` | `prepare` to its first `await`, all its early returns |
| `Generated`, `GenerationFails` | the first `_generate_summary` returns or raises |
| `Shortened` | the second, shorter one; a `ProviderError` is the blank text |
| `Assemble` | the cancellation checks after knowledge and memory, `assemble`, and the turn that fails with `context_budget_exceeded` |
| `Answered` | `_persist_turn_exchange` and the end of the pipeline |
| `TurnInterrupted` | CANCEL_TURN, ERROR and USER_SPEECH_ENDED beside the pipeline |

A pipeline whose provider fails leaves the same state as one whose turn was
closed before it ended, and has no action of its own. `SummarizerProofs` holds
the proofs.

### `ControlPlane`

Agents, versions, tools, their associations and sessions of one project
(`apps/api/src/xymphony_api/services.py` over `repositories.py`, `models.py`,
`db.py` and `errors.py`), changed by concurrent requests. FastAPI runs the
synchronous handlers in a thread pool, each with its own transaction.

| State | Code |
|---|---|
| `agents`, `versions`, `tools`, `attached`, `sessions` | the committed rows; `gone` marks a uuid whose row was deleted, so that none is drawn twice |
| `req` | for a request in flight, what its handler read and decided to write; for a finished one, its reply |
| `started` | requests so far (bound) |

Every operation has two actions. `Begin<Op>` is the handler up to its flush:
its reads, its early answers (`not_found`, `conflict`) and the values it will write.
`Commit<Op>` is the flush with the commit: a statement's locks are held to the
end of the transaction, so nothing gets between them. The flush meets the
tables as they are then; a unique or foreign-key constraint that it would break
rolls the transaction back and the request answers 500 (`Rejected`). A row that
another request deleted meanwhile makes an `UPDATE` match no row, which
SQLAlchemy reports as a `StaleDataError`, again 500. `DatabaseFails` is a failure at
any time in flight; it answers 500 too, but is named `unavailable` so that
`AloneIsNotRejected` can tell a constraint from an outage. `delete_agent`
deletes its versions and associations with it and is refused by the foreign key of
`sessions`.

Abstractions: a version has two configuration fields, enough for two updates
of different columns; SQLAlchemy writes the changed columns only, which is why
`sets` is kept. `published_at` is a number drawn by the handler, different for
each request (0: none). `Hash` is injective. Deleting a tool deletes its associations.
`update_session_status` has no route. The tools a worker uses are those of the
version's JSON column, not the association rows (`ToolExecutor`).

### `SessionStore`, `MemoryStore`

`SessionStore` is one session's rows in PostgreSQL and the worker processes
that serve it: the adapters of `persistence/postgres.py`, the committing
wrappers of the worker's `bootstrap.py`, `run_worker`.

| State | Code |
|---|---|
| `messages`, `session`, `summary` | committed rows of `conversation_messages`, `sessions`, `conversation_summaries` |
| `worker` | the process, the port calls of its current synchronous piece (`job`), where the call is (`step`), its local variables, what it has flushed (`pending`), whether its only SQLAlchemy session needs a rollback (`poisoned`) |
| `acked` | history: messages whose `append_message` returned |

| Action | Code |
|---|---|
| `ReadSequence`, `FlushMessage` | `append_message`: `next_sequence`, then `add` and `flush`, which waits for an equal key in flight and fails on a committed one |
| `ReadSession`, `FlushSession` | `_sync_session_status`: `get_session`, then `update_session` |
| `ReadSummary`, `FlushSummary` | `upsert` |
| `Commit`, `CommitAnswerLost` | the `commit()` of the wrapper; the same when its answer is lost |
| `CallRaises`, `DatabaseFails` | `PendingRollbackError` of a poisoned session; any statement fails |
| `StartWorker`, `StopWorker`, `ExitWorker`, `Crash` | `build_voice_worker_from_db` with `start()`, `stop()`, the end of `run_worker`, the death of the process |
| `PersistExchange`, `StoreSummary` | the pieces of the runtime that use the ports |

`update_session` loads the row again before it writes. Both are one step, because
every column the worker changes is overwritten from its contract. After a failed flush
nobody calls `rollback()` until `run_worker` ends: the worker goes on talking
and stores nothing more.

`MemoryStore` is the abstract specification, translated from the in-memory
repositories (`R/persistence/memory.py`): `append_message` puts one message at
the end, `update_session` and `upsert` replace one record. `ImplementsMemory`
is the refinement; `Transcript` maps the rows to the sequence that
`list_for_session` returns and is ill-typed (so that the refinement fails)
when two rows have one number or a number is missing. `SessionStoreProofs`
holds the proofs.

### `SttAdapter`, `TtsAdapter`, `LlmStream`

`SttAdapter` is one call of `AssemblyAISTTProvider.transcribe`: the generator,
its sender task and the callbacks of the SDK. The SDK's `ProviderError` of
`on_error` stays inside the SDK, as the code has it. Audio is its duration:
the minimum and target of a chunk are the code's 50 and 100 ms.
`TtsAdapter` is the audio store of `ElevenLabsTTSProvider` with the bridge's publish
tasks. Its `stream` iterates the SDK's chunks without awaiting, so a whole
utterance is one step. `LlmStream` is `stream` of the OpenAI and Groq adapters
with `_ToolCallCollector`; a fragment is its number within its call, and a
chunk brings the next fragments of some calls, in any order and also several of
one call. `Fed` is the loop over `delta.tool_calls`, round by round.
`PartsProofs` holds the proofs about the first and the last.

### `ToolExecutor`

From the bindings of a version to the result of one call: the registry that
`build_voice_worker_from_db` makes, `validate_tool_arguments` and each return of
`execute`. A schema is its required, declared and additional arguments; that
a value has the declared type and enum is a Boolean. The cancellation token
changes while an asynchronous handler runs. `PartsProofs` holds the proofs.

### `Paging`

A client that follows the cursors of `list_agents` or `list_tools` while rows
are created and deleted. A row's number stands for its place in the order by
`(created_at, id)`; a new row takes any place that no row has had, because its
`created_at` is taken before its commit. A cursor whose row is gone leaves
the filter out and the walk begins again. The promise is about rows that live
through the walk; rows may be repeated. `PagingProofs` holds the proofs.

### `Ingestion`

`create_document` with `ingest_document` and `chunk_text`, one step per
statement of the loop so that the loop itself may fail to end. A text is a sequence
over a letter, a space and two sentence marks; a chunk is an interval of the
normalized text. The separators with line breaks are left out, since
normalization removes them. Embeddings are left out. `IngestionProofs` holds
the proofs.

### `MCParts`, `MCControlPlane`

`MCParts` checks `Summarizer`, `SessionStore`, `SttAdapter`, `LlmStream`,
`ToolExecutor`, `Paging` and `Ingestion` in one run: they share no state, `part` names
the one a behaviour is about and the others stand still, so the state space is
the sum of theirs, not the product. `PartsProofs` proves
its safety properties. `MCControlPlane` gives the symmetry of rows.

## 3. What the runs check

| Run | Shows |
|---|---|
| `speech` | With two callers, two turns and STT, LLM, TTS, and a conversation repository whose `append_message` may raise before or between the messages of an exchange: at most one open turn and it is the current one; a cancelled turn stays terminal; no event takes a sequence number and is then refused, so the admitted series has no gap; the history may hold an unanswered question, never a misplaced or repeated answer; a terminated session has no open turn and no STT task; terminal states are final; no token, response, speech or transcript of a turn is admitted after its interruption. |
| `tools` | The text pipeline with summary, knowledge, memory and a tool loop of two iterations: callers return whatever fails or is cancelled. |
| `liveness` | Speech to LLM over a repository that does not fail: the conversation is a sequence of exchanges of completed turns, in turn order and one a turn; the refinement of `TurnLifecycle`; callers return, `stop()` quiesces the session and speech turns close, although callers, STT tasks and `stop()` wait for each other. With a failing repository speech turns would not all close: the exception of `append_message` leaves the pipeline and the turn open. |
| `bridge` | When `run()` has returned, the runtime is stopped and the transport disconnected; no turn is open or opened once teardown has stopped the runtime; no speech of an interrupted turn reaches the audio source, and none at all once `run()` has left its wait and the other wait task has ended (`bridge.py:144`); a recorded `FAILED` is replaced only before teardown, by `CONNECTED` when the outgoing track is published or by `STOPPING` when `run()` leaves for teardown. Under fairness `run()` ends after a shutdown request and after the loss of the room. |
| `control_plane` | Under every interleaving of two requests, six in all: the versions of an agent are numbered without gap or repetition; tool names are unique; sessions, versions and associations refer to live rows and to a version of their own agent; a session that named no version stays on a published one; a stored hash leaves its configuration only when an update overlapped another request; the row of a published version changes only by an overlapped `update_version` (configuration and hash) or a second, overlapped `publish_version` (`published_at`); a request that overlaps no other is not refused by a constraint (but for `delete_agent` of an agent with sessions). |
| `parts` | `SessionStore`: refinement of `MemoryStore`, acknowledged messages are durable, no answer without its question, through crashes, lost commit answers and two workers. `Summarizer`: the stored summary tells of exactly the messages up to its watermark; nothing is lost between summary and history; an accepted summary is in the request; the request fits and could not hold one more message; a cancelled turn stores nothing. `SttAdapter`: every recognised turn is yielded, in order, and the call ends once the audio has. `LlmStream`: the calls are whole, in the order of their indices, each with its id. `ToolExecutor`: a handler runs only for a bound, approved tool with its required arguments in a live turn. `Paging`: the walk misses no row that stays. `Ingestion`: a committed document is covered by its chunks, none too long, and a failed request leaves nothing. |

Six runs are expected to fail, each on one statement of the documentation or of
the code's own comments that the code does not keep:

| Run | Statement | What the code does |
|---|---|---|
| `one_prepare` | `docs/status/phase-3-step-7.md:84`: two `prepare()` of a session only with two runtimes | The STT task leaves `_finalizing_turns` before its pipeline runs, so that `USER_SPEECH_ENDED` starts a second pipeline of the same turn. It takes a history long enough for `prepare()` to suspend: one that fits the budget returns at `summarization.py:121`. |
| `orphan` | `docs/status/phase-2-step-7.md:120`: no orphan ingestion tasks | The done callback of an older task of the same sid removes the newer one from `_audio_tasks`. |
| `hidden_failure` | `docs/status/phase-2-step-6.md:100`: a transport error while connected is `failed`; line 104: failures are not swallowed | A shutdown makes `run()` record `STOPPING` over `FAILED` (`bridge.py:156`), and the session ends `STOPPED`. |
| `immutable` | `docs/data-model.md:79`: a version is immutable once published | `update_version` tests the status it read; `publish_version` commits; the `UPDATE` changes configuration and hash of the published row. |
| `chunking` | `packages/rag/src/xymphony_rag/chunking.py:13`: splits text into chunks | When the overlap reaches back over the whole chunk of a rest that is shorter than the text, the loop repeats the same split for ever. |
| `stale_audio` | `packages/contracts/src/xymphony_contracts/tts.py:60` and `tests/unit/providers/test_elevenlabs_tts.py:42`: a reference resolves to the audio of its stream | An utterance without audio has `0:final` as its final reference (`elevenlabs_tts.py:74`), which after an utterance of one chunk resolves to that one's audio. Likewise the final reference of an utterance with as many chunks as an earlier one (line 76). |

Every property of a passing run has a mutant in `PROJECT.json`: a fault in one
definition (kept beside it, under a comment that begins with `Fault`) with
which TLC finds the property violated.

`CHECK_DEADLOCK FALSE` is used in every run: a session ends for good after
`stop()`, the bridge after `run()`, the summarizer after its last turn, the
other models at the bounds on their requests, starts and rows.

Observations made while modelling, which no run states:

- `USER_SPEECH_ENDED` completes a text turn whose pipeline is suspended; the
  next turn begins beside it, where `docs/status/phase-3-step-7.md:82` has turn N+1
  start after turn N's coroutine. `one_prepare` shows the nearest consequence.
- Cancelling a turn does not wake its STT task when it waits on an empty audio
  queue (`docs/status/phase-2-step-7.md:106`); `stop()` does (`ShutdownQuiesces`).
- `delete_agent` answers 500 once the agent has had a session.
- `_to_groq_messages` (`groq_llm.py:186`) drops `tool_calls` and
  `tool_call_id`, so that Groq's second iteration does not see what it asked for.
- The last TTS chunk of an utterance is published twice, under its own and
  under the final reference.
- A binding whose tool is not in the approved catalog keeps the worker from starting.
- An ended session may be served again, which makes it active with an `ended_at`.

## 4. Bounds

- `Callers`: two suffice for an input to arrive while another is suspended;
  with the STT tasks up to four coroutines are interleaved.
- `MaxTurns`: two, or three without speech, give an overlap of an old turn
  with a new one. `Summarizer` has four: the first two make a history that
  exceeds the budget, the third summarizes it, the fourth finds a summary.
- `MaxChunks`, `MaxFrames`: one chunk and one frame already separate "before
  the first", "between" and "after the last" of a stream. `MediaBridge` admits
  one chunk in all: whether a publish task speaks depends on its own turn and on
  the session, not on the tasks before it, and the proofs cover any number.
- `MaxMessages` bounds the failed appends (one may leave a question in an empty
  conversation, then a second pipeline of the turn or another turn stores its
  exchange). `MaxToolIterations` = 2 separates the last iteration from one that
  is not.
- `MaxTasks` = 2 with one sid: two tasks of the same track, the case in which a
  registration is overwritten.
- The budget of 17 tokens with texts of 12 and 64 characters, summaries of 0,
  8 and 60 and enrichment of 0 or 20 characters: a long text alone exceeds the
  budget, short ones accumulate until one is dropped, the long
  summary does not fit and the short one does, and memory or knowledge
  fits alone but not beside it.
- `ControlPlane`: two requests in flight make every pair of operations overlap;
  six in all are what it takes to create an agent, two versions and publish one
  before a further pair overlaps. Two agents, versions, tools, names and
  values and one session are the least with which "another" exists. The
  proofs remove these bounds.
- `SessionStore`: two workers, two starts, two exchanges: a worker that is still
  draining beside its successor, each with an exchange.
- `SttAdapter`: frames of 40 and 60 ms around the minimum of 50 and the target
  of 100, four of them, two turns recognised. `LlmStream`: three indices (so
  that the order of arrival, of indices and of ids differ) with up to two
  fragments, and up to two fragments in a chunk, of one call or of two. `ToolExecutor`: two bindings, two approved tools and an unknown
  one. `Paging`: six rows, pages of two, five pages, so that a walk can begin
  again. `Ingestion`: all texts of up to five characters, chunks of three
  with an overlap of two, the smallest with every kind of split; only the
  relation of the sizes enters the code's tests.

## 5. Fairness

The weak fairness of `AgentRuntime` and `MediaBridge` says that the event
loop runs a coroutine that can run, that a provider stream or a tool call ends
or raises, that a task on which `cancel()` was called receives
the cancellation, and that `connect` and `disconnect` of the room return.
Retrieval and recall run under `asyncio.wait_for`. The LLM, STT and TTS
adapters set no timeout of their own and rely on those of the vendors' clients:
that a stream is finite is an assumption about those services, as it is about
tool handlers, which run without a timeout.
Nothing is assumed of users, of the network or of the order of inputs: no
input, no audio frame, no loss of the room has to happen. In `MediaBridge` the
return of `handle_input(USER_SPEECH_ENDED)` is fair, which `CallersReturn` of
`AgentRuntime` justifies. `SttAdapter` assumes that the loop runs its generator
and its sender and that the SDK's `connect`, `stream` and `disconnect` return or
raise; neither turns, errors nor cancellation are fair. `Ingestion` assumes that
the request's thread is scheduled, so its violation is a loop of the code and no
lack of progress of the environment.

## 6. What is proved

`AgentRuntimeProofs` proves, for any set of callers, any features and any
bounds (`CallersAssumption`, `FeaturesAssumption`, `BoundsAssumption`):
`TypeCorrect`, `OneOpenTurn` (ActiveIsCurrent), `CancelledStaysClosed`
(CancelledIsTerminal), `GapFree` (NoSequenceGap), `QuietWhenTerminated`
(TerminatedIsQuiet), and the action properties `ClosedForGood`
(TerminalIsFinal) and `InterruptSilences` (NoOutputAfterInterrupt). The
inductive invariant adds to these: a process works on a turn that has begun
(`WorkIsBegun`), the tokens in the dictionaries belong to live turns
(`TokensAreLive`), an interrupted turn is recorded as cancelled
(`CancelledIsRecorded`), and shutdown closes the session
(`ShutdownIsClosed`). Without them a step may take a turn that never began, or
complete one whose cancellation was recorded in one place only. There are
many actions, so the argument has two layers. One lemma an action shows that it
is a `Step`: a conjunction that says what a step may do to turns (`TurnStep`),
events (`EventStep`), processes (`ProcStep`), the session (`SessionStep`) and
the STT data (`SttKeeps`). Then `Step` alone is shown to keep every conjunct.

The conversation has a second such layer: one lemma an action shows that it is
a `ConversationStep`, which leaves the messages alone (`Keeps`), appends both
messages of an open turn and completes it (`Persists`), appends the question
alone because the second `append_message` raised (`Orphans`), or cancels the open
turn (`Shuts`). From it follow three theorems. `NoStrayAnswer`
(AnswersFollowQuestions) holds with and without a repository that raises; its
invariant adds that an answered turn is completed (`AnswersAreCommitted`),
without which a second pipeline of the turn could answer it again.
`OnlyWholeExchanges` (ConversationIsExchanges) and `RuntimeImplementsLifecycle`
(ImplementsLifecycle) assume `RepositoryMayFail = FALSE`, as the runs that check
these properties do: with a repository that raises both are false, and
`NoStrayAnswer` says what is left of them. The refinement is proved whole: the
initial states map to initial states of `TurnLifecycle` and each kind of
`ConversationStep` to one of its steps or to a stutter.

`SummarizerProofs` proves, for every budget, any text lengths and any number
of turns (`BudgetAssumption`, `SummarizerAssumption`): `TypeCorrect`,
`StoredIsPrefix`, `PrepareLosesNothing`, `AcceptedSummaryIsSent` and the action
property `NoCancelledStore`. The inductive invariant adds, for every pipeline,
that the history it was given is still a prefix of the conversation, that the
summary it read tells of a prefix, that a dropped message lies beyond that
summary while a new one is generated (so that the new watermark is the end of
the covered messages), and that an accepted summary fits the budget alone,
which is why the ladder ends before it drops the summary. From the budget these
proofs use only that `select_history` returns at most the history, and which
attempt of the ladder comes first.

`RequestsAreTight` (RequestIsTight) is about what the loop of `select_history`
computes, for every history and budget. The library's induction theorems cannot
be used here, so the lemma `NatSet` states induction for a set of numbers, from
the least number outside it (`HasLeast`). With it, the functions that `Left` and
`Cost` define recursively are shown to exist and to satisfy their equations
(`LeftRounds`, `SumsAdd`); after n rounds the loop has left the budget less
the cost of the n newest messages, or -1 if that cost is more than the budget, so
that the rounds it survives are an initial run (`LoopIsTight`); and messages
that are appended later do not change the cost of the earlier ones
(`CostStays`). `TightInv` adds to the property that a request keeps at most
the history it was given.

`ControlPlaneProofs` proves, for any number of requests in flight and in all,
any rows, names and values (`NoIdAssumption` is all it assumes: `None` is none of
them): `TypeCorrect`, `NumberedWithoutGap`, `NamesStayUnique`, `NothingDangles`,
`PinnedForGood`, and the action properties `HashIsOfConfig` and `AloneIsServed`.
The inductive invariant has four parts. `RowInv` is about the tables alone:
the four invariants and what they rest on (live tools have names, a live version
an agent that exists, numbers are at most the number of requests). `AllHeld` says what a request
in flight knows for certain although others commit: the rows it has read exist
or are gone for good, a version it saw published is still published, an agent
it read belongs to its version. `AloneInv` says what a request knows that has
overlapped no other: the tables are as it read them, so the number, the name and
the rows it holds pass the constraints. `HashBreaksOnlyOnOverlap` and
`AloneIsNotRejected` need the last part and nothing else in the system has it:
without `alone`, a stale handler is always possible. Each commit has one
lemma per part. The maximum that `next_version_n` takes exists because the numbers are bounded by
the requests made (`BoundedHasMax`: the least upper bound, by
`WellFoundedInduction`, is one of them). A step is then either the decision of
a handler (`Decided`) or its end (`Ended`), and each is shown to keep the whole
invariant. `PublishedStaysWithoutOverlap` (PublishedChangesOnlyOnOverlap) says
what is left of `PublishedIsImmutable`, which the run `immutable` refutes: the
row of a published version is changed by nothing but a request that overlapped
another, namely an `update_version` of it, which writes configuration and hash
only, or a second `publish_version` of it, which writes `published_at` only. A
request that overlapped none still finds the draft it read (`Accepted`).

`MediaBridgeProofs` proves, for any tracks and any number of tasks, turns and
chunks (`BridgeAssumption`): `TypeCorrect`, `EndsClean`, `NoTurnInTeardown` and the
action properties `InterruptSilencesRoom`, `TeardownSilencesRoom` and
`FailureIsKept` (FailureLostOnlyBeforeTeardown). The inductive invariant adds four facts: the transport's state
follows the room, and a lost room is never up again (`RoomInv`, for the state
in which `run()` ends); a runtime that takes no input has no open turn
(`ClosedInv`); from `runtime.stop()` on it takes none (`StopInv`); and a session in
teardown has recorded `STOPPING` or `FAILED`, or the room is gone (`ReasonInv`).
The last is needed because `run()` woken by the loss of the room keeps the
lifecycle `CONNECTED` until `_teardown` sets it: it is then the transport's
state, not the lifecycle, that keeps a publish task silent. `FailureIsKept` says
what is left of `ShutdownKeepsFailure`, which the run `hidden_failure` refutes; it
needs `EarlyInv`: before the room is up there is no audio task that could fail.
`MissedTaskHasElder` says what is left of `NoOrphanIngestion`, which the run
`orphan` refutes: a task that teardown leaves uncancelled had an older task of its own
track, and that one has ended. So a room in which no track is subscribed twice
leaves no task behind. Its invariant `OwnerInv` says that the task stored for a
track is its newest (which needs that tasks are created in order, and that a
track without subscription has none stored), and that a task that reads audio
is stored, cancelled or has such an elder.

`SessionStoreProofs` proves, for any workers, any number of exchanges and any
number of starts, crashes and failures: `AcknowledgedStays`
(AcknowledgedIsDurable), `NoAnswerAlone` (AnswerAfterItsQuestion),
`SequenceHasNoGap` and the refinement `AdaptersImplementMemory`
(ImplementsMemory). They assume `MaxTurns \in Nat`. The inductive invariant
`RowsInv` is about what a worker holds between two statements. A message that is flushed has the number
behind the last committed one and is the only one in flight (`OneInFlight`):
the second worker with the same number waits for the unique key, and when the
first commits its own flush fails. A worker that persists an exchange owns its
turn, and nothing of that turn is stored before its question (`ExchangesInv`).
The numbers are 1, 2, ... each once (`Numbered`): without it `Transcript` is not
a sequence and the refinement cannot be stated.

`PartsProofs` proves `TranscribeLosesNoTurn` (NoTurnLost) of `SttAdapter` for any frames and
any number of turns, from `QueueInv`: as long as the call is neither cancelled
nor failed, what was yielded followed by what is queued are the recognised
turns, with the end mark last once the sender has finished. That the sender has
disconnected by then (`SenderInv`) is what keeps a callback from putting a
turn behind the end mark.

`PagingProofs` proves `WalkIsComplete` (WalkMissesNothing) for every number of rows
(`MaxRows \in Nat`) and every page limit from 1 on (`pagination_limit` has
`ge=1`, `apps/api/src/xymphony_api/deps.py:55`; with a limit of 0 there is no cursor). `WalkInv` says
that the client has every row that stayed, down to its cursor. It survives the deletion of the cursor's row, after
which the walk begins again, and rows that are created meanwhile, wherever.

`IngestionProofs` proves `CommittedIsChunked` (DocumentIsChunked) for documents of
any length and for all sizes that `chunk_text` accepts:
`SizesOK` is its two tests (`packages/rag/src/xymphony_rag/chunking.py:17-24` raise
`ValueError` otherwise) and that lengths are numbers. `IngestInv` is the loop
invariant, statement by statement: the text before `remaining` is in the
chunks, the rest begins with a word, and a split lies inside it; the search for
a boundary and the overlap are covered by first and last positions of sets
(`HasFirst`). Two theorems mark the boundary of what the run `chunking` refutes.
`LoopMovesOn`: no round goes back, and a round that splits beyond the overlap
moves on, so without overlap every round does. `NoWayOut`: once the loop is to
split within the overlap anywhere but in its first round (`Stuck`), every
further step leaves it there.

`PartsProofs` also proves `FragmentsMakeWholeCalls` (CallsAreWhole) of `LlmStream`,
for any number of calls, fragments and fragments in a chunk; indices are
natural numbers (`Indices \subseteq Nat`). `CollectorInv` says that the
accumulators are in step with what was sent: one accumulator for each call of
which a fragment came, with the fragments so far in order, and with the id if it
has one. That a chunk keeps it is an induction over the rounds of `Fed`
(`FedAccumulates`), whose recursion is first shown to have a solution
(`FedRounds`); both by `NatSet`, as for the budget. What is left is that
`to_tool_calls` can sort: accumulators with distinct indices have an ascending
order (`CanSort`: by induction on their number, the last one inserted where it
belongs), and an ascending choice of as many positions is all of them
(`SortedIsAll`: an injection of a finite set into itself is onto).

`PartsProofs` also proves `HandlersRunAsBound` (ToolRunsAsBound) of `ToolExecutor`,
with no assumption. Its invariant adds that the registry holds only tools of
the catalog which the version enables, and at which of its returns `execute` is.

The properties that the run of `MCParts` checks are then proved of `PartsSpec`
itself, as `EveryToolRunsAsBound`, `NoRecognisedTurnLost`, `NoPageMissesARow`,
`EveryDocumentIsChunked`, `EveryCallIsWhole`, `AcknowledgedRowsStay`,
`AnswersHaveQuestions`, `SummariesHold` (the properties of `Summarizer`) and
`StoreImplementsMemory` (the refinement). A step of `PartsNext` is one of the part
looked at or leaves that part's variables alone (`OwnStep`), so the inductive
invariant of a part, under the guard that it is the one looked at, is one of the
whole. `MCParts` instantiates the modules without their proofs; `PartsProofs`
instantiates the proofs as well and shows the two copies equal
(`SamePages`, `SameIngest`, `SameRows`, `SameTranscript`). The assumptions are
those of the parts: `MaxExchanges \in Nat`, `MaxRows \in Nat`, a `Limit` from 1
on, `SizesOK`, `Indices \subseteq Nat`.

The inductive invariants of these modules were checked with TLC, on the
constants of the runs, before they were proved.

Only model-checked: liveness (`CallersReturn`, `ShutdownQuiesces`,
`SpeechTurnCloses`, `SessionEnds`, `TranscriptionEnds`),
which is beyond TLAPS. The type
invariants of `AgentRuntime`, `Summarizer`, `ControlPlane` and
`MediaBridge` are proved and not run.

## 7. What is not modelled

- Cancellation of a coroutine inside `handle_input` by its own caller (for
  example the audio task that awaits `USER_SPEECH_ENDED`) in `AgentRuntime`.
  `MediaBridge` has it, from the bridge's side: the turn stays open.
- Event payloads beyond type and turn, logs, observations, metrics.
- `max_input_tokens = None` (nothing is dropped), tool messages and tool
  definitions, which the budget does not count.
- A second pipeline of the same turn (run `one_prepare`) in `Summarizer`.
- Isolation levels other than READ COMMITTED, deadlocks of PostgreSQL (they
  are a `DatabaseFails`), and the order in which a flush takes its locks.
- `create_knowledge_base` (one insert) and hybrid search (one SQL statement
  over vectors and text ranks); re-ingestion, which has no route.
- Requests to the vendors: how messages are put into their format, error
  normalisation, the provider registry.
- Tool handlers (pure functions and one HTTP call), value objects of the
  configuration and of the contracts, HTTP schemas.
- The dashboard, the schema migrations, the minimal transport session (which
  the bridge replaced) and the test doubles.

## 8. Plan

1. `Numbered` and `StoredOnce` of `SessionStore`, and what is proved to be left of
   the refuted claims, as properties of a run.
2. Composition of `SessionStore` with the pipeline of `AgentRuntime`: a turn
   whose exchange cannot be stored.
3. Hybrid search as an operator over ranked lists.
