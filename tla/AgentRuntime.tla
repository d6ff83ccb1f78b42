---------------------------- MODULE AgentRuntime ----------------------------
(***************************************************************************)
(* The per-session turn engine of packages/agent-runtime: AgentRuntime,    *)
(* RuntimeTurn and RuntimeContext.                                         *)
(*                                                                         *)
(* The engine runs on one asyncio loop, so a step of this specification is *)
(* a coroutine's run from one suspension point to the next.  The processes *)
(* are                                                                     *)
(*   - the callers: coroutines inside start/stop/handle_input (transport   *)
(*     callbacks, the bridge, a text front end);                           *)
(*   - for each speech turn t its STT task, the process named t.           *)
(* Either kind may run the assistant pipeline of a turn.                   *)
(***************************************************************************)
EXTENDS Integers, Sequences, FiniteSets

CONSTANTS
  Callers,            \* coroutines that may be inside stop() or handle_input()
  Features,           \* the optional collaborators this runtime was built with
  MaxToolIterations,  \* LLMRuntimeConfig.max_tool_iterations
  RepositoryMayFail,  \* whether append_message may raise
  MaxMessages,        \* bound: messages stored before a raising append
  MaxTurns,           \* bound: turns begun in a session
  MaxChunks,          \* bound: chunks of one provider stream
  MaxFrames           \* bound: audio frames waiting in one STT queue

AllFeatures ==
  {"llm", "stt", "tts", "conversation", "summary", "rag", "memory", "tools"}

Turns == 1..MaxTurns
NoTurn == 0
TurnIds == Turns \cup {NoTurn}
Procs == Callers \cup Turns

ASSUME CallersAssumption == Callers # {} /\ Callers \cap TurnIds = {}
ASSUME FeaturesAssumption == Features \subseteq AllFeatures
ASSUME BoundsAssumption ==
  /\ MaxToolIterations \in Nat \ {0}
  /\ RepositoryMayFail \in BOOLEAN
  /\ MaxMessages \in Nat
  /\ MaxTurns \in Nat \ {0}
  /\ MaxChunks \in Nat
  /\ MaxFrames \in Nat

Has(feature) == feature \in Features

TurnStates == {"none", "active", "completed", "cancelled", "failed"}
TerminalStates == {"completed", "cancelled", "failed"}

\* Events whose turn was cancelled are refused by admit_event.
STALE_IF_TURN_CANCELLED == {"LLMToken", "LLMResponse", "TTSChunk", "TranscriptFrame"}
EventTypes ==
  STALE_IF_TURN_CANCELLED \cup
  {"SessionStarted", "SessionEnded", "UserSpeechStarted", "UserSpeechEnded",
   "AgentInterrupted", "Error"}
Events == EventTypes \X TurnIds

PipelinePCs == {"summary", "rag", "memory", "llm", "tools", "tts"}
CallerPCs == {"idle", "await_stt", "stopping"} \cup PipelinePCs
EndedPCs == {"done", "cancelled", "raised"}
SttPCs == {"unborn", "transcribing"} \cup PipelinePCs \cup EndedPCs

VARIABLES
  running,            \* _running
  shutdown,           \* context.shutdown_requested
  status,             \* session status, in the context and the session row
  turns,              \* _turns: the RuntimeTurn state of each turn
  current,            \* _current_turn_id
  cancelledIds,       \* context.cancelled_turn_ids
  turnSeq,            \* context's turn sequence; turn n has sequence n
  emitted,            \* events the last step admitted: what its listeners were given
  dropped,            \* events built (sequence number taken), then refused
  transcript,         \* text of the turn's last final TranscriptFrame
  conversation,       \* ConversationRepository: the committed messages
  pc,                 \* where each coroutine is suspended
  turnOf,             \* the turn a coroutine works on
  stream,             \* progress of the provider stream a coroutine reads
  tokenOf,            \* _llm_cancel_tokens/_tts_cancel_tokens: whose token is stored
  tokenCancelled,     \* pipelines whose own token is set
  queue,              \* the STT audio queue of each turn
  audio,              \* the _audio_from_queue generator of each turn
  sttEntries,         \* turns in _stt_audio_queues, _stt_tasks, _stt_cancel_tokens
  sttTokenCancelled,  \* turns whose STT token is set
  finalizing,         \* _finalizing_turns
  speechEnded,        \* _speech_ended_turn_ids
  cancelReq           \* STT tasks on which task.cancel() was called

sessionVars == <<running, shutdown, status>>
turnVars == <<turns, current, cancelledIds, turnSeq>>
eventVars == <<emitted, dropped>>
procVars == <<pc, turnOf, stream>>
tokenVars == <<tokenOf, tokenCancelled>>
sttVars == <<queue, audio, sttEntries, sttTokenCancelled, finalizing, speechEnded>>
vars == <<sessionVars, turnVars, eventVars, transcript, conversation, procVars,
          tokenVars, sttVars, cancelReq>>

\* No stream is being read.
NoStream == [iteration |-> 0, chunks |-> 0, calls |-> 0]

Init ==
  /\ running = FALSE
  /\ shutdown = FALSE
  /\ status = "created"
  /\ turns = [t \in Turns |-> "none"]
  /\ current = NoTurn
  /\ cancelledIds = {}
  /\ turnSeq = 0
  /\ emitted = {}
  /\ dropped = {}
  /\ transcript = [t \in Turns |-> "none"]
  /\ conversation = <<>>
  /\ pc = [p \in Procs |-> IF p \in Turns THEN "unborn" ELSE "idle"]
  /\ turnOf = [p \in Procs |-> IF p \in Turns THEN p ELSE NoTurn]
  /\ stream = [p \in Procs |-> NoStream]
  /\ tokenOf = [t \in Turns |-> NoTurn]
  /\ tokenCancelled = {}
  /\ queue = [t \in Turns |-> <<>>]
  /\ audio = [t \in Turns |-> "yielded"]
  /\ sttEntries = {}
  /\ sttTokenCancelled = {}
  /\ finalizing = {}
  /\ speechEnded = {}
  /\ cancelReq = {}

-----------------------------------------------------------------------------
(* Building blocks: each names the variables it assigns.                   *)

\* Fault: a completed turn is not counted as terminal.
IsTerminal_notCompleted(t) == turns[t] \in {"cancelled", "failed"}
IsTerminal(t) == turns[t] \in TerminalStates

\* admit_event for the events built in one step.  build_event takes a
\* sequence number first, so a refused event leaves a gap in the series.
Admit(events) ==
  LET stale == {e \in events : e[1] \in STALE_IF_TURN_CANCELLED /\ e[2] \in cancelledIds}
  IN /\ emitted' = events \ stale
     /\ dropped' = dropped \cup stale

\* Fault: the STT task loses its turn when it ends.
Leave_losesTurn(p, how) ==
  /\ pc' = [pc EXCEPT ![p] = IF p \in Turns THEN how ELSE "idle"]
  /\ turnOf' = [turnOf EXCEPT ![p] = NoTurn]
  /\ stream' = [stream EXCEPT ![p] = NoStream]

\* The coroutine p returns, or ends with an exception.
Leave(p, how) ==
  /\ pc' = [pc EXCEPT ![p] = IF p \in Turns THEN how ELSE "idle"]
  /\ turnOf' = [turnOf EXCEPT ![p] = IF p \in Turns THEN p ELSE NoTurn]
  /\ stream' = [stream EXCEPT ![p] = NoStream]

\* The coroutine p suspends at place, working on turn t.
Suspend(p, place, t, s) ==
  /\ pc' = [pc EXCEPT ![p] = place]
  /\ turnOf' = [turnOf EXCEPT ![p] = t]
  /\ stream' = [stream EXCEPT ![p] = s]

\* The finally clauses of _run_assistant_pipeline and _finalize_speech_turn.
PipelineEnd(p, how) ==
  /\ Leave(p, how)
  /\ tokenOf' = [tokenOf EXCEPT ![turnOf[p]] = NoTurn]
  /\ tokenCancelled' = tokenCancelled \ {p}
  /\ finalizing' = finalizing \ {turnOf[p]}

\* Fault: _current_turn_id is not cleared when its turn ends.
SetTurn_keepsCurrent(t, state) ==
  turns' = [turns EXCEPT ![t] = state] /\ UNCHANGED current

\* A turn ends; _current_turn_id is cleared if it names the turn.
SetTurn(t, state) ==
  /\ turns' = [turns EXCEPT ![t] = state]
  /\ current' = IF current = t THEN NoTurn ELSE current

\* _begin_turn, for a turn that is in the given state when the step ends.
BeginTurn(t, state) ==
  /\ current # NoTurn => IsTerminal(current)
  /\ turnSeq < MaxTurns
  /\ t = turnSeq + 1
  /\ turnSeq' = t
  /\ turns' = [turns EXCEPT ![t] = state]
  /\ current' = IF state = "active" THEN t ELSE NoTurn
  /\ UNCHANGED cancelledIds

\* _complete_turn of an open turn: it raises when the turn was cancelled.
CompleteOutcome(t) == IF t \in cancelledIds THEN "raised" ELSE "done"
CompleteTurn(t) ==
  /\ IF t \in cancelledIds THEN UNCHANGED <<turns, current>> ELSE SetTurn(t, "completed")
  /\ UNCHANGED <<cancelledIds, turnSeq>>

\* Fault: turn.fail does not check that the turn is open.
FailTurn_unchecked(t, events) ==
  /\ Admit(events \cup {<<"Error", t>>})
  /\ SetTurn(t, "failed")
  /\ UNCHANGED <<cancelledIds, turnSeq>>

\* turn.fail and the error event; fail() raises when the turn is terminal.
FailOutcome(t) == IF IsTerminal(t) THEN "raised" ELSE "done"
FailTurn(t, events) ==
  /\ IF IsTerminal(t)
     THEN Admit(events) /\ UNCHANGED <<turns, current>>
     ELSE Admit(events \cup {<<"Error", t>>}) /\ SetTurn(t, "failed")
  /\ UNCHANGED <<cancelledIds, turnSeq>>

\* Either token that _cancel_turn finds is set: the pipeline's, the STT task's.
CancelTokens(t) ==
  /\ tokenCancelled' = IF tokenOf[t] = NoTurn THEN tokenCancelled
                       ELSE tokenCancelled \cup {tokenOf[t]}
  /\ sttTokenCancelled' = IF t \in sttEntries THEN sttTokenCancelled \cup {t}
                          ELSE sttTokenCancelled

\* Fault: the turn's tokens are set but its id is not recorded as cancelled.
CancelTurn_tokensOnly(t, events) ==
  /\ CancelTokens(t)
  /\ SetTurn(t, "cancelled")
  /\ Admit(events \cup {<<"AgentInterrupted", t>>})
  /\ UNCHANGED <<cancelledIds, turnSeq>>

\* Fault: the turn is recorded as cancelled but its own state stays open.
CancelTurn_staysOpen(t, events) ==
  /\ CancelTokens(t)
  /\ cancelledIds' = cancelledIds \cup {t}
  /\ Admit(events \cup {<<"AgentInterrupted", t>>})
  /\ UNCHANGED <<turns, current, turnSeq>>

\* _cancel_turn of an open turn, with the events built in the same step.
CancelTurn(t, events) ==
  /\ CancelTokens(t)
  /\ cancelledIds' = cancelledIds \cup {t}
  /\ SetTurn(t, "cancelled")
  /\ Admit(events \cup {<<"AgentInterrupted", t>>})
  /\ UNCHANGED turnSeq

\* _cleanup_stt_turn
CleanupSttTurn(t) ==
  /\ sttEntries' = sttEntries \ {t}
  /\ queue' = [queue EXCEPT ![t] = <<>>]
  /\ finalizing' = finalizing \ {t}
  /\ speechEnded' = speechEnded \ {t}
  /\ UNCHANGED <<audio, sttTokenCancelled>>

\* The stages of _run_llm_stream before the first request, in order; a
\* collaborator that is not configured is skipped.
FromMemory == IF Has("memory") THEN "memory" ELSE "llm"
FromRag == IF Has("rag") THEN "rag" ELSE FromMemory
FromSummary == IF Has("summary") THEN "summary" ELSE FromRag
StageAfter(stage) == CASE stage = "summary" -> FromRag
                       [] stage = "rag"     -> FromMemory
                       [] OTHER             -> "llm"

\* Fault: only the token is checked, which an error input does not set.
Cancelled_tokenOnly(p) == p \in tokenCancelled

\* Every check `cancel.cancelled or is_turn_cancelled` of a pipeline.
Cancelled(p) == p \in tokenCancelled \/ turnOf[p] \in cancelledIds
SttCancelled(t) == t \in sttTokenCancelled \/ t \in cancelledIds

\* After task.cancel() a task's next step raises CancelledError.
Resumes(p, place) == pc[p] = place /\ p \notin cancelReq

-----------------------------------------------------------------------------
(* start() and stop()                                                      *)

Start ==
  /\ ~running
  /\ running' = TRUE
  /\ status' = "active"
  /\ Admit({<<"SessionStarted", NoTurn>>})
  /\ UNCHANGED <<shutdown, turnVars, transcript, conversation, procVars, tokenVars,
                 sttVars, cancelReq>>

\* Fault: STT tasks are not tracked, so stop() neither cancels nor awaits them.
LiveTasks_untracked == {}

\* STT tasks that are not done: the pending set of _cancel_active_tasks.
LiveTasks == {t \in Turns : pc[t] \notin EndedPCs \cup {"unborn"}}

\* stop() up to its gather, or to its end when no task is pending.  A SHUTDOWN
\* input is the same call, refused once shutdown was requested.
Stop(c) ==
  LET ended == IF LiveTasks = {} THEN {<<"SessionEnded", NoTurn>>} ELSE {}
  IN /\ pc[c] = "idle"
     /\ running
     /\ shutdown' = TRUE
     /\ cancelReq' = cancelReq \cup LiveTasks
     /\ IF current # NoTurn /\ ~IsTerminal(current)
        THEN CancelTurn(current, ended)
        ELSE /\ Admit(ended)
             /\ current' = IF LiveTasks = {} THEN NoTurn ELSE current
             /\ UNCHANGED <<turns, cancelledIds, turnSeq, tokenCancelled, sttTokenCancelled>>
     /\ IF LiveTasks = {}
        THEN running' = FALSE /\ status' = "terminated" /\ UNCHANGED procVars
        ELSE Suspend(c, "stopping", NoTurn, NoStream) /\ UNCHANGED <<running, status>>
     /\ UNCHANGED <<transcript, conversation, tokenOf, queue, audio, sttEntries,
                    finalizing, speechEnded>>

\* The gather of _cancel_active_tasks has returned.
StopFinish(c) ==
  /\ pc[c] = "stopping"
  /\ LiveTasks = {}
  /\ Admit({<<"SessionEnded", NoTurn>>})
  /\ running' = FALSE
  /\ status' = "terminated"
  /\ current' = NoTurn
  /\ Leave(c, "done")
  /\ UNCHANGED <<shutdown, turns, cancelledIds, turnSeq, transcript, conversation,
                 tokenVars, sttVars, cancelReq>>

-----------------------------------------------------------------------------
(* The assistant pipeline: _run_assistant_pipeline, run by a caller or by  *)
(* the STT task of the turn.                                               *)

\* Entry, up to the first suspension.  With no enrichment configured that is
\* the first request, or the failure of a prompt that exceeds the budget.
RunAssistantPipeline(p, t, events) ==
  /\ \/ /\ Suspend(p, FromSummary, t, NoStream)
        /\ tokenOf' = [tokenOf EXCEPT ![t] = p]
        /\ Admit(events)
        /\ UNCHANGED turnVars
     \/ /\ FromSummary = "llm"
        /\ FailTurn(t, events)
        /\ Leave(p, FailOutcome(t))
        /\ tokenOf' = [tokenOf EXCEPT ![t] = NoTurn]
  /\ UNCHANGED tokenCancelled

\* What a step of a pipeline never touches.
PipelineFrame ==
  UNCHANGED <<sessionVars, transcript, queue, audio, sttEntries, sttTokenCancelled,
              speechEnded, cancelReq>>

\* The pipeline wakes up and finds its turn cancelled.
PipelineAborted(p) ==
  /\ pc[p] \in PipelinePCs \ {"tts"} /\ p \notin cancelReq
  /\ Cancelled(p)
  /\ PipelineEnd(p, "done")
  /\ Admit({})
  /\ UNCHANGED <<turnVars, conversation>>
  /\ PipelineFrame

\* Summary, knowledge or memory is ready; the last one leads to assemble(),
\* which may find that the prompt exceeds the token budget.
EnrichDone(p) ==
  /\ pc[p] \in {"summary", "rag", "memory"} /\ p \notin cancelReq
  /\ ~Cancelled(p)
  /\ \/ /\ Suspend(p, StageAfter(pc[p]), turnOf[p], NoStream)
        /\ Admit({})
        /\ UNCHANGED <<turnVars, tokenVars, finalizing>>
     \/ /\ StageAfter(pc[p]) = "llm"
        /\ FailTurn(turnOf[p], {})
        /\ PipelineEnd(p, FailOutcome(turnOf[p]))
  /\ UNCHANGED conversation
  /\ PipelineFrame

\* A chunk of the LLM stream: text, a tool call, or both.
LlmChunk(p) ==
  /\ Resumes(p, "llm")
  /\ ~Cancelled(p)
  /\ stream[p].chunks < MaxChunks
  /\ \E delta \in BOOLEAN, call \in BOOLEAN :
       /\ delta \/ call
       /\ Admit(IF delta THEN {<<"LLMToken", turnOf[p]>>} ELSE {})
       /\ stream' = [stream EXCEPT ![p].chunks = @ + 1,
                                   ![p].calls = IF call THEN @ + 1 ELSE @]
  /\ UNCHANGED <<turnVars, conversation, pc, turnOf, tokenVars, finalizing>>
  /\ PipelineFrame

\* The LLM or the TTS stream raises ProviderError.
ProviderFails(p) ==
  /\ Resumes(p, "llm") \/ Resumes(p, "tts")
  /\ ~Cancelled(p)
  /\ FailTurn(turnOf[p], {})
  /\ PipelineEnd(p, FailOutcome(turnOf[p]))
  /\ UNCHANGED conversation
  /\ PipelineFrame

\* The messages _persist_turn_exchange appends, one commit each.
Exchange(t) == <<[turn |-> t, role |-> "user"], [turn |-> t, role |-> "assistant"]>>

\* _persist_turn_exchange and _complete_turn, unless the turn is terminal.
PersistAndComplete(p) ==
  LET t == turnOf[p]
      writes == Has("conversation") /\ t \notin cancelledIds
  IN \/ /\ IsTerminal(t)
        /\ PipelineEnd(p, "done")
        /\ UNCHANGED <<turnVars, conversation>>
     \/ /\ ~IsTerminal(t)
        /\ conversation' = IF writes THEN conversation \o Exchange(t) ELSE conversation
        /\ CompleteTurn(t)
        /\ PipelineEnd(p, CompleteOutcome(t))
     \/ /\ ~IsTerminal(t) /\ writes /\ RepositoryMayFail
        /\ Len(conversation) < MaxMessages
        /\ \E n \in 0..1 : conversation' = conversation \o SubSeq(Exchange(t), 1, n)
        /\ PipelineEnd(p, "raised")
        /\ UNCHANGED turnVars

\* The LLM stream ends without tool calls: the response is admitted and the
\* pipeline goes on to speech, or to the end of the turn.
LlmResponds(p) ==
  /\ Resumes(p, "llm")
  /\ ~Cancelled(p)
  /\ stream[p].calls = 0
  /\ Admit({<<"LLMResponse", turnOf[p]>>})
  /\ IF Has("tts") /\ ~IsTerminal(turnOf[p])
     THEN /\ Suspend(p, "tts", turnOf[p], NoStream)
          /\ UNCHANGED <<turnVars, conversation, tokenVars, finalizing>>
     ELSE PersistAndComplete(p)
  /\ PipelineFrame

\* Fault: the rounds of the tool loop are not counted.
NextIteration_uncounted(p) ==
  /\ Suspend(p, "llm", turnOf[p], NoStream)
  /\ Admit({})
  /\ UNCHANGED <<turnVars, tokenVars, finalizing>>

\* End of one round of the tool loop: the next request, or the loop limit.
NextIteration(p) ==
  IF stream[p].iteration + 1 < MaxToolIterations
  THEN /\ Suspend(p, "llm", turnOf[p],
                  [NoStream EXCEPT !.iteration = stream[p].iteration + 1])
       /\ Admit({})
       /\ UNCHANGED <<turnVars, tokenVars, finalizing>>
  ELSE /\ FailTurn(turnOf[p], {})
       /\ PipelineEnd(p, FailOutcome(turnOf[p]))

\* The LLM stream ends with tool calls.  Without a tool registry their
\* results are made up on the spot; with one, the executor runs them.
LlmCallsTools(p) ==
  /\ Resumes(p, "llm")
  /\ ~Cancelled(p)
  /\ stream[p].calls > 0
  /\ IF Has("tools")
     THEN /\ Suspend(p, "tools", turnOf[p], stream[p])
          /\ Admit({})
          /\ UNCHANGED <<turnVars, tokenVars, finalizing>>
     ELSE NextIteration(p)
  /\ UNCHANGED conversation
  /\ PipelineFrame

\* The executor returns the result of one tool call.
ToolReturns(p) ==
  /\ Resumes(p, "tools")
  /\ ~Cancelled(p)
  /\ IF stream[p].calls > 1
     THEN /\ stream' = [stream EXCEPT ![p].calls = @ - 1]
          /\ Admit({})
          /\ UNCHANGED <<turnVars, pc, turnOf, tokenVars, finalizing>>
     ELSE NextIteration(p)
  /\ UNCHANGED conversation
  /\ PipelineFrame

TtsChunk(p) ==
  /\ Resumes(p, "tts")
  /\ ~Cancelled(p)
  /\ stream[p].chunks < MaxChunks
  /\ Admit({<<"TTSChunk", turnOf[p]>>})
  /\ stream' = [stream EXCEPT ![p].chunks = @ + 1]
  /\ UNCHANGED <<turnVars, conversation, pc, turnOf, tokenVars, finalizing>>
  /\ PipelineFrame

\* _run_tts_stream returns, at the end of the stream or on a cancelled turn.
TtsReturns(p) ==
  /\ Resumes(p, "tts")
  /\ PersistAndComplete(p)
  /\ Admit({})
  /\ PipelineFrame

PipelineStep(p) ==
  \/ PipelineAborted(p)
  \/ EnrichDone(p)
  \/ LlmChunk(p)
  \/ ProviderFails(p)
  \/ LlmResponds(p)
  \/ LlmCallsTools(p)
  \/ ToolReturns(p)
  \/ TtsChunk(p)
  \/ TtsReturns(p)

-----------------------------------------------------------------------------
(* Inputs: handle_input dispatches them to an idle caller.  Inputs that    *)
(* the code rejects with an exception change nothing and are left out.     *)

\* Fault: inputs are still taken while stop() awaits its tasks.
Accepts_whileStopping(c) == pc[c] = "idle" /\ running

\* handle_input takes the input: it is running and shutdown was not requested.
Accepts(c) == pc[c] = "idle" /\ running /\ ~shutdown

\* TEXT_INPUT.  Without an LLM the turn completes at once; with one, the
\* pipeline runs up to its first suspension or exceeds the budget at once.
HandleTextInput(c) ==
  LET t == turnSeq + 1
  IN /\ Accepts(c)
     /\ \/ /\ ~Has("llm")
           /\ BeginTurn(t, "completed")
           /\ Admit({})
           /\ UNCHANGED <<procVars, tokenVars>>
        \/ /\ Has("llm")
           /\ BeginTurn(t, "active")
           /\ Suspend(c, FromSummary, t, NoStream)
           /\ tokenOf' = [tokenOf EXCEPT ![t] = c]
           /\ Admit({})
           /\ UNCHANGED tokenCancelled
        \/ /\ Has("llm") /\ FromSummary = "llm"
           /\ BeginTurn(t, "failed")
           /\ Admit({<<"Error", t>>})
           /\ UNCHANGED <<procVars, tokenVars>>
     /\ UNCHANGED <<sessionVars, transcript, conversation, sttVars, cancelReq>>

\* USER_SPEECH_STARTED: the turn's STT task is created when STT is configured.
HandleUserSpeechStarted(c) ==
  LET t == turnSeq + 1
  IN /\ Accepts(c)
     /\ BeginTurn(t, "active")
     /\ Admit({<<"UserSpeechStarted", t>>})
     /\ IF Has("stt")
        THEN /\ pc' = [pc EXCEPT ![t] = "transcribing"]
             /\ sttEntries' = sttEntries \cup {t}
        ELSE UNCHANGED <<pc, sttEntries>>
     /\ UNCHANGED <<sessionVars, transcript, conversation, turnOf, stream, tokenVars, queue,
                    audio, sttTokenCancelled, finalizing, speechEnded, cancelReq>>

\* _finalize_speech_turn after its `await task`: tr is the final transcript.
AfterTranscription(p, t, events, tr) ==
  /\ CleanupSttTurn(t)
  /\ \/ /\ ~IsTerminal(t) /\ tr = "text" /\ Has("llm")
        /\ RunAssistantPipeline(p, t, events)
     \/ /\ ~IsTerminal(t) /\ ~(tr = "text" /\ Has("llm"))
        /\ CompleteTurn(t)
        /\ Admit(events)
        /\ Leave(p, CompleteOutcome(t))
        /\ UNCHANGED tokenVars
     \/ /\ IsTerminal(t)
        /\ Admit(events)
        /\ Leave(p, "done")
        /\ UNCHANGED <<turnVars, tokenVars>>

\* _finalize_speech_turn(t) called by p, which admitted `events` before the
\* call in the same step.  A caller waits for the STT task; the task itself
\* goes straight on.
FinalizeSpeechTurn(p, t, events, tr) ==
  LET all == IF t \in speechEnded THEN events ELSE events \cup {<<"UserSpeechEnded", t>>}
  IN \/ /\ IsTerminal(t) \/ t \in finalizing
        /\ Admit(events)
        /\ Leave(p, "done")
        /\ UNCHANGED <<turnVars, tokenVars, sttVars>>
     \/ /\ ~IsTerminal(t) /\ t \notin finalizing /\ ~Has("stt")
        /\ speechEnded' = speechEnded \cup {t}
        /\ Admit(all)
        /\ CompleteTurn(t)
        /\ Leave(p, CompleteOutcome(t))
        /\ UNCHANGED <<tokenVars, queue, audio, sttEntries, sttTokenCancelled, finalizing>>
     \/ /\ ~IsTerminal(t) /\ t \notin finalizing /\ Has("stt")
        /\ t \in sttEntries /\ p # t
        /\ finalizing' = finalizing \cup {t}
        /\ speechEnded' = speechEnded \cup {t}
        /\ queue' = [queue EXCEPT ![t] = Append(@, "end")]
        /\ Admit(all)
        /\ Suspend(p, "await_stt", t, NoStream)
        /\ UNCHANGED <<turnVars, tokenVars, audio, sttEntries, sttTokenCancelled>>
     \/ /\ ~IsTerminal(t) /\ t \notin finalizing /\ Has("stt")
        /\ t \notin sttEntries \/ p = t
        /\ AfterTranscription(p, t, all, tr)

\* USER_SPEECH_ENDED
HandleUserSpeechEnded(c) ==
  /\ Accepts(c)
  /\ current # NoTurn /\ ~IsTerminal(current)
  /\ FinalizeSpeechTurn(c, current, {}, transcript[current])
  /\ UNCHANGED <<sessionVars, transcript, conversation, cancelReq>>

\* The caller's `await task` returns, or raises what the task ended with; then
\* only the finally clause of _finalize_speech_turn runs.
AwaitSttReturns(c) ==
  LET t == turnOf[c]
  IN /\ pc[c] = "await_stt"
     /\ pc[t] \in EndedPCs
     /\ IF pc[t] = "done"
        THEN AfterTranscription(c, t, {}, transcript[t])
        ELSE /\ Leave(c, "raised")
             /\ finalizing' = finalizing \ {t}
             /\ Admit({})
             /\ UNCHANGED <<turnVars, tokenVars, queue, audio, sttEntries,
                            sttTokenCancelled, speechEnded>>
     /\ UNCHANGED <<sessionVars, transcript, conversation, cancelReq>>

\* AUDIO_FRAME: dropped unless the current turn still has an STT queue.
HandleAudioFrame(c) ==
  /\ Accepts(c)
  /\ current \in sttEntries
  /\ Len(queue[current]) < MaxFrames
  /\ queue' = [queue EXCEPT ![current] = Append(@, "frame")]
  /\ Admit({})
  /\ UNCHANGED <<sessionVars, turnVars, transcript, conversation, procVars, tokenVars,
                 audio, sttEntries, sttTokenCancelled, finalizing, speechEnded,
                 cancelReq>>

\* CANCEL_TURN of an open turn; of a terminal one it is a no-op.
HandleCancelTurn(c) ==
  /\ Accepts(c)
  /\ \E t \in Turns : turns[t] = "active" /\ CancelTurn(t, {})
  /\ UNCHANGED <<sessionVars, transcript, conversation, procVars, tokenOf, queue, audio,
                 sttEntries, finalizing, speechEnded, cancelReq>>

\* ERROR: fails the current turn, without setting its cancel tokens.
HandleError(c) ==
  /\ Accepts(c)
  /\ IF current # NoTurn /\ ~IsTerminal(current)
     THEN /\ SetTurn(current, "failed")
          /\ cancelledIds' = cancelledIds \cup {current}
          /\ Admit({<<"Error", current>>})
     ELSE /\ Admit({<<"Error", NoTurn>>})
          /\ UNCHANGED <<turns, current, cancelledIds>>
  /\ UNCHANGED <<sessionVars, turnSeq, transcript, conversation, procVars, tokenVars,
                 sttVars, cancelReq>>

-----------------------------------------------------------------------------
(* The STT task of turn t: _run_stt_stream around an external provider.    *)

\* _audio_from_queue, asked for the next frame.
AudioRequested(t) ==
  /\ Resumes(t, "transcribing")
  /\ audio[t] = "yielded"
  /\ audio' = [audio EXCEPT ![t] = IF t \in sttTokenCancelled THEN "ended" ELSE "waiting"]
  /\ Admit({})
  /\ UNCHANGED <<sessionVars, turnVars, transcript, conversation, procVars, tokenVars,
                 queue, sttEntries, sttTokenCancelled, finalizing, speechEnded,
                 cancelReq>>

\* Fault: the None that ends the speech is not told from a frame.
AudioReceived_missesEnd(t) ==
  /\ Resumes(t, "transcribing")
  /\ audio[t] = "waiting"
  /\ queue[t] # <<>>
  /\ audio' = [audio EXCEPT ![t] = "yielded"]
  /\ queue' = [queue EXCEPT ![t] = Tail(@)]
  /\ Admit({})
  /\ UNCHANGED <<sessionVars, turnVars, transcript, conversation, procVars, tokenVars,
                 sttEntries, sttTokenCancelled, finalizing, speechEnded, cancelReq>>

\* Its queue.get() returns; None ends the audio.
AudioReceived(t) ==
  /\ Resumes(t, "transcribing")
  /\ audio[t] = "waiting"
  /\ queue[t] # <<>>
  /\ audio' = [audio EXCEPT ![t] = IF Head(queue[t]) = "end" THEN "ended" ELSE "yielded"]
  /\ queue' = [queue EXCEPT ![t] = Tail(@)]
  /\ Admit({})
  /\ UNCHANGED <<sessionVars, turnVars, transcript, conversation, procVars, tokenVars,
                 sttEntries, sttTokenCancelled, finalizing, speechEnded, cancelReq>>

\* A partial transcript.
SttPartial(t) ==
  /\ Resumes(t, "transcribing")
  /\ ~SttCancelled(t)
  /\ stream[t].chunks < MaxChunks
  /\ Admit({<<"TranscriptFrame", t>>})
  /\ stream' = [stream EXCEPT ![t].chunks = @ + 1]
  /\ UNCHANGED <<sessionVars, turnVars, transcript, conversation, pc, turnOf, tokenVars,
                 sttVars, cancelReq>>

\* A final transcript, whose text may be blank; the task finalizes the turn.
SttFinal(t) ==
  /\ Resumes(t, "transcribing")
  /\ ~SttCancelled(t)
  /\ \E text \in {"blank", "text"} :
       /\ transcript' = [transcript EXCEPT ![t] = text]
       /\ FinalizeSpeechTurn(t, t, {<<"TranscriptFrame", t>>}, text)
  /\ UNCHANGED <<sessionVars, conversation, cancelReq>>

\* The provider's stream ends, which it does once its audio has ended.
SttEnds(t) ==
  /\ Resumes(t, "transcribing")
  /\ audio[t] = "ended"
  /\ ~SttCancelled(t)
  /\ FinalizeSpeechTurn(t, t, {}, transcript[t])
  /\ UNCHANGED <<sessionVars, transcript, conversation, cancelReq>>

\* The provider yields, fails or ends after the turn was cancelled.
SttAborted(t) ==
  /\ Resumes(t, "transcribing")
  /\ SttCancelled(t)
  /\ Leave(t, "done")
  /\ Admit({})
  /\ UNCHANGED <<sessionVars, turnVars, transcript, conversation, tokenVars, sttVars,
                 cancelReq>>

\* The provider raises ProviderError.
SttFails(t) ==
  /\ Resumes(t, "transcribing")
  /\ ~SttCancelled(t)
  /\ FailTurn(t, {})
  /\ Leave(t, FailOutcome(t))
  /\ UNCHANGED <<sessionVars, transcript, conversation, tokenVars, sttVars, cancelReq>>

\* CancelledError reaches the task: its finally clauses run.
TaskCancelled(t) ==
  /\ t \in cancelReq /\ t \in LiveTasks
  /\ IF pc[t] = "transcribing"
     THEN Leave(t, "cancelled") /\ UNCHANGED <<tokenVars, finalizing>>
     ELSE PipelineEnd(t, "cancelled")
  /\ Admit({})
  /\ UNCHANGED <<sessionVars, turnVars, transcript, conversation, queue, audio,
                 sttEntries, sttTokenCancelled, speechEnded, cancelReq>>

-----------------------------------------------------------------------------

Input(c) ==
  \/ HandleTextInput(c)
  \/ HandleUserSpeechStarted(c)
  \/ HandleUserSpeechEnded(c)
  \/ HandleAudioFrame(c)
  \/ HandleCancelTurn(c)
  \/ HandleError(c)

SttStep(t) ==
  \/ AudioRequested(t)
  \/ AudioReceived(t)
  \/ SttPartial(t)
  \/ SttFinal(t)
  \/ SttEnds(t)
  \/ SttAborted(t)
  \/ SttFails(t)
  \/ TaskCancelled(t)

Next ==
  \/ Start
  \/ \E c \in Callers : Stop(c) \/ StopFinish(c) \/ AwaitSttReturns(c) \/ Input(c)
  \/ \E t \in Turns : SttStep(t)
  \/ \E p \in Procs : PipelineStep(p)

Spec == Init /\ [][Next]_vars

\* What the event loop and finite provider streams guarantee.  Nothing is
\* assumed of the user or of the operator.
Fairness ==
  /\ \A c \in Callers : WF_vars(StopFinish(c)) /\ WF_vars(AwaitSttReturns(c))
  /\ \A p \in Procs : WF_vars(PipelineStep(p))
  /\ \A t \in Turns : /\ WF_vars(AudioRequested(t) \/ AudioReceived(t))
                      /\ WF_vars(SttEnds(t))
                      /\ WF_vars(audio[t] = "ended" /\ SttAborted(t))
                      /\ WF_vars(TaskCancelled(t))

FairSpec == Spec /\ Fairness

-----------------------------------------------------------------------------
(* Properties                                                              *)

SessionTypeOK ==
  /\ running \in BOOLEAN
  /\ shutdown \in BOOLEAN
  /\ status \in {"created", "active", "terminated"}

TurnTypeOK ==
  /\ turns \in [Turns -> TurnStates]
  /\ current \in TurnIds
  /\ cancelledIds \subseteq Turns
  /\ turnSeq \in 0..MaxTurns

EventTypeOK ==
  /\ emitted \subseteq Events
  /\ dropped \subseteq Events

Messages == [turn : Turns, role : {"user", "assistant"}]

DataTypeOK ==
  /\ transcript \in [Turns -> {"none", "blank", "text"}]
  /\ conversation \in Seq(Messages)

Streams == [iteration : Nat, chunks : Nat, calls : Nat]

\* An STT task works on its own turn, a caller on the turn it is suspended in.
ProcTypeOK ==
  /\ pc \in [Procs -> CallerPCs \cup SttPCs]
  /\ \A c \in Callers : pc[c] \in CallerPCs
  /\ \A t \in Turns : pc[t] \in SttPCs
  /\ turnOf \in [Procs -> TurnIds]
  /\ \A t \in Turns : turnOf[t] = t
  /\ \A c \in Callers : pc[c] \in PipelinePCs \cup {"await_stt"} => turnOf[c] \in Turns
  /\ stream \in [Procs -> Streams]

TokenTypeOK ==
  /\ tokenOf \in [Turns -> Procs \cup {NoTurn}]
  /\ tokenCancelled \subseteq Procs

SttTypeOK ==
  /\ queue \in [Turns -> Seq({"frame", "end"})]
  /\ audio \in [Turns -> {"yielded", "waiting", "ended"}]
  /\ sttEntries \subseteq Turns
  /\ sttTokenCancelled \subseteq Turns
  /\ finalizing \subseteq Turns
  /\ speechEnded \subseteq Turns
  /\ cancelReq \subseteq Turns

\* Every variable has its type: in particular a coroutine that is inside a
\* pipeline or awaits an STT task always knows a turn.
TypeOK ==
  /\ SessionTypeOK
  /\ TurnTypeOK
  /\ EventTypeOK
  /\ DataTypeOK
  /\ ProcTypeOK
  /\ TokenTypeOK
  /\ SttTypeOK

\* At most one turn is open, it is the newest one, and _current_turn_id names
\* it: no path leaves a turn ACTIVE that no input can reach any more, or
\* leaves the id of a finished turn behind to block _begin_turn.
ActiveIsCurrent ==
  /\ \A t \in Turns : turns[t] = "active" <=> current = t
  /\ current # NoTurn => current = turnSeq
  /\ \A t \in Turns : turns[t] = "none" <=> t > turnSeq

\* A turn whose id is in cancelled_turn_ids, or whose pipeline or STT token
\* was set, is CANCELLED or FAILED: _complete_turn never meets a cancelled
\* open turn (its StaleTurnEventError is unreachable) and the silent return
\* of _run_tts_stream on a cancelled token never lets the turn be persisted.
CancelledIsTerminal ==
  /\ \A t \in cancelledIds \cup sttTokenCancelled : turns[t] \in {"cancelled", "failed"}
  /\ \A p \in tokenCancelled : turnOf[p] \in cancelledIds

\* The admitted series has no gap (validate_sequence_monotonic): no event is
\* ever built, taking its sequence number, and then refused as stale.
NoSequenceGap == dropped = {}

\* A COMPLETED, CANCELLED or FAILED turn never changes state again, whichever
\* coroutines still run for it (RuntimeTurn._transition).
TerminalIsFinal ==
  [][\A t \in Turns : turns[t] \in TerminalStates => turns'[t] = turns[t]]_vars

\* Once a turn was interrupted by cancel or by a session error, no token,
\* response, speech chunk or transcript of it is admitted, even when several
\* coroutines work on it and only one of their tokens is stored.
NoOutputAfterInterrupt ==
  [][\A t \in Turns :
       turns[t] = "cancelled" \/ t \in cancelledIds =>
         \A type \in STALE_IF_TURN_CANCELLED : <<type, t>> \notin emitted']_vars

\* The committed conversation is a sequence of user/assistant pairs, each of
\* a COMPLETED turn, in turn order and at most one per turn, although two
\* pipelines may race to persist the same turn.
ConversationIsExchanges ==
  LET exchange(i) == conversation[2 * i]
  IN /\ Len(conversation) % 2 = 0
     /\ \A i \in 1 .. Len(conversation) \div 2 :
          /\ conversation[2 * i - 1] = [turn |-> exchange(i).turn, role |-> "user"]
          /\ exchange(i).role = "assistant"
          /\ turns[exchange(i).turn] = "completed"
          /\ i > 1 => exchange(i - 1).turn < exchange(i).turn

\* Once the session is terminated no turn is open and every STT task the
\* runtime created has ended: stop() leaves no task behind.
TerminatedIsQuiet ==
  status = "terminated" =>
    \A t \in Turns : turns[t] # "active" /\ pc[t] \in EndedPCs \cup {"unborn"}

\* Every stop() and every input that suspended returns to its caller.
CallersReturn == \A c \in Callers : pc[c] # "idle" ~> pc[c] = "idle"

\* Once shutdown is requested every coroutine of the runtime ends and none
\* starts again: the STT tasks that stop() cancels and awaits as well as the
\* pipelines that run in callers, which it neither cancels nor awaits.
ShutdownQuiesces ==
  shutdown ~> [](\A p \in Procs : pc[p] \notin PipelinePCs \cup {"transcribing"})

\* Once the user's speech has ended, the turn is eventually closed.
SpeechTurnCloses ==
  \A t \in Turns :
    <<"UserSpeechEnded", t>> \in emitted ~> turns[t] \in TerminalStates

\* When the repository may raise between the two appends of an exchange, a
\* user message can stay without its answer, yet an answer still follows its
\* own question directly and no turn is answered twice.
AnswersFollowQuestions ==
  \A i \in DOMAIN conversation :
    conversation[i].role = "assistant" =>
      /\ i > 1 /\ conversation[i - 1] = [turn |-> conversation[i].turn, role |-> "user"]
      /\ \A j \in DOMAIN conversation : conversation[j] = conversation[i] => j = i

-----------------------------------------------------------------------------
(* AgentRuntime implements TurnLifecycle                                   *)

\* RuntimeTurnLifecycleState.to_turn_status
ToTurnStatus(state) == CASE state = "active"    -> "in_progress"
                         [] state = "completed" -> "committed"
                         [] OTHER               -> state

TL == INSTANCE TurnLifecycle WITH
        turnStatus <- [t \in Turns |-> ToTurnStatus(turns[t])],
        exchanges <- [i \in 1 .. Len(conversation) \div 2 |-> conversation[2 * i].turn],
        closing <- shutdown

\* Seen from outside, whatever coroutines run, the runtime opens turns one
\* after the other, closes each once, and keeps exactly the exchanges of
\* committed turns; a turn cancelled or failed at any await leaves no trace
\* in the conversation.
ImplementsLifecycle == TL!LifecycleSpec

-----------------------------------------------------------------------------
(* What the repository's documents say and the code does not do            *)

\* "two concurrent prepare() invocations for the same session_id can only
\* arise if two separate AgentRuntime instances are erroneously pointed at
\* the same session" (docs/status/phase-3-step-7.md).
OnePrepareAtATime == Cardinality({p \in Procs : pc[p] = "summary"}) <= 1
=============================================================================
