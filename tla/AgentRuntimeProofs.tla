------------------------- MODULE AgentRuntimeProofs -------------------------
(***************************************************************************)
(* Machine-checked proofs about AgentRuntime, for every set of callers,    *)
(* every configuration of collaborators and every bound.                   *)
(***************************************************************************)
EXTENDS AgentRuntime, SequenceTheorems, TLAPS

-----------------------------------------------------------------------------
(* The inductive invariant                                                 *)

\* A coroutine only ever works on a turn that has begun.
WorkIsBegun ==
  \A p \in Procs :
    pc[p] \in PipelinePCs \cup {"transcribing", "await_stt"} => turns[turnOf[p]] # "none"

\* A stored token belongs to a pipeline that runs for that turn; a set token
\* to a pipeline that still runs.
TokensAreLive ==
  /\ \A t \in Turns : \A p \in Procs :
       tokenOf[t] = p => pc[p] \in PipelinePCs /\ turnOf[p] = t
  /\ \A p \in tokenCancelled : pc[p] \in PipelinePCs

\* A CANCELLED turn is in cancelled_turn_ids.
CancelledIsRecorded == \A t \in Turns : turns[t] = "cancelled" => t \in cancelledIds

\* After shutdown was requested no turn is open, and a terminated session has
\* requested it and has no live STT task.
ShutdownIsClosed ==
  /\ shutdown => current = NoTurn
  /\ \A c \in Callers : pc[c] = "stopping" => shutdown
  /\ status = "terminated" => shutdown /\ LiveTasks = {}

IInv ==
  /\ TypeOK
  /\ ActiveIsCurrent
  /\ CancelledIsTerminal
  /\ WorkIsBegun
  /\ TokensAreLive
  /\ CancelledIsRecorded
  /\ ShutdownIsClosed
  /\ NoSequenceGap

-----------------------------------------------------------------------------
(* Types of the building blocks                                            *)

\* The progress of a coroutine that streams nothing is well typed.
LEMMA NoStreamType == NoStream \in Streams
BY DEF NoStream, Streams

\* A process is a caller or the STT task of a turn, never both.
LEMMA TurnsAreNotCallers ==
  /\ \A p \in Procs : p \in Turns <=> p \notin Callers
  /\ NoTurn \notin Procs /\ NoTurn \notin Turns
  /\ \A t \in Turns : t \in Nat /\ t >= 1 /\ t <= MaxTurns
BY CallersAssumption, BoundsAssumption DEF Procs, Turns, TurnIds, NoTurn

\* A coroutine that returns keeps the process table well typed.
LEMMA LeaveType ==
  ASSUME ProcTypeOK, NEW p \in Procs, NEW how \in EndedPCs, Leave(p, how)
  PROVE  ProcTypeOK'
BY TurnsAreNotCallers, NoStreamType
   DEF ProcTypeOK, Leave, CallerPCs, SttPCs, EndedPCs, PipelinePCs, TurnIds, Procs

\* So does a coroutine that awaits, if its place and turn fit its kind.
LEMMA SuspendType ==
  ASSUME ProcTypeOK, NEW p \in Procs, NEW place, NEW t \in TurnIds, NEW s \in Streams,
         p \in Turns => place \in PipelinePCs /\ t = p,
         p \in Callers => \/ place \in PipelinePCs \cup {"await_stt"} /\ t \in Turns
                          \/ place = "stopping",
         Suspend(p, place, t, s)
  PROVE  ProcTypeOK'
BY TurnsAreNotCallers
   DEF ProcTypeOK, Suspend, CallerPCs, SttPCs, EndedPCs, PipelinePCs, TurnIds, Procs

\* admit_event keeps the admitted and the refused events well typed.
LEMMA AdmitType ==
  ASSUME EventTypeOK, NEW events \in SUBSET Events, Admit(events)
  PROVE  EventTypeOK'
BY DEF EventTypeOK, Admit

\* The enrichment stages of _run_llm_stream are places of a pipeline.
LEMMA StageTypes ==
  /\ FromSummary \in PipelinePCs
  /\ \A stage : StageAfter(stage) \in PipelinePCs
BY DEF FromSummary, FromRag, FromMemory, StageAfter, PipelinePCs

-----------------------------------------------------------------------------
(* What a step can do, component by component.  Every action is shown to   *)
(* be such a step; the invariant is then preserved step kind by step kind. *)

\* The open turn t ends in state s; ids are the turn ids newly recorded as
\* cancelled.
Closes(t, s, ids) ==
  /\ turns[t] = "active"
  /\ turns' = [turns EXCEPT ![t] = s]
  /\ current' = NoTurn
  /\ turnSeq' = turnSeq
  /\ cancelledIds' = cancelledIds \cup ids

TurnStep ==
  \/ UNCHANGED turnVars
  \/ ~shutdown /\ \E s \in {"active", "completed", "failed"} : BeginTurn(turnSeq + 1, s)
  \/ \E t \in Turns, s \in {"completed", "failed"} : Closes(t, s, {})
  \/ \E t \in Turns, s \in {"cancelled", "failed"} : Closes(t, s, {t})

Fresh(events) ==
  /\ events \subseteq Events
  /\ \A e \in events : e[1] \in STALE_IF_TURN_CANCELLED => e[2] \notin cancelledIds

EventStep == \E events \in SUBSET Events : Fresh(events) /\ Admit(events)

\* Admitting fresh events is an EventStep.
LEMMA AdmitStep ==
  ASSUME NEW events, Fresh(events), Admit(events)
  PROVE  EventStep
BY DEF EventStep, Fresh

\* Every type and turn make an event.
LEMMA EventMembership ==
  \A type \in EventTypes, t \in TurnIds : <<type, t>> \in Events
BY DEF Events

\* Events that admit_event lets pass: none, those of types that are never
\* stale, and those of turns that are not cancelled.
LEMMA FreshEvents ==
  /\ Fresh({})
  /\ \A type \in EventTypes \ STALE_IF_TURN_CANCELLED, t \in TurnIds :
       Fresh({<<type, t>>}) /\ \A events : Fresh(events) => Fresh(events \cup {<<type, t>>})
  /\ \A type \in STALE_IF_TURN_CANCELLED, t \in Turns :
       t \notin cancelledIds => Fresh({<<type, t>>})
BY DEF Fresh, Events, EventTypes, TurnIds

\* A transition of the open turn closes it.
LEMMA SetTurnStep ==
  ASSUME IInv, NEW t \in Turns, turns[t] = "active", NEW s \in TurnStates, SetTurn(t, s),
         turnSeq' = turnSeq, NEW ids, cancelledIds' = cancelledIds \cup ids
  PROVE  Closes(t, s, ids)
BY DEF IInv, ActiveIsCurrent, SetTurn, Closes

\* _complete_turn on an open turn is a TurnStep.
LEMMA CompleteTurnStep ==
  ASSUME IInv, NEW t \in Turns, turns[t] = "active", CompleteTurn(t)
  PROVE  TurnStep
<1>1. CASE t \in cancelledIds
  BY <1>1 DEF CompleteTurn, TurnStep, turnVars
<1>2. CASE t \notin cancelledIds
  <2>1. SetTurn(t, "completed") /\ turnSeq' = turnSeq /\ cancelledIds' = cancelledIds \cup {}
    BY <1>2 DEF CompleteTurn
  <2>2. Closes(t, "completed", {})
    BY <2>1, SetTurnStep DEF TurnStates
  <2>. QED  BY <2>2 DEF TurnStep
<1>. QED  BY <1>1, <1>2

\* turn.fail closes an open turn and leaves a terminal one alone.
LEMMA FailTurnStep ==
  ASSUME IInv, NEW t \in Turns, turns[t] # "none", NEW events, Fresh(events),
         FailTurn(t, events)
  PROVE  TurnStep /\ EventStep /\ FailOutcome(t) \in EndedPCs
<1>0. FailOutcome(t) \in EndedPCs
  BY DEF FailOutcome, EndedPCs
<1>1. CASE IsTerminal(t)
  BY <1>0, <1>1, AdmitStep DEF FailTurn, TurnStep, turnVars
<1>2. CASE ~IsTerminal(t)
  <2>1. turns[t] = "active"
    BY <1>2 DEF IInv, TypeOK, TurnTypeOK, IsTerminal, TerminalStates, TurnStates
  <2>2. SetTurn(t, "failed") /\ turnSeq' = turnSeq /\ cancelledIds' = cancelledIds \cup {}
    BY <1>2 DEF FailTurn
  <2>3. Closes(t, "failed", {})
    BY <2>1, <2>2, SetTurnStep DEF TurnStates
  <2>4. Fresh(events \cup {<<"Error", t>>})
    BY FreshEvents DEF EventTypes, STALE_IF_TURN_CANCELLED, TurnIds
  <2>5. EventStep
    BY <1>2, <2>4, AdmitStep DEF FailTurn
  <2>. QED  BY <1>0, <2>3, <2>5 DEF TurnStep
<1>. QED  BY <1>1, <1>2

\* _cancel_turn on an open turn records it, closes it and sets its tokens.
LEMMA CancelTurnStep ==
  ASSUME IInv, NEW t \in Turns, turns[t] = "active", NEW events, Fresh(events),
         CancelTurn(t, events)
  PROVE  TurnStep /\ EventStep /\ t \in cancelledIds' /\ CancelTokens(t)
<1>1. Closes(t, "cancelled", {t})
  BY SetTurnStep DEF CancelTurn, TurnStates
<1>2. Fresh(events \cup {<<"AgentInterrupted", t>>})
  BY FreshEvents DEF EventTypes, STALE_IF_TURN_CANCELLED, TurnIds
<1>3. EventStep
  BY <1>2, AdmitStep DEF CancelTurn
<1>. QED  BY <1>1, <1>3 DEF TurnStep, CancelTurn

-----------------------------------------------------------------------------
(* Steps of the coroutines                                                 *)

Working(p) == pc[p] \in PipelinePCs

\* Tokens are left alone, or those of a turn now recorded as cancelled are set.
TokensSet ==
  \/ UNCHANGED tokenCancelled
  \/ \E t \in Turns : t \in cancelledIds' /\ CancelTokens(t)

\* No coroutine moves.
NobodyMoves ==
  /\ UNCHANGED <<pc, turnOf, tokenOf>>
  /\ stream' \in [Procs -> Streams]
  /\ TokensSet

\* A call of stop() suspends in its gather.
StopWaits(c) ==
  /\ pc[c] = "idle" /\ shutdown'
  /\ Suspend(c, "stopping", NoTurn, NoStream)
  /\ UNCHANGED tokenOf
  /\ TokensSet

\* A pipeline goes on to another suspension point.
GoesOn(p) ==
  /\ Working(p)
  /\ \E place \in PipelinePCs, s \in Streams : Suspend(p, place, turnOf[p], s)
  /\ UNCHANGED tokenVars

\* A pipeline ends.
Ends(p) == Working(p) /\ \E how \in EndedPCs : PipelineEnd(p, how)

\* A coroutine that is not in a pipeline returns or raises; a pipeline it
\* entered in the same step has popped the token of its turn.
Returns(p) ==
  /\ ~Working(p) /\ pc[p] # "unborn"
  /\ \E how \in EndedPCs : Leave(p, how)
  /\ \/ UNCHANGED tokenOf
     \/ \E t \in Turns : tokenOf' = [tokenOf EXCEPT ![t] = NoTurn]
  /\ UNCHANGED tokenCancelled

\* A coroutine enters the pipeline of turn t.
Enters(p, t) ==
  /\ pc[p] \in {"idle", "await_stt", "transcribing"}
  /\ p \in Turns => t = p
  /\ turns'[t] # "none"
  /\ Suspend(p, FromSummary, t, NoStream)
  /\ tokenOf' = [tokenOf EXCEPT ![t] = p]
  /\ UNCHANGED tokenCancelled

\* A caller waits for the STT task of turn t.
Awaits(c, t) ==
  /\ pc[c] = "idle"
  /\ turns'[t] # "none"
  /\ Suspend(c, "await_stt", t, NoStream)
  /\ UNCHANGED tokenVars

\* The STT task of the new turn t is created.
TaskStarts(t) ==
  /\ turns[t] = "none" /\ turns'[t] # "none" /\ ~shutdown'
  /\ pc' = [pc EXCEPT ![t] = "transcribing"]
  /\ UNCHANGED <<turnOf, stream, tokenVars>>

ProcStep ==
  \/ NobodyMoves
  \/ \E c \in Callers : StopWaits(c)
  \/ \E p \in Procs : GoesOn(p) \/ Ends(p) \/ Returns(p)
  \/ \E p \in Procs, t \in Turns : Enters(p, t)
  \/ \E c \in Callers, t \in Turns : Awaits(c, t)
  \/ \E t \in Turns : TaskStarts(t)

\* What the type invariant and WorkIsBegun say of a coroutine at work.
LEMMA WorkerTurn ==
  ASSUME IInv, NEW p \in Procs,
         pc[p] \in PipelinePCs \cup {"transcribing", "await_stt"}
  PROVE  /\ turnOf[p] \in Turns
         /\ turns[turnOf[p]] # "none"
         /\ ~IsTerminal(turnOf[p]) => turns[turnOf[p]] = "active"
BY TurnsAreNotCallers
   DEF IInv, TypeOK, ProcTypeOK, TurnTypeOK, WorkIsBegun, IsTerminal, TerminalStates,
       TurnStates, Procs, CallerPCs, SttPCs, PipelinePCs

\* Parts of the state that most actions do not touch.
SameSession == UNCHANGED sessionVars
SessionStep ==
  /\ SessionTypeOK'
  /\ shutdown => shutdown'
  /\ shutdown' => shutdown \/ current' = NoTurn
  /\ status' = "terminated" => \/ status = "terminated"
                               \/ shutdown' /\ LiveTasks = {}

\* The STT bookkeeping keeps its type, and an STT token is set only when its
\* turn is recorded as cancelled.
SttKeeps ==
  /\ SttTypeOK'
  /\ sttTokenCancelled' \subseteq sttTokenCancelled \cup cancelledIds'

\* All that a step of the specification does, and the types of the variables
\* these descriptions leave out.
Step ==
  /\ TurnStep
  /\ EventStep
  /\ ProcStep
  /\ SessionStep
  /\ DataTypeOK'
  /\ SttKeeps

\* A step that leaves the session's status alone is a SessionStep.
LEMMA SameSessionStep == ASSUME IInv, SameSession PROVE SessionStep
BY DEF IInv, TypeOK, SessionTypeOK, SameSession, SessionStep, sessionVars, ShutdownIsClosed

\* The two messages of a turn are messages.
LEMMA ExchangeType ==
  ASSUME NEW t \in Turns
  PROVE  Exchange(t) \in Seq(Messages)
BY DEF Exchange, Messages

\* What all pipeline steps have in common.
LEMMA PipelineFrameStep ==
  ASSUME IInv, PipelineFrame, UNCHANGED finalizing \/ \E t : finalizing' = finalizing \ {t}
  PROVE  /\ SessionStep
         /\ SttKeeps
         /\ UNCHANGED conversation => DataTypeOK'
<1>1. SessionStep
  BY SameSessionStep DEF PipelineFrame, SameSession
<1>2. SttKeeps
  BY DEF PipelineFrame, IInv, TypeOK, SttTypeOK, SttKeeps
<1>3. UNCHANGED conversation => DataTypeOK'
  BY DEF PipelineFrame, IInv, TypeOK, DataTypeOK
<1>. QED  BY <1>1, <1>2, <1>3

-----------------------------------------------------------------------------
(* The steps of a pipeline                                                 *)

\* The cancellation check of the pipeline covers cancelled_turn_ids.
LEMMA NotCancelledTurn ==
  ASSUME NEW p \in Procs, ~Cancelled(p)
  PROVE  turnOf[p] \notin cancelledIds
BY DEF Cancelled

\* The finally clause of the pipeline ends the coroutine's work.
LEMMA PipelineEndFacts ==
  ASSUME NEW p \in Procs, Working(p), NEW how \in EndedPCs, PipelineEnd(p, how)
  PROVE  ProcStep /\ \E t : finalizing' = finalizing \ {t}
BY DEF PipelineEnd, ProcStep, Ends

\* Persisting the exchange and completing the turn, with every outcome.
LEMMA PersistAndCompleteStep ==
  ASSUME IInv, NEW p \in Procs, Working(p), PersistAndComplete(p), PipelineFrame
  PROVE  TurnStep /\ ProcStep /\ SessionStep /\ DataTypeOK' /\ SttKeeps
<1> DEFINE t == turnOf[p]
<1>1. t \in Turns /\ (~IsTerminal(t) => turns[t] = "active")
  BY WorkerTurn DEF Working
<1>2. \E how \in EndedPCs : PipelineEnd(p, how)
  BY DEF PersistAndComplete, CompleteOutcome, EndedPCs
<1>3. ProcStep /\ SessionStep /\ SttKeeps
  BY <1>2, PipelineEndFacts, PipelineFrameStep
<1>4. conversation \in Seq(Messages) /\ Exchange(t) \in Seq(Messages) /\ Len(Exchange(t)) = 2
  BY <1>1, ExchangeType DEF IInv, TypeOK, DataTypeOK, Exchange
<1>5. \A n \in 0..1 : SubSeq(Exchange(t), 1, n) \in Seq(Messages)
  BY <1>4
<1>6. conversation' \in Seq(Messages)
  <2>1. conversation' = conversation \/ \E x \in Seq(Messages) : conversation' = conversation \o x
    BY <1>4, <1>5 DEF PersistAndComplete
  <2>. QED  BY <1>4, <2>1, ConcatProperties
<1>7. DataTypeOK'
  BY <1>6 DEF IInv, TypeOK, DataTypeOK, PipelineFrame
<1>8. TurnStep
  <2>1. UNCHANGED turnVars \/ (~IsTerminal(t) /\ CompleteTurn(t))
    BY DEF PersistAndComplete
  <2>. QED  BY <1>1, <2>1, CompleteTurnStep DEF TurnStep
<1>. QED  BY <1>3, <1>7, <1>8

\* A pipeline that fails its turn and returns.
LEMMA FailPipelineStep ==
  ASSUME IInv, NEW p \in Procs, Working(p), FailTurn(turnOf[p], {}),
         PipelineEnd(p, FailOutcome(turnOf[p])), UNCHANGED conversation, PipelineFrame
  PROVE  Step
<1>1. turnOf[p] \in Turns /\ turns[turnOf[p]] # "none"
  BY WorkerTurn DEF Working
<1>2. TurnStep /\ EventStep /\ FailOutcome(turnOf[p]) \in EndedPCs
  BY <1>1, FailTurnStep, FreshEvents
<1>3. ProcStep /\ \E t : finalizing' = finalizing \ {t}
  BY <1>2, PipelineEndFacts
<1>. QED  BY <1>2, <1>3, PipelineFrameStep DEF Step

\* A pipeline that stays in its loop: only its place and its stream change.
LEMMA GoOnStep ==
  ASSUME IInv, NEW p \in Procs, Working(p), NEW place \in PipelinePCs, NEW s \in Streams,
         Suspend(p, place, turnOf[p], s), EventStep,
         UNCHANGED <<turnVars, tokenVars, finalizing, conversation>>, PipelineFrame
  PROVE  Step
<1>1. ProcStep
  BY DEF ProcStep, GoesOn
<1>2. TurnStep
  BY DEF TurnStep
<1>. QED  BY <1>1, <1>2, PipelineFrameStep DEF Step

\* A stream that advances without a change of place.
LEMMA StreamStep ==
  ASSUME IInv, NEW p \in Procs, Working(p), stream' \in [Procs -> Streams], EventStep,
         UNCHANGED <<turnVars, conversation, pc, turnOf, tokenVars, finalizing>>, PipelineFrame
  PROVE  Step
<1>1. ProcStep
  BY DEF ProcStep, NobodyMoves, TokensSet, tokenVars
<1>2. TurnStep
  BY DEF TurnStep
<1>. QED  BY <1>1, <1>2, PipelineFrameStep DEF Step

\* The next round of the tool loop, or its limit.
LEMMA NextIterationStep ==
  ASSUME IInv, NEW p \in Procs, Working(p), NextIteration(p), UNCHANGED conversation,
         PipelineFrame
  PROVE  Step
<1>1. CASE stream[p].iteration + 1 < MaxToolIterations
  <2> DEFINE s == [NoStream EXCEPT !.iteration = stream[p].iteration + 1]
  <2>1. s \in Streams
    BY DEF IInv, TypeOK, ProcTypeOK, Streams, NoStream
  <2>2. Suspend(p, "llm", turnOf[p], s) /\ Admit({}) /\ UNCHANGED <<turnVars, tokenVars, finalizing>>
    BY <1>1 DEF NextIteration
  <2>3. EventStep
    BY <2>2, AdmitStep, FreshEvents
  <2>. QED  BY <2>1, <2>2, <2>3, GoOnStep DEF PipelinePCs
<1>2. CASE ~(stream[p].iteration + 1 < MaxToolIterations)
  BY <1>2, FailPipelineStep DEF NextIteration
<1>. QED  BY <1>1, <1>2

\* A pipeline that finds its turn cancelled.
LEMMA PipelineAbortedStep ==
  ASSUME IInv, NEW p \in Procs, PipelineAborted(p)
  PROVE  Step
<1>1. Working(p) /\ PipelineEnd(p, "done")
  BY DEF PipelineAborted, Working
<1>2. ProcStep /\ \E t : finalizing' = finalizing \ {t}
  BY <1>1, PipelineEndFacts DEF EndedPCs
<1>3. EventStep
  BY AdmitStep, FreshEvents DEF PipelineAborted
<1>4. TurnStep
  BY DEF TurnStep, PipelineAborted
<1>. QED  BY <1>2, <1>3, <1>4, PipelineFrameStep DEF Step, PipelineAborted

\* Summary, retrieval and memory return.
LEMMA EnrichDoneStep ==
  ASSUME IInv, NEW p \in Procs, EnrichDone(p)
  PROVE  Step
<1>1. Working(p) /\ PipelineFrame /\ UNCHANGED conversation
  BY DEF EnrichDone, Working, PipelinePCs
<1>2. CASE /\ Suspend(p, StageAfter(pc[p]), turnOf[p], NoStream)
           /\ Admit({})
           /\ UNCHANGED <<turnVars, tokenVars, finalizing>>
  <2>1. EventStep
    BY <1>2, AdmitStep, FreshEvents
  <2>. QED  BY <1>1, <1>2, <2>1, StageTypes, NoStreamType, GoOnStep
<1>3. CASE FailTurn(turnOf[p], {}) /\ PipelineEnd(p, FailOutcome(turnOf[p]))
  BY <1>1, <1>3, FailPipelineStep
<1>. QED  BY <1>2, <1>3 DEF EnrichDone

\* A token of the LLM stream.
LEMMA LlmChunkStep ==
  ASSUME IInv, NEW p \in Procs, LlmChunk(p)
  PROVE  Step
<1>1. Working(p) /\ turnOf[p] \in Turns /\ turnOf[p] \notin cancelledIds
  BY WorkerTurn, NotCancelledTurn DEF LlmChunk, Working, Resumes, PipelinePCs
<1>2. PICK delta \in BOOLEAN, call \in BOOLEAN :
        /\ Admit(IF delta THEN {<<"LLMToken", turnOf[p]>>} ELSE {})
        /\ stream' = [stream EXCEPT ![p].chunks = @ + 1,
                                    ![p].calls = IF call THEN @ + 1 ELSE @]
  BY DEF LlmChunk
<1>3. EventStep
  BY <1>1, <1>2, AdmitStep, FreshEvents DEF STALE_IF_TURN_CANCELLED
<1>4. stream' \in [Procs -> Streams]
  <2>1. stream \in [Procs -> Streams]
    BY DEF IInv, TypeOK, ProcTypeOK
  <2> DEFINE first == [stream EXCEPT ![p].chunks = @ + 1]
  <2>2. first \in [Procs -> Streams]
    BY <2>1 DEF Streams
  <2>3. stream' = [first EXCEPT ![p].calls = IF call THEN @ + 1 ELSE @]
    BY <1>2
  <2>. HIDE DEF first
  <2>. QED  BY <2>2, <2>3 DEF Streams
<1>. QED  BY <1>1, <1>3, <1>4, StreamStep DEF LlmChunk

\* A chunk of the TTS stream.
LEMMA TtsChunkStep ==
  ASSUME IInv, NEW p \in Procs, TtsChunk(p)
  PROVE  Step
<1>1. Working(p) /\ turnOf[p] \in Turns /\ turnOf[p] \notin cancelledIds
  BY WorkerTurn, NotCancelledTurn DEF TtsChunk, Working, Resumes, PipelinePCs
<1>2. EventStep
  BY <1>1, AdmitStep, FreshEvents DEF STALE_IF_TURN_CANCELLED, TtsChunk
<1>3. stream' \in [Procs -> Streams]
  BY DEF IInv, TypeOK, ProcTypeOK, Streams, TtsChunk
<1>. QED  BY <1>1, <1>2, <1>3, StreamStep DEF TtsChunk

\* A ProviderError of the LLM or the TTS stream.
LEMMA ProviderFailsStep ==
  ASSUME IInv, NEW p \in Procs, ProviderFails(p)
  PROVE  Step
<1>1. Working(p)
  BY DEF ProviderFails, Working, Resumes, PipelinePCs
<1>. QED  BY <1>1, FailPipelineStep DEF ProviderFails

\* The LLM stream ends with an answer.
LEMMA LlmRespondsStep ==
  ASSUME IInv, NEW p \in Procs, LlmResponds(p)
  PROVE  Step
<1>1. Working(p) /\ turnOf[p] \in Turns /\ turnOf[p] \notin cancelledIds
  BY WorkerTurn, NotCancelledTurn DEF LlmResponds, Working, Resumes, PipelinePCs
<1>2. EventStep
  BY <1>1, AdmitStep, FreshEvents DEF STALE_IF_TURN_CANCELLED, LlmResponds
<1>3. CASE Has("tts") /\ ~IsTerminal(turnOf[p])
  BY <1>1, <1>2, <1>3, GoOnStep, NoStreamType DEF LlmResponds, PipelinePCs
<1>4. CASE ~(Has("tts") /\ ~IsTerminal(turnOf[p]))
  BY <1>1, <1>2, <1>4, PersistAndCompleteStep DEF LlmResponds, Step
<1>. QED  BY <1>3, <1>4

\* The LLM stream ends with tool calls.
LEMMA LlmCallsToolsStep ==
  ASSUME IInv, NEW p \in Procs, LlmCallsTools(p)
  PROVE  Step
<1>1. Working(p) /\ PipelineFrame /\ UNCHANGED conversation /\ stream[p] \in Streams
  BY DEF LlmCallsTools, Working, Resumes, PipelinePCs, IInv, TypeOK, ProcTypeOK
<1>2. CASE Has("tools")
  <2>1. EventStep
    BY <1>2, AdmitStep, FreshEvents DEF LlmCallsTools
  <2>. QED  BY <1>1, <1>2, <2>1, GoOnStep DEF LlmCallsTools, PipelinePCs
<1>3. CASE ~Has("tools")
  BY <1>1, <1>3, NextIterationStep DEF LlmCallsTools
<1>. QED  BY <1>2, <1>3

\* A tool call returns.
LEMMA ToolReturnsStep ==
  ASSUME IInv, NEW p \in Procs, ToolReturns(p)
  PROVE  Step
<1>1. Working(p) /\ PipelineFrame /\ UNCHANGED conversation
  BY DEF ToolReturns, Working, Resumes, PipelinePCs
<1>2. CASE stream[p].calls > 1
  <2>1. EventStep
    BY <1>2, AdmitStep, FreshEvents DEF ToolReturns
  <2>2. stream' \in [Procs -> Streams]
    BY <1>2 DEF ToolReturns, IInv, TypeOK, ProcTypeOK, Streams
  <2>. QED  BY <1>1, <1>2, <2>1, <2>2, StreamStep DEF ToolReturns
<1>3. CASE ~(stream[p].calls > 1)
  BY <1>1, <1>3, NextIterationStep DEF ToolReturns
<1>. QED  BY <1>2, <1>3

\* The TTS stream ends.
LEMMA TtsReturnsStep ==
  ASSUME IInv, NEW p \in Procs, TtsReturns(p)
  PROVE  Step
<1>1. Working(p)
  BY DEF TtsReturns, Working, Resumes, PipelinePCs
<1>2. EventStep
  BY AdmitStep, FreshEvents DEF TtsReturns
<1>. QED  BY <1>1, <1>2, PersistAndCompleteStep DEF TtsReturns, Step

\* Every step of a pipeline is a Step.
LEMMA PipelineStepStep ==
  ASSUME IInv, NEW p \in Procs, PipelineStep(p)
  PROVE  Step
BY PipelineAbortedStep, EnrichDoneStep, LlmChunkStep, ProviderFailsStep, LlmRespondsStep,
   LlmCallsToolsStep, ToolReturnsStep, TtsChunkStep, TtsReturnsStep DEF PipelineStep

-----------------------------------------------------------------------------
(* start() and stop()                                                      *)

\* _current_turn_id, when set, names an open turn.
LEMMA CurrentIsActive ==
  ASSUME IInv, current # NoTurn
  PROVE  current \in Turns /\ turns[current] = "active" /\ ~shutdown /\ ~IsTerminal(current)
BY DEF IInv, TypeOK, TurnTypeOK, ActiveIsCurrent, ShutdownIsClosed, TurnIds, IsTerminal,
       TerminalStates

\* start().
LEMMA StartStep == ASSUME IInv, Start PROVE Step
<1>1. EventStep
  BY AdmitStep, FreshEvents DEF Start, EventTypes, STALE_IF_TURN_CANCELLED, TurnIds
<1>2. ProcStep
  BY DEF Start, ProcStep, NobodyMoves, TokensSet, procVars, tokenVars, IInv, TypeOK, ProcTypeOK
<1>3. SessionStep
  BY DEF Start, SessionStep, IInv, TypeOK, SessionTypeOK
<1>. QED
  BY <1>1, <1>2, <1>3
     DEF Step, Start, TurnStep, IInv, TypeOK, DataTypeOK, SttTypeOK, SttKeeps, sttVars

\* stop() up to its gather.
LEMMA StopStep == ASSUME IInv, NEW c \in Callers, Stop(c) PROVE Step
<1> DEFINE ended == IF LiveTasks = {} THEN {<<"SessionEnded", NoTurn>>} ELSE {}
<1>0. c \in Procs
  BY DEF Procs
<1>1. Fresh(ended)
  BY FreshEvents DEF EventTypes, STALE_IF_TURN_CANCELLED, TurnIds
<1>2. /\ TurnStep /\ EventStep /\ TokensSet /\ current' = NoTurn
      /\ sttTokenCancelled' \subseteq Turns
      /\ sttTokenCancelled' \subseteq sttTokenCancelled \cup cancelledIds'
  <2>1. CASE current # NoTurn
    <3>1. CancelTurn(current, ended)
      BY <2>1, CurrentIsActive DEF Stop
    <3>2. TurnStep /\ EventStep /\ current \in cancelledIds' /\ CancelTokens(current)
      BY <1>1, <2>1, <3>1, CurrentIsActive, CancelTurnStep
    <3>3. current' = NoTurn
      BY <3>1 DEF CancelTurn, SetTurn
    <3>. QED
      BY <2>1, <3>2, <3>3, CurrentIsActive
         DEF TokensSet, CancelTokens, IInv, TypeOK, SttTypeOK, SttKeeps
  <2>2. CASE current = NoTurn
    <3>1. Admit(ended) /\ current' = NoTurn
          /\ UNCHANGED <<turns, cancelledIds, turnSeq, tokenCancelled, sttTokenCancelled>>
      BY <2>2 DEF Stop
    <3>. QED
      BY <1>1, <2>2, <3>1, AdmitStep
         DEF TurnStep, turnVars, TokensSet, IInv, TypeOK, SttTypeOK, SttKeeps
  <2>. QED  BY <2>1, <2>2
<1>3. ProcStep
  <2>1. CASE LiveTasks = {}
    BY <1>2, <2>1 DEF Stop, ProcStep, NobodyMoves, procVars, IInv, TypeOK, ProcTypeOK
  <2>2. CASE LiveTasks # {}
    BY <1>2, <2>2 DEF Stop, ProcStep, StopWaits
  <2>. QED  BY <2>1, <2>2
<1>4. SessionStep
  BY <1>2 DEF Stop, SessionStep, IInv, TypeOK, SessionTypeOK
<1>5. SttKeeps
  BY <1>2 DEF Stop, LiveTasks, IInv, TypeOK, SttTypeOK, SttKeeps
<1>6. DataTypeOK'
  BY DEF Stop, IInv, TypeOK, DataTypeOK
<1>. QED  BY <1>2, <1>3, <1>4, <1>5, <1>6 DEF Step

\* stop() after its gather: no STT task is left.
LEMMA StopFinishStep == ASSUME IInv, NEW c \in Callers, StopFinish(c) PROVE Step
<1>1. EventStep
  BY AdmitStep, FreshEvents DEF StopFinish, EventTypes, STALE_IF_TURN_CANCELLED, TurnIds
<1>2. shutdown /\ current = NoTurn
  BY DEF StopFinish, IInv, ShutdownIsClosed
<1>3. TurnStep
  BY <1>2 DEF StopFinish, TurnStep, turnVars
<1>4. Returns(c)
  BY DEF StopFinish, Returns, Working, PipelinePCs, tokenVars, EndedPCs
<1>5. SessionStep
  BY <1>2 DEF StopFinish, SessionStep, IInv, TypeOK, SessionTypeOK
<1>. QED
  BY <1>1, <1>3, <1>4, <1>5
     DEF Step, StopFinish, ProcStep, Procs, IInv, TypeOK, DataTypeOK, SttTypeOK, SttKeeps, sttVars

-----------------------------------------------------------------------------
(* Finalizing a speech turn                                                *)

\* Who may call _finalize_speech_turn(t): an idle caller, a caller back from
\* its `await task`, or the STT task of t itself.
Finalizer(p, t) ==
  /\ p \in Procs /\ t \in Turns
  /\ turns[t] # "none"
  /\ pc[p] \in {"idle", "await_stt", "transcribing"}
  /\ p \in Turns => t = p

\* Who finalizes a speech turn is not inside a pipeline.
LEMMA FinalizerFacts ==
  ASSUME IInv, NEW p, NEW t, Finalizer(p, t)
  PROVE  /\ ~Working(p) /\ pc[p] # "unborn"
         /\ ~IsTerminal(t) => turns[t] = "active"
BY DEF Finalizer, Working, PipelinePCs, IInv, TypeOK, TurnTypeOK, IsTerminal, TerminalStates,
       TurnStates

\* A finalizer that returns.
LEMMA LeaveStep ==
  ASSUME IInv, NEW p, NEW t, Finalizer(p, t), NEW how \in EndedPCs, Leave(p, how),
         UNCHANGED tokenVars
  PROVE  ProcStep
<1>1. Returns(p)
  BY FinalizerFacts DEF Returns, tokenVars
<1>. QED  BY <1>1 DEF ProcStep, Finalizer

\* A finalizer that enters the pipeline.
LEMMA RunAssistantPipelineStep ==
  ASSUME IInv, NEW p, NEW t, Finalizer(p, t), NEW events, Fresh(events),
         RunAssistantPipeline(p, t, events)
  PROVE  TurnStep /\ EventStep /\ ProcStep
<1>1. CASE /\ Suspend(p, FromSummary, t, NoStream)
           /\ tokenOf' = [tokenOf EXCEPT ![t] = p]
           /\ Admit(events)
           /\ UNCHANGED turnVars
  <2>1. Enters(p, t)
    BY <1>1 DEF Enters, Finalizer, RunAssistantPipeline, turnVars
  <2>. QED  BY <1>1, <2>1, AdmitStep DEF ProcStep, TurnStep, Finalizer
<1>2. CASE /\ FailTurn(t, events)
           /\ Leave(p, FailOutcome(t))
           /\ tokenOf' = [tokenOf EXCEPT ![t] = NoTurn]
  <2>1. TurnStep /\ EventStep /\ FailOutcome(t) \in EndedPCs
    BY <1>2, FailTurnStep DEF Finalizer
  <2>2. Returns(p)
    BY <1>2, <2>1, FinalizerFacts DEF Returns, RunAssistantPipeline, Finalizer
  <2>. QED  BY <2>1, <2>2 DEF ProcStep, Finalizer
<1>. QED  BY <1>1, <1>2 DEF RunAssistantPipeline

\* _complete_turn returns or raises.
LEMMA CompleteOutcomeType == \A t : CompleteOutcome(t) \in EndedPCs
BY DEF CompleteOutcome, EndedPCs

\* _finalize_speech_turn after the transcription has ended.
LEMMA AfterTranscriptionStep ==
  ASSUME IInv, NEW p, NEW t, Finalizer(p, t), NEW events, Fresh(events), NEW tr,
         AfterTranscription(p, t, events, tr), UNCHANGED cancelReq
  PROVE  TurnStep /\ EventStep /\ ProcStep /\ SttKeeps
<1>1. SttKeeps
  <2>1. CleanupSttTurn(t)
    BY DEF AfterTranscription
  <2>2. queue' \in [Turns -> Seq({"frame", "end"})]
    <3>1. <<>> \in Seq({"frame", "end"})
      BY EmptySeq
    <3>. QED  BY <2>1, <3>1 DEF CleanupSttTurn, IInv, TypeOK, SttTypeOK
  <2>. QED  BY <2>1, <2>2 DEF CleanupSttTurn, IInv, TypeOK, SttTypeOK, SttKeeps
<1>2. CASE RunAssistantPipeline(p, t, events)
  BY <1>1, <1>2, RunAssistantPipelineStep
<1>3. CASE /\ ~IsTerminal(t)
           /\ CompleteTurn(t)
           /\ Admit(events)
           /\ Leave(p, CompleteOutcome(t))
           /\ UNCHANGED tokenVars
  BY <1>1, <1>3, FinalizerFacts, CompleteTurnStep, CompleteOutcomeType, LeaveStep, AdmitStep
     DEF Finalizer
<1>4. CASE Admit(events) /\ Leave(p, "done") /\ UNCHANGED <<turnVars, tokenVars>>
  BY <1>1, <1>4, LeaveStep, AdmitStep DEF TurnStep, EndedPCs
<1>. QED  BY <1>2, <1>3, <1>4 DEF AfterTranscription

\* _finalize_speech_turn from its beginning.
LEMMA FinalizeSpeechTurnStep ==
  ASSUME IInv, NEW p, NEW t, Finalizer(p, t), pc[p] # "await_stt", NEW events, Fresh(events),
         NEW tr, FinalizeSpeechTurn(p, t, events, tr), UNCHANGED cancelReq
  PROVE  TurnStep /\ EventStep /\ ProcStep /\ SttKeeps
<1> DEFINE all == IF t \in speechEnded THEN events ELSE events \cup {<<"UserSpeechEnded", t>>}
<1>0. Fresh(all)
  BY FreshEvents DEF Finalizer, EventTypes, STALE_IF_TURN_CANCELLED, TurnIds
<1>1. CASE Admit(events) /\ Leave(p, "done") /\ UNCHANGED <<turnVars, tokenVars, sttVars>>
  BY <1>1, LeaveStep, AdmitStep
     DEF TurnStep, EndedPCs, sttVars, IInv, TypeOK, SttTypeOK, SttKeeps
<1>2. CASE /\ ~IsTerminal(t)
           /\ speechEnded' = speechEnded \cup {t}
           /\ Admit(all)
           /\ CompleteTurn(t)
           /\ Leave(p, CompleteOutcome(t))
           /\ UNCHANGED <<tokenVars, queue, audio, sttEntries, sttTokenCancelled, finalizing>>
  <2>1. TurnStep /\ EventStep /\ ProcStep
    BY <1>0, <1>2, FinalizerFacts, CompleteTurnStep, CompleteOutcomeType, LeaveStep, AdmitStep
       DEF Finalizer
  <2>2. SttKeeps
    BY <1>2 DEF Finalizer, IInv, TypeOK, SttTypeOK, SttKeeps
  <2>. QED  BY <2>1, <2>2
<1>3. CASE /\ p # t
           /\ finalizing' = finalizing \cup {t}
           /\ speechEnded' = speechEnded \cup {t}
           /\ queue' = [queue EXCEPT ![t] = Append(@, "end")]
           /\ Admit(all)
           /\ Suspend(p, "await_stt", t, NoStream)
           /\ UNCHANGED <<turnVars, tokenVars, audio, sttEntries, sttTokenCancelled>>
  <2>1. p \in Callers /\ pc[p] = "idle"
    BY <1>3, TurnsAreNotCallers
       DEF Finalizer, Procs, IInv, TypeOK, ProcTypeOK, CallerPCs, PipelinePCs
  <2>2. Awaits(p, t)
    BY <1>3, <2>1 DEF Awaits, Finalizer, turnVars
  <2>3. SttKeeps
    BY <1>3 DEF Finalizer, IInv, TypeOK, SttTypeOK, SttKeeps
  <2>. QED  BY <1>0, <1>3, <2>1, <2>2, <2>3, AdmitStep DEF TurnStep, ProcStep, Finalizer
<1>4. CASE AfterTranscription(p, t, all, tr)
  BY <1>0, <1>4, AfterTranscriptionStep
<1>. QED  BY <1>1, <1>2, <1>3, <1>4 DEF FinalizeSpeechTurn

-----------------------------------------------------------------------------
(* The inputs                                                              *)

\* Every input leaves the session, and most leave the data, alone.
LEMMA InputFrame ==
  ASSUME IInv, UNCHANGED <<sessionVars, transcript, conversation>>
  PROVE  SessionStep /\ DataTypeOK'
<1>1. SessionStep
  BY SameSessionStep DEF SameSession
<1>2. DataTypeOK'
  BY DEF IInv, TypeOK, DataTypeOK
<1>. QED  BY <1>1, <1>2

\* A step that leaves the STT dictionaries alone.
LEMMA SttUntouched ==
  ASSUME IInv, UNCHANGED <<sttVars, cancelReq>>
  PROVE  SttKeeps
BY DEF IInv, TypeOK, SttTypeOK, SttKeeps, sttVars

\* A step in which no coroutine changes place.
LEMMA NobodyMovesStep ==
  ASSUME IInv, UNCHANGED <<procVars, tokenVars>>
  PROVE  ProcStep
BY DEF ProcStep, NobodyMoves, TokensSet, procVars, tokenVars, IInv, TypeOK, ProcTypeOK

\* _begin_turn takes the next number, which is in range and new.
LEMMA BeginTurnFacts ==
  ASSUME IInv, ~shutdown, NEW s \in {"active", "completed", "failed"},
         BeginTurn(turnSeq + 1, s)
  PROVE  /\ TurnStep
         /\ turnSeq + 1 \in Turns
         /\ turns[turnSeq + 1] = "none" /\ turns'[turnSeq + 1] = s
<1>1. turnSeq \in 0..MaxTurns /\ turnSeq < MaxTurns /\ MaxTurns \in Nat
  BY BoundsAssumption DEF IInv, TypeOK, TurnTypeOK, BeginTurn
<1>2. turnSeq + 1 \in Turns /\ turnSeq + 1 > turnSeq
  BY <1>1 DEF Turns
<1>3. turns[turnSeq + 1] = "none" /\ turns'[turnSeq + 1] = s
  BY <1>2 DEF IInv, TypeOK, TurnTypeOK, ActiveIsCurrent, BeginTurn
<1>. QED  BY <1>2, <1>3 DEF TurnStep

\* TEXT_INPUT.
LEMMA HandleTextInputStep ==
  ASSUME IInv, NEW c \in Callers, HandleTextInput(c)
  PROVE  Step
<1> DEFINE t == turnSeq + 1
<1>0. /\ ~shutdown /\ pc[c] = "idle"
      /\ SessionStep /\ DataTypeOK' /\ SttKeeps
  BY InputFrame, SttUntouched DEF HandleTextInput, Accepts
<1>1. CASE BeginTurn(t, "completed") /\ Admit({}) /\ UNCHANGED <<procVars, tokenVars>>
  BY <1>0, <1>1, BeginTurnFacts, AdmitStep, FreshEvents, NobodyMovesStep DEF Step
<1>2. CASE /\ BeginTurn(t, "active")
           /\ Suspend(c, FromSummary, t, NoStream)
           /\ tokenOf' = [tokenOf EXCEPT ![t] = c]
           /\ Admit({})
           /\ UNCHANGED tokenCancelled
  <2>1. TurnStep /\ t \in Turns /\ turns'[t] = "active"
    BY <1>0, <1>2, BeginTurnFacts
  <2>2. Enters(c, t)
    BY <1>0, <1>2, <2>1, TurnsAreNotCallers DEF Enters, Procs
  <2>3. ProcStep
    BY <2>1, <2>2 DEF ProcStep, Procs
  <2>. QED  BY <1>0, <1>2, <2>1, <2>3, AdmitStep, FreshEvents DEF Step
<1>3. CASE BeginTurn(t, "failed") /\ Admit({<<"Error", t>>}) /\ UNCHANGED <<procVars, tokenVars>>
  <2>1. TurnStep /\ t \in TurnIds
    BY <1>0, <1>3, BeginTurnFacts DEF TurnIds
  <2>2. EventStep
    BY <1>3, <2>1, AdmitStep, FreshEvents DEF EventTypes, STALE_IF_TURN_CANCELLED
  <2>. QED  BY <1>0, <1>3, <2>1, <2>2, NobodyMovesStep DEF Step
<1>. QED  BY <1>1, <1>2, <1>3 DEF HandleTextInput

\* USER_SPEECH_STARTED: a turn begins and its STT task is created.
LEMMA HandleUserSpeechStartedStep ==
  ASSUME IInv, NEW c \in Callers, HandleUserSpeechStarted(c)
  PROVE  Step
<1> DEFINE t == turnSeq + 1
<1>1. ~shutdown /\ ~shutdown' /\ SessionStep /\ DataTypeOK'
  BY InputFrame DEF HandleUserSpeechStarted, Accepts, sessionVars
<1>2. TurnStep /\ t \in Turns /\ turns[t] = "none" /\ turns'[t] = "active"
  BY <1>1, BeginTurnFacts DEF HandleUserSpeechStarted
<1>3. EventStep
  BY <1>2, AdmitStep, FreshEvents
     DEF HandleUserSpeechStarted, EventTypes, STALE_IF_TURN_CANCELLED, TurnIds
<1>4. SttKeeps
  BY <1>2 DEF HandleUserSpeechStarted, IInv, TypeOK, SttTypeOK, SttKeeps
<1>5. ProcStep
  <2>1. CASE Has("stt")
    <3>1. TaskStarts(t)
      BY <1>1, <1>2, <2>1 DEF HandleUserSpeechStarted, TaskStarts
    <3>. QED  BY <1>2, <3>1 DEF ProcStep
  <2>2. CASE ~Has("stt")
    BY <2>2, NobodyMovesStep DEF HandleUserSpeechStarted, procVars
  <2>. QED  BY <2>1, <2>2
<1>. QED  BY <1>1, <1>2, <1>3, <1>4, <1>5 DEF Step

\* USER_SPEECH_ENDED up to its first await.
LEMMA HandleUserSpeechEndedStep ==
  ASSUME IInv, NEW c \in Callers, HandleUserSpeechEnded(c)
  PROVE  Step
<1>1. Finalizer(c, current) /\ pc[c] # "await_stt"
  BY CurrentIsActive, TurnsAreNotCallers DEF HandleUserSpeechEnded, Accepts, Finalizer, Procs
<1>2. TurnStep /\ EventStep /\ ProcStep /\ SttKeeps
  BY <1>1, FinalizeSpeechTurnStep, FreshEvents DEF HandleUserSpeechEnded
<1>. QED  BY <1>2, InputFrame DEF HandleUserSpeechEnded, Step

\* USER_SPEECH_ENDED after the STT task has ended.
LEMMA AwaitSttReturnsStep ==
  ASSUME IInv, NEW c \in Callers, AwaitSttReturns(c)
  PROVE  Step
<1> DEFINE t == turnOf[c]
<1>1. Finalizer(c, t)
  BY WorkerTurn, TurnsAreNotCallers DEF AwaitSttReturns, Finalizer, Procs
<1>2. CASE pc[t] = "done"
  <2>1. TurnStep /\ EventStep /\ ProcStep /\ SttKeeps
    BY <1>1, <1>2, AfterTranscriptionStep, FreshEvents DEF AwaitSttReturns
  <2>. QED  BY <2>1, InputFrame DEF AwaitSttReturns, Step
<1>3. CASE pc[t] # "done"
  <2>1. TurnStep /\ EventStep
    BY <1>3, AdmitStep, FreshEvents DEF AwaitSttReturns, TurnStep
  <2>2. ProcStep
    BY <1>1, <1>3, LeaveStep DEF AwaitSttReturns, EndedPCs
  <2>3. SttKeeps
    BY <1>3 DEF AwaitSttReturns, IInv, TypeOK, SttTypeOK, SttKeeps
  <2>. QED  BY <2>1, <2>2, <2>3, InputFrame DEF AwaitSttReturns, Step
<1>. QED  BY <1>2, <1>3

\* AUDIO_FRAME.
LEMMA HandleAudioFrameStep ==
  ASSUME IInv, NEW c \in Callers, HandleAudioFrame(c)
  PROVE  Step
<1>1. TurnStep /\ EventStep /\ ProcStep
  BY AdmitStep, FreshEvents, NobodyMovesStep DEF HandleAudioFrame, TurnStep
<1>2. SttKeeps
  BY DEF HandleAudioFrame, IInv, TypeOK, SttTypeOK, SttKeeps
<1>. QED  BY <1>1, <1>2, InputFrame DEF HandleAudioFrame, Step

\* CANCEL_TURN.
LEMMA HandleCancelTurnStep ==
  ASSUME IInv, NEW c \in Callers, HandleCancelTurn(c)
  PROVE  Step
<1>1. PICK t \in Turns : turns[t] = "active" /\ CancelTurn(t, {})
  BY DEF HandleCancelTurn
<1>2. TurnStep /\ EventStep /\ t \in cancelledIds' /\ CancelTokens(t)
  BY <1>1, CancelTurnStep, FreshEvents
<1>3. ProcStep
  BY <1>2 DEF HandleCancelTurn, ProcStep, NobodyMoves, TokensSet, procVars, IInv, TypeOK,
              ProcTypeOK
<1>4. SttKeeps
  BY <1>2 DEF HandleCancelTurn, CancelTokens, IInv, TypeOK, SttTypeOK, SttKeeps
<1>. QED  BY <1>2, <1>3, <1>4, InputFrame DEF HandleCancelTurn, Step

\* ERROR.
LEMMA HandleErrorStep ==
  ASSUME IInv, NEW c \in Callers, HandleError(c)
  PROVE  Step
<1>1. ProcStep /\ SttKeeps /\ SessionStep /\ DataTypeOK'
  BY NobodyMovesStep, SttUntouched, InputFrame DEF HandleError
<1>2. CASE current # NoTurn
  <2>1. current \in Turns /\ turns[current] = "active" /\ ~IsTerminal(current)
    BY <1>2, CurrentIsActive
  <2>2. Closes(current, "failed", {current})
    BY <1>2, <2>1, SetTurnStep DEF HandleError, TurnStates
  <2>3. EventStep
    BY <1>2, <2>1, AdmitStep, FreshEvents
       DEF HandleError, EventTypes, STALE_IF_TURN_CANCELLED, TurnIds
  <2>. QED  BY <1>1, <2>1, <2>2, <2>3 DEF Step, TurnStep
<1>3. CASE current = NoTurn
  <2>1. EventStep
    BY <1>3, AdmitStep, FreshEvents
       DEF HandleError, EventTypes, STALE_IF_TURN_CANCELLED, TurnIds
  <2>. QED  BY <1>1, <1>3, <2>1 DEF HandleError, Step, TurnStep, turnVars
<1>. QED  BY <1>2, <1>3

\* Every input is a Step.
LEMMA InputStep ==
  ASSUME IInv, NEW c \in Callers, Input(c)
  PROVE  Step
BY HandleTextInputStep, HandleUserSpeechStartedStep, HandleUserSpeechEndedStep,
   HandleAudioFrameStep, HandleCancelTurnStep, HandleErrorStep DEF Input

-----------------------------------------------------------------------------
(* The STT task                                                            *)

\* An STT task that transcribes may finalize its own turn, or end.
LEMMA TranscribingFacts ==
  ASSUME IInv, NEW t \in Turns, pc[t] = "transcribing"
  PROVE  Finalizer(t, t) /\ turns[t] # "none"
<1>1. t \in Procs /\ turnOf[t] = t
  BY DEF Procs, IInv, TypeOK, ProcTypeOK
<1>. QED  BY <1>1, WorkerTurn DEF Finalizer

\* The STT task asks for audio, or gets it.
LEMMA AudioStep ==
  ASSUME IInv, NEW t \in Turns, AudioRequested(t) \/ AudioReceived(t)
  PROVE  Step
<1>1. /\ Admit({}) /\ UNCHANGED turnVars
      /\ UNCHANGED <<procVars, tokenVars>>
      /\ UNCHANGED <<sessionVars, transcript, conversation>>
  BY DEF AudioRequested, AudioReceived
<1>2. TurnStep /\ EventStep /\ ProcStep /\ SessionStep /\ DataTypeOK'
  BY <1>1, AdmitStep, FreshEvents, NobodyMovesStep, InputFrame DEF TurnStep
<1>3. audio' \in [Turns -> {"yielded", "waiting", "ended"}]
  BY DEF AudioRequested, AudioReceived, IInv, TypeOK, SttTypeOK
<1>4. queue' \in [Turns -> Seq({"frame", "end"})]
  <2>1. CASE AudioRequested(t)
    BY <2>1 DEF AudioRequested, IInv, TypeOK, SttTypeOK
  <2>2. CASE AudioReceived(t)
    <3>1. queue[t] \in Seq({"frame", "end"}) /\ queue[t] # <<>>
      BY <2>2 DEF AudioReceived, IInv, TypeOK, SttTypeOK
    <3>2. Tail(queue[t]) \in Seq({"frame", "end"})
      BY <3>1
    <3>. QED  BY <2>2, <3>2 DEF AudioReceived, IInv, TypeOK, SttTypeOK
  <2>. QED  BY <2>1, <2>2
<1>5. SttKeeps
  BY <1>3, <1>4 DEF AudioRequested, AudioReceived, IInv, TypeOK, SttTypeOK, SttKeeps
<1>. QED  BY <1>2, <1>5 DEF Step

\* A partial transcript.
LEMMA SttPartialStep ==
  ASSUME IInv, NEW t \in Turns, SttPartial(t)
  PROVE  Step
<1>1. EventStep
  BY AdmitStep, FreshEvents DEF SttPartial, SttCancelled, STALE_IF_TURN_CANCELLED
<1>2. stream' \in [Procs -> Streams]
  BY DEF SttPartial, IInv, TypeOK, ProcTypeOK, Streams, Procs
<1>3. ProcStep
  BY <1>2 DEF SttPartial, ProcStep, NobodyMoves, TokensSet, tokenVars
<1>4. TurnStep
  BY DEF SttPartial, TurnStep
<1>. QED  BY <1>1, <1>3, <1>4, InputFrame, SttUntouched DEF SttPartial, Step

\* A final transcript.
LEMMA SttFinalStep ==
  ASSUME IInv, NEW t \in Turns, SttFinal(t)
  PROVE  Step
<1>1. PICK text \in {"blank", "text"} :
        /\ transcript' = [transcript EXCEPT ![t] = text]
        /\ FinalizeSpeechTurn(t, t, {<<"TranscriptFrame", t>>}, text)
  BY DEF SttFinal
<1>2. Finalizer(t, t) /\ pc[t] # "await_stt"
  BY TranscribingFacts DEF SttFinal, Resumes
<1>3. Fresh({<<"TranscriptFrame", t>>})
  BY FreshEvents DEF SttFinal, SttCancelled, STALE_IF_TURN_CANCELLED
<1>4. TurnStep /\ EventStep /\ ProcStep /\ SttKeeps
  BY <1>1, <1>2, <1>3, FinalizeSpeechTurnStep DEF SttFinal
<1>5. SessionStep
  BY SameSessionStep DEF SttFinal, SameSession
<1>6. DataTypeOK'
  BY <1>1 DEF SttFinal, IInv, TypeOK, DataTypeOK
<1>. QED  BY <1>4, <1>5, <1>6 DEF Step

\* The STT stream ends and the task finalizes its turn.
LEMMA SttEndsStep ==
  ASSUME IInv, NEW t \in Turns, SttEnds(t)
  PROVE  Step
<1>1. Finalizer(t, t) /\ pc[t] # "await_stt"
  BY TranscribingFacts DEF SttEnds, Resumes
<1>2. TurnStep /\ EventStep /\ ProcStep /\ SttKeeps
  BY <1>1, FreshEvents, FinalizeSpeechTurnStep DEF SttEnds
<1>. QED  BY <1>2, InputFrame DEF SttEnds, Step

\* The STT task finds its turn cancelled.
LEMMA SttAbortedStep ==
  ASSUME IInv, NEW t \in Turns, SttAborted(t)
  PROVE  Step
<1>1. ProcStep
  BY TranscribingFacts, LeaveStep DEF SttAborted, Resumes, EndedPCs
<1>2. TurnStep /\ EventStep
  BY AdmitStep, FreshEvents DEF SttAborted, TurnStep
<1>. QED  BY <1>1, <1>2, InputFrame, SttUntouched DEF SttAborted, Step

\* A ProviderError of the STT stream.
LEMMA SttFailsStep ==
  ASSUME IInv, NEW t \in Turns, SttFails(t)
  PROVE  Step
<1>1. Finalizer(t, t) /\ turns[t] # "none"
  BY TranscribingFacts DEF SttFails, Resumes
<1>2. TurnStep /\ EventStep /\ FailOutcome(t) \in EndedPCs
  BY <1>1, FailTurnStep, FreshEvents DEF SttFails
<1>3. ProcStep
  BY <1>1, <1>2, LeaveStep DEF SttFails
<1>. QED  BY <1>2, <1>3, InputFrame, SttUntouched DEF SttFails, Step

\* CancelledError reaches an STT task.
LEMMA TaskCancelledStep ==
  ASSUME IInv, NEW t \in Turns, TaskCancelled(t)
  PROVE  Step
<1>1. TurnStep /\ EventStep /\ SessionStep /\ DataTypeOK'
  BY AdmitStep, FreshEvents, InputFrame DEF TaskCancelled, TurnStep
<1>2. SttKeeps
  BY DEF TaskCancelled, PipelineEnd, IInv, TypeOK, SttTypeOK, SttKeeps
<1>3. ProcStep
  <2>1. CASE pc[t] = "transcribing"
    BY <2>1, TranscribingFacts, LeaveStep DEF TaskCancelled, EndedPCs
  <2>2. CASE pc[t] # "transcribing"
    <3>1. t \in Procs /\ Working(t)
      BY <2>2 DEF TaskCancelled, LiveTasks, Working, Procs, SttPCs, IInv, TypeOK, ProcTypeOK
    <3>. QED  BY <2>2, <3>1, PipelineEndFacts DEF TaskCancelled, EndedPCs
  <2>. QED  BY <2>1, <2>2
<1>. QED  BY <1>1, <1>2, <1>3 DEF Step

\* Every step of an STT task is a Step.
LEMMA SttStepStep ==
  ASSUME IInv, NEW t \in Turns, SttStep(t)
  PROVE  Step
BY AudioStep, SttPartialStep, SttFinalStep, SttEndsStep, SttAbortedStep, SttFailsStep,
   TaskCancelledStep DEF SttStep

\* Every step of the specification is a Step.
LEMMA NextStep == ASSUME IInv, Next PROVE Step
BY StartStep, StopStep, StopFinishStep, AwaitSttReturnsStep, InputStep, SttStepStep,
   PipelineStepStep DEF Next

-----------------------------------------------------------------------------
(* A step preserves the invariant, part by part                            *)

\* What a step does to the turns and to cancelled_turn_ids.
LEMMA TurnStepFacts ==
  ASSUME IInv, TurnStep
  PROVE  /\ TurnTypeOK'
         /\ cancelledIds \subseteq cancelledIds'
         /\ \A t \in Turns : turns[t] # "none" => turns'[t] # "none"
         /\ \A t \in Turns : turns[t] \in TerminalStates => turns'[t] = turns[t]
         /\ \A t \in cancelledIds' \ cancelledIds : turns'[t] \in {"cancelled", "failed"}
         /\ shutdown => current' = NoTurn
<1> USE DEF IInv, TypeOK, TurnTypeOK, TurnStates, TerminalStates, TurnIds
<1>1. CASE UNCHANGED turnVars
  BY <1>1 DEF turnVars, ShutdownIsClosed
<1>2. CASE ~shutdown /\ \E s \in {"active", "completed", "failed"} : BeginTurn(turnSeq + 1, s)
  <2>1. PICK s \in {"active", "completed", "failed"} : BeginTurn(turnSeq + 1, s)
    BY <1>2
  <2>2. turnSeq + 1 \in Turns /\ turns[turnSeq + 1] = "none"
    BY <1>2, <2>1, BeginTurnFacts
  <2>3. turnSeq + 1 \in 0..MaxTurns
    BY <2>2, BoundsAssumption DEF Turns
  <2>. QED  BY <1>2, <2>1, <2>2, <2>3 DEF BeginTurn
<1>3. CASE \E t \in Turns, s \in {"completed", "failed"} : Closes(t, s, {})
  BY <1>3 DEF Closes
<1>4. CASE \E t \in Turns, s \in {"cancelled", "failed"} : Closes(t, s, {t})
  BY <1>4 DEF Closes
<1>. QED  BY <1>1, <1>2, <1>3, <1>4 DEF TurnStep

\* A TurnStep keeps the one open turn current.
LEMMA ActiveIsCurrentStep == ASSUME IInv, TurnStep PROVE ActiveIsCurrent'
<1> USE DEF IInv, TypeOK, TurnTypeOK, TurnIds, ActiveIsCurrent
<1>0. NoTurn \notin Turns
  BY TurnsAreNotCallers
<1>1. CASE UNCHANGED turnVars
  BY <1>1 DEF turnVars
<1>2. CASE ~shutdown /\ \E s \in {"active", "completed", "failed"} : BeginTurn(turnSeq + 1, s)
  <2>1. PICK s \in {"active", "completed", "failed"} : BeginTurn(turnSeq + 1, s)
    BY <1>2
  <2>2. turnSeq + 1 \in Turns /\ turns[turnSeq + 1] = "none" /\ turnSeq \in Nat
    BY <1>2, <2>1, BeginTurnFacts, BoundsAssumption
  <2>3. \A t \in Turns : turns[t] # "active"
    <3>1. current = NoTurn
      BY <2>1, CurrentIsActive DEF BeginTurn
    <3>. QED  BY <1>0, <3>1
  <2>4. \A t \in Turns : t \in Nat
    BY TurnsAreNotCallers
  <2>. QED  BY <1>0, <2>1, <2>2, <2>3, <2>4 DEF BeginTurn
<1>3. CASE \E t \in Turns, s \in {"completed", "failed", "cancelled"} : \E ids : Closes(t, s, ids)
  BY <1>0, <1>3 DEF Closes
<1>. QED  BY <1>1, <1>2, <1>3 DEF TurnStep

\* A TurnStep that cancels a turn records its id.
LEMMA CancelledIsRecordedStep == ASSUME IInv, TurnStep PROVE CancelledIsRecorded'
<1> USE DEF IInv, TypeOK, TurnTypeOK, CancelledIsRecorded
<1>1. CASE UNCHANGED turnVars
  BY <1>1 DEF turnVars
<1>2. CASE \E s \in {"active", "completed", "failed"} : BeginTurn(turnSeq + 1, s)
  BY <1>2 DEF BeginTurn
<1>3. CASE \E t \in Turns, s \in {"completed", "failed"} : Closes(t, s, {})
  BY <1>3 DEF Closes
<1>4. CASE \E t \in Turns, s \in {"cancelled", "failed"} : Closes(t, s, {t})
  BY <1>4 DEF Closes
<1>. QED  BY <1>1, <1>2, <1>3, <1>4 DEF TurnStep

\* Fresh events leave no gap.
LEMMA EventStepFacts ==
  ASSUME IInv, EventStep
  PROVE  EventTypeOK' /\ NoSequenceGap'
<1>1. PICK events \in SUBSET Events : Fresh(events) /\ Admit(events)
  BY DEF EventStep
<1>2. EventTypeOK'
  BY <1>1, AdmitType DEF IInv, TypeOK
<1>3. NoSequenceGap'
  BY <1>1 DEF Fresh, Admit, IInv, NoSequenceGap
<1>. QED  BY <1>2, <1>3

\* An idle or transcribing coroutine has no pipeline token.
LEMMA NoTokenOutside ==
  ASSUME IInv, NEW p \in Procs, ~Working(p)
  PROVE  p \notin tokenCancelled /\ \A t \in Turns : tokenOf[t] # p
BY DEF IInv, TokensAreLive, Working

\* A token that is set belongs to a running pipeline of a cancelled turn.
LEMMA TokensSetFacts ==
  ASSUME IInv, cancelledIds \subseteq cancelledIds', TokensSet
  PROVE  /\ tokenCancelled' \subseteq Procs
         /\ \A p \in tokenCancelled' : Working(p) /\ turnOf[p] \in cancelledIds'
<1> USE DEF IInv, TypeOK, TokenTypeOK, TokensAreLive, CancelledIsTerminal, Working
<1>1. CASE UNCHANGED tokenCancelled
  BY <1>1
<1>2. CASE \E t \in Turns : t \in cancelledIds' /\ CancelTokens(t)
  <2>1. PICK t \in Turns : t \in cancelledIds' /\ CancelTokens(t)
    BY <1>2
  <2>2. CASE tokenOf[t] = NoTurn
    BY <2>1, <2>2 DEF CancelTokens
  <2>3. CASE tokenOf[t] # NoTurn
    <3>1. tokenOf[t] \in Procs /\ Working(tokenOf[t]) /\ turnOf[tokenOf[t]] = t
      BY <2>3
    <3>. QED  BY <2>1, <2>3, <3>1 DEF CancelTokens
  <2>. QED  BY <2>2, <2>3
<1>. QED  BY <1>1, <1>2 DEF TokensSet

\* The parts of the invariant that speak of coroutines.
ProcInv ==
  /\ ProcTypeOK
  /\ TokenTypeOK
  /\ WorkIsBegun
  /\ TokensAreLive
  /\ \A p \in tokenCancelled : turnOf[p] \in cancelledIds

\* The invariants of the processes when no coroutine moves.
LEMMA NobodyMovesInv == ASSUME IInv, TurnStep, NobodyMoves PROVE ProcInv'
<1>1. /\ cancelledIds \subseteq cancelledIds'
      /\ \A t \in Turns : turns[t] # "none" => turns'[t] # "none"
  BY TurnStepFacts
<1>2. /\ tokenCancelled' \subseteq Procs
      /\ \A p \in tokenCancelled' : Working(p) /\ turnOf[p] \in cancelledIds'
  BY <1>1, TokensSetFacts DEF NobodyMoves
<1>3. ProcTypeOK' /\ TokenTypeOK'
  BY <1>2 DEF NobodyMoves, IInv, TypeOK, ProcTypeOK, TokenTypeOK
<1>4. WorkIsBegun'
  BY <1>1, WorkerTurn DEF NobodyMoves, WorkIsBegun
<1>5. TokensAreLive'
  BY <1>2 DEF NobodyMoves, TokensAreLive, Working, IInv
<1>. QED  BY <1>2, <1>3, <1>4, <1>5 DEF ProcInv, NobodyMoves

\* The same when a caller enters the gather of stop().
LEMMA StopWaitsInv == ASSUME IInv, TurnStep, NEW c \in Callers, StopWaits(c) PROVE ProcInv'
<1>0. c \in Procs /\ NoTurn \in TurnIds /\ ~Working(c)
  BY DEF Procs, TurnIds, StopWaits, Working, PipelinePCs
<1>1. /\ cancelledIds \subseteq cancelledIds'
      /\ \A t \in Turns : turns[t] # "none" => turns'[t] # "none"
  BY TurnStepFacts
<1>2. /\ tokenCancelled' \subseteq Procs
      /\ \A p \in tokenCancelled' : Working(p) /\ turnOf[p] \in cancelledIds'
  BY <1>1, TokensSetFacts DEF StopWaits
<1>3. ProcTypeOK'
  BY <1>0, TurnsAreNotCallers, NoStreamType, SuspendType DEF StopWaits, IInv, TypeOK
<1>4. TokenTypeOK'
  BY <1>2 DEF StopWaits, IInv, TypeOK, TokenTypeOK
<1>5. /\ pc'[c] = "stopping"
      /\ \A p \in Procs \ {c} : pc'[p] = pc[p] /\ turnOf'[p] = turnOf[p]
  BY <1>0 DEF StopWaits, Suspend, IInv, TypeOK, ProcTypeOK
<1>6. WorkIsBegun'
  BY <1>1, <1>5, WorkerTurn DEF WorkIsBegun, PipelinePCs
<1>7. TokensAreLive'
  BY <1>0, <1>2, <1>5, NoTokenOutside DEF StopWaits, TokensAreLive, Working, IInv
<1>. QED  BY <1>0, <1>2, <1>3, <1>4, <1>5, <1>6, <1>7 DEF ProcInv

\* The same when a pipeline goes on.
LEMMA GoesOnInv == ASSUME IInv, TurnStep, NEW p \in Procs, GoesOn(p) PROVE ProcInv'
<1>1. /\ cancelledIds \subseteq cancelledIds'
      /\ \A t \in Turns : turns[t] # "none" => turns'[t] # "none"
  BY TurnStepFacts
<1>2. turnOf[p] \in Turns /\ turns[turnOf[p]] # "none" /\ (p \in Turns => turnOf[p] = p)
  BY WorkerTurn DEF GoesOn, Working, IInv, TypeOK, ProcTypeOK
<1>3. PICK place \in PipelinePCs, s \in Streams : Suspend(p, place, turnOf[p], s)
  BY DEF GoesOn
<1>4. ProcTypeOK'
  BY <1>2, <1>3, SuspendType DEF IInv, TypeOK, TurnIds
<1>5. /\ pc'[p] = place /\ \A q \in Procs : turnOf'[q] = turnOf[q]
      /\ \A q \in Procs \ {p} : pc'[q] = pc[q]
  BY <1>3 DEF Suspend, IInv, TypeOK, ProcTypeOK
<1>6. WorkIsBegun'
  BY <1>1, <1>2, <1>5, WorkerTurn DEF WorkIsBegun
<1>7. TokensAreLive'
  BY <1>5 DEF GoesOn, Working, TokensAreLive, IInv, TypeOK, TokenTypeOK, tokenVars
<1>8. TokenTypeOK' /\ \A q \in tokenCancelled' : turnOf'[q] \in cancelledIds'
  BY <1>1, <1>5 DEF GoesOn, IInv, TypeOK, TokenTypeOK, CancelledIsTerminal, tokenVars
<1>. QED  BY <1>4, <1>6, <1>7, <1>8 DEF ProcInv

\* Ends and Returns: p leaves, and the token of at most one turn is popped.
LEMMA LeaveInv ==
  ASSUME IInv, TurnStep, NEW p \in Procs, NEW how \in EndedPCs, Leave(p, how),
         tokenOf' \in [Turns -> Procs \cup {NoTurn}],
         \A t \in Turns : tokenOf'[t] \in {NoTurn, tokenOf[t]} \ {p},
         tokenCancelled' = tokenCancelled \ {p}
  PROVE  ProcInv'
<1>1. /\ cancelledIds \subseteq cancelledIds'
      /\ \A t \in Turns : turns[t] # "none" => turns'[t] # "none"
  BY TurnStepFacts
<1>2. ProcTypeOK'
  BY LeaveType DEF IInv, TypeOK
<1>3. TokenTypeOK'
  BY DEF IInv, TypeOK, TokenTypeOK
<1>4. /\ pc'[p] \in EndedPCs \cup {"idle"}
      /\ \A q \in Procs \ {p} : pc'[q] = pc[q] /\ turnOf'[q] = turnOf[q]
  BY DEF Leave, IInv, TypeOK, ProcTypeOK
<1>5. WorkIsBegun'
  BY <1>1, <1>4, WorkerTurn DEF WorkIsBegun, EndedPCs, PipelinePCs
<1>6. TokensAreLive'
  <2>1. ASSUME NEW t \in Turns, NEW q \in Procs, tokenOf'[t] = q
        PROVE  pc'[q] \in PipelinePCs /\ turnOf'[q] = t
    <3>1. q # p /\ q = tokenOf[t]
      BY <2>1, TurnsAreNotCallers
    <3>. QED  BY <1>4, <3>1 DEF IInv, TokensAreLive
  <2>2. \A q \in tokenCancelled' : pc'[q] \in PipelinePCs
    BY <1>4 DEF IInv, TypeOK, TokenTypeOK, TokensAreLive
  <2>. QED  BY <2>1, <2>2 DEF TokensAreLive
<1>7. \A q \in tokenCancelled' : turnOf'[q] \in cancelledIds'
  BY <1>1, <1>4 DEF IInv, TypeOK, TokenTypeOK, CancelledIsTerminal
<1>. QED  BY <1>2, <1>3, <1>5, <1>6, <1>7 DEF ProcInv

\* The same when a pipeline ends.
LEMMA EndsInv == ASSUME IInv, TurnStep, NEW p \in Procs, Ends(p) PROVE ProcInv'
<1>1. PICK how \in EndedPCs : PipelineEnd(p, how)
  BY DEF Ends
<1>2. turnOf[p] \in Turns /\ tokenOf \in [Turns -> Procs \cup {NoTurn}] /\ NoTurn \notin Procs
  BY WorkerTurn, TurnsAreNotCallers DEF Ends, Working, IInv, TypeOK, TokenTypeOK
<1>3. \A t \in Turns : tokenOf[t] = p => t = turnOf[p]
  BY DEF IInv, TokensAreLive
<1>4. /\ tokenOf' \in [Turns -> Procs \cup {NoTurn}]
      /\ \A t \in Turns : tokenOf'[t] \in {NoTurn, tokenOf[t]} \ {p}
  BY <1>1, <1>2, <1>3 DEF PipelineEnd
<1>. QED  BY <1>1, <1>4, LeaveInv DEF PipelineEnd

\* The same when a coroutine outside a pipeline returns.
LEMMA ReturnsInv == ASSUME IInv, TurnStep, NEW p \in Procs, Returns(p) PROVE ProcInv'
<1>1. PICK how \in EndedPCs : Leave(p, how)
  BY DEF Returns
<1>2. p \notin tokenCancelled /\ \A t \in Turns : tokenOf[t] # p
  BY NoTokenOutside DEF Returns
<1>3. tokenOf \in [Turns -> Procs \cup {NoTurn}] /\ NoTurn \notin Procs
  BY TurnsAreNotCallers DEF IInv, TypeOK, TokenTypeOK
<1>4. /\ tokenOf' \in [Turns -> Procs \cup {NoTurn}]
      /\ \A t \in Turns : tokenOf'[t] \in {NoTurn, tokenOf[t]} \ {p}
  BY <1>2, <1>3 DEF Returns
<1>5. tokenCancelled' = tokenCancelled \ {p}
  BY <1>2 DEF Returns
<1>. QED  BY <1>1, <1>4, <1>5, LeaveInv

\* The same when a coroutine enters the pipeline of an open turn.
LEMMA EntersInv ==
  ASSUME IInv, TurnStep, NEW p \in Procs, NEW t \in Turns, Enters(p, t)
  PROVE  ProcInv'
<1>1. /\ cancelledIds \subseteq cancelledIds'
      /\ \A u \in Turns : turns[u] # "none" => turns'[u] # "none"
  BY TurnStepFacts
<1>2. ProcTypeOK'
  BY StageTypes, NoStreamType, SuspendType DEF Enters, IInv, TypeOK, TurnIds
<1>3. p \notin tokenCancelled /\ \A u \in Turns : tokenOf[u] # p
  BY NoTokenOutside DEF Enters, Working, PipelinePCs
<1>4. /\ pc'[p] \in PipelinePCs /\ turnOf'[p] = t
      /\ \A q \in Procs \ {p} : pc'[q] = pc[q] /\ turnOf'[q] = turnOf[q]
  BY StageTypes DEF Enters, Suspend, IInv, TypeOK, ProcTypeOK
<1>5. TokenTypeOK'
  BY DEF Enters, IInv, TypeOK, TokenTypeOK
<1>6. WorkIsBegun'
  BY <1>1, <1>4, WorkerTurn DEF Enters, WorkIsBegun
<1>7. TokensAreLive'
  BY <1>3, <1>4 DEF Enters, TokensAreLive, IInv, TypeOK, TokenTypeOK
<1>8. \A q \in tokenCancelled' : turnOf'[q] \in cancelledIds'
  BY <1>1, <1>3, <1>4 DEF Enters, IInv, TypeOK, TokenTypeOK, CancelledIsTerminal
<1>. QED  BY <1>2, <1>5, <1>6, <1>7, <1>8 DEF ProcInv

\* Awaits and TaskStarts: p, which has no token, goes to a place outside the
\* pipeline.
LEMMA OutsideInv ==
  ASSUME IInv, TurnStep, NEW p \in Procs, ~Working(p), ProcTypeOK', UNCHANGED tokenVars,
         turns'[turnOf'[p]] # "none",
         \A q \in Procs \ {p} : pc'[q] = pc[q] /\ turnOf'[q] = turnOf[q]
  PROVE  ProcInv'
<1>1. /\ cancelledIds \subseteq cancelledIds'
      /\ \A u \in Turns : turns[u] # "none" => turns'[u] # "none"
  BY TurnStepFacts
<1>2. p \notin tokenCancelled /\ \A u \in Turns : tokenOf[u] # p
  BY NoTokenOutside
<1>3. TokenTypeOK'
  BY DEF IInv, TypeOK, TokenTypeOK, tokenVars
<1>4. WorkIsBegun'
  BY <1>1, WorkerTurn DEF WorkIsBegun
<1>5. TokensAreLive'
  BY <1>2 DEF TokensAreLive, IInv, TypeOK, TokenTypeOK, tokenVars
<1>6. \A q \in tokenCancelled' : turnOf'[q] \in cancelledIds'
  BY <1>1, <1>2 DEF IInv, TypeOK, TokenTypeOK, CancelledIsTerminal, tokenVars
<1>. QED  BY <1>3, <1>4, <1>5, <1>6 DEF ProcInv

\* The same when a caller awaits the STT task.
LEMMA AwaitsInv ==
  ASSUME IInv, TurnStep, NEW c \in Callers, NEW t \in Turns, Awaits(c, t)
  PROVE  ProcInv'
<1>1. c \in Procs /\ c \notin Turns /\ ~Working(c)
  BY TurnsAreNotCallers DEF Procs, Awaits, Working, PipelinePCs
<1>2. ProcTypeOK'
  BY <1>1, NoStreamType, SuspendType DEF Awaits, IInv, TypeOK, TurnIds
<1>3. /\ turnOf'[c] = t
      /\ \A q \in Procs \ {c} : pc'[q] = pc[q] /\ turnOf'[q] = turnOf[q]
  BY <1>1 DEF Awaits, Suspend, IInv, TypeOK, ProcTypeOK
<1>. QED  BY <1>1, <1>2, <1>3, OutsideInv DEF Awaits

\* The same when an STT task is created.
LEMMA TaskStartsInv ==
  ASSUME IInv, TurnStep, NEW t \in Turns, TaskStarts(t)
  PROVE  ProcInv'
<1>1. t \in Procs /\ turnOf[t] = t
  BY DEF Procs, IInv, TypeOK, ProcTypeOK
<1>2. ~Working(t)
  BY <1>1, WorkerTurn DEF TaskStarts, Working
<1>3. ProcTypeOK'
  BY <1>1, TurnsAreNotCallers DEF TaskStarts, IInv, TypeOK, ProcTypeOK, SttPCs
<1>4. turnOf' = turnOf /\ \A q \in Procs \ {t} : pc'[q] = pc[q]
  BY DEF TaskStarts, IInv, TypeOK, ProcTypeOK
<1>. QED  BY <1>1, <1>2, <1>3, <1>4, OutsideInv DEF TaskStarts

\* Every ProcStep keeps the invariants of the processes.
LEMMA ProcStepInv == ASSUME IInv, TurnStep, ProcStep PROVE ProcInv'
BY NobodyMovesInv, StopWaitsInv, GoesOnInv, EndsInv, ReturnsInv, EntersInv, AwaitsInv,
   TaskStartsInv DEF ProcStep

\* A step starts no STT task once shutdown is requested, and only a stop()
\* call goes to its gather.
LEMMA ShutdownProcs ==
  ASSUME IInv, ProcStep, shutdown'
  PROVE  /\ LiveTasks = {} => LiveTasks' = {}
         /\ \A c \in Callers : pc'[c] = "stopping" => pc[c] = "stopping" \/ shutdown'
<1> USE DEF LiveTasks, EndedPCs
<1>0. /\ \A t \in Turns : t \in Procs /\ pc[t] \in SttPCs
      /\ pc \in [Procs -> CallerPCs \cup SttPCs]
  BY DEF Procs, IInv, TypeOK, ProcTypeOK
<1>1. CASE NobodyMoves
  BY <1>1 DEF NobodyMoves
<1>2. CASE \E c \in Callers : StopWaits(c)
  BY <1>0, <1>2, TurnsAreNotCallers DEF StopWaits, Suspend
<1>3. CASE \E p \in Procs : GoesOn(p)
  BY <1>0, <1>3 DEF GoesOn, Suspend, Working, PipelinePCs
<1>4. CASE \E p \in Procs : Ends(p) \/ Returns(p)
  BY <1>0, <1>4 DEF Ends, Returns, PipelineEnd, Leave
<1>5. CASE \E p \in Procs, t \in Turns : Enters(p, t)
  BY <1>0, <1>5 DEF Enters, Suspend, SttPCs, PipelinePCs
<1>6. CASE \E c \in Callers, t \in Turns : Awaits(c, t)
  BY <1>0, <1>6, TurnsAreNotCallers DEF Awaits, Suspend, Procs
<1>7. CASE \E t \in Turns : TaskStarts(t)
  BY <1>7 DEF TaskStarts
<1>. QED  BY <1>1, <1>2, <1>3, <1>4, <1>5, <1>6, <1>7 DEF ProcStep

\* Before shutdown no call is in the gather of stop().
LEMMA StoppingProcs ==
  ASSUME IInv, ProcStep, ~shutdown', shutdown => shutdown'
  PROVE  \A c \in Callers : pc'[c] # "stopping"
<1>0. /\ \A c \in Callers : c \in Procs /\ pc[c] # "stopping"
      /\ pc \in [Procs -> CallerPCs \cup SttPCs]
      /\ "stopping" \notin PipelinePCs \cup EndedPCs
  BY DEF Procs, IInv, TypeOK, ProcTypeOK, ShutdownIsClosed, PipelinePCs, EndedPCs
<1>1. CASE NobodyMoves
  BY <1>0, <1>1 DEF NobodyMoves
<1>2. CASE \E c \in Callers : StopWaits(c)
  BY <1>2 DEF StopWaits
<1>3. CASE \E p \in Procs : GoesOn(p)
  BY <1>0, <1>3 DEF GoesOn, Suspend
<1>4. CASE \E p \in Procs : Ends(p) \/ Returns(p)
  BY <1>0, <1>4 DEF Ends, Returns, PipelineEnd, Leave
<1>5. CASE \E p \in Procs, t \in Turns : Enters(p, t)
  BY <1>0, <1>5, StageTypes DEF Enters, Suspend
<1>6. CASE \E c \in Callers, t \in Turns : Awaits(c, t)
  BY <1>0, <1>6 DEF Awaits, Suspend
<1>7. CASE \E t \in Turns : TaskStarts(t)
  BY <1>0, <1>7 DEF TaskStarts
<1>. QED  BY <1>1, <1>2, <1>3, <1>4, <1>5, <1>6, <1>7 DEF ProcStep

\* After stop() was called no Step leaves a turn open.
LEMMA ShutdownIsClosedStep == ASSUME IInv, Step PROVE ShutdownIsClosed'
<1>1. shutdown' => current' = NoTurn
  BY TurnStepFacts DEF Step, SessionStep
<1>2. \A c \in Callers : pc'[c] = "stopping" => shutdown'
  BY StoppingProcs DEF Step, SessionStep
<1>3. status' = "terminated" => shutdown' /\ LiveTasks' = {}
  <2>1. status' = "terminated" => shutdown' /\ LiveTasks = {}
    BY DEF Step, SessionStep, IInv, ShutdownIsClosed
  <2>. QED  BY <2>1, ShutdownProcs DEF Step
<1>. QED  BY <1>1, <1>2, <1>3 DEF ShutdownIsClosed

\* A cancelled turn or a set token stays with a closed turn.
LEMMA CancelledIsTerminalStep == ASSUME IInv, Step PROVE CancelledIsTerminal'
<1>1. /\ cancelledIds \subseteq cancelledIds'
      /\ \A t \in Turns : turns[t] \in TerminalStates => turns'[t] = turns[t]
      /\ \A t \in cancelledIds' \ cancelledIds : turns'[t] \in {"cancelled", "failed"}
  BY TurnStepFacts DEF Step
<1>2. sttTokenCancelled' \subseteq sttTokenCancelled \cup cancelledIds'
  BY DEF Step, SttKeeps
<1>3. \A t \in cancelledIds \cup sttTokenCancelled :
        t \in Turns /\ turns[t] \in {"cancelled", "failed"}
  BY DEF IInv, TypeOK, TurnTypeOK, SttTypeOK, CancelledIsTerminal
<1>4. \A t \in cancelledIds' \cup sttTokenCancelled' : turns'[t] \in {"cancelled", "failed"}
  BY <1>1, <1>2, <1>3 DEF TerminalStates
<1>5. \A p \in tokenCancelled' : turnOf'[p] \in cancelledIds'
  BY ProcStepInv DEF Step, ProcInv
<1>. QED  BY <1>4, <1>5 DEF CancelledIsTerminal

\* A Step keeps the type invariant.
LEMMA TypeOKStep == ASSUME IInv, Step PROVE TypeOK'
<1>1. SessionTypeOK' /\ DataTypeOK' /\ SttTypeOK'
  BY DEF Step, SessionStep, SttKeeps
<1>2. TurnTypeOK'
  BY TurnStepFacts DEF Step
<1>3. EventTypeOK'
  BY EventStepFacts DEF Step
<1>4. ProcTypeOK' /\ TokenTypeOK'
  BY ProcStepInv DEF Step, ProcInv
<1>. QED  BY <1>1, <1>2, <1>3, <1>4 DEF TypeOK

\* The invariant is inductive: it holds of a new runtime, and every step of
\* every coroutine keeps it.
LEMMA InitIInv == Init => IInv
<1> SUFFICES ASSUME Init PROVE IInv
  OBVIOUS
<1>1. TypeOK
  <2>0. SessionTypeOK /\ EventTypeOK
    BY DEF Init, SessionTypeOK, EventTypeOK
  <2>1. TurnTypeOK
    <3>1. turnSeq \in 0..MaxTurns
      BY BoundsAssumption DEF Init
    <3>. QED  BY <3>1 DEF Init, TurnTypeOK, TurnStates, TurnIds
  <2>2. DataTypeOK
    BY EmptySeq DEF Init, DataTypeOK
  <2>3. ProcTypeOK
    BY TurnsAreNotCallers, NoStreamType
       DEF Init, ProcTypeOK, Procs, TurnIds, CallerPCs, SttPCs, PipelinePCs
  <2>4. TokenTypeOK
    BY DEF Init, TokenTypeOK
  <2>5. SttTypeOK
    BY EmptySeq DEF Init, SttTypeOK
  <2>. QED  BY <2>0, <2>1, <2>2, <2>3, <2>4, <2>5 DEF TypeOK
<1>2. ActiveIsCurrent
  BY TurnsAreNotCallers DEF Init, ActiveIsCurrent
<1>3. CancelledIsTerminal /\ NoSequenceGap /\ CancelledIsRecorded
  BY DEF Init, CancelledIsTerminal, NoSequenceGap, CancelledIsRecorded
<1>4. WorkIsBegun
  BY DEF Init, WorkIsBegun, PipelinePCs
<1>5. TokensAreLive
  BY TurnsAreNotCallers DEF Init, TokensAreLive
<1>6. ShutdownIsClosed
  BY TurnsAreNotCallers DEF Init, ShutdownIsClosed, Procs
<1>. QED  BY <1>1, <1>2, <1>3, <1>4, <1>5, <1>6 DEF IInv

\* A stuttering step keeps the inductive invariant.
LEMMA StutterIInv == ASSUME IInv, UNCHANGED vars PROVE IInv'
<1> USE DEF vars, sessionVars, turnVars, eventVars, procVars, tokenVars, sttVars
<1>1. TypeOK'
  BY DEF IInv, TypeOK, SessionTypeOK, TurnTypeOK, EventTypeOK, DataTypeOK, ProcTypeOK,
         TokenTypeOK, SttTypeOK
<1>2. ActiveIsCurrent' /\ CancelledIsTerminal' /\ NoSequenceGap' /\ CancelledIsRecorded'
  BY DEF IInv, ActiveIsCurrent, CancelledIsTerminal, NoSequenceGap, CancelledIsRecorded
<1>3. WorkIsBegun' /\ TokensAreLive' /\ ShutdownIsClosed'
  BY DEF IInv, WorkIsBegun, TokensAreLive, ShutdownIsClosed, LiveTasks
<1>. QED  BY <1>1, <1>2, <1>3 DEF IInv

\* A Step keeps the inductive invariant.
LEMMA StepIInv == ASSUME IInv, Step PROVE IInv'
<1>1. TypeOK' /\ CancelledIsTerminal' /\ ShutdownIsClosed'
  BY TypeOKStep, CancelledIsTerminalStep, ShutdownIsClosedStep
<1>2. ActiveIsCurrent' /\ CancelledIsRecorded' /\ NoSequenceGap'
  BY ActiveIsCurrentStep, CancelledIsRecordedStep, EventStepFacts DEF Step
<1>3. WorkIsBegun' /\ TokensAreLive'
  BY ProcStepInv DEF Step, ProcInv
<1>. QED  BY <1>1, <1>2, <1>3 DEF IInv

\* The inductive invariant: whatever the callers send and however the
\* coroutines of the session interleave, the three records of a cancellation
\* (token, cancelled_turn_ids, turn state), the current turn, the coroutines
\* at work and the events agree.
THEOREM Invariance == Spec => []IInv
<1>1. IInv /\ [Next]_vars => IInv'
  BY NextStep, StepIInv, StutterIInv
<1>. QED  BY <1>1, InitIInv, PTL DEF Spec

-----------------------------------------------------------------------------
(* The theorems                                                            *)

\* Every variable of the runtime keeps its type: a coroutine suspended inside
\* _run_assistant_pipeline or _finalize_speech_turn always has a turn.
THEOREM TypeCorrect == Spec => []TypeOK
BY Invariance, PTL DEF IInv

\* _current_turn_id names the one ACTIVE turn, which is the newest, whatever
\* coroutines run: no turn stays open unreachable, none blocks _begin_turn.
THEOREM OneOpenTurn == Spec => []ActiveIsCurrent
BY Invariance, PTL DEF IInv

\* A turn recorded as cancelled, or one whose token was set, is CANCELLED or
\* FAILED: the StaleTurnEventError of _complete_turn cannot be raised.
THEOREM CancelledStaysClosed == Spec => []CancelledIsTerminal
BY Invariance, PTL DEF IInv

\* admit_event never refuses an event that build_event already numbered: the
\* sequence numbers the listeners of a session see have no gap.
THEOREM GapFree == Spec => []NoSequenceGap
BY Invariance, PTL DEF IInv

\* When the session status is TERMINATED no turn is open and every STT task
\* has ended: _cancel_active_tasks forgets none.
THEOREM QuietWhenTerminated == Spec => []TerminatedIsQuiet
<1>1. IInv => TerminatedIsQuiet
  <2> SUFFICES ASSUME IInv, status = "terminated", NEW t \in Turns
               PROVE  turns[t] # "active" /\ pc[t] \in EndedPCs \cup {"unborn"}
    BY DEF TerminatedIsQuiet
  <2>1. current = NoTurn /\ LiveTasks = {}
    BY DEF IInv, ShutdownIsClosed
  <2>2. turns[t] # "active"
    BY <2>1, TurnsAreNotCallers DEF IInv, ActiveIsCurrent
  <2>. QED  BY <2>1, <2>2 DEF LiveTasks
<1>. QED  BY <1>1, Invariance, PTL

\* No coroutine ever changes the state of a COMPLETED, CANCELLED or FAILED
\* turn (RuntimeTurn._transition), though several may work on it.
THEOREM ClosedForGood == Spec => TerminalIsFinal
<1>1. IInv /\ [Next]_vars =>
        [\A t \in Turns : turns[t] \in TerminalStates => turns'[t] = turns[t]]_vars
  BY NextStep, TurnStepFacts DEF Step
<1>. QED  BY <1>1, Invariance, PTL DEF Spec, TerminalIsFinal

\* After an interrupt no token, response, speech chunk or transcript of the
\* turn passes admit_event, whichever pipeline of the turn produced it.
THEOREM InterruptSilences == Spec => NoOutputAfterInterrupt
<1> DEFINE Silent ==
      \A t \in Turns :
        turns[t] = "cancelled" \/ t \in cancelledIds =>
          \A type \in STALE_IF_TURN_CANCELLED : <<type, t>> \notin emitted'
<1>1. IInv /\ Next => Silent
  <2> SUFFICES ASSUME IInv, Next, NEW t \in Turns, turns[t] = "cancelled" \/ t \in cancelledIds,
                      NEW type \in STALE_IF_TURN_CANCELLED
               PROVE  <<type, t>> \notin emitted'
    OBVIOUS
  <2>1. t \in cancelledIds
    BY DEF IInv, CancelledIsRecorded
  <2>2. PICK events \in SUBSET Events : Admit(events)
    BY NextStep DEF Step, EventStep
  <2>. QED  BY <2>1, <2>2 DEF Admit
<1>2. IInv /\ [Next]_vars => [Silent]_vars
  BY <1>1
<1>. QED  BY <1>2, Invariance, PTL DEF Spec, NoOutputAfterInterrupt

-----------------------------------------------------------------------------
(* The conversation                                                        *)

\* What a step does to the conversation, to the request for shutdown and to
\* the turns: one exchange enters with the turn that completes, only an
\* append that raises leaves a user message alone, and stop() cancels the
\* open turn.
Keeps == UNCHANGED <<conversation, shutdown>> /\ TurnStep
Persists(t) ==
  /\ turns[t] = "active"
  /\ turns' = [turns EXCEPT ![t] = "completed"]
  /\ conversation' = conversation \o Exchange(t)
  /\ UNCHANGED shutdown
Orphans(t) ==
  /\ RepositoryMayFail
  /\ turns[t] = "active"
  /\ conversation' = Append(conversation, [turn |-> t, role |-> "user"])
  /\ UNCHANGED <<turnVars, shutdown>>
Shuts ==
  /\ shutdown'
  /\ turns' = [t \in Turns |-> IF turns[t] = "active" THEN "cancelled" ELSE turns[t]]
  /\ UNCHANGED conversation

ConversationStep ==
  \/ Keeps
  \/ \E t \in Turns : Persists(t) \/ Orphans(t)
  \/ Shuts

\* The first of the two messages of an exchange, alone.
LEMMA FirstOfTwo ==
  ASSUME NEW S, NEW a \in S, NEW b \in S
  PROVE  SubSeq(<<a, b>>, 1, 1) = <<a>>
<1> DEFINE both == <<a, b>>
<1> DEFINE alone == <<a>>
<1> DEFINE first == SubSeq(both, 1, 1)
<1>1. both \in Seq(S) /\ Len(both) = 2 /\ both[1] = a
  OBVIOUS
<1>2. alone \in Seq(S) /\ Len(alone) = 1 /\ alone[1] = a
  OBVIOUS
<1> HIDE DEF both, alone
<1>3. \A i \in 1 .. 1 : both[i] \in S
  BY <1>1
<1>4. /\ first \in Seq(S)
      /\ Len(first) = IF 1 <= 1 THEN 1 - 1 + 1 ELSE 0
      /\ \A i \in 1 .. 1 - 1 + 1 : first[i] = both[1 + i - 1]
  BY <1>3, SubSeqProperties, SMT
<1> HIDE DEF first
<1>5. Len(first) = Len(alone) /\ \A i \in 1 .. Len(first) : first[i] = alone[i]
  BY <1>1, <1>2, <1>4
<1>6. first = alone
  BY <1>2, <1>4, <1>5, SeqEqual
<1>. QED  BY <1>6 DEF alone, first, both

\* _persist_turn_exchange and _complete_turn of one pipeline.
LEMMA PersistConversation ==
  ASSUME IInv, NEW p \in Procs, Working(p), PersistAndComplete(p), PipelineFrame
  PROVE  ConversationStep
<1> DEFINE t == turnOf[p]
<1>0. UNCHANGED shutdown /\ TurnStep
  BY PersistAndCompleteStep DEF PipelineFrame, sessionVars
<1>1. t \in Turns /\ (~IsTerminal(t) => turns[t] = "active")
  BY WorkerTurn DEF Working
<1>2. turns[t] = "active" => t \notin cancelledIds
  BY <1>1 DEF IInv, CancelledIsTerminal
<1>3. CASE UNCHANGED conversation
  BY <1>0, <1>3 DEF ConversationStep, Keeps
<1>4. CASE ~IsTerminal(t) /\ CompleteTurn(t) /\ conversation' = conversation \o Exchange(t)
  <2>1. SetTurn(t, "completed")
    BY <1>1, <1>2, <1>4 DEF CompleteTurn
  <2>2. Persists(t)
    BY <1>0, <1>1, <1>4, <2>1 DEF Persists, SetTurn
  <2>. QED  BY <1>1, <2>2 DEF ConversationStep
<1>5. CASE /\ ~IsTerminal(t) /\ RepositoryMayFail /\ UNCHANGED turnVars
           /\ \E n \in 0..1 : conversation' = conversation \o SubSeq(Exchange(t), 1, n)
  <2>1. PICK n \in 0..1 : conversation' = conversation \o SubSeq(Exchange(t), 1, n)
    BY <1>5
  <2>2. conversation \in Seq(Messages)
    BY DEF IInv, TypeOK, DataTypeOK
  <2>3. CASE n = 0
    <3>1. SubSeq(Exchange(t), 1, 0) = <<>>
      BY DEF Exchange
    <3>2. conversation \o <<>> = conversation
      BY <2>2
    <3>3. SubSeq(Exchange(t), 1, n) = <<>>
      BY <2>3, <3>1
    <3>. QED  BY <1>3, <2>1, <3>2, <3>3
  <2>4. CASE n = 1
    <3> DEFINE question == [turn |-> t, role |-> "user"]
    <3> DEFINE answer == [turn |-> t, role |-> "assistant"]
    <3>2. question \in Messages /\ answer \in Messages
      BY <1>1 DEF Messages
    <3>1. SubSeq(Exchange(t), 1, 1) = <<question>>
      <4>1. Exchange(t) = <<question, answer>>
        BY DEF Exchange
      <4> HIDE DEF question, answer
      <4>. QED  BY <3>2, <4>1, FirstOfTwo
    <3>3. conversation \o <<question>> = Append(conversation, question)
      BY <2>2, <3>2
    <3>4. Orphans(t)
      BY <1>0, <1>1, <1>5, <2>1, <2>4, <3>1, <3>3 DEF Orphans
    <3>. QED  BY <1>1, <3>4 DEF ConversationStep
  <2>. QED  BY <2>3, <2>4
<1>6. \/ UNCHANGED conversation
      \/ ~IsTerminal(t) /\ CompleteTurn(t) /\ conversation' = conversation \o Exchange(t)
      \/ /\ ~IsTerminal(t) /\ RepositoryMayFail /\ UNCHANGED turnVars
         /\ \E n \in 0..1 : conversation' = conversation \o SubSeq(Exchange(t), 1, n)
  BY DEF PersistAndComplete
<1>. QED  BY <1>3, <1>4, <1>5, <1>6

\* Every step of a pipeline.
LEMMA PipelineConversation ==
  ASSUME IInv, NEW p \in Procs, PipelineStep(p)
  PROVE  ConversationStep
<1>0. TurnStep
  BY PipelineStepStep DEF Step
<1>1. CASE PersistAndComplete(p) /\ Working(p) /\ PipelineFrame
  BY <1>1, PersistConversation
<1>2. CASE UNCHANGED <<conversation, shutdown>>
  BY <1>0, <1>2 DEF ConversationStep, Keeps
<1>3. PipelineFrame => UNCHANGED shutdown
  BY DEF PipelineFrame, sessionVars
<1>4. CASE LlmResponds(p)
  BY <1>1, <1>2, <1>3, <1>4 DEF LlmResponds, Working, Resumes, PipelinePCs
<1>5. CASE TtsReturns(p)
  BY <1>1, <1>5 DEF TtsReturns, Working, Resumes, PipelinePCs
<1>6. CASE PipelineAborted(p) \/ EnrichDone(p) \/ LlmChunk(p) \/ ProviderFails(p)
  BY <1>2, <1>3, <1>6 DEF PipelineAborted, EnrichDone, LlmChunk, ProviderFails
<1>7. CASE LlmCallsTools(p) \/ ToolReturns(p) \/ TtsChunk(p)
  BY <1>2, <1>3, <1>7 DEF LlmCallsTools, ToolReturns, TtsChunk
<1>. QED  BY <1>4, <1>5, <1>6, <1>7 DEF PipelineStep

\* stop() cancels the one open turn and leaves the conversation alone.
LEMMA StopConversation ==
  ASSUME IInv, NEW c \in Callers, Stop(c)
  PROVE  ConversationStep
<1>1. turns \in [Turns -> TurnStates] /\ NoTurn \notin Turns
      /\ \A t \in Turns : turns[t] = "active" <=> current = t
  BY TurnsAreNotCallers DEF IInv, TypeOK, TurnTypeOK, ActiveIsCurrent
<1>2. shutdown' /\ UNCHANGED conversation
  BY DEF Stop
<1>3. CASE current # NoTurn
  <2>1. turns' = [turns EXCEPT ![current] = "cancelled"] /\ current \in Turns
    BY <1>3, CurrentIsActive DEF Stop, CancelTurn, SetTurn
  <2>. QED  BY <1>1, <1>2, <2>1 DEF ConversationStep, Shuts
<1>4. CASE current = NoTurn
  <2>1. turns' = turns
    BY <1>4 DEF Stop
  <2>. QED  BY <1>1, <1>2, <1>4, <2>1 DEF ConversationStep, Shuts
<1>. QED  BY <1>3, <1>4

\* Every step of the specification.
LEMMA NextConversation == ASSUME IInv, Next PROVE ConversationStep
<1>0. TurnStep
  BY NextStep DEF Step
<1>1. CASE UNCHANGED <<conversation, shutdown>>
  BY <1>0, <1>1 DEF ConversationStep, Keeps
<1>2. CASE Start
  BY <1>1, <1>2 DEF Start
<1>3. ASSUME NEW c \in Callers, StopFinish(c) \/ AwaitSttReturns(c) \/ Input(c)
      PROVE  ConversationStep
  BY <1>1, <1>3 DEF StopFinish, AwaitSttReturns, Input, HandleTextInput,
    HandleUserSpeechStarted, HandleUserSpeechEnded, HandleAudioFrame, HandleCancelTurn,
    HandleError, sessionVars
<1>4. ASSUME NEW t \in Turns, SttStep(t)
      PROVE  ConversationStep
  BY <1>1, <1>4 DEF SttStep, AudioRequested, AudioReceived, SttPartial, SttFinal, SttEnds,
    SttAborted, SttFails, TaskCancelled, sessionVars
<1>. QED  BY <1>2, <1>3, <1>4, StopConversation, PipelineConversation DEF Next

\* Every message of the repository is a message of some turn.
LEMMA ConversationTypes ==
  ASSUME IInv
  PROVE  /\ conversation \in Seq(Messages) /\ Len(conversation) \in Nat
         /\ DOMAIN conversation = 1 .. Len(conversation)
         /\ \A i \in 1 .. Len(conversation) :
              conversation[i] \in Messages /\ conversation[i].turn \in Turns
<1>1. conversation \in Seq(Messages)
  BY DEF IInv, TypeOK, DataTypeOK
<1>2. \A m \in Messages : m.turn \in Turns
  BY DEF Messages
<1>. QED  BY <1>1, <1>2

\* What two appended elements leave behind.
LEMMA AppendedPair ==
  ASSUME NEW S, NEW s \in Seq(S), NEW a \in S, NEW b \in S
  PROVE  /\ DOMAIN (s \o <<a, b>>) = 1 .. Len(s) + 2 /\ Len(s \o <<a, b>>) = Len(s) + 2
         /\ \A i \in 1 .. Len(s) : (s \o <<a, b>>)[i] = s[i]
         /\ (s \o <<a, b>>)[Len(s) + 1] = a
         /\ (s \o <<a, b>>)[Len(s) + 2] = b
<1> DEFINE pair == <<a, b>>
<1> DEFINE both == s \o pair
<1>1. pair \in Seq(S) /\ Len(pair) = 2 /\ pair[1] = a /\ pair[2] = b
  OBVIOUS
<1> HIDE DEF pair
<1>2. /\ both \in Seq(S) /\ Len(both) = Len(s) + Len(pair)
      /\ \A i \in 1 .. Len(s) + Len(pair) : both[i] = IF i <= Len(s) THEN s[i] ELSE pair[i - Len(s)]
  BY <1>1, ConcatProperties, Zenon
<1> HIDE DEF both
<1>3. Len(s) \in Nat
  OBVIOUS
<1>4. DOMAIN both = 1 .. Len(s) + 2 /\ Len(both) = Len(s) + 2
  BY <1>1, <1>2
<1>5. \A i \in 1 .. Len(s) : both[i] = s[i]
  BY <1>1, <1>2, <1>3
<1>6. both[Len(s) + 1] = a /\ both[Len(s) + 2] = b
  BY <1>1, <1>2, <1>3
<1>. QED  BY <1>4, <1>5, <1>6 DEF both, pair

\* Where the messages of an exchange are, once it was appended.
LEMMA PersistsFacts ==
  ASSUME IInv, NEW t \in Turns, conversation' = conversation \o Exchange(t)
  PROVE  /\ DOMAIN conversation' = 1 .. Len(conversation) + 2
         /\ Len(conversation') = Len(conversation) + 2
         /\ \A i \in 1 .. Len(conversation) : conversation'[i] = conversation[i]
         /\ conversation'[Len(conversation) + 1] = [turn |-> t, role |-> "user"]
         /\ conversation'[Len(conversation) + 2] = [turn |-> t, role |-> "assistant"]
<1> DEFINE question == [turn |-> t, role |-> "user"]
<1> DEFINE answer == [turn |-> t, role |-> "assistant"]
<1>1. question \in Messages /\ answer \in Messages
  BY DEF Messages
<1>2. conversation' = conversation \o <<question, answer>>
  BY DEF Exchange
<1>3. conversation \in Seq(Messages)
  BY ConversationTypes
<1> HIDE DEF question, answer
<1>4. /\ DOMAIN conversation' = 1 .. Len(conversation) + 2
      /\ Len(conversation') = Len(conversation) + 2
      /\ \A i \in 1 .. Len(conversation) : conversation'[i] = conversation[i]
      /\ conversation'[Len(conversation) + 1] = question
      /\ conversation'[Len(conversation) + 2] = answer
  <2> DEFINE longer == conversation \o <<question, answer>>
  <2>1. /\ DOMAIN longer = 1 .. Len(conversation) + 2
        /\ Len(longer) = Len(conversation) + 2
        /\ \A i \in 1 .. Len(conversation) : longer[i] = conversation[i]
        /\ longer[Len(conversation) + 1] = question
        /\ longer[Len(conversation) + 2] = answer
    BY <1>1, <1>3, AppendedPair, SMT
  <2>2. conversation' = longer
    BY <1>2
  <2> HIDE DEF longer
  <2>. QED  BY <2>1, <2>2
<1>. QED  BY <1>4 DEF question, answer

\* Where the user message is that a raising append left behind.
LEMMA OrphansFacts ==
  ASSUME IInv, NEW t \in Turns, Orphans(t)
  PROVE  /\ DOMAIN conversation' = 1 .. Len(conversation) + 1
         /\ Len(conversation') = Len(conversation) + 1
         /\ \A i \in 1 .. Len(conversation) : conversation'[i] = conversation[i]
         /\ conversation'[Len(conversation) + 1] = [turn |-> t, role |-> "user"]
<1> DEFINE question == [turn |-> t, role |-> "user"]
<1>1. question \in Messages
  BY DEF Messages
<1>2. conversation' = Append(conversation, question)
  BY DEF Orphans
<1> HIDE DEF question
<1>3. /\ DOMAIN conversation' = 1 .. Len(conversation) + 1
      /\ Len(conversation') = Len(conversation) + 1
      /\ \A i \in 1 .. Len(conversation) : conversation'[i] = conversation[i]
      /\ conversation'[Len(conversation) + 1] = question
  BY <1>1, <1>2, ConversationTypes, AppendProperties
<1>. QED  BY <1>3 DEF question

\* The answers of the conversation belong to COMPLETED turns: without this a
\* pipeline could answer a turn that another one has already answered.
AnswersAreCommitted ==
  \A i \in DOMAIN conversation :
    conversation[i].role = "assistant" => turns[conversation[i].turn] = "completed"

AnswersInv == AnswersFollowQuestions /\ AnswersAreCommitted

\* An unchanged conversation keeps its answers, whatever becomes of the turns.
LEMMA SameConversationAnswers ==
  ASSUME IInv, AnswersInv, UNCHANGED conversation,
         \A t \in Turns : turns[t] = "completed" => turns'[t] = "completed"
  PROVE  AnswersInv'
BY ConversationTypes DEF AnswersInv, AnswersFollowQuestions, AnswersAreCommitted

\* An appended exchange is the first and only answer of its turn.
LEMMA PersistsAnswers ==
  ASSUME IInv, AnswersInv, NEW t \in Turns, Persists(t)
  PROVE  AnswersInv'
<1> DEFINE n == Len(conversation)
<1>1. /\ n \in Nat /\ DOMAIN conversation = 1 .. n /\ DOMAIN conversation' = 1 .. n + 2
      /\ \A i \in 1 .. n : conversation[i].turn \in Turns
  BY ConversationTypes, PersistsFacts DEF Persists
<1>2. turns[t] = "active" /\ turns'[t] = "completed"
      /\ \A u \in Turns : turns[u] = "completed" => turns'[u] = "completed"
  BY DEF Persists, IInv, TypeOK, TurnTypeOK
<1>3. /\ \A i \in 1 .. n : conversation'[i] = conversation[i]
      /\ conversation'[n + 1].role = "user" /\ conversation'[n + 2].role = "assistant"
      /\ conversation'[n + 2].turn = t
      /\ conversation'[n + 1] = [turn |-> t, role |-> "user"]
  <2>1. /\ \A i \in 1 .. n : conversation'[i] = conversation[i]
        /\ conversation'[n + 1] = [turn |-> t, role |-> "user"]
        /\ conversation'[n + 2] = [turn |-> t, role |-> "assistant"]
    BY PersistsFacts, Zenon DEF Persists
  <2>. QED  BY <2>1
<1>4. \A i \in 1 .. n : conversation[i].role = "assistant" => conversation[i].turn # t
  BY <1>1, <1>2 DEF AnswersInv, AnswersAreCommitted
<1>5. AnswersAreCommitted'
  <2> SUFFICES ASSUME NEW i \in 1 .. n + 2, conversation'[i].role = "assistant"
               PROVE  turns'[conversation'[i].turn] = "completed"
    BY <1>1 DEF AnswersAreCommitted
  <2>1. i \in 1 .. n \/ i = n + 1 \/ i = n + 2
    BY <1>1
  <2>. QED  BY <1>1, <1>2, <1>3, <2>1 DEF AnswersInv, AnswersAreCommitted
<1>6. AnswersFollowQuestions'
  <2> SUFFICES ASSUME NEW i \in 1 .. n + 2, conversation'[i].role = "assistant"
               PROVE  /\ i > 1
                      /\ conversation'[i - 1] = [turn |-> conversation'[i].turn, role |-> "user"]
                      /\ \A j \in 1 .. n + 2 : conversation'[j] = conversation'[i] => j = i
    BY <1>1 DEF AnswersFollowQuestions
  <2>1. CASE i \in 1 .. n
    <3>1. /\ i > 1 /\ conversation[i - 1] = [turn |-> conversation[i].turn, role |-> "user"]
          /\ \A j \in 1 .. n : conversation[j] = conversation[i] => j = i
      BY <1>1, <1>3, <2>1 DEF AnswersInv, AnswersFollowQuestions
    <3>2. i - 1 \in 1 .. n /\ conversation'[i] = conversation[i] /\ conversation[i].turn # t
      BY <1>1, <1>3, <1>4, <2>1, <3>1
    <3>3. \A j \in 1 .. n + 2 : j \in 1 .. n \/ j = n + 1 \/ j = n + 2
      BY <1>1
    <3>. QED  BY <1>3, <3>1, <3>2, <3>3
  <2>2. CASE i = n + 2
    <3>1. i > 1 /\ i - 1 = n + 1
      BY <1>1, <2>2
    <3>2. \A j \in 1 .. n + 2 : j \in 1 .. n \/ j = n + 1 \/ j = n + 2
      BY <1>1
    <3>3. \A j \in 1 .. n + 2 : conversation'[j] = conversation'[i] => j = i
      BY <1>3, <1>4, <2>2, <3>2
    <3>. QED  BY <1>3, <2>2, <3>1, <3>3
  <2>. QED  BY <1>1, <1>3, <2>1, <2>2
<1>. QED  BY <1>5, <1>6 DEF AnswersInv

\* A user message left alone disturbs no answer.
LEMMA OrphansAnswers ==
  ASSUME IInv, AnswersInv, NEW t \in Turns, Orphans(t)
  PROVE  AnswersInv'
<1> DEFINE n == Len(conversation)
<1>1. /\ n \in Nat /\ DOMAIN conversation = 1 .. n /\ DOMAIN conversation' = 1 .. n + 1
  BY ConversationTypes, OrphansFacts
<1>2. turns' = turns
  BY DEF Orphans, turnVars
<1>3. /\ \A i \in 1 .. n : conversation'[i] = conversation[i]
      /\ conversation'[n + 1].role = "user"
  <2>1. /\ \A i \in 1 .. n : conversation'[i] = conversation[i]
        /\ conversation'[n + 1] = [turn |-> t, role |-> "user"]
    BY OrphansFacts, Zenon
  <2>. QED  BY <2>1
<1>4. \A i \in 1 .. n + 1 : i \in 1 .. n \/ i = n + 1
  BY <1>1
<1>5. AnswersAreCommitted'
  BY <1>1, <1>2, <1>3, <1>4 DEF AnswersInv, AnswersAreCommitted
<1>6. AnswersFollowQuestions'
  <2> SUFFICES ASSUME NEW i \in 1 .. n + 1, conversation'[i].role = "assistant"
               PROVE  /\ i > 1
                      /\ conversation'[i - 1] = [turn |-> conversation'[i].turn, role |-> "user"]
                      /\ \A j \in 1 .. n + 1 : conversation'[j] = conversation'[i] => j = i
    BY <1>1 DEF AnswersFollowQuestions
  <2>1. i \in 1 .. n
    BY <1>3, <1>4
  <2>2. /\ i > 1 /\ conversation[i - 1] = [turn |-> conversation[i].turn, role |-> "user"]
        /\ \A j \in 1 .. n : conversation[j] = conversation[i] => j = i
    BY <1>1, <1>3, <2>1 DEF AnswersInv, AnswersFollowQuestions
  <2>3. i - 1 \in 1 .. n /\ conversation'[i] = conversation[i]
    BY <1>1, <1>3, <2>1, <2>2
  <2>. QED  BY <1>3, <1>4, <2>2, <2>3
<1>. QED  BY <1>5, <1>6 DEF AnswersInv

\* Every step keeps the answers in order.
LEMMA NextAnswers ==
  ASSUME IInv, AnswersInv, [Next]_vars
  PROVE  AnswersInv'
<1>1. CASE Next
  <2>1. \A t \in Turns : turns[t] = "completed" => turns'[t] = "completed"
    BY <1>1, NextStep, TurnStepFacts DEF Step, TerminalStates
  <2>2. UNCHANGED conversation \/ \E t \in Turns : Persists(t) \/ Orphans(t)
    BY <1>1, NextConversation DEF ConversationStep, Keeps, Shuts
  <2>. QED  BY <2>1, <2>2, SameConversationAnswers, PersistsAnswers, OrphansAnswers
<1>2. CASE UNCHANGED vars
  BY <1>2, SameConversationAnswers DEF vars, turnVars
<1>. QED  BY <1>1, <1>2

\* Whatever append_message does, and however many pipelines a turn has, an
\* answer in the repository directly follows the question of its own turn and
\* no turn is answered twice.
THEOREM NoStrayAnswer == Spec => []AnswersFollowQuestions
<1>1. Init => AnswersInv
  BY DEF Init, AnswersInv, AnswersFollowQuestions, AnswersAreCommitted
<1>2. IInv /\ AnswersInv /\ [Next]_vars => AnswersInv'
  BY NextAnswers
<1>3. AnswersInv => AnswersFollowQuestions
  BY DEF AnswersInv
<1>. QED  BY <1>1, <1>2, <1>3, Invariance, PTL DEF Spec

-----------------------------------------------------------------------------
(* A repository that does not raise keeps whole exchanges, in turn order   *)

\* A number of messages that is even before an exchange is even after it.
LEMMA EvenLength ==
  ASSUME NEW n \in Nat, n % 2 = 0
  PROVE  /\ n \div 2 \in Nat /\ n = 2 * (n \div 2)
         /\ (n + 2) % 2 = 0 /\ (n + 2) \div 2 = n \div 2 + 1
OBVIOUS

\* An unchanged conversation stays one of exchanges, whatever the turns do.
LEMMA SameConversationExchanges ==
  ASSUME IInv, ConversationIsExchanges, UNCHANGED conversation,
         \A t \in Turns : turns[t] = "completed" => turns'[t] = "completed"
  PROVE  ConversationIsExchanges'
<1>1. /\ Len(conversation) \in Nat /\ Len(conversation) % 2 = 0
      /\ \A i \in 1 .. Len(conversation) : conversation[i].turn \in Turns
  BY ConversationTypes DEF ConversationIsExchanges
<1>2. \A i \in 1 .. Len(conversation) \div 2 : 2 * i \in 1 .. Len(conversation)
  BY <1>1, EvenLength
<1>3. \A i \in 1 .. Len(conversation) \div 2 : conversation[2 * i].turn \in Turns
  BY <1>1, <1>2
<1>4. \A i \in 1 .. Len(conversation) \div 2 : turns'[conversation[2 * i].turn] = "completed"
  BY <1>3 DEF ConversationIsExchanges
<1>. QED  BY <1>4 DEF ConversationIsExchanges

\* The exchange of the open turn comes after those of all completed turns.
LEMMA PersistsExchanges ==
  ASSUME IInv, ConversationIsExchanges, NEW t \in Turns, Persists(t)
  PROVE  ConversationIsExchanges'
<1> DEFINE n == Len(conversation)
<1> DEFINE k == n \div 2
<1>1. /\ n \in Nat /\ n % 2 = 0
      /\ \A i \in 1 .. n : conversation[i].turn \in Turns
  BY ConversationTypes DEF ConversationIsExchanges
<1>2. k \in Nat /\ n = 2 * k /\ (n + 2) % 2 = 0 /\ (n + 2) \div 2 = k + 1
  BY <1>1, EvenLength
<1>3. /\ Len(conversation') = n + 2
      /\ \A i \in 1 .. n : conversation'[i] = conversation[i]
      /\ conversation'[n + 1] = [turn |-> t, role |-> "user"]
      /\ conversation'[n + 2] = [turn |-> t, role |-> "assistant"]
  BY PersistsFacts, Zenon DEF Persists
<1>4. /\ turns[t] = "active" /\ turns'[t] = "completed"
      /\ \A u \in Turns : turns[u] = "completed" => turns'[u] = "completed"
  BY DEF Persists, IInv, TypeOK, TurnTypeOK
<1>5. \A u \in Turns : turns[u] = "completed" => u < t
  <2> SUFFICES ASSUME NEW u \in Turns, turns[u] = "completed" PROVE u < t
    OBVIOUS
  <2>1. t = turnSeq /\ ~(u > turnSeq) /\ u # t
    BY <1>4, TurnsAreNotCallers DEF IInv, ActiveIsCurrent
  <2>2. u \in Nat /\ t \in Nat
    BY TurnsAreNotCallers
  <2>. QED  BY <2>1, <2>2
<1>6. \A i \in 1 .. k : /\ conversation[2 * i - 1] = [turn |-> conversation[2 * i].turn, role |-> "user"]
                        /\ conversation[2 * i].role = "assistant"
                        /\ turns[conversation[2 * i].turn] = "completed"
                        /\ i > 1 => conversation[2 * (i - 1)].turn < conversation[2 * i].turn
  BY DEF ConversationIsExchanges
<1> HIDE DEF k
<1>7. \A i \in 1 .. k : 2 * i \in 1 .. n /\ 2 * i - 1 \in 1 .. n
                        /\ (i > 1 => 2 * (i - 1) \in 1 .. n)
  BY <1>1, <1>2
<1>8. ASSUME NEW i \in 1 .. k + 1
      PROVE  /\ conversation'[2 * i - 1] = [turn |-> conversation'[2 * i].turn, role |-> "user"]
             /\ conversation'[2 * i].role = "assistant"
             /\ turns'[conversation'[2 * i].turn] = "completed"
             /\ i > 1 => conversation'[2 * (i - 1)].turn < conversation'[2 * i].turn
  <2>1. CASE i \in 1 .. k
    <3>1. /\ conversation'[2 * i - 1] = conversation[2 * i - 1]
          /\ conversation'[2 * i] = conversation[2 * i]
          /\ i > 1 => conversation'[2 * (i - 1)] = conversation[2 * (i - 1)]
          /\ conversation[2 * i].turn \in Turns
      BY <1>1, <1>3, <1>7, <2>1
    <3>. QED  BY <1>4, <1>6, <2>1, <3>1
  <2>2. CASE i = k + 1
    <3>1. 2 * i - 1 = n + 1 /\ 2 * i = n + 2 /\ 2 * (i - 1) = n /\ (i > 1 => k \in 1 .. k)
      BY <1>2, <2>2
    <3>2. conversation'[2 * i - 1] = [turn |-> t, role |-> "user"]
          /\ conversation'[2 * i] = [turn |-> t, role |-> "assistant"]
      BY <1>3, <3>1
    <3>3. conversation'[2 * i].turn = t /\ conversation'[2 * i].role = "assistant"
      BY <3>2
    <3>4. ASSUME i > 1 PROVE conversation'[2 * (i - 1)].turn < t
      <4>1. k \in 1 .. k /\ 2 * k = n
        BY <1>2, <3>1, <3>4
      <4>2. conversation[n].turn \in Turns /\ turns[conversation[n].turn] = "completed"
            /\ conversation'[n] = conversation[n]
        BY <1>1, <1>3, <1>6, <1>7, <4>1
      <4>. QED  BY <1>5, <3>1, <4>2
    <3>. QED  BY <1>4, <3>2, <3>3, <3>4
  <2>. QED  BY <1>2, <2>1, <2>2
<1>9. Len(conversation') % 2 = 0 /\ Len(conversation') \div 2 = k + 1
  BY <1>2, <1>3
<1>. QED  BY <1>8, <1>9 DEF ConversationIsExchanges

\* While append_message does not raise, the conversation is a sequence of
\* question and answer pairs of COMPLETED turns in turn order, one per turn,
\* although several pipelines may race to persist a turn.
THEOREM OnlyWholeExchanges ==
  ASSUME RepositoryMayFail = FALSE
  PROVE  Spec => []ConversationIsExchanges
<1>1. Init => ConversationIsExchanges
  BY DEF Init, ConversationIsExchanges
<1>2. ASSUME IInv, ConversationIsExchanges, [Next]_vars
      PROVE  ConversationIsExchanges'
  <2>1. CASE Next
    <3>1. \A t \in Turns : turns[t] = "completed" => turns'[t] = "completed"
      BY <1>2, <2>1, NextStep, TurnStepFacts DEF Step, TerminalStates
    <3>2. UNCHANGED conversation \/ \E t \in Turns : Persists(t)
      BY <1>2, <2>1, NextConversation DEF ConversationStep, Keeps, Orphans, Shuts
    <3>. QED  BY <1>2, <3>1, <3>2, SameConversationExchanges, PersistsExchanges
  <2>2. CASE UNCHANGED vars
    BY <1>2, <2>2, SameConversationExchanges DEF vars, turnVars
  <2>. QED  BY <1>2, <2>1, <2>2
<1>. QED  BY <1>1, <1>2, Invariance, PTL DEF Spec

-----------------------------------------------------------------------------
(* The runtime implements TurnLifecycle                                    *)

\* The refinement mapping.
StatusOf == [t \in Turns |-> ToTurnStatus(turns[t])]
ExchangesOf == [i \in 1 .. Len(conversation) \div 2 |-> conversation[2 * i].turn]

\* How the contract status tells the states of a turn apart.
LEMMA StatusFacts ==
  /\ ToTurnStatus("none") = "none" /\ ToTurnStatus("active") = "in_progress"
  /\ ToTurnStatus("completed") = "committed" /\ ToTurnStatus("failed") = "failed"
  /\ ToTurnStatus("cancelled") = "cancelled"
  /\ \A s \in TurnStates : /\ ToTurnStatus(s) = "in_progress" <=> s = "active"
                           /\ ToTurnStatus(s) = "none" <=> s = "none"
BY DEF ToTurnStatus, TurnStates

\* Setting the state of one turn sets its contract status.
LEMMA StatusExcept ==
  ASSUME IInv, NEW t \in Turns, NEW s, turns' = [turns EXCEPT ![t] = s]
  PROVE  StatusOf' = [StatusOf EXCEPT ![t] = ToTurnStatus(s)]
<1>1. turns \in [Turns -> TurnStates]
  BY DEF IInv, TypeOK, TurnTypeOK
<1> HIDE DEF ToTurnStatus
<1>. QED  BY <1>1 DEF StatusOf

\* An open turn has status in_progress.
LEMMA OpenFacts ==
  ASSUME IInv, NEW t \in Turns
  PROVE  /\ t \in 1 .. MaxTurns
         /\ StatusOf[t] = ToTurnStatus(turns[t])
         /\ StatusOf[t] = "in_progress" <=> turns[t] = "active"
         /\ StatusOf[t] = "none" <=> turns[t] = "none"
<1>1. turns[t] \in TurnStates
  BY DEF IInv, TypeOK, TurnTypeOK
<1>. QED  BY <1>1, StatusFacts DEF StatusOf, Turns

\* The exchange that a completed turn appends is one entry of the mapping.
LEMMA ExchangesAppend ==
  ASSUME IInv, ConversationIsExchanges, NEW t \in Turns,
         conversation' = conversation \o Exchange(t)
  PROVE  ExchangesOf' = Append(ExchangesOf, t)
<1> DEFINE n == Len(conversation)
<1> DEFINE k == n \div 2
<1>1. n \in Nat /\ n % 2 = 0 /\ \A i \in 1 .. n : conversation[i].turn \in Turns
  BY ConversationTypes DEF ConversationIsExchanges
<1>2. k \in Nat /\ n = 2 * k /\ (n + 2) \div 2 = k + 1
  BY <1>1, EvenLength
<1>3. /\ Len(conversation') = n + 2
      /\ \A i \in 1 .. n : conversation'[i] = conversation[i]
      /\ conversation'[n + 2].turn = t
  <2>1. /\ Len(conversation') = n + 2
        /\ \A i \in 1 .. n : conversation'[i] = conversation[i]
        /\ conversation'[n + 2] = [turn |-> t, role |-> "assistant"]
    BY PersistsFacts, Zenon
  <2>. QED  BY <2>1
<1>4. Len(conversation') \div 2 = k + 1
  BY <1>2, <1>3
<1>5. ExchangesOf' = [i \in 1 .. k + 1 |-> conversation'[2 * i].turn]
  BY <1>4 DEF ExchangesOf
<1>6. ExchangesOf = [i \in 1 .. k |-> conversation[2 * i].turn]
  BY DEF ExchangesOf
<1> HIDE DEF k
<1>7. \A i \in 1 .. k : 2 * i \in 1 .. n
  BY <1>1, <1>2
<1>8. ExchangesOf \in Seq(Turns) /\ Len(ExchangesOf) = k
  BY <1>1, <1>2, <1>6, <1>7
<1>9. /\ Append(ExchangesOf, t) \in Seq(Turns)
      /\ Len(Append(ExchangesOf, t)) = k + 1
      /\ \A i \in 1 .. k : Append(ExchangesOf, t)[i] = ExchangesOf[i]
      /\ Append(ExchangesOf, t)[k + 1] = t
  BY <1>8, AppendProperties
<1>10. \A i \in 1 .. k + 1 : ExchangesOf'[i] = Append(ExchangesOf, t)[i]
  <2> SUFFICES ASSUME NEW i \in 1 .. k + 1
               PROVE  ExchangesOf'[i] = Append(ExchangesOf, t)[i]
    OBVIOUS
  <2>1. CASE i \in 1 .. k
    BY <1>3, <1>5, <1>6, <1>7, <1>9, <2>1
  <2>2. CASE i = k + 1
    <3>1. 2 * i = n + 2
      BY <1>2, <2>2
    <3>. QED  BY <1>3, <1>5, <1>9, <2>2, <3>1
  <2>3. i \in 1 .. k \/ i = k + 1
    <3>1. k \in Nat
      BY <1>2
    <3>. QED  BY <3>1
  <2>. QED  BY <2>1, <2>2, <2>3
<1>11. ExchangesOf' \in Seq(Turns) /\ Len(ExchangesOf') = k + 1
  <2>1. \A i \in 1 .. k + 1 : ExchangesOf'[i] \in Turns
    BY <1>8, <1>9, <1>10
  <2>2. k + 1 \in Nat
    BY <1>2
  <2>3. ExchangesOf' \in [1 .. k + 1 -> Turns]
    BY <1>5, <2>1
  <2>. QED  BY <2>2, <2>3
<1>. QED  BY <1>9, <1>10, <1>11, SeqEqual

\* _begin_turn opens the next turn of the abstract session.
LEMMA BeginMaps ==
  ASSUME IInv, ~shutdown, UNCHANGED <<conversation, shutdown>>,
         NEW s \in {"active", "completed", "failed"}, BeginTurn(turnSeq + 1, s)
  PROVE  TL!LifecycleNext
<1> DEFINE t == turnSeq + 1
<1>1. t \in Turns /\ turnSeq \in Nat
  BY BeginTurnFacts, BoundsAssumption DEF IInv, TypeOK, TurnTypeOK
<1>2. StatusOf' = [StatusOf EXCEPT ![t] = ToTurnStatus(s)] /\ ExchangesOf' = ExchangesOf
  BY <1>1, StatusExcept DEF BeginTurn, ExchangesOf
<1>3. ToTurnStatus(s) \in {"in_progress", "committed", "failed"}
  BY StatusFacts
<1>4. ASSUME NEW u \in 1 .. MaxTurns
      PROVE  IF u < t THEN StatusOf[u] # "none" /\ StatusOf[u] # "in_progress"
                      ELSE StatusOf[u] = "none"
  <2>1. u \in Turns /\ u \in Nat
    BY BoundsAssumption DEF Turns
  <2>2. current = NoTurn
    BY CurrentIsActive DEF BeginTurn
  <2>3. turns[u] # "active" /\ (turns[u] = "none" <=> u > turnSeq)
    BY <2>1, <2>2, TurnsAreNotCallers DEF IInv, ActiveIsCurrent
  <2>4. u > turnSeq <=> ~(u < t)
    BY <1>1, <2>1
  <2>. QED  BY <2>1, <2>3, <2>4, OpenFacts
<1>5. t \in 1 .. MaxTurns
  BY <1>1 DEF Turns
<1> HIDE DEF t
<1>6. TL!Begin(t)
  BY <1>2, <1>3, <1>4 DEF TL!Begin, TL!Open, TL!TurnNumbers, StatusOf, ExchangesOf
<1>. QED  BY <1>5, <1>6 DEF TL!LifecycleNext, TL!TurnNumbers

\* A turn that completes commits, with its exchange or without.
LEMMA CommitMaps ==
  ASSUME IInv, UNCHANGED shutdown, NEW t \in Turns, turns[t] = "active",
         turns' = [turns EXCEPT ![t] = "completed"],
         ExchangesOf' = ExchangesOf \/ ExchangesOf' = Append(ExchangesOf, t)
  PROVE  TL!LifecycleNext
<1>1. StatusOf' = [StatusOf EXCEPT ![t] = "committed"]
  <2>1. StatusOf' = [StatusOf EXCEPT ![t] = ToTurnStatus("completed")]
    BY StatusExcept, Zenon
  <2>2. ToTurnStatus("completed") = "committed"
    BY StatusFacts
  <2>. QED  BY <2>1, <2>2
<1>2. StatusOf[t] = "in_progress" /\ t \in 1 .. MaxTurns
  BY OpenFacts
<1>3. TL!Commit(t)
  BY <1>1, <1>2 DEF TL!Commit, TL!Open, StatusOf, ExchangesOf
<1>. QED  BY <1>2, <1>3 DEF TL!LifecycleNext, TL!TurnNumbers

\* A turn that fails or is cancelled is discarded.
LEMMA DiscardMaps ==
  ASSUME IInv, UNCHANGED <<conversation, shutdown>>, NEW t \in Turns, turns[t] = "active",
         NEW s \in {"cancelled", "failed"}, turns' = [turns EXCEPT ![t] = s]
  PROVE  TL!LifecycleNext
<1>1. StatusOf' = [StatusOf EXCEPT ![t] = s]
  <2>1. StatusOf' = [StatusOf EXCEPT ![t] = ToTurnStatus(s)]
    BY StatusExcept, Zenon
  <2>2. ToTurnStatus(s) = s
    BY StatusFacts
  <2>. QED  BY <2>1, <2>2
<1>2. StatusOf[t] = "in_progress" /\ t \in 1 .. MaxTurns
  BY OpenFacts
<1>3. ExchangesOf' = ExchangesOf
  BY DEF ExchangesOf
<1>4. TL!Discard(t)
  BY <1>1, <1>2, <1>3 DEF TL!Discard, TL!Open, StatusOf, ExchangesOf
<1>. QED  BY <1>2, <1>4 DEF TL!LifecycleNext, TL!TurnNumbers

\* stop() closes the session.
LEMMA CloseMaps ==
  ASSUME IInv, SessionTypeOK', Shuts
  PROVE  TL!LifecycleNext
<1>1. Turns = 1 .. MaxTurns /\ ExchangesOf' = ExchangesOf
      /\ shutdown' = TRUE
  BY DEF Turns, Shuts, ExchangesOf, SessionTypeOK
<1>2. StatusOf' = [t \in Turns |-> IF StatusOf[t] = "in_progress" THEN "cancelled" ELSE StatusOf[t]]
  <2>1. \A t \in Turns : turns'[t] = IF turns[t] = "active" THEN "cancelled" ELSE turns[t]
    BY DEF Shuts
  <2>2. \A t \in Turns : ToTurnStatus(turns'[t])
                           = IF StatusOf[t] = "in_progress" THEN "cancelled" ELSE StatusOf[t]
    BY <2>1, OpenFacts, StatusFacts
  <2>. QED  BY <2>2 DEF StatusOf
<1>3. TL!Close
  BY <1>1, <1>2 DEF TL!Close, TL!Open, TL!TurnNumbers, StatusOf, ExchangesOf
<1>. QED  BY <1>3 DEF TL!LifecycleNext

\* Every step of a runtime whose repository does not raise is a step of the
\* abstract session, or leaves it alone.
LEMMA LifecycleStep ==
  ASSUME RepositoryMayFail = FALSE, IInv, ConversationIsExchanges, [Next]_vars
  PROVE  [TL!LifecycleNext]_(TL!lifecycleVars)
<1>0. CASE UNCHANGED <<turns, conversation, shutdown>>
  BY <1>0 DEF TL!lifecycleVars
<1>1. CASE Keeps
  <2>1. CASE UNCHANGED turnVars
    BY <1>0, <1>1, <2>1 DEF Keeps, turnVars
  <2>2. CASE ~shutdown /\ \E s \in {"active", "completed", "failed"} : BeginTurn(turnSeq + 1, s)
    BY <1>1, <2>2, BeginMaps DEF Keeps
  <2>3. CASE \E t \in Turns, s \in {"completed", "failed", "cancelled"} : \E ids : Closes(t, s, ids)
    <3>1. PICK t \in Turns, s \in {"completed", "failed", "cancelled"} : \E ids : Closes(t, s, ids)
      BY <2>3
    <3>2. turns[t] = "active" /\ turns' = [turns EXCEPT ![t] = s]
      BY <3>1 DEF Closes
    <3>3. ExchangesOf' = ExchangesOf
      BY <1>1 DEF Keeps, ExchangesOf
    <3>4. CASE s = "completed"
      BY <1>1, <3>2, <3>3, <3>4, CommitMaps DEF Keeps
    <3>5. CASE s \in {"cancelled", "failed"}
      BY <1>1, <3>2, <3>5, DiscardMaps DEF Keeps
    <3>. QED  BY <3>4, <3>5
  <2>. QED  BY <1>1, <2>1, <2>2, <2>3 DEF Keeps, TurnStep
<1>2. CASE \E t \in Turns : Persists(t)
  BY <1>2, ExchangesAppend, CommitMaps DEF Persists
<1>3. CASE Next /\ Shuts
  BY <1>3, CloseMaps, NextStep DEF Step, SessionStep
<1>4. CASE UNCHANGED vars
  BY <1>0, <1>4 DEF vars, turnVars, sessionVars
<1>. QED  BY <1>1, <1>2, <1>3, <1>4, NextConversation DEF ConversationStep, Orphans

\* Seen through to_turn_status and the repository, AgentRuntime is the small
\* machine TurnLifecycle: turns open one after the other, close once, and
\* leave an exchange only when they commit, however the coroutines that serve
\* them interleave.
THEOREM RuntimeImplementsLifecycle ==
  ASSUME RepositoryMayFail = FALSE
  PROVE  Spec => ImplementsLifecycle
<1>1. Init => TL!LifecycleInit
  <2> SUFFICES ASSUME Init PROVE TL!LifecycleInit
    OBVIOUS
  <2>1. StatusOf = [t \in Turns |-> "none"]
    BY StatusFacts DEF Init, StatusOf
  <2>2. ExchangesOf = <<>>
    BY DEF Init, ExchangesOf
  <2>. QED
    BY <2>1, <2>2 DEF Init, TL!LifecycleInit, TL!TurnNumbers, StatusOf, ExchangesOf, Turns
<1>2. IInv /\ ConversationIsExchanges /\ [Next]_vars => [TL!LifecycleNext]_(TL!lifecycleVars)
  BY LifecycleStep
<1>3. Spec => []ConversationIsExchanges
  BY OnlyWholeExchanges
<1>. QED  BY <1>1, <1>2, <1>3, Invariance, PTL DEF Spec, ImplementsLifecycle, TL!LifecycleSpec
=============================================================================
