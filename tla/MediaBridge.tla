----------------------------- MODULE MediaBridge -----------------------------
(***************************************************************************)
(* RuntimeMediaBridge around a LiveKitMediaTransport: the run() coroutine  *)
(* and its teardown, the room's callbacks, the tasks that read the users'  *)
(* audio tracks and the tasks that publish the agent's speech.             *)
(*                                                                         *)
(* AgentRuntime appears as the bridge uses it: an open turn that closes at *)
(* some moment, cancelled turn ids, speech chunks admitted for turns that  *)
(* are not cancelled, and a stop() that suspends (see module AgentRuntime  *)
(* for what is checked and proved of these).  A step runs a coroutine to   *)
(* its next suspension; a task that never suspends is one step with the    *)
(* callback that creates it.                                               *)
(***************************************************************************)
EXTENDS Integers, Sequences, FiniteSets

CONSTANTS
  Sids,        \* track sids; a track may be subscribed again under its sid
  MaxTasks,    \* bound: audio tasks created
  MaxTurns,    \* bound: turns begun
  MaxChunks    \* bound: speech chunks admitted

Tasks == 1..MaxTasks
NoTask == 0
Turns == 1..MaxTurns
NoTurn == 0

ASSUME BridgeAssumption ==
  /\ Sids # {}
  /\ MaxTasks \in Nat /\ MaxTurns \in Nat /\ MaxChunks \in Nat

Lifecycles == {"initializing", "connecting", "connected", "stopping", "stopped", "failed"}
TransportStates == {"disconnected", "connecting", "connected", "reconnecting", "failed"}

VARIABLES
  lifecycle,     \* _lifecycle_state
  run,           \* where run() is suspended
  shutdownSet,   \* _shutdown
  room,          \* the LiveKit room: "new", "up" or "down"
  tState,        \* the transport's _state
  gone,          \* the transport's _disconnect_event
  subscribed,    \* the audio tracks subscribed to in the room
  source,        \* whether the transport has an _audio_source
  audio,         \* each audio task: "none", "streaming", "ending" or "done"
  sidOf,         \* the track an audio task reads
  registered,    \* _audio_tasks: the task stored for each sid
  cancelReq,     \* audio tasks on which task.cancel() was called
  awaited,       \* the audio tasks that run() gathers in disconnect()
  left,          \* _handle_room_disconnected: "no", "gather" or "done"
  leftAwaits,    \* the audio tasks it gathers
  running,       \* runtime.running
  stopRequested, \* runtime.context.shutdown_requested
  current,       \* runtime.current_turn, when it is open
  turnSeq,       \* turns begun
  speech,        \* the turns begun by USER_SPEECH_STARTED
  cancelledIds,  \* runtime.context.cancelled_turn_ids
  chunks,        \* speech chunks admitted
  publish,       \* _publish_tts_output tasks that have not run, in loop order
  heard          \* frames of each turn given to the audio source

runVars == <<lifecycle, run, shutdownSet>>
transportVars == <<room, subscribed, tState, gone, source>>
taskVars == <<audio, sidOf, registered, cancelReq, awaited, left, leftAwaits>>
runtimeVars == <<running, stopRequested, current, turnSeq, speech, cancelledIds>>
speechVars == <<chunks, publish, heard>>
vars == <<runVars, transportVars, taskVars, runtimeVars, speechVars>>

Init ==
  /\ lifecycle = "initializing" /\ run = "new" /\ shutdownSet = FALSE
  /\ room = "new" /\ subscribed = {} /\ tState = "disconnected" /\ gone = FALSE /\ source = FALSE
  /\ audio = [k \in Tasks |-> "none"]
  /\ sidOf = [k \in Tasks |-> CHOOSE s \in Sids : TRUE]
  /\ registered = [s \in Sids |-> NoTask]
  /\ cancelReq = {} /\ awaited = {} /\ left = "no" /\ leftAwaits = {}
  /\ running = FALSE /\ stopRequested = FALSE
  /\ current = NoTurn /\ turnSeq = 0 /\ speech = {} /\ cancelledIds = {}
  /\ chunks = 0 /\ publish = <<>> /\ heard = [t \in Turns |-> 0]

-----------------------------------------------------------------------------
(* AgentRuntime as the bridge sees it                                      *)

\* Fault: a shutdown in progress is not looked at.
VoiceInputEnabled_running == running

VoiceInputEnabled == running /\ ~stopRequested

\* A turn begins.
BeginTurn ==
  /\ turnSeq < MaxTurns
  /\ turnSeq' = turnSeq + 1
  /\ current' = turnSeq + 1
  /\ UNCHANGED <<running, stopRequested>>

SpeechStarted ==
  /\ BeginTurn
  /\ speech' = speech \cup {turnSeq + 1}

OpenTurn == {current} \ {NoTurn}

\* The ERROR input: the open turn fails and is recorded as cancelled.
RuntimeError ==
  IF running /\ ~stopRequested
  THEN /\ cancelledIds' = cancelledIds \cup OpenTurn
       /\ current' = NoTurn
       /\ UNCHANGED <<running, stopRequested, turnSeq, speech>>
  ELSE UNCHANGED runtimeVars

\* A text turn, through bridge.handle_input.
TextInput ==
  /\ VoiceInputEnabled
  /\ current = NoTurn
  /\ BeginTurn
  /\ UNCHANGED <<runVars, transportVars, taskVars, speech, cancelledIds, speechVars>>

\* CANCEL_TURN, through bridge.handle_input.
CancelInput ==
  /\ VoiceInputEnabled
  /\ current # NoTurn
  /\ cancelledIds' = cancelledIds \cup {current}
  /\ current' = NoTurn
  /\ UNCHANGED <<runVars, transportVars, taskVars, running, stopRequested, turnSeq, speech,
                 speechVars>>

\* SHUTDOWN, through bridge.handle_input: runtime.stop() up to its gather.
ShutdownInput ==
  /\ VoiceInputEnabled
  /\ stopRequested' = TRUE
  /\ cancelledIds' = cancelledIds \cup OpenTurn
  /\ current' = NoTurn
  /\ UNCHANGED <<runVars, transportVars, taskVars, running, turnSeq, speech, speechVars>>

\* That stop() ends.
RuntimeStopped ==
  /\ running /\ stopRequested
  /\ running' = FALSE
  /\ UNCHANGED <<runVars, transportVars, taskVars, stopRequested, current, turnSeq,
                 speech, cancelledIds, speechVars>>

\* The pipeline completes or fails the open turn.
TurnCloses ==
  /\ current # NoTurn
  /\ current' = NoTurn
  /\ UNCHANGED <<runVars, transportVars, taskVars, running, stopRequested, turnSeq,
                 speech, cancelledIds, speechVars>>

\* A TTSChunk is admitted, also for a turn that a second pipeline has already
\* completed; the listener creates its publish task.
ChunkAdmitted(t) ==
  /\ t <= turnSeq /\ t \notin cancelledIds
  /\ chunks < MaxChunks
  /\ chunks' = chunks + 1
  /\ publish' = Append(publish, t)
  /\ UNCHANGED <<runVars, transportVars, taskVars, runtimeVars, heard>>

-----------------------------------------------------------------------------
(* Publishing the agent's speech                                           *)

\* Fault: the publish task trusts the admission of its chunk.
MayPublish_unchecked(t) ==
  /\ running /\ ~stopRequested
  /\ lifecycle \notin {"stopping", "stopped", "failed"}
  /\ tState = "connected"

\* Fault: the bridge's own lifecycle is not looked at.
MayPublish_anyLifecycle(t) ==
  /\ running /\ ~stopRequested
  /\ t \notin cancelledIds
  /\ tState = "connected"

\* The guards of _publish_tts_output.
MayPublish(t) ==
  /\ running /\ ~stopRequested
  /\ t \notin cancelledIds
  /\ lifecycle \notin {"stopping", "stopped", "failed"}
  /\ tState = "connected"

\* The oldest publish task runs.  Its audio may not resolve; the transport
\* drops the frame when it has no audio source.
PublishTtsOutput ==
  /\ publish # <<>>
  /\ publish' = Tail(publish)
  /\ \/ UNCHANGED heard
     \/ /\ MayPublish(Head(publish)) /\ source
        /\ heard' = [heard EXCEPT ![Head(publish)] = @ + 1]
  /\ UNCHANGED <<runVars, transportVars, taskVars, runtimeVars, chunks>>

-----------------------------------------------------------------------------
(* The audio tasks: _consume_remote_audio                                  *)

\* The task ends; its done callback pops whatever its sid maps to.
TaskDone(k) ==
  /\ audio' = [audio EXCEPT ![k] = "done"]
  /\ registered' = [registered EXCEPT ![sidOf[k]] = NoTask]
  /\ cancelReq' = cancelReq \ {k}
  /\ UNCHANGED <<sidOf, awaited, left, leftAwaits>>

\* The ENDED event of the finally clause.  For an open speech turn the bridge
\* awaits the end of the user's speech; an open text turn is completed at once.
AudioEnded(k) ==
  IF VoiceInputEnabled /\ current \in speech
  THEN /\ audio' = [audio EXCEPT ![k] = "ending"]
       /\ cancelReq' = cancelReq \ {k}
       /\ UNCHANGED <<sidOf, registered, awaited, left, leftAwaits, runtimeVars>>
  ELSE /\ TaskDone(k)
       /\ current' = IF VoiceInputEnabled THEN NoTurn ELSE current
       /\ UNCHANGED <<running, stopRequested, turnSeq, speech, cancelledIds>>

\* track_subscribed: a task is created, whose STARTED event cancels the open
\* turn (barge-in) and begins a speech turn.
TrackSubscribed(k, s) ==
  /\ room = "up"
  /\ s \notin subscribed
  /\ audio[k] = "none" /\ \A j \in 1 .. k - 1 : audio[j] # "none"
  /\ subscribed' = subscribed \cup {s}
  /\ audio' = [audio EXCEPT ![k] = "streaming"]
  /\ sidOf' = [sidOf EXCEPT ![k] = s]
  /\ registered' = [registered EXCEPT ![s] = k]
  /\ IF VoiceInputEnabled
     THEN SpeechStarted /\ cancelledIds' = cancelledIds \cup OpenTurn
     ELSE UNCHANGED runtimeVars
  /\ UNCHANGED <<runVars, room, tState, gone, source, cancelReq, awaited, left, leftAwaits,
                 speechVars>>

\* track_unsubscribed: the stored task, if any, is forgotten and cancelled.
TrackUnsubscribed(s) ==
  /\ room = "up"
  /\ s \in subscribed
  /\ subscribed' = subscribed \ {s}
  /\ registered' = [registered EXCEPT ![s] = NoTask]
  /\ cancelReq' = cancelReq \cup ({registered[s]} \ {NoTask})
  /\ UNCHANGED <<runVars, room, tState, gone, source, audio, sidOf, awaited, left, leftAwaits,
                 runtimeVars, speechVars>>

\* A frame, when no turn is open: _on_transport_audio_frame begins one.  With
\* an open turn the frame goes to its STT queue.
FrameOpensTurn(k) ==
  /\ audio[k] = "streaming" /\ k \notin cancelReq
  /\ tState # "disconnected"
  /\ VoiceInputEnabled /\ current = NoTurn
  /\ SpeechStarted
  /\ UNCHANGED <<runVars, transportVars, taskVars, cancelledIds, speechVars>>

\* The audio stream ends.
AudioEnds(k) ==
  /\ audio[k] = "streaming" /\ k \notin cancelReq
  /\ AudioEnded(k)
  /\ UNCHANGED <<runVars, transportVars, speechVars>>

\* The audio stream raises: the error reaches the runtime and the bridge, and
\* the ENDED event then finds no open turn.
AudioFails(k) ==
  /\ audio[k] = "streaming" /\ k \notin cancelReq
  /\ RuntimeError
  /\ lifecycle' = IF lifecycle \in {"stopping", "stopped"} THEN lifecycle ELSE "failed"
  /\ TaskDone(k)
  /\ UNCHANGED <<run, shutdownSet, transportVars, speechVars>>

\* CancelledError reaches the task, in its stream or in the ENDED handler.
AudioCancelled(k) ==
  /\ k \in cancelReq
  /\ \/ audio[k] = "streaming" /\ AudioEnded(k)
     \/ audio[k] = "ending" /\ TaskDone(k) /\ UNCHANGED runtimeVars
  /\ UNCHANGED <<runVars, transportVars, speechVars>>

\* The USER_SPEECH_ENDED input returns.
EndingReturns(k) ==
  /\ audio[k] = "ending" /\ k \notin cancelReq
  /\ TaskDone(k)
  /\ UNCHANGED <<runVars, transportVars, runtimeVars, speechVars>>

-----------------------------------------------------------------------------
(* The transport's connection                                              *)

StoredTasks == {registered[s] : s \in Sids} \ {NoTask}
AllDone(ks) == \A k \in ks : audio[k] = "done"

\* connection_state_changed while the room is up.
RoomStateChanged(state) ==
  /\ room = "up"
  /\ tState' = state
  /\ UNCHANGED <<runVars, room, subscribed, gone, source, taskVars, runtimeVars, speechVars>>

\* The room is lost: the state change to DISCONNECTED, and
\* _handle_room_disconnected up to its gather.
RoomDisconnected ==
  /\ room = "up"
  /\ room' = "down"
  /\ subscribed' = {}
  /\ tState' = "disconnected"
  /\ cancelReq' = cancelReq \cup StoredTasks
  /\ registered' = [s \in Sids |-> NoTask]
  /\ leftAwaits' = StoredTasks
  /\ left' = "gather"
  /\ UNCHANGED <<runVars, gone, source, audio, sidOf, awaited, runtimeVars, speechVars>>

\* The rest of _handle_room_disconnected.
RoomLeft ==
  /\ left = "gather" /\ AllDone(leftAwaits)
  /\ left' = "done"
  /\ source' = FALSE
  /\ tState' = "disconnected"
  /\ gone' = TRUE
  /\ UNCHANGED <<runVars, room, subscribed, audio, sidOf, registered, cancelReq, awaited,
                 leftAwaits, runtimeVars, speechVars>>

-----------------------------------------------------------------------------
(* run() and its teardown                                                  *)

\* RuntimeWorkerSession's signal handler calls bridge.shutdown().
RequestShutdown ==
  /\ shutdownSet' = TRUE
  /\ UNCHANGED <<lifecycle, run, transportVars, taskVars, runtimeVars, speechVars>>

\* run() up to room.connect.
RunStarts ==
  /\ run = "new"
  /\ run' = "connecting"
  /\ lifecycle' = "connecting"
  /\ running' = TRUE
  /\ tState' = "connecting"
  /\ UNCHANGED <<shutdownSet, room, subscribed, gone, source, taskVars, stopRequested,
                 current, turnSeq, speech, cancelledIds, speechVars>>

\* room.connect returns; the outgoing track is being published.
RoomConnects ==
  /\ run = "connecting"
  /\ run' = "publishing"
  /\ room' = "up"
  /\ tState' = "connected"
  /\ source' = TRUE
  /\ UNCHANGED <<lifecycle, shutdownSet, subscribed, gone, taskVars, runtimeVars, speechVars>>

\* room.connect or publish_track raises: _on_transport_error for the first,
\* _handle_connect_failure for the second, unless the bridge has failed.
ConnectFails ==
  /\ run \in {"connecting", "publishing"}
  /\ run' = "teardown"
  /\ IF run = "publishing" /\ lifecycle = "failed"
     THEN UNCHANGED <<lifecycle, runtimeVars>>
     ELSE lifecycle' = "failed" /\ RuntimeError
  /\ tState' = IF run = "connecting" THEN "failed" ELSE tState
  /\ UNCHANGED <<shutdownSet, room, subscribed, gone, source, taskVars, speechVars>>

TrackPublished ==
  /\ run = "publishing"
  /\ run' = "waiting"
  /\ lifecycle' = "connected"
  /\ UNCHANGED <<shutdownSet, transportVars, taskVars, runtimeVars, speechVars>>

\* Fault: the two wait tasks are awaited together (ALL_COMPLETED).
RunWakes_both ==
  /\ run = "waiting"
  /\ gone /\ shutdownSet
  /\ run' = "teardown"
  /\ lifecycle' = "stopping"
  /\ UNCHANGED <<shutdownSet, transportVars, taskVars, runtimeVars, speechVars>>

\* One of the two wait tasks is done, the other has been cancelled and has
\* ended (run() is "waiting" until then); STOPPING is recorded for a shutdown,
\* over a FAILED too.
RunWakes ==
  /\ run = "waiting"
  /\ gone \/ shutdownSet
  /\ run' = "teardown"
  /\ lifecycle' = IF shutdownSet THEN "stopping" ELSE lifecycle
  /\ UNCHANGED <<shutdownSet, transportVars, taskVars, runtimeVars, speechVars>>

\* The task of run() is cancelled.
RunCancelled ==
  /\ run \in {"connecting", "publishing", "waiting"}
  /\ run' = "teardown"
  /\ lifecycle' = "stopping"
  /\ UNCHANGED <<shutdownSet, transportVars, taskVars, runtimeVars, speechVars>>

\* _teardown: the wait tasks have ended, the publish tasks are cancelled.
TeardownCancels ==
  /\ run = "teardown"
  /\ run' = "cancelling"
  /\ publish' = <<>>
  /\ UNCHANGED <<lifecycle, shutdownSet, transportVars, taskVars, runtimeVars, chunks,
                 heard>>

\* They have ended: STOPPING, and runtime.stop() up to its gather.
TeardownStops ==
  /\ run = "cancelling"
  /\ run' = "stopping"
  /\ lifecycle' = IF lifecycle = "failed" THEN lifecycle ELSE "stopping"
  /\ IF running
     THEN /\ stopRequested' = TRUE
          /\ cancelledIds' = cancelledIds \cup OpenTurn
          /\ current' = NoTurn
          /\ UNCHANGED <<running, turnSeq, speech>>
     ELSE UNCHANGED runtimeVars
  /\ UNCHANGED <<shutdownSet, transportVars, taskVars, speechVars>>

\* transport.disconnect() up to the gather of its audio tasks, or, when the
\* transport is disconnected already, the last cancellation of publish tasks.
LeaveTransport ==
  /\ IF tState # "disconnected"
     THEN /\ run' = "gather"
          /\ cancelReq' = cancelReq \cup StoredTasks
          /\ registered' = [s \in Sids |-> NoTask]
          /\ awaited' = StoredTasks
          /\ UNCHANGED publish
     ELSE /\ run' = "closing"
          /\ publish' = <<>>
          /\ UNCHANGED <<cancelReq, registered, awaited>>
  /\ UNCHANGED <<lifecycle, shutdownSet, transportVars, audio, sidOf, left, leftAwaits,
                 runtimeVars, chunks, heard>>

\* Fault: teardown goes on without awaiting runtime.stop().
TeardownLeaves_early ==
  /\ run = "stopping"
  /\ LeaveTransport

\* runtime.stop() has returned.
TeardownLeaves ==
  /\ run = "stopping" /\ ~running
  /\ LeaveTransport

\* The audio tasks have ended; room.disconnect() is awaited.
RoomLeaving ==
  /\ run = "gather" /\ AllDone(awaited)
  /\ run' = "leaving"
  /\ source' = FALSE
  /\ UNCHANGED <<lifecycle, shutdownSet, room, subscribed, tState, gone, taskVars, runtimeVars,
                 speechVars>>

\* room.disconnect() returns or raises.
TransportLeft ==
  /\ run = "leaving"
  /\ run' = "closing"
  /\ room' = "down"
  /\ subscribed' = {}
  /\ tState' = "disconnected"
  /\ gone' = TRUE
  /\ publish' = <<>>
  /\ UNCHANGED <<lifecycle, shutdownSet, source, taskVars, runtimeVars, chunks, heard>>

\* Fault: the end of the session hides its failure.
RunEnds_stopped ==
  /\ run = "closing"
  /\ run' = "ended"
  /\ lifecycle' = "stopped"
  /\ UNCHANGED <<shutdownSet, transportVars, taskVars, runtimeVars, speechVars>>

RunEnds ==
  /\ run = "closing"
  /\ run' = "ended"
  /\ lifecycle' = IF lifecycle = "failed" THEN lifecycle ELSE "stopped"
  /\ UNCHANGED <<shutdownSet, transportVars, taskVars, runtimeVars, speechVars>>

-----------------------------------------------------------------------------

RunStep ==
  \/ RunStarts \/ RoomConnects \/ ConnectFails \/ TrackPublished \/ RunWakes
  \/ TeardownCancels \/ TeardownStops \/ TeardownLeaves \/ RoomLeaving \/ TransportLeft
  \/ RunEnds

AudioStep(k) ==
  FrameOpensTurn(k) \/ AudioEnds(k) \/ AudioFails(k) \/ AudioCancelled(k) \/ EndingReturns(k)

RuntimeStep ==
  \/ TextInput \/ CancelInput \/ ShutdownInput \/ RuntimeStopped \/ TurnCloses
  \/ \E t \in Turns : ChunkAdmitted(t)

RoomStep ==
  \/ \E s \in Sids : TrackUnsubscribed(s) \/ \E k \in Tasks : TrackSubscribed(k, s)
  \/ \E state \in {"connected", "reconnecting"} : RoomStateChanged(state)
  \/ RoomDisconnected \/ RoomLeft

Next ==
  \/ RunStep \/ RunCancelled \/ RequestShutdown
  \/ \E k \in Tasks : AudioStep(k)
  \/ RuntimeStep \/ RoomStep \/ PublishTtsOutput

Spec == Init /\ [][Next]_vars

\* The loop runs every ready coroutine; connect, disconnect and stop() return;
\* an awaited USER_SPEECH_ENDED returns (checked of AgentRuntime).
Fairness ==
  /\ WF_vars(RunStep) /\ WF_vars(RuntimeStopped) /\ WF_vars(RoomLeft)
  /\ \A k \in Tasks : WF_vars(AudioCancelled(k)) /\ WF_vars(EndingReturns(k))

FairSpec == Spec /\ Fairness

-----------------------------------------------------------------------------
(* Properties                                                              *)

RunTypes ==
  /\ lifecycle \in Lifecycles /\ shutdownSet \in BOOLEAN
  /\ run \in {"new", "connecting", "publishing", "waiting", "teardown", "cancelling", "stopping",
              "gather", "leaving", "closing", "ended"}

TransportTypes ==
  /\ room \in {"new", "up", "down"} /\ tState \in TransportStates
  /\ subscribed \subseteq Sids /\ gone \in BOOLEAN /\ source \in BOOLEAN

TaskTypes ==
  /\ audio \in [Tasks -> {"none", "streaming", "ending", "done"}]
  /\ sidOf \in [Tasks -> Sids]
  /\ registered \in [Sids -> Tasks \cup {NoTask}]
  /\ cancelReq \subseteq Tasks /\ awaited \subseteq Tasks /\ leftAwaits \subseteq Tasks
  /\ left \in {"no", "gather", "done"}

RuntimeTypes ==
  /\ running \in BOOLEAN /\ stopRequested \in BOOLEAN
  /\ current \in Turns \cup {NoTurn} /\ turnSeq \in 0..MaxTurns
  /\ speech \subseteq Turns /\ cancelledIds \subseteq Turns

SpeechTypes ==
  /\ chunks \in 0..MaxChunks /\ heard \in [Turns -> Nat]
  /\ publish \in Seq(Turns)

\* The fields of the bridge, of the transport and of the runtime have the
\* values the code gives them: only tasks that exist are stored, cancelled or
\* awaited, and only turns that may begin are spoken or cancelled.
TypeOK == RunTypes /\ TransportTypes /\ TaskTypes /\ RuntimeTypes /\ SpeechTypes

\* Speech is only ever given to the room for a turn that no barge-in, cancel
\* or error has interrupted, although its publish task was created before.
InterruptedIsUnheard ==
  [][\A t \in cancelledIds : heard'[t] = heard[t]]_vars

\* Once run() has left its wait, for whatever reason, and the other wait task
\* has ended, not one more frame is given to the room, whatever publish tasks
\* are still scheduled.
TeardownIsSilent ==
  [][run \notin {"publishing", "waiting"} => heard' = heard]_vars

\* When run() has returned the runtime is stopped, the transport is
\* disconnected and the lifecycle says how the session ended.
EndedIsClean ==
  run = "ended" => ~running /\ tState = "disconnected" /\ lifecycle \in {"stopped", "failed"}

\* Once the teardown has called runtime.stop() no turn is open and none is
\* opened, although tracks, frames and text inputs still arrive.
TeardownClosesTurn ==
  run \in {"stopping", "gather", "leaving", "closing", "ended"} => current = NoTurn

\* A failure the bridge has recorded is what the session ends with, once the
\* teardown has begun: neither STOPPING nor STOPPED replaces it.  Before, it is
\* replaced in two ways only: run() records CONNECTED when the outgoing track
\* is published, or STOPPING when it leaves for its teardown.
FailureLostOnlyBeforeTeardown ==
  [][lifecycle = "failed" /\ lifecycle' # "failed" =>
       \/ run = "publishing" /\ run' = "waiting" /\ lifecycle' = "connected"
       \/ /\ run \in {"publishing", "waiting"} /\ run' = "teardown"
          /\ lifecycle' = "stopping"]_vars

\* A shutdown request ends run(), whatever the audio tasks and the turn do;
\* and so does losing the room, although the transport first awaits audio
\* tasks that may be in the middle of finalising a turn.
SessionEnds == (shutdownSet /\ run # "new") \/ room = "down" ~> run = "ended"

-----------------------------------------------------------------------------
(* What the repository's documents say and the code does not do            *)

\* "Bridge shutdown | Background tasks cancelled; no orphan ingestion tasks"
\* (docs/status/phase-2-step-7.md): when the teardown leaves the transport,
\* every task that still reads audio is cancelled.
NoOrphanIngestion ==
  [][run # "gather" /\ run' = "gather" =>
       \A k \in Tasks : audio[k] = "streaming" => k \in cancelReq']_vars

\* "Transport error while connected | `failed`" and "Failures are logged and
\* surfaced ... not swallowed" (docs/status/phase-2-step-6.md): the session
\* that failed while run() waits is still FAILED after a shutdown request.
ShutdownKeepsFailure ==
  [][run = "waiting" /\ shutdownSet /\ lifecycle = "failed" => lifecycle' = "failed"]_vars
=============================================================================
