-------------------------- MODULE MediaBridgeProofs --------------------------
(***************************************************************************)
(* Proofs about MediaBridge, for any tracks and any number of audio tasks, *)
(* turns and speech chunks.  BInv is the inductive invariant.              *)
(***************************************************************************)
EXTENDS MediaBridge, TLAPS

Before   == {"new", "connecting"}
Teardown == {"teardown", "cancelling", "stopping", "gather", "leaving", "closing", "ended"}
Stopping == {"stopping", "gather", "leaving", "closing", "ended"}
Stopped  == {"gather", "leaving", "closing", "ended"}

\* The transport's state follows the room, and a lost room stays lost.
RoomInv ==
  /\ run \in Before => room = "new" /\ tState \in {"disconnected", "connecting"}
  /\ room = "down" => tState = "disconnected"
  /\ tState = "disconnected" => room = "down" \/ run = "new"
  /\ gone => room = "down"
  /\ left # "no" => room = "down"
  /\ run \in {"closing", "ended"} => room = "down"

\* A runtime that takes no input has no open turn.
ClosedInv == ~VoiceInputEnabled => current = NoTurn

\* From its call of runtime.stop() on, teardown finds a runtime that takes no
\* input, and from its return on one that is stopped.
StopInv ==
  /\ run \in Stopping => ~VoiceInputEnabled
  /\ run \in Stopped => ~running

\* A session that is torn down has recorded why, unless the room was lost.
ReasonInv ==
  /\ run \in Teardown => lifecycle \in {"stopping", "stopped", "failed"} \/ gone
  /\ run = "ended" => lifecycle \in {"stopped", "failed"}

BInv == TypeOK /\ RoomInv /\ ClosedInv /\ StopInv /\ ReasonInv

-----------------------------------------------------------------------------
(* The type invariant.                                                     *)

\* Variables that do not change keep their types.
LEMMA Frames ==
  ASSUME TypeOK
  PROVE  /\ RunTypes /\ TransportTypes /\ TaskTypes /\ RuntimeTypes /\ SpeechTypes
         /\ UNCHANGED runVars => RunTypes'
         /\ UNCHANGED transportVars => TransportTypes'
         /\ UNCHANGED taskVars => TaskTypes'
         /\ UNCHANGED runtimeVars => RuntimeTypes'
         /\ UNCHANGED speechVars => SpeechTypes'
<1>1. UNCHANGED runVars => RunTypes'
  BY DEF TypeOK, RunTypes, runVars
<1>2. UNCHANGED transportVars => TransportTypes'
  BY DEF TypeOK, TransportTypes, transportVars
<1>3. UNCHANGED taskVars => TaskTypes'
  BY DEF TypeOK, TaskTypes, taskVars
<1>4. UNCHANGED runtimeVars => RuntimeTypes'
  BY DEF TypeOK, RuntimeTypes, runtimeVars
<1>5. UNCHANGED speechVars => SpeechTypes'
  BY DEF TypeOK, SpeechTypes, speechVars
<1> QED
  BY <1>1, <1>2, <1>3, <1>4, <1>5 DEF TypeOK

\* Every step keeps the types.
LEMMA TypeStep ==
  ASSUME TypeOK, [Next]_vars
  PROVE  TypeOK'
<1> USE BridgeAssumption, Frames
<1> SUFFICES RunTypes' /\ TransportTypes' /\ TaskTypes' /\ RuntimeTypes' /\ SpeechTypes'
  BY DEF TypeOK
<1> DEFINE Typed == RunTypes' /\ TransportTypes' /\ TaskTypes' /\ RuntimeTypes' /\ SpeechTypes'
<1>1. CASE RunStep
  <2>1. CASE RunStarts
    BY <2>1 DEF RunStarts, RunTypes, Lifecycles, TransportTypes, TransportStates,
       RuntimeTypes, Turns, NoTurn, runVars, transportVars, taskVars, runtimeVars,
       speechVars
  <2>2. CASE RoomConnects
    BY <2>2 DEF RoomConnects, RunTypes, Lifecycles, TransportTypes, TransportStates,
       runVars, transportVars, taskVars, runtimeVars, speechVars
  <2>3. CASE ConnectFails
    BY <2>3 DEF ConnectFails, RuntimeError, OpenTurn, RunTypes, Lifecycles,
       TransportTypes, TransportStates, RuntimeTypes, Turns, NoTurn, runVars,
       transportVars, taskVars, runtimeVars, speechVars
  <2>4. CASE TrackPublished
    BY <2>4 DEF TrackPublished, RunTypes, Lifecycles, runVars, transportVars,
       taskVars, runtimeVars, speechVars
  <2>5. CASE RunWakes
    BY <2>5 DEF RunWakes, RunTypes, Lifecycles, runVars, transportVars, taskVars,
       runtimeVars, speechVars
  <2>6. CASE TeardownCancels
    <3>1. UNCHANGED <<transportVars, taskVars, runtimeVars>>
      BY <2>6 DEF TeardownCancels
    <3>2. RunTypes'
      BY <2>6 DEF TeardownCancels, RunTypes
    <3>3. SpeechTypes'
      BY <2>6 DEF TeardownCancels, SpeechTypes
    <3> QED
      BY <3>1, <3>2, <3>3
  <2>7. CASE TeardownStops
    BY <2>7 DEF TeardownStops, OpenTurn, RunTypes, Lifecycles, RuntimeTypes, Turns,
       NoTurn, runVars, transportVars, taskVars, runtimeVars, speechVars
  <2>8. CASE TeardownLeaves
    <3>1. StoredTasks \subseteq Tasks
      BY DEF StoredTasks, TaskTypes
    <3>2. TaskTypes'
      <4>1. registered' = registered \/ registered' = [s \in Sids |-> NoTask]
        BY <2>8 DEF TeardownLeaves, LeaveTransport
      <4>2. cancelReq' \subseteq Tasks /\ awaited' \subseteq Tasks
        BY <2>8, <3>1 DEF TeardownLeaves, LeaveTransport, TaskTypes
      <4>3. UNCHANGED <<audio, sidOf, left, leftAwaits>>
        BY <2>8 DEF TeardownLeaves, LeaveTransport
      <4> QED
        BY <4>1, <4>2, <4>3 DEF TaskTypes
    <3>3. SpeechTypes'
      <4>1. UNCHANGED <<chunks, heard>> /\ (publish' = publish \/ publish' = <<>>)
        BY <2>8 DEF TeardownLeaves, LeaveTransport
      <4>2. <<>> \in Seq(Turns)
        OBVIOUS
      <4> QED
        BY <4>1, <4>2 DEF SpeechTypes
    <3>4. RunTypes'
      BY <2>8 DEF TeardownLeaves, LeaveTransport, RunTypes
    <3>5. UNCHANGED <<transportVars, runtimeVars>>
      BY <2>8 DEF TeardownLeaves, LeaveTransport
    <3> QED
      BY <3>2, <3>3, <3>4, <3>5
  <2>9. CASE RoomLeaving
    BY <2>9 DEF RoomLeaving, RunTypes, Lifecycles, TransportTypes, TransportStates,
       runVars, transportVars, taskVars, runtimeVars, speechVars
  <2>10. CASE TransportLeft
    <3>1. UNCHANGED <<taskVars, runtimeVars>>
      BY <2>10 DEF TransportLeft
    <3>2. RunTypes'
      BY <2>10 DEF TransportLeft, RunTypes
    <3>3. TransportTypes'
      BY <2>10 DEF TransportLeft, TransportTypes, TransportStates
    <3>4. SpeechTypes'
      BY <2>10 DEF TransportLeft, SpeechTypes
    <3> QED
      BY <3>1, <3>2, <3>3, <3>4
  <2>11. CASE RunEnds
    BY <2>11 DEF RunEnds, RunTypes, Lifecycles, runVars, transportVars, taskVars,
       runtimeVars, speechVars
  <2> QED
    BY <1>1, <2>1, <2>2, <2>3, <2>4, <2>5, <2>6, <2>7, <2>8, <2>9, <2>10, <2>11 DEF
       RunStep
<1>2. CASE RunCancelled
  BY <1>2 DEF RunCancelled, RunTypes, Lifecycles, runVars, transportVars, taskVars,
     runtimeVars, speechVars
<1>3. CASE RequestShutdown
  BY <1>3 DEF RequestShutdown, RunTypes, Lifecycles, runVars, transportVars,
     taskVars, runtimeVars, speechVars
<1>4. ASSUME NEW k \in Tasks, AudioStep(k)
      PROVE  Typed
  <2>1. CASE FrameOpensTurn(k)
    BY <2>1 DEF FrameOpensTurn, VoiceInputEnabled, SpeechStarted, BeginTurn,
       RuntimeTypes, Turns, NoTurn, runVars, transportVars, taskVars, runtimeVars,
       speechVars
  <2>2. CASE AudioEnds(k)
    BY <2>2 DEF AudioEnds, AudioEnded, TaskDone, VoiceInputEnabled, TaskTypes,
       Tasks, NoTask, RuntimeTypes, Turns, NoTurn, runVars, transportVars, taskVars,
       runtimeVars, speechVars
  <2>3. CASE AudioFails(k)
    BY <2>3 DEF AudioFails, RuntimeError, TaskDone, OpenTurn, RunTypes, Lifecycles,
       TaskTypes, Tasks, NoTask, RuntimeTypes, Turns, NoTurn, runVars,
       transportVars, taskVars, runtimeVars, speechVars
  <2>4. CASE AudioCancelled(k)
    <3>1. CASE AudioEnded(k)
      BY <2>4, <3>1, ZenonT(40) DEF AudioCancelled, AudioEnded, TaskDone, VoiceInputEnabled, TaskTypes,
         Tasks, NoTask, RuntimeTypes, Turns, NoTurn, runtimeVars
    <3>2. CASE TaskDone(k) /\ UNCHANGED runtimeVars
      BY <2>4, <3>2 DEF AudioCancelled, TaskDone, TaskTypes, Tasks, NoTask
    <3> QED
      BY <2>4, <3>1, <3>2 DEF AudioCancelled
  <2>5. CASE EndingReturns(k)
    BY <2>5 DEF EndingReturns, TaskDone, TaskTypes, Tasks, NoTask, runVars,
       transportVars, taskVars, runtimeVars, speechVars
  <2> QED
    BY <1>4, <2>1, <2>2, <2>3, <2>4, <2>5 DEF AudioStep
<1>5. CASE RuntimeStep
  <2>1. CASE TextInput
    BY <2>1 DEF TextInput, VoiceInputEnabled, BeginTurn, RuntimeTypes, Turns,
       NoTurn, runVars, transportVars, taskVars, runtimeVars, speechVars
  <2>2. CASE CancelInput
    BY <2>2 DEF CancelInput, VoiceInputEnabled, RuntimeTypes, Turns, NoTurn,
       runVars, transportVars, taskVars, runtimeVars, speechVars
  <2>3. CASE ShutdownInput
    BY <2>3 DEF ShutdownInput, VoiceInputEnabled, OpenTurn, RuntimeTypes, Turns,
       NoTurn, runVars, transportVars, taskVars, runtimeVars, speechVars
  <2>4. CASE RuntimeStopped
    BY <2>4 DEF RuntimeStopped, RuntimeTypes, Turns, NoTurn, runVars, transportVars,
       taskVars, runtimeVars, speechVars
  <2>5. CASE TurnCloses
    BY <2>5 DEF TurnCloses, RuntimeTypes, Turns, NoTurn, runVars, transportVars,
       taskVars, runtimeVars, speechVars
  <2>6. ASSUME NEW t \in Turns, ChunkAdmitted(t)
       PROVE  Typed
    BY <2>6, SMTT(30) DEF ChunkAdmitted, SpeechTypes, Turns, runVars, transportVars, taskVars,
       runtimeVars, speechVars
  <2> QED
    BY <1>5, <2>1, <2>2, <2>3, <2>4, <2>5, <2>6 DEF RuntimeStep
<1>6. CASE RoomStep
  <2>1. CASE RoomDisconnected
    BY <2>1 DEF RoomDisconnected, StoredTasks, TransportTypes, TransportStates,
       TaskTypes, Tasks, NoTask, runVars, transportVars, taskVars, runtimeVars,
       speechVars
  <2>2. CASE RoomLeft
    BY <2>2 DEF RoomLeft, TransportTypes, TransportStates, TaskTypes, Tasks, NoTask,
       runVars, transportVars, taskVars, runtimeVars, speechVars
  <2>3. ASSUME NEW s \in Sids, TrackUnsubscribed(s)
       PROVE  Typed
    BY <2>3 DEF TrackUnsubscribed, TransportTypes, TransportStates, TaskTypes,
       Tasks, NoTask, runVars, transportVars, taskVars, runtimeVars, speechVars
  <2>4. ASSUME NEW s \in Sids, NEW k \in Tasks, TrackSubscribed(k, s)
       PROVE  Typed
    BY <2>4 DEF TrackSubscribed, VoiceInputEnabled, SpeechStarted, BeginTurn,
       OpenTurn, TransportTypes, TransportStates, TaskTypes, Tasks, NoTask,
       RuntimeTypes, Turns, NoTurn, runVars, transportVars, taskVars, runtimeVars,
       speechVars
  <2>5. ASSUME NEW state \in {"connected", "reconnecting"}, RoomStateChanged(state)
       PROVE  Typed
    BY <2>5 DEF RoomStateChanged, TransportTypes, TransportStates, runVars,
       transportVars, taskVars, runtimeVars, speechVars
  <2> QED
    BY <1>6, <2>1, <2>2, <2>3, <2>4, <2>5 DEF RoomStep
<1>7. CASE PublishTtsOutput
  <2>1. publish \in Seq(Turns) /\ publish # <<>>
    BY <1>7 DEF PublishTtsOutput, SpeechTypes
  <2>2. Head(publish) \in Turns /\ publish' \in Seq(Turns)
    BY <1>7, <2>1 DEF PublishTtsOutput
  <2>3. SpeechTypes'
    BY <1>7, <2>2, SMTT(30) DEF PublishTtsOutput, SpeechTypes
  <2> QED
    BY <1>7, <2>3 DEF PublishTtsOutput
<1>8. CASE UNCHANGED vars
  BY <1>8 DEF vars, runVars, transportVars, taskVars, runtimeVars, speechVars
<1> QED
  BY <1>1, <1>2, <1>3, <1>4, <1>5, <1>6, <1>7, <1>8 DEF Next

-----------------------------------------------------------------------------
(* The inductive invariant.                                                *)

\* The initial state has it.
LEMMA InitStep == Init => BInv
<1> USE BridgeAssumption DEF Tasks, Turns, NoTask, NoTurn
<1> SUFFICES ASSUME Init  PROVE BInv
  OBVIOUS
<1>1. TypeOK
  <2>1. RunTypes /\ TransportTypes
    BY DEF Init, RunTypes, TransportTypes, Lifecycles, TransportStates
  <2>2. TaskTypes
    <3>1. (CHOOSE s \in Sids : TRUE) \in Sids
      OBVIOUS
    <3> QED
      BY <3>1 DEF Init, TaskTypes
  <2>3. RuntimeTypes
    <3>1. 0 \in 0..MaxTurns
      OBVIOUS
    <3>2. speech = {} /\ cancelledIds = {} /\ turnSeq = 0 /\ current = 0
      BY DEF Init
    <3>3. running \in BOOLEAN /\ stopRequested \in BOOLEAN
      BY DEF Init
    <3> QED
      BY <3>1, <3>2, <3>3 DEF RuntimeTypes
  <2>4. SpeechTypes
    <3>1. <<>> \in Seq(Turns)
      OBVIOUS
    <3> QED
      BY <3>1 DEF Init, SpeechTypes
  <2> QED
    BY <2>1, <2>2, <2>3, <2>4 DEF TypeOK
<1>2. RoomInv /\ ClosedInv /\ StopInv /\ ReasonInv
  BY DEF Init, RoomInv, ClosedInv, StopInv, ReasonInv, VoiceInputEnabled, Before,
         Stopping, Stopped, Teardown
<1> QED
  BY <1>1, <1>2 DEF BInv

\* What a step does to the room, to the runtime and to run().
LEMMA RestStep ==
  ASSUME BInv, [Next]_vars
  PROVE  RoomInv' /\ ClosedInv' /\ StopInv' /\ ReasonInv'
<1> USE DEF NoTurn, Before, Teardown, Stopping, Stopped, VoiceInputEnabled
<1>1. CASE RunStep
  <2>1. CASE RunStarts
    BY <2>1 DEF RunStarts, BInv, RoomInv, ClosedInv, StopInv, ReasonInv, runVars,
       transportVars, taskVars, runtimeVars, speechVars
  <2>2. CASE RoomConnects
    BY <2>2 DEF RoomConnects, BInv, RoomInv, ClosedInv, StopInv, ReasonInv, runVars,
       transportVars, taskVars, runtimeVars, speechVars
  <2>3. CASE ConnectFails
    BY <2>3 DEF ConnectFails, RuntimeError, OpenTurn, BInv, RoomInv, ClosedInv,
       StopInv, ReasonInv, runVars, transportVars, taskVars, runtimeVars, speechVars
  <2>4. CASE TrackPublished
    BY <2>4 DEF TrackPublished, BInv, RoomInv, ClosedInv, StopInv, ReasonInv,
       runVars, transportVars, taskVars, runtimeVars, speechVars
  <2>5. CASE RunWakes
    BY <2>5 DEF RunWakes, BInv, RoomInv, ClosedInv, StopInv, ReasonInv, runVars,
       transportVars, taskVars, runtimeVars, speechVars
  <2>6. CASE TeardownCancels
    BY <2>6 DEF TeardownCancels, BInv, RoomInv, ClosedInv, StopInv, ReasonInv,
       runVars, transportVars, taskVars, runtimeVars, speechVars
  <2>7. CASE TeardownStops
    BY <2>7 DEF TeardownStops, OpenTurn, BInv, RoomInv, ClosedInv, StopInv,
       ReasonInv, runVars, transportVars, taskVars, runtimeVars, speechVars
  <2>8. CASE TeardownLeaves
    BY <2>8 DEF TeardownLeaves, LeaveTransport, StoredTasks, BInv, RoomInv,
       ClosedInv, StopInv, ReasonInv, runVars, transportVars, taskVars, runtimeVars,
       speechVars
  <2>9. CASE RoomLeaving
    BY <2>9 DEF RoomLeaving, BInv, RoomInv, ClosedInv, StopInv, ReasonInv, runVars,
       transportVars, taskVars, runtimeVars, speechVars
  <2>10. CASE TransportLeft
    BY <2>10 DEF TransportLeft, BInv, RoomInv, ClosedInv, StopInv, ReasonInv,
       runVars, transportVars, taskVars, runtimeVars, speechVars
  <2>11. CASE RunEnds
    BY <2>11 DEF RunEnds, BInv, RoomInv, ClosedInv, StopInv, ReasonInv, runVars,
       transportVars, taskVars, runtimeVars, speechVars
  <2> QED
    BY <1>1, <2>1, <2>2, <2>3, <2>4, <2>5, <2>6, <2>7, <2>8, <2>9, <2>10, <2>11 DEF
       RunStep
<1>2. CASE RunCancelled
  BY <1>2 DEF RunCancelled, BInv, RoomInv, ClosedInv, StopInv, ReasonInv, runVars,
     transportVars, taskVars, runtimeVars, speechVars
<1>3. CASE RequestShutdown
  BY <1>3 DEF RequestShutdown, BInv, RoomInv, ClosedInv, StopInv, ReasonInv,
     runVars, transportVars, taskVars, runtimeVars, speechVars
<1>4. ASSUME NEW k \in Tasks, AudioStep(k)
      PROVE  RoomInv' /\ ClosedInv' /\ StopInv' /\ ReasonInv'
  <2>1. CASE FrameOpensTurn(k)
    BY <2>1 DEF FrameOpensTurn, VoiceInputEnabled, SpeechStarted, BeginTurn, BInv,
       RoomInv, ClosedInv, StopInv, ReasonInv, runVars, transportVars, taskVars,
       runtimeVars, speechVars
  <2>2. CASE AudioEnds(k)
    BY <2>2 DEF AudioEnds, AudioEnded, TaskDone, VoiceInputEnabled, BInv, RoomInv,
       ClosedInv, StopInv, ReasonInv, runVars, transportVars, taskVars, runtimeVars,
       speechVars
  <2>3. CASE AudioFails(k)
    BY <2>3 DEF AudioFails, RuntimeError, TaskDone, OpenTurn, BInv, RoomInv,
       ClosedInv, StopInv, ReasonInv, runVars, transportVars, taskVars, runtimeVars,
       speechVars
  <2>4. CASE AudioCancelled(k)
    BY <2>4 DEF AudioCancelled, AudioEnded, TaskDone, VoiceInputEnabled, BInv,
       RoomInv, ClosedInv, StopInv, ReasonInv, runVars, transportVars, taskVars,
       runtimeVars, speechVars
  <2>5. CASE EndingReturns(k)
    BY <2>5 DEF EndingReturns, TaskDone, BInv, RoomInv, ClosedInv, StopInv,
       ReasonInv, runVars, transportVars, taskVars, runtimeVars, speechVars
  <2> QED
    BY <1>4, <2>1, <2>2, <2>3, <2>4, <2>5 DEF AudioStep
<1>5. CASE RuntimeStep
  <2>1. CASE TextInput
    BY <2>1 DEF TextInput, VoiceInputEnabled, BeginTurn, BInv, RoomInv, ClosedInv,
       StopInv, ReasonInv, runVars, transportVars, taskVars, runtimeVars, speechVars
  <2>2. CASE CancelInput
    BY <2>2 DEF CancelInput, VoiceInputEnabled, BInv, RoomInv, ClosedInv, StopInv,
       ReasonInv, runVars, transportVars, taskVars, runtimeVars, speechVars
  <2>3. CASE ShutdownInput
    BY <2>3 DEF ShutdownInput, VoiceInputEnabled, OpenTurn, BInv, RoomInv,
       ClosedInv, StopInv, ReasonInv, runVars, transportVars, taskVars, runtimeVars,
       speechVars
  <2>4. CASE RuntimeStopped
    BY <2>4 DEF RuntimeStopped, BInv, RoomInv, ClosedInv, StopInv, ReasonInv,
       runVars, transportVars, taskVars, runtimeVars, speechVars
  <2>5. CASE TurnCloses
    BY <2>5 DEF TurnCloses, BInv, RoomInv, ClosedInv, StopInv, ReasonInv, runVars,
       transportVars, taskVars, runtimeVars, speechVars
  <2>6. ASSUME NEW t \in Turns, ChunkAdmitted(t)
       PROVE  RoomInv' /\ ClosedInv' /\ StopInv' /\ ReasonInv'
    BY <2>6 DEF ChunkAdmitted, BInv, RoomInv, ClosedInv, StopInv, ReasonInv,
       runVars, transportVars, taskVars, runtimeVars, speechVars
  <2> QED
    BY <1>5, <2>1, <2>2, <2>3, <2>4, <2>5, <2>6 DEF RuntimeStep
<1>6. CASE RoomStep
  <2>1. CASE RoomDisconnected
    BY <2>1 DEF RoomDisconnected, StoredTasks, BInv, RoomInv, ClosedInv, StopInv,
       ReasonInv, runVars, transportVars, taskVars, runtimeVars, speechVars
  <2>2. CASE RoomLeft
    BY <2>2 DEF RoomLeft, BInv, RoomInv, ClosedInv, StopInv, ReasonInv, runVars,
       transportVars, taskVars, runtimeVars, speechVars
  <2>3. ASSUME NEW s \in Sids, TrackUnsubscribed(s)
       PROVE  RoomInv' /\ ClosedInv' /\ StopInv' /\ ReasonInv'
    BY <2>3 DEF TrackUnsubscribed, BInv, RoomInv, ClosedInv, StopInv, ReasonInv,
       runVars, transportVars, taskVars, runtimeVars, speechVars
  <2>4. ASSUME NEW s \in Sids, NEW k \in Tasks, TrackSubscribed(k, s)
       PROVE  RoomInv' /\ ClosedInv' /\ StopInv' /\ ReasonInv'
    BY <2>4 DEF TrackSubscribed, VoiceInputEnabled, SpeechStarted, BeginTurn,
       OpenTurn, BInv, RoomInv, ClosedInv, StopInv, ReasonInv, runVars,
       transportVars, taskVars, runtimeVars, speechVars
  <2>5. ASSUME NEW state \in {"connected", "reconnecting"}, RoomStateChanged(state)
       PROVE  RoomInv' /\ ClosedInv' /\ StopInv' /\ ReasonInv'
    BY <2>5 DEF RoomStateChanged, BInv, RoomInv, ClosedInv, StopInv, ReasonInv,
       runVars, transportVars, taskVars, runtimeVars, speechVars
  <2> QED
    BY <1>6, <2>1, <2>2, <2>3, <2>4, <2>5 DEF RoomStep
<1>7. CASE PublishTtsOutput
  BY <1>7 DEF PublishTtsOutput, BInv, RoomInv, ClosedInv, StopInv, ReasonInv,
     runVars, transportVars, taskVars, runtimeVars, speechVars
<1>8. CASE UNCHANGED vars
  BY <1>8 DEF vars, BInv, RoomInv, ClosedInv, StopInv, ReasonInv, runVars,
     transportVars, taskVars, runtimeVars, speechVars
<1> QED
  BY <1>1, <1>2, <1>3, <1>4, <1>5, <1>6, <1>7, <1>8 DEF Next

\* BInv is inductive.
LEMMA BInvStep == BInv /\ [Next]_vars => BInv'
<1> SUFFICES ASSUME BInv, [Next]_vars  PROVE BInv'
  OBVIOUS
<1> QED
  BY TypeStep, RestStep DEF BInv

\* BInv holds throughout.
LEMMA Inductive == Spec => []BInv
BY InitStep, BInvStep, PTL DEF Spec

-----------------------------------------------------------------------------
(* The theorems.                                                           *)

\* The state of bridge, transport and runtime is well typed, however many
\* tracks, audio tasks and turns there are.
THEOREM TypeCorrect == Spec => []TypeOK
<1>1. BInv => TypeOK
  BY DEF BInv
<1> QED
  BY Inductive, <1>1, PTL

\* When run() has returned the runtime is stopped, the transport disconnected
\* and the lifecycle final.
THEOREM EndsClean == Spec => []EndedIsClean
<1>1. BInv => EndedIsClean
  BY DEF BInv, EndedIsClean, RoomInv, StopInv, ReasonInv, Stopped
<1> QED
  BY Inductive, <1>1, PTL

\* No turn is open, or opened, once _teardown has called runtime.stop().
THEOREM NoTurnInTeardown == Spec => []TeardownClosesTurn
<1>1. BInv => TeardownClosesTurn
  BY DEF BInv, TeardownClosesTurn, ClosedInv, StopInv, Stopping
<1> QED
  BY Inductive, <1>1, PTL

\* Only _publish_tts_output gives speech to the room.
LEMMA OnlyPublishSpeaks ==
  ASSUME [Next]_vars, heard' # heard
  PROVE  PublishTtsOutput
<1> USE DEF speechVars
<1>1. ~ RunStep
  BY DEF RunStep, RunStarts, RoomConnects, ConnectFails, TrackPublished, RunWakes,
     TeardownCancels, TeardownStops, TeardownLeaves, RoomLeaving, TransportLeft,
     RunEnds, LeaveTransport
<1>2. ~ RunCancelled /\ ~ RequestShutdown
  BY DEF RunCancelled, RequestShutdown
<1>3. \A k \in Tasks : ~ AudioStep(k)
  BY DEF AudioStep, FrameOpensTurn, AudioEnds, AudioFails, AudioCancelled, EndingReturns
<1>4. ~ RuntimeStep
  BY DEF RuntimeStep, TextInput, CancelInput, ShutdownInput, RuntimeStopped, TurnCloses,
     ChunkAdmitted
<1>5. ~ RoomStep
  BY DEF RoomStep, TrackUnsubscribed, TrackSubscribed, RoomStateChanged, RoomDisconnected,
     RoomLeft
<1>6. ~ UNCHANGED vars
  BY DEF vars
<1> QED
  BY <1>1, <1>2, <1>3, <1>4, <1>5, <1>6 DEF Next

\* No speech of an interrupted turn reaches the room, although its publish
\* task was created before the interruption.
THEOREM InterruptSilencesRoom == Spec => InterruptedIsUnheard
<1>1. BInv /\ [Next]_vars => [\A t \in cancelledIds : heard'[t] = heard[t]]_vars
  <2> SUFFICES ASSUME BInv, [Next]_vars, heard' # heard, NEW t \in cancelledIds
               PROVE  heard'[t] = heard[t]
    OBVIOUS
  <2>1. PublishTtsOutput
    BY OnlyPublishSpeaks
  <2>2. publish \in Seq(Turns) /\ publish # <<>> /\ t \in Turns
    BY <2>1 DEF BInv, TypeOK, SpeechTypes, RuntimeTypes, PublishTtsOutput
  <2>3. Head(publish) \notin cancelledIds
    BY <2>1 DEF PublishTtsOutput, MayPublish
  <2>4. heard' = [heard EXCEPT ![Head(publish)] = @ + 1]
    BY <2>1 DEF PublishTtsOutput
  <2> QED
    BY <2>2, <2>3, <2>4 DEF BInv, TypeOK, SpeechTypes
<1> QED
  BY Inductive, <1>1, PTL DEF Spec, InterruptedIsUnheard

\* Nothing is given to the room once run() has left its wait and the other
\* wait task has ended.
THEOREM TeardownSilencesRoom == Spec => TeardownIsSilent
<1>1. BInv /\ [Next]_vars => [run \notin {"publishing", "waiting"} => heard' = heard]_vars
  <2> SUFFICES ASSUME BInv, [Next]_vars, heard' # heard
               PROVE  run \in {"publishing", "waiting"}
    OBVIOUS
  <2>1. PublishTtsOutput
    BY OnlyPublishSpeaks
  <2>2. tState = "connected" /\ lifecycle \notin {"stopping", "stopped", "failed"}
    BY <2>1 DEF PublishTtsOutput, MayPublish
  <2>3. run \notin Before /\ run \notin Teardown
    BY <2>2 DEF BInv, RoomInv, ReasonInv
  <2> QED
    BY <2>3 DEF BInv, TypeOK, RunTypes, Before, Teardown
<1> QED
  BY Inductive, <1>1, PTL DEF Spec, TeardownIsSilent

\* Before run() has connected there is no audio task, and so no failure.
EarlyInv ==
  /\ room = "new" => \A k \in Tasks : audio[k] = "none"
  /\ run \in Before => lifecycle # "failed"

\* No step before the connection is a failure of an audio task.
LEMMA EarlyStep ==
  ASSUME BInv, EarlyInv, [Next]_vars
  PROVE  EarlyInv'
<1> USE DEF runVars, transportVars, taskVars
<1>0. room = "new" => \A k \in Tasks : audio[k] = "none"
  BY DEF EarlyInv
<1>1. CASE RunStep
  BY <1>1, <1>0 DEF RunStep, RunStarts, RoomConnects, ConnectFails, TrackPublished, RunWakes,
     TeardownCancels, TeardownStops, TeardownLeaves, RoomLeaving, TransportLeft, RunEnds,
     LeaveTransport, EarlyInv, Before
<1>2. CASE RunCancelled \/ RequestShutdown
  BY <1>2 DEF RunCancelled, RequestShutdown, EarlyInv, Before
<1>3. ASSUME NEW k \in Tasks, AudioStep(k)  PROVE EarlyInv'
  <2>1. audio[k] # "none"
    BY <1>3 DEF AudioStep, FrameOpensTurn, AudioEnds, AudioFails, AudioCancelled,
       EndingReturns
  <2>2. room # "new" /\ run \notin Before
    BY <2>1, <1>0 DEF BInv, RoomInv
  <2>3. UNCHANGED <<room, run>>
    BY <1>3 DEF AudioStep, FrameOpensTurn, AudioEnds, AudioFails, AudioCancelled,
       EndingReturns
  <2> QED
    BY <2>2, <2>3 DEF EarlyInv
<1>4. CASE RuntimeStep
  BY <1>4 DEF RuntimeStep, TextInput, CancelInput, ShutdownInput, RuntimeStopped, TurnCloses,
     ChunkAdmitted, EarlyInv
<1>5. CASE RoomStep
  BY <1>5 DEF RoomStep, TrackUnsubscribed, TrackSubscribed, RoomStateChanged,
     RoomDisconnected, RoomLeft, EarlyInv
<1>6. CASE PublishTtsOutput
  BY <1>6 DEF PublishTtsOutput, EarlyInv
<1>7. CASE UNCHANGED vars
  BY <1>7 DEF vars, EarlyInv
<1> QED
  BY <1>1, <1>2, <1>3, <1>4, <1>5, <1>6, <1>7 DEF Next

\* A recorded failure is what run() ends with, unless CONNECTED replaces it
\* when the track is published or STOPPING when run() leaves for its teardown.
THEOREM FailureIsKept == Spec => FailureLostOnlyBeforeTeardown
<1> DEFINE Lost == \/ run = "publishing" /\ run' = "waiting" /\ lifecycle' = "connected"
                   \/ /\ run \in {"publishing", "waiting"} /\ run' = "teardown"
                      /\ lifecycle' = "stopping"
<1>1. Init => EarlyInv
  BY DEF Init, EarlyInv
<1>2. BInv /\ EarlyInv /\ [Next]_vars => EarlyInv'
  BY EarlyStep
<1>3. BInv /\ EarlyInv /\ [Next]_vars =>
        [lifecycle = "failed" /\ lifecycle' # "failed" => Lost]_vars
  <2> SUFFICES ASSUME BInv, EarlyInv, [Next]_vars, lifecycle = "failed", lifecycle' # "failed"
               PROVE  Lost
    OBVIOUS
  <2>0. run \notin Before
    BY DEF EarlyInv
  <2> USE <2>0 DEF runVars, Before
  <2>1. CASE RunStep
    BY <2>1 DEF RunStep, RunStarts, RoomConnects, ConnectFails, TrackPublished,
       RunWakes, TeardownCancels, TeardownStops, TeardownLeaves, RoomLeaving,
       TransportLeft, RunEnds, LeaveTransport
  <2>2. CASE RunCancelled \/ RequestShutdown
    BY <2>2 DEF RunCancelled, RequestShutdown
  <2>3. ASSUME NEW k \in Tasks, AudioStep(k)  PROVE FALSE
    BY <2>3 DEF AudioStep, FrameOpensTurn, AudioEnds, AudioFails, AudioCancelled,
       EndingReturns
  <2>4. ~ RuntimeStep
    BY DEF RuntimeStep, TextInput, CancelInput, ShutdownInput, RuntimeStopped,
       TurnCloses, ChunkAdmitted
  <2>5. ~ RoomStep
    BY DEF RoomStep, TrackUnsubscribed, TrackSubscribed, RoomStateChanged,
       RoomDisconnected, RoomLeft
  <2>6. ~ PublishTtsOutput /\ ~ UNCHANGED vars
    BY DEF PublishTtsOutput, vars
  <2> QED
    BY <2>1, <2>2, <2>3, <2>4, <2>5, <2>6 DEF Next
<1> QED
  BY <1>1, <1>2, <1>3, Inductive, PTL DEF Spec, FailureLostOnlyBeforeTeardown

-----------------------------------------------------------------------------
(* Which audio tasks teardown can miss.                                    *)

\* An older task of the same track, which has ended.
Elder(k) == \E j \in Tasks : j < k /\ sidOf[j] = sidOf[k] /\ audio[j] = "done"

\* What is left of NoOrphanIngestion: a task that still reads audio when the
\* teardown leaves the transport, and is not cancelled, had an older task of
\* its own track, whose done callback removed it from _audio_tasks.
OrphanHasElder ==
  [][run # "gather" /\ run' = "gather" =>
       \A k \in Tasks : audio[k] = "streaming" /\ k \notin cancelReq' => Elder(k)]_vars

\* The tasks are created one after another; the one stored for a track is its
\* newest; and a task that reads audio and is not cancelled is stored, unless
\* an older one of its track has ended.
InOrder == \A j, k \in Tasks : j < k /\ audio[k] # "none" => audio[j] # "none"

Newest(s) ==
  registered[s] # NoTask =>
    /\ sidOf[registered[s]] = s /\ audio[registered[s]] # "none"
    /\ \A j \in Tasks : audio[j] # "none" /\ sidOf[j] = s => j <= registered[s]
    /\ room # "down" => s \in subscribed

Owned(k) ==
  audio[k] = "streaming" /\ k \notin cancelReq => registered[sidOf[k]] = k \/ Elder(k)

OwnerInv == InOrder /\ (\A s \in Sids : Newest(s)) /\ (\A k \in Tasks : Owned(k))

\* The ways a step changes the audio tasks.
Quiet ==
  /\ UNCHANGED <<audio, sidOf, registered, cancelReq>>
  /\ UNCHANGED <<room, subscribed>> \/ room' = "down"
     \/ (room = "new" /\ UNCHANGED subscribed)

Ends(k) ==
  /\ audio[k] \in {"streaming", "ending"}
  /\ \/ TaskDone(k)
     \/ /\ audio' = [audio EXCEPT ![k] = "ending"] /\ cancelReq' = cancelReq \ {k}
        /\ UNCHANGED <<sidOf, registered>>
  /\ UNCHANGED <<room, subscribed>>

Clears ==
  /\ cancelReq' = cancelReq \cup StoredTasks
  /\ registered' = [s \in Sids |-> NoTask]
  /\ UNCHANGED <<audio, sidOf>>

TaskStep ==
  \/ Quiet \/ Clears \/ (\E k \in Tasks : Ends(k))
  \/ \E s \in Sids : TrackUnsubscribed(s) \/ \E k \in Tasks : TrackSubscribed(k, s)

\* There are no others.
LEMMA NextTasks ==
  ASSUME BInv, [Next]_vars
  PROVE  TaskStep
<1> USE DEF transportVars, taskVars
<1>1. CASE RunStep
  <2>1. CASE TeardownLeaves
    BY <2>1 DEF TeardownLeaves, LeaveTransport, TaskStep, Quiet, Clears
  <2>2. CASE RoomConnects
    BY <2>2 DEF RoomConnects, BInv, RoomInv, Before, TaskStep, Quiet
  <2>3. CASE RunStarts \/ ConnectFails \/ TrackPublished \/ RunWakes \/ TeardownCancels
    BY <2>3 DEF RunStarts, ConnectFails, TrackPublished, RunWakes, TeardownCancels,
       TaskStep, Quiet
  <2>4. CASE TeardownStops \/ RoomLeaving \/ TransportLeft \/ RunEnds
    BY <2>4 DEF TeardownStops, RoomLeaving, TransportLeft, RunEnds, TaskStep, Quiet
  <2> QED
    BY <1>1, <2>1, <2>2, <2>3, <2>4 DEF RunStep
<1>2. CASE RunCancelled \/ RequestShutdown \/ PublishTtsOutput
  BY <1>2 DEF RunCancelled, RequestShutdown, PublishTtsOutput, TaskStep, Quiet
<1>3. ASSUME NEW k \in Tasks, AudioStep(k)  PROVE TaskStep
  <2>1. CASE FrameOpensTurn(k)
    BY <2>1 DEF FrameOpensTurn, TaskStep, Quiet
  <2>2. CASE AudioEnds(k)
    BY <2>2 DEF AudioEnds, AudioEnded, TaskStep, Ends
  <2>3. CASE AudioFails(k)
    BY <2>3 DEF AudioFails, TaskStep, Ends
  <2>4. CASE AudioCancelled(k)
    BY <2>4 DEF AudioCancelled, AudioEnded, TaskStep, Ends
  <2>5. CASE EndingReturns(k)
    BY <2>5 DEF EndingReturns, TaskStep, Ends
  <2> QED
    BY <1>3, <2>1, <2>2, <2>3, <2>4, <2>5 DEF AudioStep
<1>4. CASE RuntimeStep
  BY <1>4 DEF RuntimeStep, TextInput, CancelInput, ShutdownInput, RuntimeStopped,
     TurnCloses, ChunkAdmitted, TaskStep, Quiet
<1>5. CASE RoomStep
  <2>1. CASE RoomDisconnected
    BY <2>1 DEF RoomDisconnected, TaskStep, Clears
  <2>2. CASE RoomLeft
    BY <2>2 DEF RoomLeft, TaskStep, Quiet
  <2>3. CASE \E state \in {"connected", "reconnecting"} : RoomStateChanged(state)
    BY <2>3 DEF RoomStateChanged, TaskStep, Quiet
  <2> QED
    BY <1>5, <2>1, <2>2, <2>3 DEF RoomStep, TaskStep
<1>6. CASE UNCHANGED vars
  BY <1>6 DEF vars, TaskStep, Quiet
<1> QED
  BY <1>1, <1>2, <1>3, <1>4, <1>5, <1>6 DEF Next

\* No task exists at first.
LEMMA OwnerInit == Init => OwnerInv
BY DEF Init, OwnerInv, InOrder, Newest, Owned

\* A task that ends leaves its track without a stored task: the newer one of
\* the same track has an elder from then on.
LEMMA EndsOwned ==
  ASSUME TypeOK, OwnerInv, NEW e \in Tasks, Ends(e)
  PROVE  OwnerInv'
<1> USE BridgeAssumption DEF Tasks, NoTask
<1>1. TaskTypes
  BY DEF TypeOK
<1>2. /\ UNCHANGED <<sidOf, room, subscribed>> /\ audio[e] \in {"streaming", "ending"}
      /\ cancelReq' = cancelReq \ {e}
      /\ audio' \in [Tasks -> {"streaming", "ending", "done", "none"}]
      /\ audio'[e] \in {"ending", "done"}
      /\ \A k \in Tasks : k # e => audio'[k] = audio[k]
  BY <1>1 DEF Ends, TaskDone, TaskTypes
<1>3. \A k \in Tasks : audio'[k] # "none" <=> audio[k] # "none"
  BY <1>2
<1>4. \A s \in Sids : registered'[s] = registered[s] \/ registered'[s] = NoTask
  BY <1>1 DEF Ends, TaskDone, TaskTypes
<1>5. \A s \in Sids : registered'[s] # registered[s] => sidOf[e] = s /\ audio'[e] = "done"
  BY <1>1 DEF Ends, TaskDone, TaskTypes
<1>6. InOrder'
  BY <1>3 DEF OwnerInv, InOrder
<1>7. ASSUME NEW s \in Sids  PROVE Newest(s)'
  <2>1. CASE registered'[s] = NoTask
    BY <2>1 DEF Newest
  <2>2. CASE registered'[s] = registered[s] /\ registered[s] # NoTask
    <3>1. registered[s] \in Tasks
      BY <1>1, <2>2 DEF TaskTypes
    <3> QED
      BY <1>2, <1>3, <2>2, <3>1 DEF OwnerInv, Newest
  <2> QED
    BY <1>4, <2>1, <2>2
<1>8. ASSUME NEW k \in Tasks  PROVE Owned(k)'
  <2> SUFFICES ASSUME audio'[k] = "streaming", k \notin cancelReq'
               PROVE  registered'[sidOf[k]] = k \/ Elder(k)'
    BY <1>2 DEF Owned
  <2>1. k # e /\ audio[k] = "streaming" /\ k \notin cancelReq
    BY <1>2
  <2>2. CASE Elder(k)
    <3>1. PICK j \in Tasks : j < k /\ sidOf[j] = sidOf[k] /\ audio[j] = "done"
      BY <2>2 DEF Elder
    <3>2. audio'[j] = "done"
      BY <1>2, <3>1
    <3> QED
      BY <1>2, <3>1, <3>2 DEF Elder
  <2>3. CASE registered[sidOf[k]] = k
    <3>1. sidOf[k] \in Sids
      BY <1>1 DEF TaskTypes
    <3>2. CASE registered'[sidOf[k]] = k
      BY <3>2
    <3>3. CASE registered'[sidOf[k]] # k
      <4>1. sidOf[e] = sidOf[k] /\ audio'[e] = "done"
        BY <1>5, <2>3, <3>1, <3>3
      <4>2. e <= k
        BY <1>2, <2>3, <3>1, <4>1 DEF OwnerInv, Newest
      <4>3. e < k
        BY <2>1, <4>2
      <4> QED
        BY <1>2, <4>1, <4>3 DEF Elder
    <3> QED
      BY <3>2, <3>3
  <2> QED
    BY <2>1, <2>2, <2>3 DEF OwnerInv, Owned
<1> QED
  BY <1>6, <1>7, <1>8 DEF OwnerInv

\* A new task is the newest of its track, for which none was stored.
LEMMA SubscribedOwned ==
  ASSUME TypeOK, OwnerInv, NEW s \in Sids, NEW n \in Tasks, TrackSubscribed(n, s)
  PROVE  OwnerInv'
<1> USE BridgeAssumption DEF Tasks, NoTask
<1>1. TaskTypes
  BY DEF TypeOK
<1>2. /\ UNCHANGED <<room, cancelReq>> /\ subscribed' = subscribed \cup {s}
      /\ room = "up" /\ s \notin subscribed
      /\ audio[n] = "none" /\ \A j \in 1 .. n - 1 : audio[j] # "none"
      /\ audio'[n] = "streaming" /\ sidOf'[n] = s /\ registered'[s] = n
      /\ \A k \in Tasks : k # n => audio'[k] = audio[k] /\ sidOf'[k] = sidOf[k]
      /\ \A z \in Sids : z # s => registered'[z] = registered[z]
  BY <1>1 DEF TrackSubscribed, TaskTypes
<1>3. registered[s] = NoTask
  BY <1>2 DEF OwnerInv, Newest
<1>4. \A k \in Tasks : k > n => audio[k] = "none"
  BY <1>2 DEF OwnerInv, InOrder
<1>5. \A k \in Tasks : audio'[k] # "none" => k <= n
  BY <1>2, <1>4
<1>6. InOrder'
  <2> SUFFICES ASSUME NEW j \in Tasks, NEW k \in Tasks, j < k, audio'[k] # "none"
               PROVE  audio'[j] # "none"
    BY DEF InOrder
  <2>1. j \in 1 .. n - 1
    BY <1>5
  <2> QED
    BY <1>2, <2>1
<1>7. ASSUME NEW z \in Sids  PROVE Newest(z)'
  <2>1. CASE z = s
    BY <1>2, <1>5, <2>1 DEF Newest
  <2>2. CASE z # s /\ registered[z] # NoTask
    <3>1. registered[z] \in Tasks /\ registered'[z] = registered[z]
      BY <1>1, <1>2, <2>2 DEF TaskTypes
    <3>2. registered[z] # n
      BY <1>2, <2>2 DEF OwnerInv, Newest
    <3> QED
      BY <1>2, <2>2, <3>1, <3>2 DEF OwnerInv, Newest
  <2>3. CASE z # s /\ registered[z] = NoTask
    BY <1>2, <2>3 DEF Newest
  <2> QED
    BY <2>1, <2>2, <2>3
<1>8. ASSUME NEW k \in Tasks  PROVE Owned(k)'
  <2>1. CASE k = n
    BY <1>2, <2>1 DEF Owned
  <2>2. CASE k # n
    <3> SUFFICES ASSUME audio[k] = "streaming", k \notin cancelReq
                 PROVE  registered'[sidOf[k]] = k \/ Elder(k)'
      BY <1>2, <2>2 DEF Owned
    <3>1. CASE Elder(k)
      <4>1. PICK j \in Tasks : j < k /\ sidOf[j] = sidOf[k] /\ audio[j] = "done"
        BY <3>1 DEF Elder
      <4>2. j # n
        BY <1>2, <4>1
      <4> QED
        BY <1>2, <2>2, <4>1, <4>2 DEF Elder
    <3>2. CASE registered[sidOf[k]] = k
      <4>1. sidOf[k] \in Sids /\ sidOf[k] # s
        BY <1>1, <1>3, <3>2 DEF TaskTypes
      <4> QED
        BY <1>2, <3>2, <4>1
    <3> QED
      BY <3>1, <3>2 DEF OwnerInv, Owned
  <2> QED
    BY <2>1, <2>2
<1> QED
  BY <1>6, <1>7, <1>8 DEF OwnerInv

\* A task that is forgotten without having ended is cancelled.
LEMMA ForgottenOwned ==
  ASSUME TypeOK, OwnerInv, UNCHANGED <<audio, sidOf>>, cancelReq \subseteq cancelReq',
         \A s \in Sids : \/ registered'[s] = registered[s] /\ (room' # "down" => room # "down")
                             /\ (room' # "down" /\ s \in subscribed => s \in subscribed')
                         \/ registered'[s] = NoTask /\ {registered[s]} \ {NoTask} \subseteq cancelReq'
  PROVE  OwnerInv'
<1> USE BridgeAssumption DEF Tasks, NoTask
<1>1. InOrder'
  BY DEF OwnerInv, InOrder
<1>2. ASSUME NEW s \in Sids  PROVE Newest(s)'
  BY DEF OwnerInv, Newest
<1>3. ASSUME NEW k \in Tasks  PROVE Owned(k)'
  <2> SUFFICES ASSUME audio[k] = "streaming", k \notin cancelReq, k \notin cancelReq'
               PROVE  registered'[sidOf[k]] = k \/ Elder(k)
    BY DEF Owned, Elder
  <2>1. sidOf[k] \in Sids /\ k # NoTask
    BY DEF TypeOK, TaskTypes
  <2>2. registered[sidOf[k]] = k \/ Elder(k)
    BY DEF OwnerInv, Owned
  <2> HIDE DEF Tasks, NoTask
  <2> QED
    BY <2>1, <2>2
<1> QED
  BY <1>1, <1>2, <1>3 DEF OwnerInv

\* Every step keeps OwnerInv.
LEMMA OwnerStep ==
  ASSUME BInv, OwnerInv, [Next]_vars
  PROVE  OwnerInv'
<1>1. TypeOK /\ TaskTypes
  BY DEF BInv, TypeOK
<1>2. CASE Quiet
  BY <1>1, <1>2, ForgottenOwned DEF Quiet
<1>3. CASE Clears
  <2>1. \A s \in Sids : registered'[s] = NoTask /\ {registered[s]} \ {NoTask} \subseteq cancelReq'
    BY <1>3 DEF Clears, StoredTasks
  <2> QED
    BY <1>1, <1>3, <2>1, ForgottenOwned DEF Clears
<1>4. ASSUME NEW k \in Tasks, Ends(k)  PROVE OwnerInv'
  BY <1>1, <1>4, EndsOwned
<1>5. ASSUME NEW s \in Sids, TrackUnsubscribed(s)  PROVE OwnerInv'
  <2>1. \A z \in Sids : z # s => registered'[z] = registered[z]
                               /\ (z \in subscribed => z \in subscribed')
    BY <1>1, <1>5 DEF TrackUnsubscribed, TaskTypes
  <2>2. registered'[s] = NoTask /\ {registered[s]} \ {NoTask} \subseteq cancelReq'
    BY <1>1, <1>5 DEF TrackUnsubscribed, TaskTypes
  <2>3. UNCHANGED <<audio, sidOf, room>> /\ cancelReq \subseteq cancelReq'
    BY <1>5 DEF TrackUnsubscribed
  <2> QED
    BY <1>1, <2>1, <2>2, <2>3, ForgottenOwned
<1>6. ASSUME NEW s \in Sids, NEW k \in Tasks, TrackSubscribed(k, s)  PROVE OwnerInv'
  BY <1>1, <1>6, SubscribedOwned
<1> QED
  BY <1>2, <1>3, <1>4, <1>5, <1>6, NextTasks DEF TaskStep

\* The audio tasks that teardown misses are those that an older task of the
\* same track made it forget; where no track is subscribed twice, none is left
\* behind, however many tracks there are.
THEOREM MissedTaskHasElder == Spec => OrphanHasElder
<1>1. BInv /\ OwnerInv /\ [Next]_vars =>
        [run # "gather" /\ run' = "gather" =>
           \A k \in Tasks : audio[k] = "streaming" /\ k \notin cancelReq' => Elder(k)]_vars
  <2> SUFFICES ASSUME BInv, OwnerInv, Next, run # "gather", run' = "gather", NEW k \in Tasks,
                      audio[k] = "streaming", k \notin cancelReq'
               PROVE  Elder(k)
    OBVIOUS
  <2>1. TeardownLeaves
    <3>1. CASE RunStep
      BY <3>1 DEF RunStep, RunStarts, RoomConnects, ConnectFails, TrackPublished, RunWakes,
         TeardownCancels, TeardownStops, RoomLeaving, TransportLeft, RunEnds
    <3>2. ~ RunCancelled /\ ~ RequestShutdown /\ ~ PublishTtsOutput
      BY DEF RunCancelled, RequestShutdown, PublishTtsOutput, runVars
    <3>3. \A j \in Tasks : ~ AudioStep(j)
      BY DEF AudioStep, FrameOpensTurn, AudioEnds, AudioFails, AudioCancelled, EndingReturns,
         runVars
    <3>4. ~ RuntimeStep
      BY DEF RuntimeStep, TextInput, CancelInput, ShutdownInput, RuntimeStopped, TurnCloses,
         ChunkAdmitted, runVars
    <3>5. ~ RoomStep
      BY DEF RoomStep, TrackUnsubscribed, TrackSubscribed, RoomStateChanged,
         RoomDisconnected, RoomLeft, runVars
    <3> QED
      BY <3>1, <3>2, <3>3, <3>4, <3>5 DEF Next
  <2>2. cancelReq' = cancelReq \cup StoredTasks
    BY <2>1 DEF TeardownLeaves, LeaveTransport
  <2>3. sidOf[k] \in Sids /\ k # NoTask
    BY BridgeAssumption DEF BInv, TypeOK, TaskTypes, Tasks, NoTask
  <2>4. registered[sidOf[k]] # k
    BY <2>2, <2>3 DEF StoredTasks
  <2> QED
    BY <2>2, <2>4 DEF OwnerInv, Owned
<1>2. BInv /\ OwnerInv /\ [Next]_vars => OwnerInv'
  BY OwnerStep
<1> QED
  BY <1>1, <1>2, OwnerInit, Inductive, PTL DEF Spec, OrphanHasElder
=============================================================================
