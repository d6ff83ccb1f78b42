----------------------------- MODULE SttAdapter -----------------------------
(***************************************************************************)
(* One call of AssemblyAISTTProvider.transcribe (assemblyai_stt.py): the   *)
(* consumer, which yields transcripts from the session's queue, the sender *)
(* task it creates, and the callbacks of the AssemblyAI SDK.  All run on   *)
(* one event loop and interleave where they await.                         *)
(***************************************************************************)
EXTENDS Naturals, Sequences

CONSTANTS
    MinChunk, TargetChunk,  \* _ASSEMBLYAI_MIN_CHUNK_MS, ..TARGET_CHUNK_MS
    Durations,              \* duration_ms of the frames
    MaxFrames, MaxResults   \* bounds: frames received, turns recognised

VARIABLES
    sender,     \* the sender task: see SenderOver
    consumer,   \* the generator: see Next
    buffered,   \* buffered_duration_ms
    frames,     \* frames received so far
    audioEnded, \* the audio iterator has ended
    queue,      \* _AssemblyAISession._queue
    connected,  \* _connected
    emitted,    \* turns the SDK recognised, as on_turn put them
    yielded,    \* turns the caller received
    cancelled,  \* the cancellation token
    errored,    \* on_error was called
    raised      \* the generator ended with an exception

senderVars == <<sender, buffered, frames>>
sdkVars == <<emitted, errored>>
callerVars == <<audioEnded, cancelled>>
sttVars == <<sender, consumer, buffered, frames, audioEnded, queue, connected,
             emitted, yielded, cancelled, errored, raised>>

None == 0   \* the end mark on the queue; turns are 1, 2, ...

SenderOver == sender \in {"none", "finished", "returned", "raised"}

-----------------------------------------------------------------------------
(* The caller and the SDK.                                                  *)

\* The token is set by the runtime at any time.
Cancel ==
    /\ ~cancelled /\ consumer # "done"
    /\ cancelled' = TRUE
    /\ UNCHANGED <<sender, consumer, buffered, frames, audioEnded, queue,
                   connected, emitted, yielded, errored, raised>>

\* The runtime closes its audio queue.
AudioEnds ==
    /\ ~audioEnded /\ consumer # "done"
    /\ audioEnded' = TRUE
    /\ UNCHANGED <<sender, consumer, buffered, frames, queue, connected,
                   emitted, yielded, cancelled, errored, raised>>

\* on_turn of a turn with a text, while the connection lives (turns without
\* text are dropped); the SDK still delivers during disconnect(terminate).
on_turn ==
    /\ connected /\ Len(emitted) < MaxResults
    /\ LET turn == Len(emitted) + 1
       IN  queue' = Append(queue, turn) /\ emitted' = Append(emitted, turn)
    /\ UNCHANGED <<senderVars, consumer, connected, yielded, errored, raised,
                   callerVars>>

\* on_error ends the queue; the ProviderError it raises stays in the SDK.
on_error ==
    /\ connected /\ ~errored
    /\ errored' = TRUE
    /\ queue' = Append(queue, None)
    /\ UNCHANGED <<senderVars, consumer, connected, emitted, yielded, raised,
                   callerVars>>

-----------------------------------------------------------------------------
(* session.start and the sender task.                                       *)

\* connect() succeeds and the sender task is created, or start raises.
Start ==
    /\ consumer = "start"
    /\ \/ /\ connected' = TRUE
          /\ sender' = "reading" /\ consumer' = "waiting" /\ raised' = raised
       \/ /\ connected' = connected
          /\ sender' = sender /\ consumer' = "closing" /\ raised' = TRUE
    /\ UNCHANGED <<buffered, frames, queue, yielded, sdkVars, callerVars>>

\* The next frame: a cancelled sender returns; else it is buffered, and the
\* buffer is sent when it has the target length.
Read(d) ==
    /\ sender = "reading" /\ frames < MaxFrames /\ ~audioEnded
    /\ frames' = frames + 1
    /\ IF cancelled THEN sender' = "returned" /\ buffered' = buffered
       ELSE /\ buffered' = buffered + d
            /\ sender' = IF buffered' >= TargetChunk THEN "sending"
                         ELSE "reading"
    /\ UNCHANGED <<consumer, queue, connected, yielded, raised, sdkVars,
                   callerVars>>

\* The iterator ends: a tail of at least the minimum is sent, unless the
\* call is cancelled; a shorter one is dropped.
ReadEnd ==
    /\ sender = "reading" /\ audioEnded
    /\ sender' = IF buffered >= MinChunk /\ ~cancelled THEN "tail"
                 ELSE "finishing"
    /\ UNCHANGED <<buffered, frames, consumer, queue, connected, yielded,
                   raised, sdkVars, callerVars>>

Sent ==
    /\ sender \in {"sending", "tail"}
    /\ sender' = IF sender = "sending" THEN "reading" ELSE "finishing"
    /\ buffered' = IF sender = "sending" THEN 0 ELSE buffered
    /\ UNCHANGED <<frames, consumer, queue, connected, yielded, raised,
                   sdkVars, callerVars>>

\* Fault: finish() leaves the disconnecting to close().
Disconnect_later ==
    UNCHANGED connected /\ queue' = Append(queue, None) /\ sender' = "finished"
\* Fault: finish() puts no end mark.
Disconnect_no_mark ==
    connected' = FALSE /\ queue' = queue /\ sender' = "finished"
\* finish(): disconnect, during which turns still come, then the end mark.
Disconnect ==
    connected' = FALSE /\ queue' = Append(queue, None) /\ sender' = "finished"

Finish ==
    /\ sender = "finishing"
    /\ Disconnect
    /\ UNCHANGED <<buffered, frames, consumer, yielded, raised, sdkVars,
                   callerVars>>

\* stream(), disconnect() or the audio iterator raise, or the task is
\* cancelled: except BaseException puts the end mark.
SenderFails ==
    /\ sender' = "raised"
    /\ queue' = Append(queue, None)

SendRaises ==
    /\ sender \in {"reading", "sending", "tail", "finishing"}
    /\ SenderFails
    /\ UNCHANGED <<buffered, frames, consumer, connected, yielded, raised,
                   sdkVars, callerVars>>

-----------------------------------------------------------------------------
(* The generator.                                                           *)

\* queue.get(): the end mark ends transcripts(); a cancelled call returns
\* without yielding what it got.
Get ==
    /\ consumer = "waiting" /\ queue # << >>
    /\ queue' = Tail(queue)
    /\ LET got == Head(queue)
       IN  /\ consumer' = CASE got = None -> "joining"
                            [] got # None /\ cancelled -> "closing"
                            [] got # None /\ ~cancelled -> "waiting"
           /\ yielded' = IF got # None /\ ~cancelled THEN Append(yielded, got)
                         ELSE yielded
    /\ UNCHANGED <<senderVars, connected, raised, sdkVars, callerVars>>

\* await send_task: its exception is re-raised.
Join ==
    /\ consumer = "joining" /\ SenderOver
    /\ consumer' = "closing"
    /\ raised' = (sender = "raised")
    /\ UNCHANGED <<senderVars, queue, connected, yielded, sdkVars, callerVars>>

\* The runtime cancels the task that iterates: CancelledError at the await.
Abandon ==
    /\ consumer \in {"waiting", "joining"}
    /\ consumer' = "closing" /\ raised' = TRUE
    /\ UNCHANGED <<senderVars, queue, connected, yielded, sdkVars, callerVars>>

\* finally: a sender that is not done is cancelled and awaited, ...
StopSender ==
    /\ consumer = "closing" /\ ~SenderOver
    /\ SenderFails
    /\ UNCHANGED <<buffered, frames, consumer, connected, yielded, raised,
                   sdkVars, callerVars>>

\* ... then the session is closed.
Close ==
    /\ consumer = "closing" /\ SenderOver
    /\ consumer' = "done" /\ connected' = FALSE
    /\ UNCHANGED <<senderVars, queue, yielded, raised, sdkVars, callerVars>>

Init ==
    /\ sender = "none" /\ consumer = "start"
    /\ buffered = 0 /\ frames = 0 /\ audioEnded = FALSE
    /\ queue = << >> /\ connected = FALSE
    /\ emitted = << >> /\ yielded = << >>
    /\ cancelled = FALSE /\ errored = FALSE /\ raised = FALSE

Transcribe ==
    \/ Start \/ ReadEnd \/ Sent \/ Finish \/ Get \/ Join \/ StopSender \/ Close
    \/ \E d \in Durations : Read(d)

Next == Transcribe \/ on_turn \/ on_error \/ SendRaises \/ Abandon
          \/ Cancel \/ AudioEnds

Spec == Init /\ [][Next]_sttVars

\* The event loop runs what is ready, and the SDK answers every await.
FairSpec == Spec /\ WF_sttVars(Transcribe)

-----------------------------------------------------------------------------
(* Properties.                                                             *)

\* A call that returns normally has yielded every turn the provider
\* recognised, in order, those that came while finish() was disconnecting
\* too, unless it was cancelled or the provider reported an error.
NoTurnLost ==
    consumer = "done" /\ ~raised /\ ~cancelled /\ ~errored => yielded = emitted

\* Once the audio has ended, the call returns or is cancelled: no order of
\* sending, callbacks and failures leaves the generator waiting for an end
\* mark nobody puts.  A cancelled call may: its sender returns without one.
TranscriptionEnds == audioEnded ~> consumer = "done" \/ cancelled
=============================================================================
