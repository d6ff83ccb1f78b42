----------------------------- MODULE TtsAdapter -----------------------------
(***************************************************************************)
(* The audio store of ElevenLabsTTSProvider (elevenlabs_tts.py).  stream() *)
(* stores the audio of each chunk under a reference and yields the         *)
(* reference; the runtime admits it as a TTS_CHUNK event, for which the    *)
(* bridge creates a task that resolves the reference and publishes the     *)
(* audio.  A reference names the voice and the index of the chunk, not the *)
(* stream; the voice is the agent's, the same in every stream.             *)
(***************************************************************************)
EXTENDS Integers, Sequences

CONSTANTS
    MaxStreams,   \* bound: utterances synthesized
    MaxChunks     \* bound: audio chunks of one utterance

VARIABLES
    store,      \* _chunk_audio: reference -> audio
    streams,    \* utterances synthesized so far
    pending,    \* references of the publish tasks, in the order created
    published   \* <<stream, audio>> of the chunks published

ttsVars == <<store, streams, pending, published>>

Ref(index)      == <<index, "chunk">>
FinalRef(index) == <<index, "final">>

\* A piece of audio is known by the stream and the index it was made for.
Audio(s, index) == [stream |-> s, index |-> index]

\* The store after the first n chunks of stream s.
Stored(s, n) ==
    [r \in DOMAIN store \cup {Ref(i) : i \in 0 .. n - 1} |->
       IF r \in {Ref(i) : i \in 0 .. n - 1} THEN Audio(s, r[1]) ELSE store[r]]

\* The final reference is given the audio of the last chunk unless it is in
\* the store already; an utterance without audio has none.
WithFinal(audio, n) ==
    IF n = 0 \/ FinalRef(n - 1) \in DOMAIN audio THEN audio
    ELSE [r \in DOMAIN audio \cup {FinalRef(n - 1)} |->
            IF r = FinalRef(n - 1) THEN audio[Ref(n - 1)] ELSE audio[r]]

Chunks(n) == [i \in 1 .. n |-> Ref(i - 1)]
LastIndex(n) == IF n = 0 THEN 0 ELSE n - 1

\* stream() iterates the SDK's chunks without awaiting, and _run_tts only
\* admits events: the whole utterance is one step of the event loop.  The
\* publish tasks of the turn before have run by then.
Stream(n) ==
    /\ streams < MaxStreams /\ pending = << >>
    /\ streams' = streams + 1
    /\ store' = WithFinal(Stored(streams', n), n)
    /\ pending' = Append(Chunks(n), FinalRef(LastIndex(n)))
    /\ UNCHANGED published

\* The SDK raises after n chunks: these stay stored and admitted.
StreamRaises(n) ==
    /\ streams < MaxStreams /\ pending = << >>
    /\ streams' = streams + 1
    /\ store' = Stored(streams', n)
    /\ pending' = Chunks(n)
    /\ UNCHANGED published

\* _publish_tts_output: resolve_output_audio, and an unresolved reference is
\* only logged.
Publish ==
    /\ pending # << >>
    /\ pending' = Tail(pending)
    /\ published' = published \cup
         {<<streams, store[r]>> : r \in {Head(pending)} \cap DOMAIN store}
    /\ UNCHANGED <<store, streams>>

Init ==
    /\ store = << >> /\ streams = 0 /\ pending = << >> /\ published = {}

Next == Publish \/ \E n \in 0 .. MaxChunks : Stream(n) \/ StreamRaises(n)

Spec == Init /\ [][Next]_ttsVars

-----------------------------------------------------------------------------
\* What is published for an utterance is audio of that utterance, never of
\* one synthesized for an earlier turn.
AudioIsOwn == \A p \in published : p[2].stream = p[1]
=============================================================================
