------------------------------- MODULE MCParts -------------------------------
(***************************************************************************)
(* Parts of the system that share no state, each checked on its own in one *)
(* run of TLC: part names the one a behaviour is about, and the variables  *)
(* of the others keep one value (those of Summarizer and SessionStore the  *)
(* only initial one).                                                      *)
(***************************************************************************)
EXTENDS Summarizer

CONSTANTS
    Workers, MaxExchanges, MaxStarts,                       \* SessionStore
    MinChunk, TargetChunk, Durations, MaxFrames, MaxResults, \* SttAdapter
    Indices, MaxParts, MaxDeltas, MaxTexts,                 \* LlmStream
    ToolNames, Catalog, Keys, MaxBindings,                  \* ToolExecutor
    Limit, MaxRows, MaxPages,                               \* Paging
    ChunkSize, Overlap, MaxLength                           \* Ingestion

VARIABLES
    part,
    messages, session, summary, worker, acked, turns, starts,
    sender, consumer, buffered, frames, audioEnded, queue, connected,
    emitted, yielded, cancelled, errored, raised,
    plan, named, sent, texts, collector, out, llmCancelled, llmPc,
    bindings, given, schema, registry, call, execCancelled, invoked, result,
    execPc,
    live, drawn, cursor, listed, stable, pages, walkPc,
    text, remaining, split, chunks, document, rows, ingestPc

Rows   == INSTANCE SessionStore WITH MaxTurns <- MaxExchanges
Stt    == INSTANCE SttAdapter
Llm    == INSTANCE LlmStream
Exec   == INSTANCE ToolExecutor
Pages  == INSTANCE Paging
Ingest == INSTANCE Ingestion

workerVars == <<messages, session, summary, worker, acked, turns, starts>>
sttVars == <<sender, consumer, buffered, frames, audioEnded, queue, connected,
             emitted, yielded, cancelled, errored, raised>>
llmVars == <<plan, named, sent, texts, collector, out, llmCancelled, llmPc>>
execVars == <<bindings, given, schema, registry, call, execCancelled, invoked,
              result, execPc>>
pagingVars == <<live, drawn, cursor, listed, stable, pages, walkPc>>
ingestVars == <<text, remaining, split, chunks, document, rows, ingestPc>>

partVars == <<part, vars, workerVars, sttVars, llmVars, execVars, pagingVars,
              ingestVars>>

-----------------------------------------------------------------------------
(* A part that is not looked at.                                           *)

Off == "off"

SttOff ==
    /\ sender = Off /\ consumer = Off /\ buffered = Off /\ frames = Off
    /\ audioEnded = FALSE /\ queue = Off /\ connected = Off /\ emitted = Off
    /\ yielded = Off /\ cancelled = FALSE /\ errored = Off /\ raised = Off
LlmOff ==
    /\ plan = Off /\ named = Off /\ sent = Off /\ texts = Off
    /\ collector = Off /\ out = Off /\ llmCancelled = Off /\ llmPc = Off
ExecOff ==
    /\ bindings = Off /\ given = Off /\ schema = Off /\ registry = Off
    /\ call = Off /\ execCancelled = Off /\ invoked = Off /\ result = Off
    /\ execPc = Off
PagesOff ==
    /\ live = Off /\ drawn = Off /\ cursor = Off /\ listed = Off
    /\ stable = Off /\ pages = Off /\ walkPc = Off
IngestOff ==
    /\ text = Off /\ remaining = Off /\ split = Off /\ chunks = Off
    /\ document = Off /\ rows = Off /\ ingestPc = Off

PartsInit ==
    /\ Init /\ Rows!Init
    /\ \/ part \in {"summarizer", "worker"} /\ SttOff /\ LlmOff /\ ExecOff /\ PagesOff /\ IngestOff
       \/ part = "stt" /\ Stt!Init /\ LlmOff /\ ExecOff /\ PagesOff /\ IngestOff
       \/ part = "llm" /\ Llm!Init /\ SttOff /\ ExecOff /\ PagesOff /\ IngestOff
       \/ part = "exec" /\ Exec!Init /\ SttOff /\ LlmOff /\ PagesOff /\ IngestOff
       \/ part = "pages" /\ Pages!Init /\ SttOff /\ LlmOff /\ ExecOff /\ IngestOff
       \/ part = "ingest" /\ Ingest!Init /\ SttOff /\ LlmOff /\ ExecOff /\ PagesOff

SummarizerNext ==
    /\ part = "summarizer" /\ Next
    /\ UNCHANGED <<part, workerVars, sttVars, llmVars, execVars, pagingVars,
                   ingestVars>>
WorkerNext ==
    /\ part = "worker" /\ Rows!Next
    /\ UNCHANGED <<part, vars, sttVars, llmVars, execVars, pagingVars,
                   ingestVars>>
SttNext ==
    /\ part = "stt" /\ Stt!Next
    /\ UNCHANGED <<part, vars, workerVars, llmVars, execVars, pagingVars, ingestVars>>
LlmNext ==
    /\ part = "llm" /\ Llm!Next
    /\ UNCHANGED <<part, vars, workerVars, sttVars, execVars, pagingVars, ingestVars>>
ExecNext ==
    /\ part = "exec" /\ Exec!Next
    /\ UNCHANGED <<part, vars, workerVars, sttVars, llmVars, pagingVars, ingestVars>>
PagesNext ==
    /\ part = "pages" /\ Pages!Next
    /\ UNCHANGED <<part, vars, workerVars, sttVars, llmVars, execVars, ingestVars>>
IngestNext ==
    /\ part = "ingest" /\ Ingest!Next
    /\ UNCHANGED <<part, vars, workerVars, sttVars, llmVars, execVars, pagingVars>>

PartsNext ==
    SummarizerNext \/ WorkerNext \/ SttNext \/ LlmNext \/ ExecNext \/ PagesNext \/ IngestNext

\* The fairness of SttAdapter: the event loop runs what is ready.
PartsSpec ==
    /\ PartsInit /\ [][PartsNext]_partVars
    /\ WF_partVars(/\ part = "stt" /\ Stt!Transcribe
                   /\ UNCHANGED <<part, vars, workerVars, llmVars, execVars, pagingVars,
                                  ingestVars>>)

-----------------------------------------------------------------------------
(* The properties of the parts; those of Summarizer are its own.           *)

\* The PostgreSQL adapters behave as the in-memory ones: see SessionStore.
ImplementsMemory == Rows!ImplementsMemory

\* What append_message acknowledged is in the table: see SessionStore.
AcknowledgedIsDurable == Rows!AcknowledgedIsDurable

\* No answer is stored without its question: see SessionStore.
AnswerAfterItsQuestion == Rows!AnswerAfterItsQuestion

\* AssemblyAI's transcribe loses no turn: see SttAdapter.
NoTurnLost == part = "stt" => Stt!NoTurnLost

\* AssemblyAI's transcribe ends once the audio has: see SttAdapter.
TranscriptionEnds == part = "stt" => Stt!TranscriptionEnds

\* The tool calls of an LLM answer are put together right: see LlmStream.
CallsAreWhole == part = "llm" => Llm!CallsAreWhole

\* A tool runs only as the agent version binds it: see ToolExecutor.
ToolRunsAsBound == part = "exec" => Exec!ToolRunsAsBound

\* The pages of a listing miss no row that stays: see Paging.
WalkMissesNothing == part = "pages" => Pages!WalkMissesNothing

\* A stored document is chunked completely: see Ingestion.
DocumentIsChunked == part = "ingest" => Ingest!DocumentIsChunked
=============================================================================
