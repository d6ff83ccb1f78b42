----------------------------- MODULE Ingestion -----------------------------
(***************************************************************************)
(* POST .../documents: create_document and ingest_document of services.py  *)
(* store a document, cut it with chunk_text (packages/rag/chunking.py)     *)
(* into overlapping chunks, embed these and store them, in one database    *)
(* transaction.  chunk_text has one step per statement of its loop.  A     *)
(* character is a letter, a space or one of two sentence-ending marks; a   *)
(* chunk is the interval of the normalized text it holds.                  *)
(***************************************************************************)
EXTENDS Integers, Sequences, FiniteSets

CONSTANTS
    ChunkSize, Overlap,   \* chunk_size > chunk_overlap >= 0
    MaxLength             \* bound: characters of a document

VARIABLES
    text,       \* the document, normalized once chunk_text has begun
    remaining,  \* first position of the rest; Len(text) + 1: nothing left
    split,      \* split_at of the current round, relative to remaining
    chunks,     \* intervals <<first, last>> of the chunks made so far
    document,   \* the row of documents: "none", "flushed" or "committed"
    rows,       \* the chunks in the rows of document_chunks
    ingestPc    \* the next statement, or how the request was answered

loopVars   == <<text, remaining, split, chunks>>
rowVars    == <<document, rows>>
ingestVars == <<text, remaining, split, chunks, document, rows, ingestPc>>

Chars == {"w", " ", ".", "?"}
Documents == UNION {[1 .. n -> Chars] : n \in 0 .. MaxLength}

\* " ".join(text.split()): of each run of spaces between words one is left.
Normalized(t) ==
    LET words == {i \in 1 .. Len(t) : t[i] # " "}
        kept == words \cup {i \in 1 .. Len(t) - 1 :
                   /\ t[i] = " " /\ t[i + 1] # " "
                   /\ \E j \in words : j < i}
    IN  [k \in 1 .. Cardinality(kept) |->
           t[CHOOSE i \in kept : Cardinality({j \in kept : j <= i}) = k]]

\* The separators in the order they are tried (text has no line breaks).
Separators == << <<".", " ">>, <<"?", " ">>, <<" ">> >>

RestLength == Len(text) - remaining + 1

\* Ends of the occurrences of separator s, not at the very beginning, within
\* the first `boundary` characters of the rest (rfind, position > 0).
SplitsAt(s, boundary) ==
    {p \in Len(s) + 1 .. boundary :
       \A j \in 1 .. Len(s) : text[remaining + p - Len(s) + j - 1] = s[j]}

Latest(S) == CHOOSE x \in S : \A y \in S : y <= x

\* _find_split_position: the last occurrence of the first separator that
\* occurs at all, else the boundary itself.
find_split_position ==
    LET boundary == IF RestLength > ChunkSize THEN ChunkSize ELSE RestLength
        found == {i \in 1 .. Len(Separators) : SplitsAt(Separators[i], boundary) # {}}
    IN  IF found = {} THEN boundary
        ELSE Latest(SplitsAt(Separators[CHOOSE i \in found :
                                          \A j \in found : i <= j], boundary))

\* Positions of first..last without the spaces at both ends (strip).
Strip(first, last) ==
    LET inside == {i \in first .. last : text[i] # " "}
    IN  <<CHOOSE i \in inside : \A j \in inside : i <= j, Latest(inside)>>

-----------------------------------------------------------------------------
(* create_document: the knowledge base must exist; the document is flushed.  *)

CreateDocument ==
    /\ ingestPc = "start"
    /\ \/ ingestPc' = "not_found" /\ UNCHANGED document
       \/ ingestPc' = "chunk" /\ document' = "flushed"
    /\ UNCHANGED <<loopVars, rows>>

(* chunk_text.                                                              *)

\* The early returns: a blank document, which is stored without chunks, and
\* one that fits into a chunk.
Chunk ==
    /\ ingestPc = "chunk"
    /\ text' = Normalized(text)
    /\ remaining' = 1
    /\ CASE text' = << >> -> chunks' = {} /\ ingestPc' = "commit"
         [] text' # << >> /\ Len(text') <= ChunkSize ->
              chunks' = {<<1, Len(text')>>} /\ ingestPc' = "embed"
         [] Len(text') > ChunkSize -> chunks' = {} /\ ingestPc' = "split"
    /\ UNCHANGED <<split, rowVars>>

\* Head of the while loop, and the chunk of this round.
Split ==
    /\ ingestPc = "split" /\ RestLength > ChunkSize
    /\ split' = find_split_position
    /\ chunks' = chunks \cup {Strip(remaining, remaining + split' - 1)}
    /\ ingestPc' = "advance"
    /\ UNCHANGED <<text, remaining, rowVars>>

\* Fault: the overlap is skipped instead of kept.
OverlapStart_skipped == split + Overlap
\* overlap_start = max(0, split_at - chunk_overlap)
OverlapStart == IF split > Overlap THEN split - Overlap ELSE 0

\* The rest begins at the overlap, without leading spaces; the loop is left
\* when the rest is no shorter than the whole text.
Advance ==
    /\ ingestPc = "advance"
    /\ LET rest == {i \in remaining + OverlapStart .. Len(text) : text[i] # " "}
       IN  remaining' = IF rest = {} THEN Len(text) + 1
                        ELSE CHOOSE i \in rest : \A j \in rest : i <= j
    /\ LET last == IF remaining' > Len(text) THEN {}
                   ELSE {<<remaining', Len(text)>>}
       IN  IF remaining' = 1
           THEN chunks' = chunks \cup last /\ ingestPc' = "embed"
           ELSE chunks' = chunks /\ ingestPc' = "split"
    /\ UNCHANGED <<text, split, rowVars>>

\* The rest fits: it is the last chunk.
Finish ==
    /\ ingestPc = "split" /\ RestLength <= ChunkSize
    /\ chunks' = IF remaining > Len(text) THEN chunks
                 ELSE chunks \cup {<<remaining, Len(text)>>}
    /\ ingestPc' = "embed"
    /\ UNCHANGED <<text, remaining, split, rowVars>>

-----------------------------------------------------------------------------
(* ingest_document after chunk_text, and the end of the transaction.        *)

\* embed_many, create_many and the search vectors: a row for every chunk.
StoredChunks == chunks

Store ==
    /\ ingestPc = "embed"
    /\ rows' = StoredChunks /\ ingestPc' = "commit"
    /\ UNCHANGED <<loopVars, document>>

\* session_scope commits.
Commit ==
    /\ ingestPc = "commit"
    /\ document' = "committed" /\ ingestPc' = "created"
    /\ UNCHANGED <<loopVars, rows>>

\* session_scope rolls back the document with its chunks.
RolledBack == document' = "none" /\ rows' = {}

\* The embedding model or the database raises.
Fail ==
    /\ ingestPc \in {"embed", "commit"}
    /\ RolledBack /\ ingestPc' = "failed"
    /\ UNCHANGED loopVars

Init ==
    /\ text \in Documents
    /\ remaining = 1 /\ split = 0 /\ chunks = {}
    /\ document = "none" /\ rows = {} /\ ingestPc = "start"

Step == CreateDocument \/ Chunk \/ Split \/ Advance \/ Finish \/ Store \/ Commit

Next == Step \/ Fail

Spec == Init /\ [][Next]_ingestVars
FairSpec == Spec /\ WF_ingestVars(Step)

-----------------------------------------------------------------------------
(* Properties.                                                             *)

\* A committed document can be found by all of its text: every character is
\* in a stored chunk, whatever the overlap and the boundaries chosen, and no
\* chunk is longer than chunk_size, unless the first round made no progress
\* and the whole text became the last chunk.  A request that fails leaves
\* neither the document nor a part of its chunks.
DocumentIsChunked ==
    /\ document = "committed" =>
         /\ ingestPc = "created"
         /\ \A i \in 1 .. Len(text) :
              text[i] # " " => \E c \in rows : c[1] <= i /\ i <= c[2]
         /\ \A c \in rows : c[2] - c[1] < ChunkSize \/ c = <<1, Len(text)>>
    /\ ingestPc \in {"not_found", "failed"} => document = "none" /\ rows = {}

Answered == ingestPc \in {"created", "not_found", "failed"}

\* Every document is split: create_document answers.
CreateDocumentAnswers == <>Answered
=============================================================================
