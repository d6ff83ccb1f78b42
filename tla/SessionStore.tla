---------------------------- MODULE SessionStore ----------------------------
(***************************************************************************)
(* One session's rows in PostgreSQL and the worker processes that serve    *)
(* it: the adapters of persistence/postgres.py over repositories.py, the   *)
(* committing wrappers of the worker's bootstrap.py, and run_worker.       *)
(*                                                                         *)
(* A worker has one SQLAlchemy session for its whole life.  Each call of a *)
(* port reads, flushes and commits, and the steps of two workers on one    *)
(* session interleave between them.  A worker may crash at any step, and   *)
(* another may be started for the session at any time: nothing keeps two   *)
(* of them from running.                                                   *)
(***************************************************************************)
EXTENDS Naturals, Sequences, FiniteSets

CONSTANTS
    Workers,     \* worker processes
    MaxTurns,    \* bound: exchanges persisted or attempted
    MaxStarts    \* bound: worker starts

VARIABLES
    messages,    \* committed rows of conversation_messages
    session,     \* committed row of sessions: [status, ended]
    summary,     \* committed through_sequence of the summary; 0: no row
    worker,      \* worker -> its process and its SQLAlchemy session
    acked,       \* messages whose append_message returned to the runtime
    turns, starts

vars == <<messages, session, summary, worker, acked, turns, starts>>

-----------------------------------------------------------------------------
(* A worker executes a job, the list of port calls of one synchronous piece *)
(* of the runtime.  A call goes through "read", "flush" and "commit".       *)

SessionRows == [status : {"initializing", "active", "ended"}, ended : BOOLEAN]

Turns == 1 .. MaxTurns
MessageIds == Workers \X Turns \X {"user", "assistant"}

Appends(w, t) == <<[call |-> "append", id |-> <<w, t, "user">>],
                   [call |-> "append", id |-> <<w, t, "assistant">>]>>
Syncs(status) == <<[call |-> "sync", status |-> status]>>
Upserts       == <<[call |-> "upsert"]>>

NoWrite == [row |-> "none"]
Down == [up |-> FALSE, stopping |-> FALSE, job |-> << >>, step |-> "read",
         held |-> 0, found |-> FALSE,
         contract |-> [status |-> "initializing", ended |-> FALSE],
         pending |-> NoWrite, poisoned |-> FALSE]

\* The current call is over: its local variables are gone.
Left(w, job) == [Down EXCEPT !.up = TRUE, !.stopping = worker[w].stopping,
                             !.poisoned = worker[w].poisoned, !.job = job]

Call(w) == Head(worker[w].job)
At(w, step, call) ==
    /\ worker[w].up /\ worker[w].job # << >>
    /\ worker[w].step = step
    /\ Call(w).call = call

\* The rows a worker sees: READ COMMITTED plus its own flushed writes.
Pending(w) == worker[w].pending
Sees(w) == messages \cup {m \in {Pending(w)} : m.row = "message"}

\* ConversationRepository.next_sequence: max(sequence) + 1, or 1.
next_sequence(w) ==
    IF Sees(w) = {} THEN 1
    ELSE 1 + (CHOOSE m \in Sees(w) : \A k \in Sees(w) : k.seq <= m.seq).seq

-----------------------------------------------------------------------------
(* Failure: the exception leaves the job.  A flush or statement that failed *)
(* leaves the SQLAlchemy session in need of rollback(), which only          *)
(* run_worker calls, at its end: until then every call raises.              *)

\* Fault: the caller goes on with the next call of the job.
AfterFailure_goes_on(w) ==
    Left(w, Tail(worker[w].job))
\* The job is abandoned and the SQLAlchemy session is unusable.
AfterFailure(w) ==
    [Left(w, << >>) EXCEPT !.poisoned = TRUE]

Raise(w) ==
    /\ worker' = [worker EXCEPT ![w] = AfterFailure(w)]
    /\ UNCHANGED <<messages, session, summary, acked, turns, starts>>

\* PendingRollbackError of a session whose flush failed, at the call's read.
CallRaises(w) ==
    /\ worker[w].up /\ worker[w].job # << >> /\ worker[w].step = "read"
    /\ worker[w].poisoned
    /\ Raise(w)

\* The database refuses a statement or the connection is lost.
DatabaseFails(w) ==
    /\ worker[w].up /\ worker[w].job # << >>
    /\ Raise(w)

Reads(w) == worker[w].step = "read" /\ ~worker[w].poisoned

Step(w, held) ==
    /\ worker' = [worker EXCEPT ![w] = held]
    /\ UNCHANGED <<messages, session, summary, acked, turns, starts>>

-----------------------------------------------------------------------------
(* append_message.                                                          *)

ReadSequence(w) ==
    /\ At(w, "read", "append") /\ Reads(w)
    /\ Step(w, [worker[w] EXCEPT !.step = "flush", !.held = next_sequence(w)])

\* Fault: conversation_messages without its unique constraint.
SequenceFree_unchecked(n) == TRUE
\* uq_conversation_messages_session_seq.
SequenceFree(n) == \A m \in messages : m.seq # n

\* An INSERT waits for the transaction that has the same key in flight, and
\* is refused when the key is committed.
FlushMessage(w) ==
    LET n == worker[w].held
        row == [row |-> "message", seq |-> n, id |-> Call(w).id]
    IN  /\ At(w, "flush", "append")
        /\ \A x \in Workers \ {w} :
             Pending(x).row = "message" => Pending(x).seq # n
        /\ IF ~SequenceFree(n) THEN Raise(w)
           ELSE Step(w, [worker[w] EXCEPT !.step = "commit", !.pending = row])

-----------------------------------------------------------------------------
(* _sync_session_status: get_session, then update_session with the contract *)
(* that was read and the new status.  update_session loads the row again    *)
(* and writes what differs from the contract.                               *)

ReadSession(w) ==
    /\ At(w, "read", "sync") /\ Reads(w)
    /\ Step(w, [worker[w] EXCEPT !.step = "flush", !.contract = session])

\* stop() also sets ended_at; start() keeps the one it read.
FlushSession(w) ==
    LET status == Call(w).status
        row == [row |-> "session", status |-> status,
                ended |-> status = "ended" \/ worker[w].contract.ended]
    IN  /\ At(w, "flush", "sync")
        /\ \A x \in Workers \ {w} : Pending(x).row # "session"
        /\ Step(w, [worker[w] EXCEPT !.step = "commit", !.pending = row])

-----------------------------------------------------------------------------
(* ConversationSummaryRepository.upsert: look for the session's row, then   *)
(* insert or update it.                                                     *)

\* The summary reaches a message the worker has listed.
ReadSummary(w) ==
    /\ At(w, "read", "upsert") /\ Reads(w)
    /\ \E through \in {m.seq : m \in Sees(w)} :
         Step(w, [worker[w] EXCEPT !.step = "flush", !.held = through,
                                   !.found = (summary # 0)])

\* conversation_summaries.session_id is unique: an INSERT needs that no row is
\* there; an UPDATE writes over whatever was committed meanwhile.
SummaryAllowed(w) == worker[w].found \/ summary = 0

FlushSummary(w) ==
    /\ At(w, "flush", "upsert")
    /\ \A x \in Workers \ {w} : Pending(x).row # "summary"
    /\ IF ~SummaryAllowed(w) THEN Raise(w)
       ELSE Step(w, [worker[w] EXCEPT !.step = "commit",
                       !.pending = [row |-> "summary", through |-> worker[w].held]])

-----------------------------------------------------------------------------
(* The committing wrappers of bootstrap.py: commit, then the call returns.  *)

\* Fault: the wrapper does not commit.
Store_uncommitted(w) == UNCHANGED <<messages, session, summary>>
\* What the worker flushed becomes visible and durable.
Store(w) ==
    LET p == Pending(w)
    IN  /\ messages' = messages \cup {m \in {p} : m.row = "message"}
        /\ session' = IF p.row = "session"
                      THEN [status |-> p.status, ended |-> p.ended] ELSE session
        /\ summary' = IF p.row = "summary" THEN p.through ELSE summary

Commit(w) ==
    /\ worker[w].up /\ worker[w].step = "commit"
    /\ Store(w)
    /\ worker' = [worker EXCEPT ![w] = Left(w, Tail(worker[w].job))]
    /\ acked' = acked \cup {c.id : c \in {Call(w)} \cap
                                         [call : {"append"}, id : MessageIds]}
    /\ UNCHANGED <<turns, starts>>

\* The COMMIT takes effect and its answer is lost: the call raises.
CommitAnswerLost(w) ==
    /\ worker[w].up /\ worker[w].step = "commit"
    /\ Store(w)
    /\ worker' = [worker EXCEPT ![w] = AfterFailure(w)]
    /\ UNCHANGED <<acked, turns, starts>>

-----------------------------------------------------------------------------
(* The worker process.                                                      *)

\* build_voice_worker_from_db and start(): any session that exists is taken,
\* ended or served by another worker, and marked active.
StartWorker(w) ==
    /\ ~worker[w].up /\ starts < MaxStarts
    /\ worker' = [worker EXCEPT ![w] =
                    [Down EXCEPT !.up = TRUE, !.job = Syncs("active")]]
    /\ starts' = starts + 1
    /\ UNCHANGED <<messages, session, summary, acked, turns>>

Ready(w) == worker[w].up /\ worker[w].job = << >>

\* _persist_turn_exchange of a completed turn.
PersistExchange(w) ==
    /\ Ready(w) /\ turns < MaxTurns
    /\ turns' = turns + 1
    /\ worker' = [worker EXCEPT ![w].job = Appends(w, turns + 1)]
    /\ UNCHANGED <<messages, session, summary, acked, starts>>

\* The summarizer stores a summary of messages it has seen.
StoreSummary(w) ==
    /\ Ready(w) /\ Sees(w) # {}
    /\ worker' = [worker EXCEPT ![w].job = Upserts]
    /\ UNCHANGED <<messages, session, summary, acked, turns, starts>>

\* stop() marks the session ended; turns that still run may persist after it.
StopWorker(w) ==
    /\ Ready(w) /\ ~worker[w].stopping
    /\ worker' = [worker EXCEPT ![w].stopping = TRUE, ![w].job = Syncs("ended")]
    /\ UNCHANGED <<messages, session, summary, acked, turns, starts>>

\* run_worker leaves: nothing is flushed and uncommitted then, so its commit
\* (or, for a poisoned session, its rollback) changes no row; close().
ExitWorker(w) ==
    /\ Ready(w) /\ worker[w].stopping
    /\ worker' = [worker EXCEPT ![w] = Down]
    /\ UNCHANGED <<messages, session, summary, acked, turns, starts>>

\* The process dies: PostgreSQL rolls back what it had flushed.
Crash(w) ==
    /\ worker[w].up
    /\ worker' = [worker EXCEPT ![w] = Down]
    /\ UNCHANGED <<messages, session, summary, acked, turns, starts>>

Init ==
    /\ messages = {}
    /\ session = [status |-> "initializing", ended |-> FALSE]
    /\ summary = 0
    /\ worker = [w \in Workers |-> Down]
    /\ acked = {}
    /\ turns = 0 /\ starts = 0

Next == \E w \in Workers :
    \/ StartWorker(w) \/ PersistExchange(w) \/ StoreSummary(w)
    \/ StopWorker(w) \/ ExitWorker(w) \/ Crash(w)
    \/ ReadSequence(w) \/ FlushMessage(w)
    \/ ReadSession(w) \/ FlushSession(w)
    \/ ReadSummary(w) \/ FlushSummary(w)
    \/ Commit(w) \/ CommitAnswerLost(w)
    \/ CallRaises(w) \/ DatabaseFails(w)

Spec == Init /\ [][Next]_vars

-----------------------------------------------------------------------------
(* Properties.                                                             *)

\* The committed messages in the order of list_for_session.
Transcript ==
    [i \in 1 .. Cardinality(messages) |->
       LET at == {m \in messages : m.seq = i}
       IN  IF Cardinality(at) = 1 THEN (CHOOSE m \in at : TRUE).id ELSE << >>]

Memory == INSTANCE MemoryStore WITH
    messages <- Transcript, Watermarks <- 0 .. 2 * MaxTurns

\* The PostgreSQL adapters, used by several workers that may crash between
\* any two statements, behave as the in-memory repositories: messages are
\* numbered 1, 2, 3, ..., each commit appends exactly one of them at the end,
\* and nothing stored is lost, renumbered or reordered.
ImplementsMemory == Memory!Spec

\* A message whose append_message returned is in the table, through every
\* crash, failed flush and poisoned SQLAlchemy session.
AcknowledgedIsDurable == acked \subseteq {m.id : m \in messages}

\* An assistant message is stored only behind the user message of its turn:
\* when the first append of an exchange fails, or the worker dies after it,
\* no answer is left without its question.
AnswerAfterItsQuestion ==
    \A m \in messages : m.id[3] = "assistant" =>
      \E q \in messages : q.seq < m.seq /\ q.id = <<m.id[1], m.id[2], "user">>

=============================================================================
