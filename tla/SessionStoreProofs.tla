------------------------- MODULE SessionStoreProofs -------------------------
(***************************************************************************)
(* Proofs about SessionStore, for any workers, any number of exchanges and *)
(* any number of worker starts.  RowsInv is the inductive invariant.       *)
(***************************************************************************)
EXTENDS SessionStore, FiniteSetTheorems, TLAPS

Stored == Cardinality(messages)

MessageRows == [row : {"message"}, seq : Nat \ {0}, id : MessageIds]
SessionUpdates == [row : {"session"}, status : {"active", "ended"}, ended : BOOLEAN]
SummaryRows == [row : {"summary"}, through : Nat \ {0}]

\* What is left of _persist_turn_exchange once the question is stored.
Answer(w, t) == <<[call |-> "append", id |-> <<w, t, "assistant">>]>>

Jobs(w) == {<< >>, Syncs("active"), Syncs("ended"), Upserts}
             \cup {Appends(w, t) : t \in Turns} \cup {Answer(w, t) : t \in Turns}

WorkerRecords(w) ==
    [up : BOOLEAN, stopping : BOOLEAN, job : Jobs(w),
     step : {"read", "flush", "commit"}, held : Nat, found : BOOLEAN,
     contract : SessionRows, poisoned : BOOLEAN,
     pending : {NoWrite} \cup MessageRows \cup SessionUpdates \cup SummaryRows]

TypeInv ==
    /\ messages \subseteq MessageRows /\ IsFiniteSet(messages)
    /\ session \in SessionRows
    /\ summary \in 0 .. Stored
    /\ acked \subseteq MessageIds
    /\ turns \in 0 .. MaxTurns

\* The committed messages have the numbers 1, 2, ..., each of them once.
Numbered ==
    /\ \A m \in messages : m.seq <= Stored
    /\ \A n \in 1 .. Stored : \E m \in messages : m.seq = n
    /\ \A m, k \in messages : m.seq = k.seq => m = k

\* A flushed write is the one its call asks for.  A message has the number
\* behind the last committed one: its row was free when it was flushed, and
\* no other message can be committed before it.
Fits(call, p) ==
    \/ call.call = "append" /\ p = [row |-> "message", seq |-> Stored + 1, id |-> call.id]
    \/ call.call = "sync" /\ p \in SessionUpdates
    \/ call.call = "upsert" /\ p \in SummaryRows /\ p.through <= Stored

\* What a worker holds between two of its statements.
Consistent(w, r) ==
    /\ r \in WorkerRecords(w)
    /\ ~r.up => r.job = << >>
    /\ r.job = << >> => r.step = "read"
    /\ r.step \in {"read", "flush"} => r.pending = NoWrite
    /\ r.step = "flush" =>
         /\ Head(r.job).call = "append" => r.held >= 1 /\ r.held <= Stored + 1
         /\ Head(r.job).call = "upsert" => r.held >= 1 /\ r.held <= Stored
    /\ r.step = "commit" => Fits(Head(r.job), r.pending)

WorkersInv ==
    /\ DOMAIN worker = Workers
    /\ \A w \in Workers : Consistent(w, worker[w])

\* The second of two workers with one number waits for the first.
OneInFlight ==
    \A w, x \in Workers :
      worker[w].pending.row = "message" /\ worker[x].pending.row = "message" => w = x

Appending(job) == job # << >> /\ Head(job).call = "append"

\* The exchange a worker is persisting: nothing of it is stored before the
\* question, and only the question before the answer.
Owns(w, job) ==
    Appending(job) =>
      LET id == Head(job).id
      IN  /\ id[2] <= turns
          /\ id[3] = "user" => \A m \in messages : m.id[2] # id[2]
          /\ id[3] = "assistant" =>
               /\ \A m \in messages : m.id[2] = id[2] => m.id[3] = "user"
               /\ \E m \in messages : m.id = <<w, id[2], "user">>

ExchangesInv ==
    /\ \A m \in messages : m.id[2] <= turns
    /\ \A w \in Workers : Owns(w, worker[w].job)
    /\ \A w, x \in Workers :
         /\ Appending(worker[w].job) /\ Appending(worker[x].job)
         /\ Head(worker[w].job).id[2] = Head(worker[x].job).id[2]
         => w = x

\* No message is stored twice: a commit whose answer was lost is not retried.
StoredOnce ==
    \A m, k \in messages : m.id[2] = k.id[2] /\ m.id[3] = k.id[3] => m = k

RowsInv ==
    /\ TypeInv /\ Numbered /\ WorkersInv /\ OneInFlight /\ ExchangesInv
    /\ StoredOnce /\ AcknowledgedIsDurable /\ AnswerAfterItsQuestion

-----------------------------------------------------------------------------
(* The jobs of a worker.                                                   *)

\* The first call of a job, and what is left once it has returned.
LEMMA JobCases ==
  ASSUME NEW w \in Workers, NEW job \in Jobs(w), job # << >>
  PROVE  \/ \E t \in Turns : /\ Head(job) = [call |-> "append", id |-> <<w, t, "user">>]
                             /\ Tail(job) = Answer(w, t)
         \/ \E t \in Turns : /\ Head(job) = [call |-> "append", id |-> <<w, t, "assistant">>]
                             /\ Tail(job) = << >>
         \/ /\ Tail(job) = << >>
            /\ \E s \in {"active", "ended"} : Head(job) = [call |-> "sync", status |-> s]
         \/ Tail(job) = << >> /\ Head(job) = [call |-> "upsert"]
<1>1. ASSUME NEW t \in Turns, job = Appends(w, t)
      PROVE  /\ Head(job) = [call |-> "append", id |-> <<w, t, "user">>]
             /\ Tail(job) = Answer(w, t)
  BY <1>1 DEF Appends, Answer
<1>2. ASSUME NEW t \in Turns, job = Answer(w, t)
      PROVE  /\ Head(job) = [call |-> "append", id |-> <<w, t, "assistant">>]
             /\ Tail(job) = << >>
  BY <1>2 DEF Answer
<1>3. ASSUME NEW s \in {"active", "ended"}, job = Syncs(s)
      PROVE  Head(job) = [call |-> "sync", status |-> s] /\ Tail(job) = << >>
  BY <1>3 DEF Syncs
<1>4. ASSUME job = Upserts
      PROVE  Head(job) = [call |-> "upsert"] /\ Tail(job) = << >>
  BY <1>4 DEF Upserts
<1> QED
  BY <1>1, <1>2, <1>3, <1>4 DEF Jobs

\* An answer's job is one append.
LEMMA AnswerJob ==
  ASSUME NEW w \in Workers, NEW t \in Turns
  PROVE  /\ Answer(w, t) \in Jobs(w) /\ Answer(w, t) # << >>
         /\ Head(Answer(w, t)) = [call |-> "append", id |-> <<w, t, "assistant">>]
BY DEF Answer, Jobs

\* What is left of a job is a job, and no append but the answer's is left.
LEMMA TailOfJob ==
  ASSUME NEW w \in Workers, NEW job \in Jobs(w), job # << >>
  PROVE  /\ Tail(job) \in Jobs(w)
         /\ Appending(Tail(job)) =>
              \E t \in Turns :
                /\ Head(job) = [call |-> "append", id |-> <<w, t, "user">>]
                /\ Head(Tail(job)) = [call |-> "append", id |-> <<w, t, "assistant">>]
BY JobCases, AnswerJob DEF Jobs, Appending

\* An append is one of the worker's own messages.
LEMMA AppendingJob ==
  ASSUME NEW w \in Workers, NEW job \in Jobs(w), Appending(job)
  PROVE  /\ job # << >> /\ Head(job).call = "append" /\ Head(job).id \in MessageIds
         /\ \E t \in Turns, role \in {"user", "assistant"} : Head(job).id = <<w, t, role>>
         /\ Head(job).id[1] = w /\ Head(job).id[2] \in Turns
         /\ Head(job).id[3] \in {"user", "assistant"}
<1>1. job # << >> /\ Head(job).call = "append"
  BY DEF Appending
<1>2. ASSUME NEW t \in Turns, NEW role \in {"user", "assistant"},
             Head(job) = [call |-> "append", id |-> <<w, t, role>>]
      PROVE  Head(job).id = <<w, t, role>>
  BY <1>2
<1>3. ASSUME NEW s \in {"active", "ended"}, Head(job) = [call |-> "sync", status |-> s]
      PROVE  FALSE
  BY <1>1, <1>3
<1>4. Head(job) # [call |-> "upsert"]
  BY <1>1
<1>5. PICK t \in Turns, role \in {"user", "assistant"} : Head(job).id = <<w, t, role>>
  BY <1>1, <1>2, <1>3, <1>4, JobCases
<1>6. <<w, t, role>> \in MessageIds
  BY DEF MessageIds
<1> QED
  BY <1>1, <1>5, <1>6

-----------------------------------------------------------------------------
(* Steps that change only what one worker holds.                           *)

\* A worker whose statement has not been flushed sees the committed messages.
LEMMA SeesCommitted ==
  ASSUME RowsInv, NEW w \in Workers, worker[w].step = "read"
  PROVE  Sees(w) = messages
<1>1. worker[w].pending = NoWrite
  BY DEF RowsInv, WorkersInv, Consistent
<1> QED
  BY <1>1 DEF Sees, Pending, NoWrite

\* The stored messages can be counted.
LEMMA StoredType ==
  ASSUME RowsInv
  PROVE  Stored \in Nat /\ (Stored = 0 <=> messages = {})
BY FS_CardinalityType, FS_EmptySet DEF RowsInv, TypeInv, Stored

\* next_sequence, read between two flushes, is the number of stored messages
\* plus one.
LEMMA NextSequence ==
  ASSUME RowsInv, NEW w \in Workers, worker[w].step = "read"
  PROVE  next_sequence(w) = Stored + 1
<1>1. Sees(w) = messages /\ Stored \in Nat /\ (Stored = 0 <=> messages = {})
  BY SeesCommitted, StoredType
<1>2. CASE messages = {}
  BY <1>1, <1>2 DEF next_sequence
<1>3. CASE messages # {}
  <2>1. PICK m \in messages : m.seq = Stored
    BY <1>1, <1>3 DEF RowsInv, Numbered
  <2>2. \A k \in messages : k.seq <= m.seq
    BY <2>1 DEF RowsInv, Numbered
  <2> DEFINE top == CHOOSE k \in messages : \A l \in messages : l.seq <= k.seq
  <2>3. top \in messages /\ \A l \in messages : l.seq <= top.seq
    BY <2>2
  <2>4. top.seq = Stored
    BY <1>1, <2>1, <2>3 DEF RowsInv, Numbered, TypeInv, MessageRows
  <2> QED
    BY <1>1, <1>3, <2>4 DEF next_sequence
<1> QED
  BY <1>2, <1>3

\* A step that stores no message keeps the invariant if what the worker holds afterwards is
\* consistent, it takes up no append and flushes no second message.
LEMMA WorkerStep ==
  ASSUME RowsInv, NEW w \in Workers, NEW r,
         worker' = [worker EXCEPT ![w] = r],
         UNCHANGED <<messages, acked, turns>>,
         session' \in SessionRows, summary' \in 0 .. Stored,
         Consistent(w, r),
         Appending(r.job) => r.job = worker[w].job,
         r.pending.row = "message" =>
           \A x \in Workers \ {w} : worker[x].pending.row # "message"
  PROVE  RowsInv'
<1> USE DEF RowsInv
<1>1. /\ DOMAIN worker = Workers /\ DOMAIN worker' = Workers
      /\ worker'[w] = r /\ \A x \in Workers \ {w} : worker'[x] = worker[x]
  BY DEF WorkersInv
<1>2. Stored' = Stored
  BY DEF Stored
<1>3. TypeInv' /\ Numbered' /\ StoredOnce' /\ AcknowledgedIsDurable' /\ AnswerAfterItsQuestion'
  BY <1>2 DEF TypeInv, Numbered, StoredOnce, AcknowledgedIsDurable, AnswerAfterItsQuestion
<1>4. WorkersInv'
  <2>1. ASSUME NEW x \in Workers PROVE Consistent(x, worker[x])'
    <3>1. Consistent(x, worker'[x])
      BY <1>1 DEF WorkersInv
    <3> QED
      BY <1>2, <3>1 DEF Consistent, Fits
  <2> QED
    BY <1>1, <2>1 DEF WorkersInv
<1>5. OneInFlight'
  BY <1>1 DEF OneInFlight
<1>6. ExchangesInv'
  <2>1. \A x \in Workers : Appending(worker'[x].job) => worker'[x].job = worker[x].job
    BY <1>1
  <2>2. ASSUME NEW x \in Workers PROVE Owns(x, worker[x].job)'
    <3>1. Owns(x, worker[x].job)
      BY DEF ExchangesInv
    <3> QED
      BY <2>1, <3>1 DEF Owns
  <2> QED
    BY <2>1, <2>2 DEF ExchangesInv
<1> QED
  BY <1>3, <1>4, <1>5, <1>6

\* A step of a worker that writes no row keeps the invariant, if its record stays
\* consistent and it begins no exchange.
LEMMA PrivateStep ==
  ASSUME RowsInv, NEW w \in Workers, NEW r,
         worker' = [worker EXCEPT ![w] = r],
         UNCHANGED <<messages, session, summary, acked, turns>>,
         Consistent(w, r),
         Appending(r.job) => r.job = worker[w].job,
         r.pending.row = "message" =>
           \A x \in Workers \ {w} : worker[x].pending.row # "message"
  PROVE  RowsInv'
BY WorkerStep DEF RowsInv, TypeInv

\* A worker between two calls: it holds nothing but its job.
LEMMA Idle ==
  ASSUME RowsInv
  PROVE  /\ \A w \in Workers : Consistent(w, Down)
         /\ Down.job = << >> /\ Down.pending = NoWrite /\ NoWrite.row = "none"
         /\ \A w \in Workers : \A job \in Jobs(w) :
              /\ Left(w, job) \in WorkerRecords(w) /\ Left(w, job).job = job
              /\ Left(w, job).pending = NoWrite /\ Consistent(w, Left(w, job))
         /\ \A w \in Workers :
              /\ AfterFailure(w).job = << >> /\ AfterFailure(w).pending = NoWrite
              /\ Consistent(w, AfterFailure(w))
<1>1. Down.job = << >> /\ Down.pending = NoWrite /\ NoWrite.row = "none"
      /\ Down.step = "read" /\ ~Down.up
  BY DEF Down, NoWrite
<1>2. \A w \in Workers : Down \in WorkerRecords(w)
  BY DEF Down, WorkerRecords, Jobs, SessionRows
<1>3. \A w \in Workers : Consistent(w, Down)
  BY <1>1, <1>2 DEF Consistent
<1>4. ASSUME NEW w \in Workers, NEW job \in Jobs(w)
      PROVE  /\ Left(w, job) \in WorkerRecords(w) /\ Left(w, job).job = job
             /\ Left(w, job).pending = NoWrite /\ Left(w, job).step = "read"
             /\ Left(w, job).up
  <2>1. worker[w].stopping \in BOOLEAN /\ worker[w].poisoned \in BOOLEAN
    BY DEF RowsInv, WorkersInv, Consistent, WorkerRecords
  <2> QED
    BY <1>2, <2>1 DEF Left, Down, WorkerRecords
<1>5. ASSUME NEW w \in Workers, NEW job \in Jobs(w)
      PROVE  Consistent(w, Left(w, job))
  BY <1>4 DEF Consistent
<1>6. ASSUME NEW w \in Workers
      PROVE  /\ AfterFailure(w).job = << >> /\ AfterFailure(w).pending = NoWrite
             /\ Consistent(w, AfterFailure(w))
  <2>1. << >> \in Jobs(w)
    BY DEF Jobs
  <2>2. /\ AfterFailure(w) \in WorkerRecords(w) /\ AfterFailure(w).job = << >>
        /\ AfterFailure(w).pending = NoWrite /\ AfterFailure(w).step = "read"
        /\ AfterFailure(w).up
    <3> DEFINE l == Left(w, << >>)
    <3>1. /\ l \in WorkerRecords(w) /\ l.job = << >> /\ l.pending = NoWrite
          /\ l.step = "read" /\ l.up
      BY <1>4, <2>1
    <3>2. AfterFailure(w) = [l EXCEPT !.poisoned = TRUE]
      BY DEF AfterFailure
    <3> HIDE DEF l
    <3> QED
      BY <3>1, <3>2 DEF WorkerRecords
  <2> QED
    BY <2>2 DEF Consistent
<1> QED
  BY <1>1, <1>3, <1>4, <1>5, <1>6

\* A call that raises leaves the rows as they are.
LEMMA RaiseStep ==
  ASSUME RowsInv, NEW w \in Workers, Raise(w)
  PROVE  RowsInv'
BY PrivateStep, Idle DEF Raise, Appending

\* ExitWorker and Crash.
LEMMA DownStep ==
  ASSUME RowsInv, NEW w \in Workers, worker' = [worker EXCEPT ![w] = Down],
         UNCHANGED <<messages, session, summary, acked, turns>>
  PROVE  RowsInv'
BY PrivateStep, Idle DEF Appending

\* A worker that is ready takes up a job that appends nothing.
LEMMA TakesUp ==
  ASSUME RowsInv, NEW w \in Workers, NEW r, worker' = [worker EXCEPT ![w] = r],
         UNCHANGED <<messages, session, summary, acked, turns>>,
         r \in WorkerRecords(w), r.up, r.step = "read", r.pending = NoWrite,
         ~Appending(r.job)
  PROVE  RowsInv'
BY PrivateStep, Idle DEF Consistent

\* A worker starts and syncs the session as active.
LEMMA StartStep ==
  ASSUME RowsInv, NEW w \in Workers, StartWorker(w)
  PROVE  RowsInv'
<1> DEFINE r == [Down EXCEPT !.up = TRUE, !.job = Syncs("active")]
<1>1. Syncs("active") \in Jobs(w) /\ ~Appending(Syncs("active"))
  BY DEF Jobs, Syncs, Appending
<1>2. r \in WorkerRecords(w) /\ r.up /\ r.step = "read" /\ r.pending = NoWrite
      /\ r.job = Syncs("active")
  BY <1>1, Idle DEF Down, Consistent, WorkerRecords
<1>3. worker' = [worker EXCEPT ![w] = r]
  BY DEF StartWorker
<1> QED
  BY <1>1, <1>2, <1>3, TakesUp, ZenonT(40) DEF StartWorker

\* The record of a worker that is ready, with another job.
LEMMA ReadyRecord ==
  ASSUME RowsInv, NEW w \in Workers, Ready(w)
  PROVE  /\ worker[w] \in WorkerRecords(w) /\ worker[w].up
         /\ worker[w].step = "read" /\ worker[w].pending = NoWrite
BY DEF RowsInv, WorkersInv, Consistent, Ready

\* A summary is to be upserted.
LEMMA StoreSummaryStep ==
  ASSUME RowsInv, NEW w \in Workers, StoreSummary(w)
  PROVE  RowsInv'
<1> DEFINE r == [worker[w] EXCEPT !.job = Upserts]
<1>1. Upserts \in Jobs(w) /\ ~Appending(Upserts)
  BY DEF Jobs, Upserts, Appending
<1>2. r \in WorkerRecords(w) /\ r.up /\ r.step = "read" /\ r.pending = NoWrite
      /\ r.job = Upserts
  BY <1>1, ReadyRecord DEF StoreSummary, WorkerRecords
<1>3. worker' = [worker EXCEPT ![w] = r]
  BY DEF StoreSummary
<1> QED
  BY <1>1, <1>2, <1>3, TakesUp DEF StoreSummary

\* A worker stops and syncs the session as ended.
LEMMA StopStep ==
  ASSUME RowsInv, NEW w \in Workers, StopWorker(w)
  PROVE  RowsInv'
<1> DEFINE r == [worker[w] EXCEPT !.stopping = TRUE, !.job = Syncs("ended")]
<1>1. Syncs("ended") \in Jobs(w) /\ ~Appending(Syncs("ended"))
  BY DEF Jobs, Syncs, Appending
<1>2. r \in WorkerRecords(w) /\ r.up /\ r.step = "read" /\ r.pending = NoWrite
      /\ r.job = Syncs("ended")
  BY <1>1, ReadyRecord DEF StopWorker, WorkerRecords
<1>3. worker' = [worker EXCEPT ![w] = r]
  BY DEF StopWorker, RowsInv, WorkersInv
<1> QED
  BY <1>1, <1>2, <1>3, TakesUp DEF StopWorker

-----------------------------------------------------------------------------
(* The statements of a call up to its commit.                              *)

\* A worker executing a call, and the numbers of the stored messages.
LEMMA Calling ==
  ASSUME RowsInv, NEW w \in Workers, worker[w].up, worker[w].job # << >>
  PROVE  /\ worker[w] \in WorkerRecords(w) /\ worker[w].job \in Jobs(w)
         /\ Consistent(w, worker[w])
         /\ worker[w].held \in Nat /\ worker[w].contract \in SessionRows
         /\ Call(w).call \in {"append", "sync", "upsert"}
         /\ Call(w).call = "append" => Call(w).id \in MessageIds
         /\ Call(w).call = "sync" => Call(w).status \in {"active", "ended"}
<1>1. worker[w] \in WorkerRecords(w) /\ worker[w].job \in Jobs(w) /\ Consistent(w, worker[w])
      /\ worker[w].held \in Nat /\ worker[w].contract \in SessionRows
  BY DEF RowsInv, WorkersInv, Consistent, WorkerRecords
<1>2. \A t \in Turns : <<w, t, "user">> \in MessageIds /\ <<w, t, "assistant">> \in MessageIds
  BY DEF MessageIds
<1>3. \/ Call(w).call = "append" /\ Call(w).id \in MessageIds
      \/ Call(w).call = "sync" /\ Call(w).status \in {"active", "ended"}
      \/ Call(w).call = "upsert"
  <2> DEFINE job == worker[w].job
  <2>1. job \in Jobs(w) /\ job # << >> /\ Call(w) = Head(job)
    BY <1>1 DEF Call
  <2> HIDE DEF job
  <2>2. ASSUME NEW id \in MessageIds, Head(job) = [call |-> "append", id |-> id]
        PROVE  Call(w).call = "append" /\ Call(w).id \in MessageIds
    BY <2>1, <2>2
  <2>3. ASSUME NEW s \in {"active", "ended"}, Head(job) = [call |-> "sync", status |-> s]
        PROVE  Call(w).call = "sync" /\ Call(w).status \in {"active", "ended"}
    BY <2>1, <2>3
  <2>4. ASSUME Head(job) = [call |-> "upsert"]
        PROVE  Call(w).call = "upsert"
    BY <2>1, <2>4
  <2>5. \/ \E id \in MessageIds : Head(job) = [call |-> "append", id |-> id]
        \/ \E s \in {"active", "ended"} : Head(job) = [call |-> "sync", status |-> s]
        \/ Head(job) = [call |-> "upsert"]
    BY <1>2, <2>1, JobCases, Zenon
  <2> QED
    BY <2>2, <2>3, <2>4, <2>5
<1> QED
  BY <1>1, <1>3

\* A statement that is not the commit: the call goes on.
LEMMA StatementStep ==
  ASSUME RowsInv, NEW w \in Workers, NEW r, Step(w, r),
         worker[w].up, worker[w].job # << >>,
         r \in WorkerRecords(w), r.up, r.job = worker[w].job,
         r.step \in {"read", "flush"} => r.pending = NoWrite,
         r.step = "flush" =>
           /\ Call(w).call = "append" => r.held >= 1 /\ r.held <= Stored + 1
           /\ Call(w).call = "upsert" => r.held >= 1 /\ r.held <= Stored,
         r.step = "commit" => Fits(Call(w), r.pending),
         r.pending.row = "message" =>
           \A x \in Workers \ {w} : worker[x].pending.row # "message"
  PROVE  RowsInv'
BY PrivateStep DEF Consistent, Step, Call

\* append_message reads the next sequence number.
LEMMA ReadSequenceStep ==
  ASSUME RowsInv, NEW w \in Workers, ReadSequence(w)
  PROVE  RowsInv'
<1> DEFINE n == next_sequence(w)
           r == [worker[w] EXCEPT !.step = "flush", !.held = n]
<1>1. worker[w].up /\ worker[w].job # << >> /\ worker[w].step = "read"
      /\ Call(w).call = "append" /\ Step(w, r)
  BY DEF ReadSequence, At
<1>2. n = Stored + 1 /\ Stored \in Nat /\ n \in Nat
  BY <1>1, NextSequence, StoredType
<1> HIDE DEF n
<1>3. worker[w] \in WorkerRecords(w) /\ worker[w].pending = NoWrite
  BY <1>1, Calling DEF Consistent
<1>4. r \in WorkerRecords(w) /\ r.up /\ r.job = worker[w].job /\ r.step = "flush"
      /\ r.pending = NoWrite /\ r.held = n
  BY <1>1, <1>2, <1>3 DEF WorkerRecords
<1> HIDE DEF r
<1> QED
  BY <1>1, <1>2, <1>4, StatementStep DEF NoWrite

\* The session row is read.
LEMMA ReadSessionStep ==
  ASSUME RowsInv, NEW w \in Workers, ReadSession(w)
  PROVE  RowsInv'
<1> DEFINE r == [worker[w] EXCEPT !.step = "flush", !.contract = session]
<1>1. worker[w].up /\ worker[w].job # << >> /\ worker[w].step = "read"
      /\ Call(w).call = "sync" /\ Step(w, r)
  BY DEF ReadSession, At
<1>2. worker[w] \in WorkerRecords(w) /\ worker[w].pending = NoWrite /\ session \in SessionRows
  BY <1>1, Calling DEF Consistent, RowsInv, TypeInv
<1>3. r \in WorkerRecords(w) /\ r.up /\ r.job = worker[w].job /\ r.step = "flush"
      /\ r.pending = NoWrite
  BY <1>1, <1>2 DEF WorkerRecords
<1> HIDE DEF r
<1> QED
  BY <1>1, <1>3, StatementStep DEF NoWrite

\* The summary row is read.
LEMMA ReadSummaryStep ==
  ASSUME RowsInv, NEW w \in Workers, ReadSummary(w)
  PROVE  RowsInv'
<1> DEFINE found == summary # 0
           Listed(n) == [worker[w] EXCEPT !.step = "flush", !.held = n, !.found = found]
<1>1. PICK through \in {m.seq : m \in Sees(w)} : Step(w, Listed(through))
  BY DEF ReadSummary
<1> DEFINE r == Listed(through)
<1>2. worker[w].up /\ worker[w].job # << >> /\ worker[w].step = "read"
      /\ Call(w).call = "upsert"
  BY DEF ReadSummary, At
<1>3. through \in Nat /\ through >= 1 /\ through <= Stored
  BY <1>2, SeesCommitted DEF RowsInv, TypeInv, MessageRows, Numbered
<1>4. worker[w] \in WorkerRecords(w) /\ worker[w].pending = NoWrite
  BY <1>2, Calling DEF Consistent
<1>5. found \in BOOLEAN
  OBVIOUS
<1>6. Step(w, r)
  BY <1>1
<1> HIDE DEF found
<1>7. r \in WorkerRecords(w) /\ r.up /\ r.job = worker[w].job /\ r.step = "flush"
      /\ r.pending = NoWrite /\ r.held = through
  BY <1>2, <1>3, <1>4, <1>5 DEF WorkerRecords
<1> HIDE DEF r
<1> QED
  BY <1>2, <1>3, <1>6, <1>7, StatementStep DEF NoWrite

\* The number is free and no other worker has it in flight: it is the one
\* behind the last.
LEMMA FlushMessageStep ==
  ASSUME RowsInv, NEW w \in Workers, FlushMessage(w)
  PROVE  RowsInv'
<1> DEFINE n == worker[w].held
           row == [row |-> "message", seq |-> n, id |-> Call(w).id]
           r == [worker[w] EXCEPT !.step = "commit", !.pending = row]
<1>1. worker[w].up /\ worker[w].job # << >> /\ worker[w].step = "flush"
      /\ Call(w).call = "append"
  BY DEF FlushMessage, At
<1>2. CASE Raise(w)
  BY <1>2, RaiseStep
<1>3. CASE ~Raise(w)
  <2>1. SequenceFree(n) /\ Step(w, r)
    BY <1>3 DEF FlushMessage
  <2>2. worker[w] \in WorkerRecords(w) /\ n \in Nat /\ n >= 1 /\ n <= Stored + 1
        /\ Call(w).id \in MessageIds
    BY <1>1, Calling DEF Consistent, Call
  <2>3. n = Stored + 1
    <3>1. n \notin 1 .. Stored
      BY <2>1 DEF SequenceFree, RowsInv, Numbered
    <3> QED
      BY <2>2, <3>1, StoredType
  <2>4. ASSUME NEW x \in Workers \ {w} PROVE worker[x].pending.row # "message"
    <3>1. worker[x].pending.row = "message" => worker[x].pending.seq # n
      BY DEF FlushMessage, Pending
    <3>2. worker[x].pending.row = "message" => worker[x].pending.seq = Stored + 1
      <4>1. Consistent(x, worker[x])
        BY DEF RowsInv, WorkersInv
      <4>2. worker[x].step \in {"read", "flush"} => worker[x].pending.row = "none"
        BY <4>1 DEF Consistent, NoWrite
      <4>3. worker[x].step = "commit" => Fits(Head(worker[x].job), worker[x].pending)
        BY <4>1 DEF Consistent
      <4>4. worker[x].step \in {"read", "flush", "commit"}
        BY <4>1 DEF Consistent, WorkerRecords
      <4> QED
        BY <4>2, <4>3, <4>4 DEF Fits, SessionUpdates, SummaryRows
    <3> QED
      BY <2>3, <3>1, <3>2
  <2>5. row \in MessageRows
    BY <2>2 DEF MessageRows
  <2>6. r \in WorkerRecords(w) /\ r.up /\ r.job = worker[w].job /\ r.step = "commit"
        /\ r.pending = row
    <3> HIDE DEF row
    <3> QED
      BY <1>1, <2>2, <2>5 DEF WorkerRecords
  <2>7. Fits(Call(w), r.pending)
    BY <1>1, <2>3, <2>6 DEF Fits
  <2> HIDE DEF r
  <2> QED
    BY <1>1, <2>1, <2>4, <2>6, <2>7, StatementStep
<1> QED
  BY <1>2, <1>3

\* The session row is flushed into the transaction.
LEMMA FlushSessionStep ==
  ASSUME RowsInv, NEW w \in Workers, FlushSession(w)
  PROVE  RowsInv'
<1> DEFINE ended == Call(w).status = "ended" \/ worker[w].contract.ended
           row == [row |-> "session", status |-> Call(w).status, ended |-> ended]
           r == [worker[w] EXCEPT !.step = "commit", !.pending = row]
<1>1. worker[w].up /\ worker[w].job # << >> /\ worker[w].step = "flush"
      /\ Call(w).call = "sync" /\ Step(w, r)
  BY DEF FlushSession, At
<1>2. worker[w] \in WorkerRecords(w) /\ Call(w).status \in {"active", "ended"}
  BY <1>1, Calling
<1>3. ended \in BOOLEAN
  OBVIOUS
<1>4. row \in SessionUpdates
  <2> HIDE DEF ended
  <2> QED
    BY <1>2, <1>3 DEF SessionUpdates
<1>5. row.row = "session"
  OBVIOUS
<1> HIDE DEF row
<1>6. r \in WorkerRecords(w) /\ r.up /\ r.job = worker[w].job /\ r.step = "commit"
      /\ r.pending = row
  BY <1>1, <1>2, <1>4 DEF WorkerRecords
<1> HIDE DEF r
<1> QED
  BY <1>1, <1>4, <1>5, <1>6, StatementStep DEF Fits

\* The summary row is flushed, or the flush raises.
LEMMA FlushSummaryStep ==
  ASSUME RowsInv, NEW w \in Workers, FlushSummary(w)
  PROVE  RowsInv'
<1> DEFINE row == [row |-> "summary", through |-> worker[w].held]
           r == [worker[w] EXCEPT !.step = "commit", !.pending = row]
<1>1. worker[w].up /\ worker[w].job # << >> /\ worker[w].step = "flush"
      /\ Call(w).call = "upsert"
  BY DEF FlushSummary, At
<1>2. CASE Raise(w)
  BY <1>2, RaiseStep
<1>3. CASE ~Raise(w)
  <2>1. Step(w, r)
    BY <1>3 DEF FlushSummary
  <2>2. worker[w] \in WorkerRecords(w) /\ worker[w].held \in Nat
        /\ worker[w].held >= 1 /\ worker[w].held <= Stored
    BY <1>1, Calling DEF Consistent, Call
  <2>3. row \in SummaryRows /\ row.row = "summary" /\ row.through <= Stored
    BY <2>2 DEF SummaryRows
  <2> HIDE DEF row
  <2>4. r \in WorkerRecords(w) /\ r.up /\ r.job = worker[w].job /\ r.step = "commit"
        /\ r.pending = row
    BY <1>1, <2>2, <2>3 DEF WorkerRecords
  <2> HIDE DEF r
  <2> QED
    BY <1>1, <2>1, <2>3, <2>4, StatementStep DEF Fits
<1> QED
  BY <1>2, <1>3

-----------------------------------------------------------------------------
(* A new exchange, and the commits.                                        *)

\* An exchange is to be persisted: two appends of a new turn.
LEMMA PersistStep ==
  ASSUME MaxTurns \in Nat, RowsInv, NEW w \in Workers, PersistExchange(w)
  PROVE  RowsInv'
<1> USE DEF RowsInv
<1> DEFINE t == turns + 1
           job == Appends(w, t)
           r == [worker[w] EXCEPT !.job = job]
<1>1. turns \in Nat /\ t \in Turns /\ turns' = t /\ UNCHANGED <<messages, session, summary, acked>>
  BY DEF PersistExchange, TypeInv, Turns
<1>2. /\ job \in Jobs(w) /\ Appending(job)
      /\ Head(job) = [call |-> "append", id |-> <<w, t, "user">>]
  BY <1>1 DEF Jobs, Appending, Appends
<1>3. worker[w] \in WorkerRecords(w) /\ worker[w].up
      /\ worker[w].step = "read" /\ worker[w].pending = NoWrite
  BY ReadyRecord DEF PersistExchange
<1>4. worker' = [worker EXCEPT ![w] = r] /\ DOMAIN worker = Workers
  BY DEF PersistExchange, WorkersInv
<1> HIDE DEF job
<1>5. r \in WorkerRecords(w) /\ r.up /\ r.step = "read" /\ r.pending = NoWrite /\ r.job = job
  BY <1>2, <1>3 DEF WorkerRecords
<1> HIDE DEF r
<1>6. /\ DOMAIN worker' = Workers /\ worker'[w] = r
      /\ \A x \in Workers \ {w} : worker'[x] = worker[x]
  BY <1>4
<1>7. Stored' = Stored
  BY <1>1 DEF Stored
<1>8. TypeInv' /\ Numbered' /\ StoredOnce' /\ AcknowledgedIsDurable' /\ AnswerAfterItsQuestion'
  <2>1. turns' \in 0 .. MaxTurns
    BY <1>1 DEF Turns
  <2> QED
    BY <1>1, <1>7, <2>1 DEF TypeInv, Numbered, StoredOnce, AcknowledgedIsDurable,
       AnswerAfterItsQuestion
<1>9. WorkersInv'
  <2>1. Consistent(w, r)
    BY <1>5, <1>2 DEF Consistent, Appending
  <2>2. ASSUME NEW x \in Workers PROVE Consistent(x, worker[x])'
    <3>1. Consistent(x, worker'[x])
      BY <1>6, <2>1 DEF WorkersInv
    <3> QED
      BY <1>7, <3>1 DEF Consistent, Fits
  <2> QED
    BY <1>6, <2>2 DEF WorkersInv
<1>10. OneInFlight'
  <2>1. worker'[w].pending.row # "message"
    BY <1>5, <1>6 DEF NoWrite
  <2> QED
    BY <1>6, <2>1 DEF OneInFlight
<1>11. ExchangesInv'
  <2>1. \A m \in messages : m.id[2] \in Nat /\ m.id[2] <= turns
    BY DEF ExchangesInv, TypeInv, MessageRows, MessageIds, Turns
  <2>2. ASSUME NEW x \in Workers PROVE Owns(x, worker[x].job)'
    <3>1. CASE x = w
      BY <1>1, <1>2, <1>5, <1>6, <2>1, <3>1 DEF Owns
    <3>2. CASE x # w
      <4>1. Owns(x, worker[x].job)
        BY DEF ExchangesInv
      <4>2. Appending(worker[x].job) => Head(worker[x].job).id[2] \in Nat
        <5>1. worker[x].job \in Jobs(x)
          BY DEF WorkersInv, Consistent, WorkerRecords
        <5> QED
          BY <5>1, AppendingJob DEF Turns
      <4> QED
        BY <1>1, <1>6, <3>2, <4>1, <4>2 DEF Owns
    <3> QED
      BY <3>1, <3>2
  <2>3. ASSUME NEW x \in Workers \ {w}, Appending(worker[x].job)
        PROVE  Head(worker[x].job).id[2] # t
    <3>1. Head(worker[x].job).id[2] <= turns
      BY <2>3 DEF ExchangesInv, Owns
    <3> QED
      BY <1>1, <3>1
  <2>4. Head(r.job).id[2] = t
    BY <1>2, <1>5
  <2> QED
    BY <1>1, <1>6, <2>1, <2>2, <2>3, <2>4 DEF ExchangesInv
<1> QED
  BY <1>8, <1>9, <1>10, <1>11

\* A commit makes what the worker flushed a row.  Afterwards it holds nothing:
\* it goes on with its job, or the answer was lost and the job is abandoned.
LEMMA StoreStep ==
  ASSUME RowsInv, NEW w \in Workers, worker[w].up, worker[w].step = "commit", Store(w),
         NEW r, worker' = [worker EXCEPT ![w] = r],
         r \in WorkerRecords(w), r.up, r.step = "read", r.pending = NoWrite,
         r.job = << >> \/ r.job = Tail(worker[w].job),
         turns' = turns,
         \/ acked' = acked
         \/ acked' = acked \cup {c.id : c \in {Call(w)} \cap
                                        [call : {"append"}, id : MessageIds]}
  PROVE  RowsInv'
<1> USE DEF RowsInv
<1> DEFINE job == worker[w].job
           p == worker[w].pending
           new == {c.id : c \in {Call(w)} \cap [call : {"append"}, id : MessageIds]}
<1>1. /\ worker[w] \in WorkerRecords(w) /\ job \in Jobs(w) /\ job # << >>
      /\ Fits(Head(job), p) /\ Call(w) = Head(job) /\ DOMAIN worker = Workers
  BY DEF WorkersInv, Consistent, WorkerRecords, Call
<1>2. /\ DOMAIN worker' = Workers /\ worker'[w] = r
      /\ \A x \in Workers \ {w} : worker'[x] = worker[x]
  BY <1>1
<1>3. Stored \in Nat
  BY StoredType
<1>4. Consistent(w, r) /\ Consistent(w, r)'
  BY DEF Consistent
<1>5. CASE Head(job).call # "append"
  <2>1. p.row # "message" /\ new = {}
    BY <1>1, <1>5 DEF Fits, SessionUpdates, SummaryRows
  <2>2. messages' = messages /\ acked' = acked
    BY <2>1 DEF Store, Pending
  <2>3. session' \in SessionRows /\ summary' \in 0 .. Stored
    BY <1>1, <1>3, <1>5 DEF Fits, SessionUpdates, SummaryRows, Store, Pending, SessionRows,
       TypeInv
  <2>4. ~Appending(r.job)
    <3>1. ASSUME NEW t \in Turns, Head(job) = [call |-> "append", id |-> <<w, t, "user">>]
          PROVE  FALSE
      BY <1>5, <3>1
    <3>2. ~Appending(Tail(job))
      <4> HIDE DEF job
      <4> QED
        BY <1>1, <3>1, TailOfJob
    <3> QED
      BY <3>2 DEF Appending
  <2>5. r.pending.row # "message"
    BY DEF NoWrite
  <2> HIDE DEF RowsInv
  <2> QED
    BY <1>4, <2>2, <2>3, <2>4, <2>5, WorkerStep
<1>6. CASE Head(job).call = "append"
  <2> DEFINE id == Head(job).id
  <2>1. Appending(job) /\ p = [row |-> "message", seq |-> Stored + 1, id |-> id]
    BY <1>1, <1>6 DEF Appending, Fits
  <2>2. PICK t \in Turns, role \in {"user", "assistant"} : id = <<w, t, role>>
    BY <1>1, <2>1, AppendingJob
  <2>3. id \in MessageIds /\ p \in MessageRows
    BY <1>1, <1>3, <2>1, AppendingJob DEF MessageRows
  <2> HIDE DEF p, id, job
  <2>4. p.row = "message" /\ p.seq = Stored + 1 /\ p.id = id
    BY <2>1
  <2>5. messages' = messages \cup {p} /\ session' = session /\ summary' = summary
    BY <2>4 DEF Store, Pending, p
  <2>6. acked' \subseteq acked \cup {id}
    <3>1. new \subseteq {id}
      BY <1>1 DEF job, id
    <3> QED
      BY <3>1
  <2>7. \A m \in messages : m.seq \in Nat /\ m.seq <= Stored
    BY DEF Numbered, TypeInv, MessageRows
  <2>8. p \notin messages
    BY <1>3, <2>4, <2>7
  <2>9. IsFiniteSet(messages') /\ Stored' = Stored + 1
    BY <2>5, <2>8, FS_AddElement DEF TypeInv, Stored
  <2>10. TypeInv'
    BY <1>3, <2>3, <2>5, <2>6, <2>9 DEF TypeInv
  <2>11. Numbered'
    <3>1. \A m \in messages' : m.seq <= Stored'
      BY <1>3, <2>4, <2>5, <2>7, <2>9
    <3>2. \A n \in 1 .. Stored' : \E m \in messages' : m.seq = n
      <4> SUFFICES ASSUME NEW n \in 1 .. Stored' PROVE \E m \in messages' : m.seq = n
        OBVIOUS
      <4>1. CASE n = Stored + 1
        BY <2>4, <2>5, <4>1
      <4>2. CASE n \in 1 .. Stored
        BY <2>5, <4>2 DEF Numbered
      <4> QED
        BY <1>3, <2>9, <4>1, <4>2
    <3>3. \A m, k \in messages' : m.seq = k.seq => m = k
      BY <1>3, <2>4, <2>5, <2>7 DEF Numbered
    <3> QED
      BY <3>1, <3>2, <3>3 DEF Numbered
  <2>12. \A x \in Workers \ {w} : worker[x].pending.row # "message"
    BY <2>4 DEF OneInFlight, p
  <2>13. WorkersInv'
    <3>1. ASSUME NEW x \in Workers \ {w} PROVE Consistent(x, worker[x])'
      <4>1. Consistent(x, worker[x]) /\ worker[x].held \in Nat
        BY DEF WorkersInv, Consistent, WorkerRecords
      <4>2. worker[x].step = "commit" => Fits(Head(worker[x].job), worker[x].pending)'
        BY <1>2, <1>3, <2>9, <2>12, <4>1 DEF Consistent, Fits, SummaryRows
      <4> QED
        BY <1>2, <1>3, <2>9, <4>1, <4>2 DEF Consistent
    <3>2. Consistent(w, worker[w])'
      BY <1>2, <1>4 DEF Consistent
    <3> QED
      BY <1>2, <3>1, <3>2 DEF WorkersInv
  <2>14. OneInFlight'
    <3>1. worker'[w].pending.row # "message"
      BY <1>2 DEF NoWrite
    <3> QED
      BY <1>2, <3>1 DEF OneInFlight
  <2>15. /\ t \in Nat /\ t <= turns /\ turns \in Nat
         /\ role = "user" => \A m \in messages : m.id[2] # t
         /\ role = "assistant" =>
              /\ \A m \in messages : m.id[2] = t => m.id[3] = "user"
              /\ \E m \in messages : m.id = <<w, t, "user">>
    <3>1. Owns(w, job)
      BY DEF ExchangesInv, job
    <3>2. id[2] = t /\ id[3] = role
      BY <2>2
    <3> QED
      BY <2>1, <3>1, <3>2 DEF Owns, id, TypeInv, Turns
  <2>16. p.id[1] = w /\ p.id[2] = t /\ p.id[3] = role
    BY <2>2, <2>4
  <2>17. ExchangesInv'
    <3>1. \A m \in messages' : m.id[2] <= turns'
      BY <2>5, <2>15, <2>16 DEF ExchangesInv
    <3>2. Appending(r.job) => /\ role = "user" /\ Head(r.job).id = <<w, t, "assistant">>
      <4> SUFFICES ASSUME Appending(r.job)
                   PROVE  role = "user" /\ Head(r.job).id = <<w, t, "assistant">>
        OBVIOUS
      <4>1. r.job = Tail(job) /\ job \in Jobs(w) /\ job # << >>
        BY <1>1 DEF Appending, job
      <4>2. PICK u \in Turns :
              /\ Head(job) = [call |-> "append", id |-> <<w, u, "user">>]
              /\ Head(Tail(job)) = [call |-> "append", id |-> <<w, u, "assistant">>]
        BY <4>1, TailOfJob
      <4>3. id = <<w, u, "user">> /\ Head(r.job).id = <<w, u, "assistant">>
        <5>1. Head(job).id = <<w, u, "user">>
          BY <4>2
        <5>2. Head(Tail(job)).id = <<w, u, "assistant">>
          <6> DEFINE first == Head(Tail(job))
          <6>1. first = [call |-> "append", id |-> <<w, u, "assistant">>]
            BY <4>2
          <6> HIDE DEF first
          <6>2. first.id = <<w, u, "assistant">>
            BY <6>1
          <6> QED
            BY <6>2 DEF first
        <5> QED
          BY <4>1, <5>1, <5>2 DEF id
      <4>4. u = t /\ role = "user"
        BY <2>2, <4>3
      <4> QED
        BY <4>3, <4>4
    <3>3. Owns(w, worker[w].job)'
      <4>1. CASE Appending(r.job)
        <5>1. Head(r.job).id[2] = t /\ Head(r.job).id[3] = "assistant" /\ role = "user"
          BY <3>2, <4>1
        <5>2. p \in messages' /\ p.id = <<w, t, "user">>
          BY <2>2, <2>4, <2>5, <5>1
        <5>3. \A m \in messages' : m.id[2] = t => m.id[3] = "user"
          BY <2>5, <2>15, <2>16, <5>1
        <5> QED
          BY <1>2, <2>15, <5>1, <5>2, <5>3 DEF Owns
      <4>2. CASE ~Appending(r.job)
        BY <1>2, <4>2 DEF Owns
      <4> QED
        BY <4>1, <4>2
    <3>4. ASSUME NEW x \in Workers \ {w}, Appending(worker[x].job)
          PROVE  Head(worker[x].job).id[2] # t
      BY <2>1, <2>2, <3>4 DEF ExchangesInv, job, id
    <3>5. ASSUME NEW x \in Workers \ {w} PROVE Owns(x, worker[x].job)'
      <4>1. Owns(x, worker[x].job)
        BY DEF ExchangesInv
      <4> QED
        BY <1>2, <2>5, <2>16, <3>4, <4>1 DEF Owns
    <3>6. Appending(r.job) => Head(r.job).id[2] = t
      BY <3>2
    <3> QED
      BY <1>2, <3>1, <3>3, <3>4, <3>5, <3>6 DEF ExchangesInv
  <2>18. StoredOnce'
    BY <2>5, <2>15, <2>16 DEF StoredOnce
  <2>19. AcknowledgedIsDurable'
    BY <2>4, <2>5, <2>6 DEF AcknowledgedIsDurable
  <2>20. AnswerAfterItsQuestion'
    <3> SUFFICES ASSUME NEW m \in messages', m.id[3] = "assistant"
                 PROVE  \E q \in messages' :
                          q.seq < m.seq /\ q.id = <<m.id[1], m.id[2], "user">>
      BY DEF AnswerAfterItsQuestion
    <3>1. CASE m \in messages
      BY <2>5, <3>1 DEF AnswerAfterItsQuestion
    <3>2. CASE m = p
      <4>1. PICK q \in messages : q.id = <<w, t, "user">>
        BY <2>15, <2>16, <3>2
      <4>2. q.seq < p.seq
        BY <1>3, <2>4, <2>7
      <4> QED
        BY <2>5, <2>16, <3>2, <4>1, <4>2
    <3> QED
      BY <2>5, <3>1, <3>2
  <2> QED
    BY <2>10, <2>11, <2>13, <2>14, <2>17, <2>18, <2>19, <2>20
<1> QED
  BY <1>5, <1>6

\* The transaction commits, whether or not the worker hears of it.
LEMMA CommitStep ==
  ASSUME RowsInv, NEW w \in Workers, Commit(w) \/ CommitAnswerLost(w)
  PROVE  RowsInv'
<1>1. worker[w].up /\ worker[w].step = "commit" /\ Store(w) /\ turns' = turns
  BY DEF Commit, CommitAnswerLost
<1>2. worker[w].job \in Jobs(w) /\ worker[w].job # << >>
  BY <1>1 DEF RowsInv, WorkersInv, Consistent, WorkerRecords
<1>3. CASE Commit(w)
  <2> DEFINE rest == Tail(worker[w].job)
             r == Left(w, rest)
  <2>1. rest \in Jobs(w)
    BY <1>2, TailOfJob
  <2>2. /\ worker' = [worker EXCEPT ![w] = r]
        /\ acked' = acked \cup {c.id : c \in {Call(w)} \cap
                                       [call : {"append"}, id : MessageIds]}
    BY <1>3 DEF Commit
  <2>3. r.job = rest /\ r.pending = NoWrite /\ r \in WorkerRecords(w)
    BY <2>1, Idle
  <2>4. r.up /\ r.step = "read"
    BY DEF Left, Down
  <2> HIDE DEF r
  <2> QED
    BY <1>1, <2>2, <2>3, <2>4, StoreStep
<1>4. CASE CommitAnswerLost(w)
  <2> DEFINE r == AfterFailure(w)
  <2>1. worker' = [worker EXCEPT ![w] = r] /\ acked' = acked
    BY <1>4 DEF CommitAnswerLost
  <2>2. r.job = << >> /\ r.pending = NoWrite /\ r \in WorkerRecords(w)
    BY Idle DEF Consistent
  <2>3. r.up /\ r.step = "read"
    BY DEF AfterFailure, Left, Down
  <2> HIDE DEF r
  <2> QED
    BY <1>1, <2>1, <2>2, <2>3, StoreStep
<1> QED
  BY <1>3, <1>4

\* Init establishes RowsInv.
LEMMA RowsInit ==
  ASSUME MaxTurns \in Nat, Init
  PROVE  RowsInv
<1>1. messages = {} /\ acked = {} /\ turns = 0 /\ summary = 0
      /\ worker = [w \in Workers |-> Down]
  BY DEF Init
<1>2. IsFiniteSet(messages) /\ Stored = 0
  BY <1>1, FS_EmptySet DEF Stored
<1>3. TypeInv
  BY <1>1, <1>2 DEF TypeInv, Init, SessionRows
<1>4. Numbered /\ StoredOnce /\ AcknowledgedIsDurable /\ AnswerAfterItsQuestion
  BY <1>1, <1>2 DEF Numbered, StoredOnce, AcknowledgedIsDurable, AnswerAfterItsQuestion
<1>5. /\ Down.job = << >> /\ Down.pending = NoWrite /\ Down.step = "read"
      /\ NoWrite.row = "none"
  BY DEF Down, NoWrite
<1>6. \A w \in Workers : Down \in WorkerRecords(w)
  BY DEF Down, WorkerRecords, Jobs, SessionRows
<1>7. \A w \in Workers : Consistent(w, Down)
  BY <1>5, <1>6 DEF Consistent
<1> HIDE DEF Down
<1>8. WorkersInv /\ OneInFlight /\ ExchangesInv
  BY <1>1, <1>5, <1>7 DEF WorkersInv, OneInFlight, ExchangesInv, Owns, Appending
<1> QED
  BY <1>3, <1>4, <1>8 DEF RowsInv

\* Every step of every worker keeps RowsInv.
LEMMA RowsStep ==
  ASSUME MaxTurns \in Nat, RowsInv, [Next]_vars
  PROVE  RowsInv'
<1>1. ASSUME NEW w \in Workers, StartWorker(w) PROVE RowsInv'
  BY <1>1, StartStep
<1>2. ASSUME NEW w \in Workers, PersistExchange(w) PROVE RowsInv'
  BY <1>2, PersistStep
<1>3. ASSUME NEW w \in Workers, StoreSummary(w) PROVE RowsInv'
  BY <1>3, StoreSummaryStep
<1>4. ASSUME NEW w \in Workers, StopWorker(w) PROVE RowsInv'
  BY <1>4, StopStep
<1>5. ASSUME NEW w \in Workers, ExitWorker(w) \/ Crash(w) PROVE RowsInv'
  BY <1>5, DownStep DEF ExitWorker, Crash
<1>6. ASSUME NEW w \in Workers, ReadSequence(w) \/ FlushMessage(w) PROVE RowsInv'
  BY <1>6, ReadSequenceStep, FlushMessageStep
<1>7. ASSUME NEW w \in Workers, ReadSession(w) \/ FlushSession(w) PROVE RowsInv'
  BY <1>7, ReadSessionStep, FlushSessionStep
<1>8. ASSUME NEW w \in Workers, ReadSummary(w) \/ FlushSummary(w) PROVE RowsInv'
  BY <1>8, ReadSummaryStep, FlushSummaryStep
<1>9. ASSUME NEW w \in Workers, Commit(w) \/ CommitAnswerLost(w) PROVE RowsInv'
  BY <1>9, CommitStep
<1>10. ASSUME NEW w \in Workers, CallRaises(w) \/ DatabaseFails(w) PROVE RowsInv'
  BY <1>10, RaiseStep DEF CallRaises, DatabaseFails
<1>11. CASE UNCHANGED vars
  BY <1>11, ZenonT(40) DEF vars, RowsInv, TypeInv, Numbered, WorkersInv, Consistent, Fits, OneInFlight,
     ExchangesInv, Owns, Appending, StoredOnce, AcknowledgedIsDurable,
     AnswerAfterItsQuestion, Stored
<1> QED
  BY <1>1, <1>2, <1>3, <1>4, <1>5, <1>6, <1>7, <1>8, <1>9, <1>10, <1>11 DEF Next

\* The inductive invariant holds in every reachable state.
THEOREM RowsInvariant ==
  ASSUME MaxTurns \in Nat
  PROVE  Spec => []RowsInv
<1>1. Init => RowsInv
  BY RowsInit
<1>2. RowsInv /\ [Next]_vars => RowsInv'
  BY RowsStep
<1> QED
  BY <1>1, <1>2, PTL DEF Spec

-----------------------------------------------------------------------------
(* What follows for every number of workers, exchanges and starts.         *)

\* A message whose append_message returned is in the table for good: no crash,
\* failed flush, lost answer or other worker takes it away.
THEOREM AcknowledgedStays ==
  ASSUME MaxTurns \in Nat
  PROVE  Spec => []AcknowledgedIsDurable
<1>1. RowsInv => AcknowledgedIsDurable
  BY DEF RowsInv
<1> QED
  BY <1>1, RowsInvariant, PTL

\* _persist_turn_exchange, whichever of its statements fails, never leaves an
\* assistant message without the user message of its turn before it.
THEOREM NoAnswerAlone ==
  ASSUME MaxTurns \in Nat
  PROVE  Spec => []AnswerAfterItsQuestion
<1>1. RowsInv => AnswerAfterItsQuestion
  BY DEF RowsInv
<1> QED
  BY <1>1, RowsInvariant, PTL

\* The sequence numbers of the committed messages are 1, 2, ... without a gap,
\* each given once, although next_sequence and the insert are two statements
\* that two workers interleave; and no message is stored twice.
THEOREM SequenceHasNoGap ==
  ASSUME MaxTurns \in Nat
  PROVE  Spec => [](Numbered /\ StoredOnce)
<1>1. RowsInv => Numbered /\ StoredOnce
  BY DEF RowsInv
<1> QED
  BY <1>1, RowsInvariant, PTL

-----------------------------------------------------------------------------
(* The refinement of MemoryStore.                                          *)

\* Every exchange stores at most two messages.
LEMMA StoredBound ==
  ASSUME MaxTurns \in Nat, RowsInv
  PROVE  Stored <= 2 * MaxTurns
<1> DEFINE role(m) == IF m.id[3] = "user" THEN 1 ELSE 0
           place == [m \in messages |-> 2 * m.id[2] - role(m)]
<1>1. \A m \in messages : m.id[2] \in 1 .. MaxTurns /\ m.id[3] \in {"user", "assistant"}
  BY DEF RowsInv, TypeInv, MessageRows, MessageIds, Turns
<1>2. \A m \in messages : place[m] \in 1 .. 2 * MaxTurns
  BY <1>1
<1>3. ASSUME NEW m \in messages, NEW k \in messages, place[m] = place[k]
      PROVE  m = k
  <2>1. 2 * m.id[2] - role(m) = 2 * k.id[2] - role(k)
    BY <1>3
  <2>2. m.id[2] = k.id[2] /\ role(m) = role(k)
    <3> DEFINE a == m.id[2]
               b == k.id[2]
               c == role(m)
               d == role(k)
    <3>1. a \in Nat /\ b \in Nat /\ c \in {0, 1} /\ d \in {0, 1}
      BY <1>1
    <3>2. 2 * a - c = 2 * b - d
      BY <2>1
    <3> HIDE DEF a, b, c, d
    <3>3. a = b /\ c = d
      BY <3>1, <3>2
    <3> QED
      BY <3>3 DEF a, b, c, d
  <2>3. m.id[3] = k.id[3]
    BY <1>1, <2>2
  <2> QED
    BY <2>2, <2>3 DEF RowsInv, StoredOnce
<1>4. place \in Injection(messages, 1 .. 2 * MaxTurns)
  <2> HIDE DEF place
  <2>1. place \in [messages -> 1 .. 2 * MaxTurns]
    BY <1>2 DEF place
  <2> QED
    BY <1>3, <2>1 DEF Injection, IsInjective
<1>5. IsFiniteSet(1 .. 2 * MaxTurns) /\ Cardinality(1 .. 2 * MaxTurns) = 2 * MaxTurns
  <2>1. 2 * MaxTurns \in Nat
    OBVIOUS
  <2>2. IsFiniteSet(1 .. 2 * MaxTurns)
        /\ Cardinality(1 .. 2 * MaxTurns) =
             IF 1 > 2 * MaxTurns THEN 0 ELSE 2 * MaxTurns - 1 + 1
    BY <2>1, FS_Interval
  <2> QED
    BY <2>1, <2>2
<1> HIDE DEF place
<1> QED
  BY <1>4, <1>5, FS_Injection DEF Stored

\* The transcript lists the stored messages by their numbers.
LEMMA TranscriptAt ==
  ASSUME RowsInv
  PROVE  /\ Transcript \in Seq(MessageIds) /\ Len(Transcript) = Stored
         /\ DOMAIN Transcript = 1 .. Stored
         /\ \A m \in messages : Transcript[m.seq] = m.id
<1>1. Stored \in Nat /\ messages \subseteq MessageRows
  BY StoredType DEF RowsInv, TypeInv
<1>2. \A m \in messages : m.seq \in 1 .. Stored /\ m.id \in MessageIds
  BY <1>1 DEF RowsInv, Numbered, MessageRows
<1>3. DOMAIN Transcript = 1 .. Stored
  BY DEF Transcript, Stored
<1>4. ASSUME NEW m \in messages PROVE Transcript[m.seq] = m.id
  <2> DEFINE at == {k \in messages : k.seq = m.seq}
  <2>1. at = {m}
    BY DEF RowsInv, Numbered
  <2>2. Cardinality(at) = 1 /\ (CHOOSE k \in at : TRUE) = m
    BY <2>1, FS_Singleton
  <2>3. Transcript[m.seq] = IF Cardinality(at) = 1 THEN (CHOOSE k \in at : TRUE).id ELSE << >>
    BY <1>2 DEF Transcript, Stored
  <2> HIDE DEF at
  <2> QED
    BY <2>2, <2>3
<1>5. \A n \in 1 .. Stored : Transcript[n] \in MessageIds
  BY <1>2, <1>4 DEF RowsInv, Numbered
<1>6. Transcript = [n \in 1 .. Stored |-> Transcript[n]]
  BY DEF Transcript, Stored
<1> QED
  BY <1>1, <1>3, <1>4, <1>5, <1>6

\* The commit of a message appends it to the transcript.
LEMMA TranscriptAppends ==
  ASSUME RowsInv, RowsInv', NEW p \in messages', messages' = messages \cup {p},
         p.seq = Stored + 1, Stored' = Stored + 1
  PROVE  Transcript' = Append(Transcript, p.id)
<1>1. /\ Transcript \in Seq(MessageIds) /\ Len(Transcript) = Stored
      /\ \A m \in messages : Transcript[m.seq] = m.id
  BY TranscriptAt
<1>2. /\ Transcript' \in Seq(MessageIds) /\ Len(Transcript') = Stored + 1
      /\ \A m \in messages' : Transcript'[m.seq] = m.id
  <2>1. (/\ Transcript \in Seq(MessageIds) /\ Len(Transcript) = Stored
         /\ DOMAIN Transcript = 1 .. Stored
         /\ \A m \in messages : Transcript[m.seq] = m.id)'
    BY TranscriptAt, PTL
  <2> QED
    BY <2>1
<1>3. p.id \in MessageIds /\ Stored \in Nat
  BY StoredType DEF RowsInv, TypeInv, MessageRows
<1>4. \A n \in 1 .. Stored : Transcript'[n] = Transcript[n]
  BY <1>1, <1>2 DEF RowsInv, Numbered
<1>5. Transcript'[Stored + 1] = p.id
  BY <1>2
<1>6. Append(Transcript, p.id) \in Seq(MessageIds)
  BY <1>1, <1>3
<1> QED
  BY <1>1, <1>2, <1>3, <1>4, <1>5, <1>6

\* A commit is one call of an in-memory repository.
LEMMA CommitIsCall ==
  ASSUME MaxTurns \in Nat, RowsInv, RowsInv', NEW w \in Workers,
         Commit(w) \/ CommitAnswerLost(w)
  PROVE  Memory!Next
<1> DEFINE job == worker[w].job
           p == worker[w].pending
<1>1. Store(w) /\ Fits(Head(job), p)
  BY DEF Commit, CommitAnswerLost, RowsInv, WorkersInv, Consistent
<1> HIDE DEF job
<1>2. CASE p = [row |-> "message", seq |-> Stored + 1, id |-> Head(job).id]
  <2>1. p.row = "message" /\ p.seq = Stored + 1
    BY <1>2
  <2>2. messages' = messages \cup {p} /\ UNCHANGED <<session, summary>>
    BY <1>1, <2>1 DEF Store, Pending
  <2>3. p \notin messages
    BY <2>1, StoredType DEF RowsInv, Numbered
  <2>4. Stored' = Stored + 1
    BY <2>2, <2>3, FS_AddElement DEF RowsInv, TypeInv, Stored
  <2>5. p \in messages'
    BY <2>2
  <2>6. Transcript' = Append(Transcript, p.id)
    <3> HIDE DEF p
    <3> QED
      BY <2>1, <2>2, <2>4, <2>5, TranscriptAppends
  <2>7. p.id \in MessageIds
    BY <2>5 DEF RowsInv, TypeInv, MessageRows
  <2>8. Memory!append_message
    BY <2>2, <2>6, <2>7 DEF Memory!append_message
  <2> QED
    BY <2>8 DEF Memory!Next
<1>3. CASE p \in SessionUpdates
  <2>1. /\ p.row = "session" /\ p.status \in {"active", "ended"} /\ p.ended \in BOOLEAN
    BY <1>3 DEF SessionUpdates
  <2>2. messages' = messages /\ session' = [status |-> p.status, ended |-> p.ended]
        /\ summary' = summary
    BY <1>1, <2>1 DEF Store, Pending
  <2>3. session' \in SessionRows
    BY <2>1, <2>2 DEF SessionRows
  <2>4. Transcript' = Transcript
    BY <2>2 DEF Transcript
  <2>5. Memory!update_session
    BY <2>2, <2>3, <2>4 DEF Memory!update_session
  <2> QED
    BY <2>5 DEF Memory!Next
<1>4. CASE p \in SummaryRows /\ p.through <= Stored
  <2>1. p.row = "summary" /\ p.through \in Nat /\ p.through # 0
    BY <1>4 DEF SummaryRows
  <2>2. messages' = messages /\ session' = session /\ summary' = p.through
    BY <1>1, <2>1 DEF Store, Pending
  <2>3. summary' \in (0 .. 2 * MaxTurns) \ {0}
    <3>1. Stored <= 2 * MaxTurns /\ Stored \in Nat
      BY StoredBound, StoredType
    <3> QED
      BY <1>4, <2>1, <2>2, <3>1
  <2>4. Transcript' = Transcript
    BY <2>2 DEF Transcript
  <2>5. Memory!upsert
    BY <2>2, <2>3, <2>4 DEF Memory!upsert
  <2> QED
    BY <2>5 DEF Memory!Next
<1> QED
  BY <1>1, <1>2, <1>3, <1>4 DEF Fits

\* The initial rows are those of the in-memory repositories.
LEMMA MemoryInit ==
  ASSUME Init
  PROVE  Memory!Init
<1>1. messages = {} /\ summary = 0 /\ session \in SessionRows
  BY DEF Init, SessionRows
<1>2. Cardinality(messages) = 0
  BY <1>1, FS_EmptySet
<1>3. Transcript = << >>
  BY <1>2 DEF Transcript
<1> QED
  BY <1>1, <1>3 DEF Memory!Init

\* A step is a call of an in-memory repository or does not change the rows.
LEMMA MemoryStep ==
  ASSUME MaxTurns \in Nat, RowsInv, RowsInv', [Next]_vars
  PROVE  [Memory!Next]_(Memory!vars)
<1>1. ASSUME NEW w \in Workers, Commit(w) \/ CommitAnswerLost(w)
      PROVE  Memory!Next
  BY <1>1, CommitIsCall
<1>2. ASSUME UNCHANGED <<messages, session, summary>>
      PROVE  UNCHANGED Memory!vars
  BY <1>2 DEF Memory!vars, Transcript
<1>3. ASSUME NEW w \in Workers, FlushMessage(w) \/ FlushSession(w) \/ FlushSummary(w)
      PROVE  UNCHANGED <<messages, session, summary>>
  BY <1>3 DEF FlushMessage, FlushSession, FlushSummary, Raise, Step
<1>4. ASSUME NEW w \in Workers, ReadSequence(w) \/ ReadSession(w) \/ ReadSummary(w)
      PROVE  UNCHANGED <<messages, session, summary>>
  BY <1>4 DEF ReadSequence, ReadSession, ReadSummary, Step
<1>5. ASSUME NEW w \in Workers,
             \/ StartWorker(w) \/ PersistExchange(w) \/ StoreSummary(w)
             \/ StopWorker(w) \/ ExitWorker(w) \/ Crash(w)
             \/ CallRaises(w) \/ DatabaseFails(w)
      PROVE  UNCHANGED <<messages, session, summary>>
  BY <1>5 DEF StartWorker, PersistExchange, StoreSummary, StopWorker, ExitWorker, Crash,
     CallRaises, DatabaseFails, Raise
<1>6. ASSUME UNCHANGED vars PROVE UNCHANGED <<messages, session, summary>>
  BY <1>6 DEF vars
<1> QED
  BY <1>1, <1>2, <1>3, <1>4, <1>5, <1>6 DEF Next

\* The PostgreSQL adapters, shared by any number of workers that crash, fail
\* and are started again at any statement, implement the in-memory ones: seen
\* through the committed rows every behaviour is one of appends at the end,
\* updates of the session and upserts of the summary.
THEOREM AdaptersImplementMemory ==
  ASSUME MaxTurns \in Nat
  PROVE  Spec => ImplementsMemory
<1>1. Init => Memory!Init
  BY MemoryInit
<1>2. RowsInv /\ RowsInv' /\ [Next]_vars => [Memory!Next]_(Memory!vars)
  BY MemoryStep
<1> QED
  BY <1>1, <1>2, RowsInvariant, PTL DEF Spec, ImplementsMemory, Memory!Spec
=============================================================================
