-------------------------- MODULE SummarizerProofs ---------------------------
(***************************************************************************)
(* Proofs about Summarizer, for every budget, every set of text lengths    *)
(* and every number of turns.                                              *)
(***************************************************************************)
EXTENDS Summarizer, FiniteSetTheorems, TLAPS

\* What holds of the pipeline of a turn.  The history it was given is still
\* there.  The summary that prepare has read tells of a prefix, and while a new
\* one is generated some dropped message is not told of.  A new summary fits
\* the request for which it was made.  The last two parts are NothingLost and
\* MadeSummaryIsSent.
PipelineOK(t) ==
  /\ size[t] <= Len(history)
  /\ existing[t].covers = 1 .. existing[t].through
  /\ place[t] \in {"generating", "shortening"} =>
       existing[t].through < DropCount(Given(t), user[t])
  /\ place[t] \in {"prepared", "streaming"} /\ prepared[t].how = "made" =>
       SummaryFits(prepared[t].summary.length, user[t])
  /\ place[t] = "prepared" /\ prepared[t].how # "unchanged" => PreparedCovers(t)
  /\ place[t] = "streaming" /\ prepared[t].how = "made" =>
       request[t].sections.summary = prepared[t].summary.length

IInv == TypeOK /\ SummaryIsPrefix /\ \A t \in Turns : PipelineOK(t)

-----------------------------------------------------------------------------
(* The budget                                                              *)

\* select_history returns at most the history.
LEMMA KeptType ==
  ASSUME NEW h \in Seq(Nat), NEW budget
  PROVE  Kept(h, budget) \in 0 .. Len(h)
<1> DEFINE S == {n \in 1 .. Len(h) : Left(h, budget)[n] >= 0}
<1>0. 1 \in Int /\ Len(h) \in Nat /\ Len(h) \in Int
  OBVIOUS
<1>1. /\ IsFiniteSet(1 .. Len(h))
      /\ Cardinality(1 .. Len(h)) = IF 1 > Len(h) THEN 0 ELSE Len(h) - 1 + 1
  BY <1>0, FS_Interval, Zenon
<1>2. S \subseteq 1 .. Len(h)
  OBVIOUS
<1>3. IsFiniteSet(S) /\ Cardinality(S) <= Cardinality(1 .. Len(h))
  BY <1>1, <1>2, FS_Subset, Zenon
<1>4. Cardinality(S) \in Nat
  BY <1>3, FS_CardinalityType
<1>. QED  BY <1>0, <1>1, <1>3, <1>4 DEF Kept

\* So it drops at most the history.
LEMMA DropCountType ==
  ASSUME NEW h \in Seq(Nat), NEW text
  PROVE  DropCount(h, text) \in 0 .. Len(h)
BY KeptType DEF DropCount

\* A history that has grown holds the one that was given.
LEMMA GivenStays ==
  ASSUME NEW h \in Seq(Nat), NEW e \in Seq(Nat), NEW n \in Nat, n <= Len(h)
  PROVE  SubSeq(h \o e, 1, n) = SubSeq(h, 1, n)
OBVIOUS

\* The length and type of the given history.
LEMMA GivenType ==
  ASSUME NEW h \in Seq(Nat), NEW n \in Nat, n <= Len(h)
  PROVE  SubSeq(h, 1, n) \in Seq(Nat) /\ Len(SubSeq(h, 1, n)) = n
OBVIOUS

\* The whole history as a given one.
LEMMA GivenWhole ==
  ASSUME NEW h \in Seq(Nat)
  PROVE  SubSeq(h, 1, Len(h)) = h
OBVIOUS

\* The request has the sections of one of the attempts, and if the summary
\* alone fits, it has the summary.
LEMMA AssembledSections ==
  ASSUME NEW c \in Contexts, NEW text, Assembles(c, text)
  PROVE  /\ Assembled(c, text) \in Contexts
         /\ Fits(Context(0, c.summary, 0), text) =>
              Assembled(c, text).summary = c.summary
<1> DEFINE First(i) == /\ Fits(Ladder(c)[i], text)
                       /\ \A j \in 1 .. i - 1 : ~Fits(Ladder(c)[j], text)
<1>1. \E i \in 1..4 : First(i)
  BY DEF Assembles
<1>2. PICK i \in 1..4 : First(i) /\ Assembled(c, text) = Ladder(c)[i]
  BY <1>1 DEF Assembled
<1>3. \A j \in 1..4 : Ladder(c)[j] \in Contexts
  BY DEF Ladder, Contexts, NoContext, Context
<1>4. Ladder(c)[3] = Context(0, c.summary, 0)
  BY DEF Ladder, Contexts, NoContext, Context
<1>5. \A j \in 1..3 : Ladder(c)[j].summary = c.summary
  BY DEF Ladder, Contexts, Context
<1>6. Fits(Context(0, c.summary, 0), text) => i \in 1..3
  BY <1>2, <1>4
<1>. QED  BY <1>2, <1>3, <1>5, <1>6

-----------------------------------------------------------------------------
(* Steps that leave a pipeline alone                                       *)

\* The history stays or grows.
HistoryStep == \E e \in Seq(Nat) : history' = history \o e

SamePipeline(j) ==
  /\ place'[j] = place[j] /\ user'[j] = user[j] /\ size'[j] = size[j]
  /\ existing'[j] = existing[j] /\ prepared'[j] = prepared[j] /\ request'[j] = request[j]

\* A history that is not touched is one that grew by nothing.
LEMMA SameHistory ==
  ASSUME history \in Seq(Nat), UNCHANGED history
  PROVE  HistoryStep
<1>1. history \o <<>> = history /\ <<>> \in Seq(Nat)
  OBVIOUS
<1>. QED  BY <1>1 DEF HistoryStep

\* The history that a pipeline was given does not change under it.
LEMMA SameGiven ==
  ASSUME IInv, HistoryStep, NEW j \in Turns, size'[j] = size[j]
  PROVE  Given(j)' = Given(j) /\ size'[j] <= Len(history')
<1>1. PICK e \in Seq(Nat) : history' = history \o e
  BY DEF HistoryStep
<1>2. history \in Seq(Nat) /\ size[j] \in Nat /\ size[j] <= Len(history)
  BY DEF IInv, TypeOK, PipelineOK
<1>3. SubSeq(history', 1, size[j]) = SubSeq(history, 1, size[j])
  BY <1>1, <1>2, GivenStays
<1>4. Len(history') >= Len(history) /\ Len(history') \in Nat
  BY <1>1, <1>2
<1>. QED  BY <1>2, <1>3, <1>4 DEF Given

\* A step of another pipeline, or of none, keeps what holds of this one.
LEMMA OthersStay ==
  ASSUME IInv, HistoryStep, NEW j \in Turns, SamePipeline(j)
  PROVE  PipelineOK(j)'
<1>1. Given(j)' = Given(j) /\ size'[j] <= Len(history')
  BY SameGiven DEF SamePipeline
<1>2. PipelineOK(j)
  BY DEF IInv
<1>3. SummaryFits(prepared'[j].summary.length, user'[j])
        = SummaryFits(prepared[j].summary.length, user[j])
  BY DEF SamePipeline
<1>4. DropCount(Given(j)', user'[j]) = DropCount(Given(j), user[j])
  BY <1>1 DEF SamePipeline
<1>5. PreparedCovers(j)' <=> PreparedCovers(j)
  BY DEF PreparedCovers, SamePipeline
<1>. QED  BY <1>1, <1>2, <1>3, <1>4, <1>5 DEF PipelineOK, SamePipeline

-----------------------------------------------------------------------------
(* The return statements of prepare                                        *)

Returns == {"full", "current", "unchanged", "made"}

\* What a pipeline's step leaves alone in the other pipelines.
OnlyPipeline(t) == \A j \in Turns \ {t} : SamePipeline(j)

\* The arguments of prepare are well typed, and what it has read is a prefix.
LocalsOK(t) ==
  /\ user' \in [Turns -> Nat] /\ size' \in [Turns -> Nat]
  /\ existing' \in [Turns -> SummaryRecords]
  /\ size'[t] <= Len(history)
  /\ existing'[t].covers = 1 .. existing'[t].through

\* A return keeps the pipelines, if what it returns is right.
LEMMA ReturnKeeps ==
  ASSUME IInv, NEW t \in Turns, NEW r \in SummaryRecords, NEW d \in Nat, NEW how \in Returns,
         Return(t, r, d, how), UNCHANGED <<history, request>>, OnlyPipeline(t), LocalsOK(t),
         how # "unchanged" => r.covers \cup (d + 1 .. size'[t]) = 1 .. size'[t],
         how = "made" => SummaryFits(r.length, user'[t])
  PROVE  /\ place' \in [Turns -> {"idle", "generating", "shortening", "prepared", "streaming",
                                  "done"}]
         /\ prepared' \in [Turns -> [summary : SummaryRecords, dropped : Nat,
                                     how : {"none", "full", "current", "unchanged", "made"}]]
         /\ \A j \in Turns : PipelineOK(j)'
<1>1. /\ place' = [place EXCEPT ![t] = "prepared"]
      /\ prepared' = [prepared EXCEPT ![t] = [summary |-> r, dropped |-> d, how |-> how]]
  BY DEF Return
<1>2. /\ place' \in [Turns -> {"idle", "generating", "shortening", "prepared", "streaming",
                               "done"}]
      /\ place'[t] = "prepared"
  BY <1>1 DEF IInv, TypeOK
<1>3. /\ prepared' \in [Turns -> [summary : SummaryRecords, dropped : Nat,
                                  how : {"none", "full", "current", "unchanged", "made"}]]
      /\ prepared'[t] = [summary |-> r, dropped |-> d, how |-> how]
  BY <1>1 DEF IInv, TypeOK, Returns
<1>4. PreparedCovers(t)' <=> r.covers \cup (d + 1 .. size'[t]) = 1 .. size'[t]
  BY <1>3 DEF PreparedCovers
<1>5. PipelineOK(t)'
  BY <1>2, <1>3, <1>4 DEF PipelineOK, LocalsOK
<1>6. HistoryStep
  BY SameHistory DEF IInv, TypeOK
<1>7. ASSUME NEW j \in Turns, j # t PROVE PipelineOK(j)'
  BY <1>6, <1>7, OthersStay DEF OnlyPipeline
<1>. QED  BY <1>2, <1>3, <1>5, <1>7

\* The facts about a pipeline inside prepare.
LEMMA InsidePrepare ==
  ASSUME IInv, NEW t \in Turns, place[t] \in {"generating", "shortening"}
  PROVE  LET d == DropCount(Given(t), user[t])
         IN  /\ d \in Nat /\ d <= size[t] /\ size[t] \in Nat /\ size[t] <= Len(history)
             /\ existing[t] \in SummaryRecords /\ existing[t].through \in Nat
             /\ existing[t].through < d
             /\ existing[t].covers = 1 .. existing[t].through
<1>1. history \in Seq(Nat) /\ size[t] \in Nat /\ size[t] <= Len(history)
  BY DEF IInv, TypeOK, PipelineOK
<1>2. Given(t) \in Seq(Nat) /\ Len(Given(t)) = size[t]
  BY <1>1, GivenType DEF Given
<1>3. DropCount(Given(t), user[t]) \in 0 .. size[t]
  BY <1>2, DropCountType
<1>4. PipelineOK(t) /\ existing[t] \in SummaryRecords
  BY DEF IInv, TypeOK
<1>5. existing[t].through \in Nat
  BY <1>4 DEF SummaryRecords
<1>. QED  BY <1>1, <1>3, <1>4, <1>5 DEF PipelineOK

\* The locals of a pipeline that prepare does not assign.
LEMMA SameLocals ==
  ASSUME IInv, NEW t \in Turns, UNCHANGED <<user, size, existing>>
  PROVE  LocalsOK(t)
BY DEF IInv, TypeOK, PipelineOK, LocalsOK

\* Return touches its own pipeline only.
LEMMA ReturnOnly ==
  ASSUME IInv, NEW t \in Turns, NEW r, NEW d, NEW how, Return(t, r, d, how),
         UNCHANGED <<user, size, existing, request>>
  PROVE  OnlyPipeline(t)
BY DEF IInv, TypeOK, Return, OnlyPipeline, SamePipeline

\* Storing a summary that fits: it tells of every message it drops.
LEMMA StoreKeeps ==
  ASSUME IInv, NEW t \in Turns, place[t] \in {"generating", "shortening"}, NEW length \in Nat,
         SummaryFits(length, user[t]), Store(t, length),
         UNCHANGED <<sessionVars, user, size, existing, request>>
  PROVE  IInv'
<1> DEFINE d == DropCount(Given(t), user[t])
           e == existing[t]
           r == [through |-> d, covers |-> e.covers \cup Uncovered(e.through, d),
                 length |-> length]
<1>1. stored' = r /\ Return(t, r, d, "made")
  BY DEF Store
<1>2. /\ d \in Nat /\ d <= size[t] /\ size[t] \in Nat /\ size[t] <= Len(history)
      /\ e.through \in Nat /\ e.through < d /\ e.covers = 1 .. e.through
  BY InsidePrepare
<1> HIDE DEF d, e
<1>3. r.covers = 1 .. d
  BY <1>2 DEF Uncovered
<1>4. r \in SummaryRecords
  <2>1. r.covers \in SUBSET Nat
    BY <1>2, <1>3
  <2>. QED  BY <1>2, <2>1 DEF SummaryRecords
<1>5. r.covers \cup (d + 1 .. size'[t]) = 1 .. size'[t]
  BY <1>2, <1>3
<1>6. OnlyPipeline(t) /\ LocalsOK(t)
  BY <1>1, ReturnOnly, SameLocals
<1>7. UNCHANGED <<history, request>>
  BY DEF sessionVars
<1>8. "made" \in Returns /\ SummaryFits(r.length, user'[t])
  BY DEF Returns
<1>9. /\ place' \in [Turns -> {"idle", "generating", "shortening", "prepared", "streaming",
                               "done"}]
      /\ prepared' \in [Turns -> [summary : SummaryRecords, dropped : Nat,
                                  how : {"none", "full", "current", "unchanged", "made"}]]
      /\ \A j \in Turns : PipelineOK(j)'
  <2> HIDE DEF r
  <2>. QED  BY <1>1, <1>2, <1>4, <1>5, <1>6, <1>7, <1>8, ReturnKeeps
<1>10. TypeOK'
  BY <1>1, <1>4, <1>9 DEF IInv, TypeOK, sessionVars
<1>11. SummaryIsPrefix'
  <2>1. history \in Seq(Nat) /\ Len(history) \in Nat
    BY DEF IInv, TypeOK
  <2>. QED  BY <1>1, <1>2, <1>3, <1>7, <2>1 DEF SummaryIsPrefix
<1>. QED  BY <1>9, <1>10, <1>11 DEF IInv

\* A summary that covers nothing and leaves nothing out.
LEMMA NoSummaryType ==
  /\ NoSummary \in SummaryRecords /\ 0 \in Nat
  /\ \A n \in Nat : NoSummary.covers \cup (0 + 1 .. n) = 1 .. n
<1>1. \A n \in Nat : {} \cup (0 + 1 .. n) = 1 .. n
  OBVIOUS
<1>2. NoSummary.covers = {}
  BY DEF NoSummary
<1>. QED  BY <1>1, <1>2 DEF NoSummary, SummaryRecords

\* A return that stores nothing.
LEMMA PlainReturnKeeps ==
  ASSUME IInv, NEW t \in Turns, NEW r \in SummaryRecords, NEW d \in Nat,
         NEW how \in Returns \ {"made"}, Return(t, r, d, how),
         UNCHANGED <<sessionVars, stored, user, size, existing, request>>,
         how # "unchanged" => r.covers \cup (d + 1 .. size[t]) = 1 .. size[t]
  PROVE  IInv'
<1>1. UNCHANGED <<history, request>> /\ UNCHANGED <<user, size, existing>>
  BY DEF sessionVars
<1>2. OnlyPipeline(t) /\ LocalsOK(t)
  BY <1>1, ReturnOnly, SameLocals
<1>3. /\ place' \in [Turns -> {"idle", "generating", "shortening", "prepared", "streaming",
                               "done"}]
      /\ prepared' \in [Turns -> [summary : SummaryRecords, dropped : Nat,
                                  how : {"none", "full", "current", "unchanged", "made"}]]
      /\ \A j \in Turns : PipelineOK(j)'
  BY <1>1, <1>2, ReturnKeeps
<1>4. TypeOK'
  BY <1>3 DEF IInv, TypeOK, sessionVars
<1>5. SummaryIsPrefix'
  BY <1>1 DEF IInv, SummaryIsPrefix
<1>. QED  BY <1>3, <1>4, <1>5 DEF IInv

\* prepare awaits a summarizing LLM: a dropped message is not yet told of.
LEMMA AwaitKeeps ==
  ASSUME IInv, NEW t \in Turns, NEW where \in {"generating", "shortening"},
         place' = [place EXCEPT ![t] = where],
         UNCHANGED <<history, prepared, request>>, OnlyPipeline(t), LocalsOK(t),
         existing'[t].through < DropCount(Given(t)', user'[t])
  PROVE  /\ place' \in [Turns -> {"idle", "generating", "shortening", "prepared", "streaming",
                                  "done"}]
         /\ \A j \in Turns : PipelineOK(j)'
<1>1. /\ place' \in [Turns -> {"idle", "generating", "shortening", "prepared", "streaming",
                               "done"}]
      /\ place'[t] = where
  BY DEF IInv, TypeOK
<1>2. PipelineOK(t)'
  BY <1>1 DEF PipelineOK, LocalsOK
<1>3. HistoryStep
  BY SameHistory DEF IInv, TypeOK
<1>4. ASSUME NEW j \in Turns, j # t PROVE PipelineOK(j)'
  BY <1>3, <1>4, OthersStay DEF OnlyPipeline
<1>. QED  BY <1>1, <1>2, <1>4

-----------------------------------------------------------------------------
(* Every action keeps the invariant                                        *)

\* The first step of a turn.
LEMMA PrepareKeeps ==
  ASSUME IInv, NEW t \in Turns, NEW text \in Texts, Prepare(t, text)
  PROVE  IInv'
<1> DEFINE d == DropCount(history, text)
<1> DEFINE kept ==
      /\ place' \in [Turns -> {"idle", "generating", "shortening", "prepared", "streaming",
                               "done"}]
      /\ prepared' \in [Turns -> [summary : SummaryRecords, dropped : Nat,
                                  how : {"none", "full", "current", "unchanged", "made"}]]
      /\ \A j \in Turns : PipelineOK(j)'
<1>1. /\ turnSeq' = t /\ current' = t
      /\ user' = [user EXCEPT ![t] = text]
      /\ size' = [size EXCEPT ![t] = Len(history)]
      /\ existing' = [existing EXCEPT ![t] = stored]
      /\ UNCHANGED <<history, stored, tokenSet, cancelledIds, request>>
  BY DEF Prepare
<1>2. /\ history \in Seq(Nat) /\ Len(history) \in Nat /\ text \in Nat
      /\ stored \in SummaryRecords /\ stored.through \in Nat
      /\ stored.covers = 1 .. stored.through /\ stored.through <= Len(history)
  <2>1. history \in Seq(Nat) /\ stored \in SummaryRecords
    BY DEF IInv, TypeOK
  <2>2. Len(history) \in Nat
    BY <2>1
  <2>3. text \in Nat
    BY SummarizerAssumption
  <2>4. stored.through \in Nat
    BY <2>1 DEF SummaryRecords
  <2>5. stored.covers = 1 .. stored.through /\ stored.through <= Len(history)
    BY DEF IInv, SummaryIsPrefix
  <2> QED
    BY <2>1, <2>2, <2>3, <2>4, <2>5
<1>3. d \in 0 .. Len(history)
  BY <1>2, DropCountType
<1>4. /\ user' \in [Turns -> Nat] /\ user'[t] = text
      /\ size' \in [Turns -> Nat] /\ size'[t] = Len(history)
      /\ existing' \in [Turns -> SummaryRecords] /\ existing'[t] = stored
  BY <1>1, <1>2 DEF IInv, TypeOK
<1>5. LocalsOK(t)
  BY <1>2, <1>4 DEF LocalsOK
<1>6. ASSUME NEW j \in Turns, j # t
      PROVE user'[j] = user[j] /\ size'[j] = size[j] /\ existing'[j] = existing[j]
  BY <1>1, <1>6 DEF IInv, TypeOK
<1>7. Given(t)' = history
  BY <1>1, <1>2, <1>4, GivenWhole DEF Given
<1>8. kept
  <2> DEFINE returned(r, n, how) ==
        /\ Return(t, r, n, how) /\ r \in SummaryRecords /\ n \in Nat
        /\ how \in {"full", "current"}
        /\ r.covers \cup (n + 1 .. size'[t]) = 1 .. size'[t]
  <2>1. ASSUME NEW r, NEW n, NEW how, returned(r, n, how) PROVE kept
    <3>1. OnlyPipeline(t)
      BY <1>1, <1>6, <2>1 DEF OnlyPipeline, SamePipeline, Return, IInv, TypeOK
    <3>. QED  BY <1>1, <1>5, <2>1, <3>1, ReturnKeeps DEF Returns
  <2>2. CASE ~Fits(NoContext, text) \/ d = 0
    <3>1. returned(NoSummary, 0, "full")
      BY <1>2, <1>4, <2>2, NoSummaryType DEF Prepare
    <3>. QED  BY <2>1, <3>1
  <2>3. CASE Fits(NoContext, text) /\ d # 0 /\ Uncovered(stored.through, d) = {}
    <3>1. Return(t, stored, d, "current")
      BY <2>3 DEF Prepare
    <3>2. stored.through >= d
      <4>1. stored.through < d => d \in stored.through + 1 .. d
        BY <1>2, <1>3
      <4>. QED  BY <1>2, <1>3, <2>3, <4>1 DEF Uncovered
    <3>3. (1 .. stored.through) \cup (d + 1 .. Len(history)) = 1 .. Len(history)
      BY <1>2, <1>3, <3>2
    <3>4. returned(stored, d, "current")
      BY <1>2, <1>3, <1>4, <3>1, <3>3
    <3>. QED  BY <2>1, <3>4
  <2>4. CASE Fits(NoContext, text) /\ d # 0 /\ Uncovered(stored.through, d) # {}
    <3>1. place' = [place EXCEPT ![t] = "generating"] /\ UNCHANGED prepared
      BY <2>4 DEF Prepare
    <3>2. stored.through < d
      <4>1. PICK n \in stored.through + 1 .. d : TRUE
        BY <2>4 DEF Uncovered
      <4>. QED  BY <1>2, <1>3, <4>1
    <3>3. OnlyPipeline(t)
      BY <1>1, <1>6, <3>1 DEF OnlyPipeline, SamePipeline, IInv, TypeOK
    <3>4. existing'[t].through < DropCount(Given(t)', user'[t])
      BY <1>4, <1>7, <3>2
    <3>5. prepared \in [Turns -> [summary : SummaryRecords, dropped : Nat,
                                  how : {"none", "full", "current", "unchanged", "made"}]]
      BY DEF IInv, TypeOK
    <3>. QED  BY <1>1, <1>5, <3>1, <3>3, <3>4, <3>5, AwaitKeeps
  <2>. QED  BY <2>2, <2>3, <2>4
<1>9. turnSeq' \in 0..MaxTurns /\ current' \in Turns \cup {NoTurn}
  BY <1>1, SummarizerAssumption DEF Turns
<1>10. TypeOK'
  BY <1>1, <1>4, <1>8, <1>9 DEF IInv, TypeOK
<1>11. SummaryIsPrefix'
  BY <1>1, <1>2 DEF SummaryIsPrefix
<1>. QED  BY <1>8, <1>10, <1>11 DEF IInv

\* The first summary has come.
LEMMA GeneratedKeeps ==
  ASSUME IInv, NEW t \in Turns, NEW length \in Summaries, Generated(t, length)
  PROVE  IInv'
<1> DEFINE d == DropCount(Given(t), user[t])
<1>1. /\ place[t] \in {"generating", "shortening"} /\ length \in Nat
      /\ UNCHANGED <<sessionVars, user, size, existing, request>>
  BY SummarizerAssumption DEF Generated
<1>2. d \in Nat /\ existing[t] \in SummaryRecords /\ existing[t].through < d
  BY <1>1, InsidePrepare
<1>3. CASE Cancelled(t) \/ length = 0
  <2>1. Return(t, existing[t], d, "unchanged") /\ UNCHANGED stored
    BY <1>3 DEF Generated
  <2> HIDE DEF d
  <2>. QED  BY <1>1, <1>2, <2>1, PlainReturnKeeps DEF Returns
<1>4. CASE ~(Cancelled(t) \/ length = 0) /\ SummaryFits(length, user[t])
  BY <1>1, <1>4, StoreKeeps DEF Generated
<1>5. CASE ~(Cancelled(t) \/ length = 0) /\ ~SummaryFits(length, user[t])
  <2>1. place' = [place EXCEPT ![t] = "shortening"] /\ UNCHANGED <<stored, prepared>>
    BY <1>5 DEF Generated
  <2>2. UNCHANGED history /\ Given(t)' = Given(t)
    BY <1>1 DEF sessionVars, Given
  <2>3. OnlyPipeline(t) /\ LocalsOK(t)
    BY <1>1, <2>1, SameLocals DEF OnlyPipeline, SamePipeline, IInv, TypeOK
  <2>4. existing'[t].through < DropCount(Given(t)', user'[t])
    BY <1>1, <1>2, <2>2
  <2>5. /\ place' \in [Turns -> {"idle", "generating", "shortening", "prepared", "streaming",
                                 "done"}]
        /\ \A j \in Turns : PipelineOK(j)'
    BY <1>1, <2>1, <2>2, <2>3, <2>4, AwaitKeeps
  <2>6. TypeOK' /\ SummaryIsPrefix'
    BY <1>1, <2>1, <2>2, <2>5 DEF IInv, TypeOK, SummaryIsPrefix, sessionVars
  <2>. QED  BY <2>5, <2>6 DEF IInv
<1>. QED  BY <1>3, <1>4, <1>5

\* The generation fails.
LEMMA GenerationFailsKeeps ==
  ASSUME IInv, NEW t \in Turns, GenerationFails(t)
  PROVE  IInv'
<1>1. size[t] \in Nat
  BY DEF IInv, TypeOK
<1>. QED  BY <1>1, NoSummaryType, PlainReturnKeeps DEF GenerationFails, Returns

\* The shorter summary has come.
LEMMA ShortenedKeeps ==
  ASSUME IInv, NEW t \in Turns, NEW length \in Summaries, Shortened(t, length)
  PROVE  IInv'
<1>1. /\ place[t] \in {"generating", "shortening"} /\ length \in Nat /\ size[t] \in Nat
      /\ UNCHANGED <<sessionVars, user, size, existing, request>>
  BY SummarizerAssumption DEF Shortened, IInv, TypeOK
<1> DEFINE none == Cancelled(t) \/ length = 0 \/ ~SummaryFits(length, user[t])
<1>2. CASE none
  <2>1. Return(t, NoSummary, 0, "full") /\ UNCHANGED stored
    BY <1>2 DEF Shortened
  <2>. QED  BY <1>1, <2>1, NoSummaryType, PlainReturnKeeps DEF Returns
<1>3. CASE ~none
  BY <1>1, <1>3, StoreKeeps DEF Shortened
<1>. QED  BY <1>2, <1>3

\* What Done leaves behind is right, whatever the history is.
LEMMA DoneKeeps ==
  ASSUME IInv, NEW t \in Turns, Done(t), HistoryStep
  PROVE  /\ place' \in [Turns -> {"idle", "generating", "shortening", "prepared", "streaming",
                                  "done"}]
         /\ user' \in [Turns -> Nat] /\ size' \in [Turns -> Nat]
         /\ existing' \in [Turns -> SummaryRecords]
         /\ prepared' \in [Turns -> [summary : SummaryRecords, dropped : Nat,
                                     how : {"none", "full", "current", "unchanged", "made"}]]
         /\ request' \in [Turns -> [sections : Contexts, kept : Nat]]
         /\ history' \in Seq(Nat) /\ Len(history') >= Len(history)
         /\ \A j \in Turns : PipelineOK(j)'
<1>1. NoSummary \in SummaryRecords /\ NoSummary.covers = 1 .. NoSummary.through
  <2>1. 1 .. 0 = {}
    OBVIOUS
  <2>. QED  BY <2>1, NoSummaryType DEF NoSummary
<1>2. NoPreparation \in [summary : SummaryRecords, dropped : Nat,
                         how : {"none", "full", "current", "unchanged", "made"}]
  BY <1>1 DEF NoPreparation
<1>3. NoRequest \in [sections : Contexts, kept : Nat]
  BY DEF NoRequest, NoContext, Context, Contexts
<1>4. /\ place' \in [Turns -> {"idle", "generating", "shortening", "prepared", "streaming",
                               "done"}]
      /\ user' \in [Turns -> Nat] /\ size' \in [Turns -> Nat]
      /\ existing' \in [Turns -> SummaryRecords]
      /\ prepared' \in [Turns -> [summary : SummaryRecords, dropped : Nat,
                                  how : {"none", "full", "current", "unchanged", "made"}]]
      /\ request' \in [Turns -> [sections : Contexts, kept : Nat]]
  BY <1>1, <1>2, <1>3 DEF Done, IInv, TypeOK
<1>5. history' \in Seq(Nat) /\ Len(history') >= Len(history) /\ Len(history') \in Nat
  BY DEF HistoryStep, IInv, TypeOK
<1>6. PipelineOK(t)'
  <2>1. place'[t] = "done" /\ size'[t] = 0 /\ existing'[t] = NoSummary
    BY DEF Done, IInv, TypeOK
  <2>. QED  BY <1>1, <1>5, <2>1 DEF PipelineOK
<1>7. ASSUME NEW j \in Turns, j # t PROVE PipelineOK(j)'
  <2>1. SamePipeline(j)
    BY <1>7 DEF Done, SamePipeline, IInv, TypeOK
  <2>. QED  BY <2>1, OthersStay
<1>. QED  BY <1>4, <1>5, <1>6, <1>7

\* The request is assembled.
LEMMA AssembleKeeps ==
  ASSUME IInv, NEW t \in Turns, NEW knowledge \in Enrichment, NEW memory \in Enrichment,
         Assemble(t, knowledge, memory)
  PROVE  IInv'
<1> DEFINE p == prepared[t]
           c == Context(memory, p.summary.length, knowledge)
           a == Assembled(c, user[t])
           messages == SubSeq(history, p.dropped + 1, size[t])
           k == Kept(messages, Remaining(a, user[t]))
<1>1. UNCHANGED <<history, turnSeq, tokenSet, cancelledIds, stored>> /\ place[t] = "prepared"
  BY DEF Assemble
<1>2. HistoryStep
  BY <1>1, SameHistory DEF IInv, TypeOK
<1>3. ASSUME Done(t), current' \in {current, NoTurn} PROVE IInv'
  <2>1. current' \in Turns \cup {NoTurn}
    BY <1>3 DEF IInv, TypeOK
  <2>2. TypeOK' /\ \A j \in Turns : PipelineOK(j)'
    BY <1>1, <1>2, <1>3, <2>1, DoneKeeps DEF IInv, TypeOK
  <2>3. SummaryIsPrefix'
    BY <1>1 DEF IInv, SummaryIsPrefix
  <2>. QED  BY <2>2, <2>3 DEF IInv
<1>4. CASE Cancelled(t) \/ ~Assembles(c, user[t])
  BY <1>3, <1>4 DEF Assemble, CloseTurn
<1>5. CASE ~Cancelled(t) /\ Assembles(c, user[t])
  <2>1. /\ place' = [place EXCEPT ![t] = "streaming"]
        /\ request' = [request EXCEPT ![t] = [sections |-> a, kept |-> k]]
        /\ UNCHANGED <<current, user, size, existing, prepared>>
    BY <1>5 DEF Assemble
  <2>2. /\ history \in Seq(Nat) /\ size[t] \in Nat /\ size[t] <= Len(history)
        /\ p.dropped \in Nat /\ p.summary.length \in Nat
        /\ knowledge \in Nat /\ memory \in Nat
    BY SummarizerAssumption DEF IInv, TypeOK, PipelineOK, SummaryRecords
  <2>3. messages \in Seq(Nat)
    BY <2>2
  <2>4. k \in Nat
    <3> HIDE DEF messages, a
    <3>. QED  BY <2>3, KeptType
  <2>5. c \in Contexts /\ c.summary = p.summary.length
    BY <2>2 DEF Contexts, Context
  <2>6. /\ a \in Contexts
        /\ SummaryFits(p.summary.length, user[t]) => a.summary = p.summary.length
    <3> HIDE DEF c
    <3>. QED  BY <1>5, <2>5, AssembledSections DEF SummaryFits
  <2> HIDE DEF a, k
  <2>7. /\ place' \in [Turns -> {"idle", "generating", "shortening", "prepared", "streaming",
                                 "done"}]
        /\ place'[t] = "streaming"
        /\ request' \in [Turns -> [sections : Contexts, kept : Nat]]
        /\ request'[t] = [sections |-> a, kept |-> k]
    BY <2>1, <2>4, <2>6 DEF IInv, TypeOK
  <2>8. TypeOK' /\ SummaryIsPrefix'
    BY <1>1, <2>1, <2>7 DEF IInv, TypeOK, SummaryIsPrefix
  <2>9. PipelineOK(t)'
    BY <1>1, <2>1, <2>6, <2>7 DEF IInv, PipelineOK
  <2>10. ASSUME NEW j \in Turns, j # t PROVE PipelineOK(j)'
    <3>1. SamePipeline(j)
      BY <2>1, <2>10 DEF SamePipeline, IInv, TypeOK
    <3>. QED  BY <1>2, <3>1, OthersStay
  <2>. QED  BY <2>8, <2>9, <2>10 DEF IInv
<1>. QED  BY <1>4, <1>5

\* The answer has arrived.
LEMMA AnsweredKeeps ==
  ASSUME IInv, NEW t \in Turns, NEW answer \in Texts, Answered(t, answer)
  PROVE  IInv'
<1>1. Done(t) /\ UNCHANGED <<turnSeq, tokenSet, cancelledIds, stored>>
  BY DEF Answered
<1>2. HistoryStep
  <2>1. CASE current = t
    <3>1. <<user[t], answer>> \in Seq(Nat)
      BY SummarizerAssumption DEF IInv, TypeOK
    <3>. QED  BY <2>1, <3>1 DEF Answered, HistoryStep
  <2>2. CASE current # t
    BY <2>2, SameHistory DEF Answered, IInv, TypeOK
  <2>. QED  BY <2>1, <2>2
<1>3. current' \in Turns \cup {NoTurn}
  BY DEF Answered, CloseTurn, IInv, TypeOK
<1>4. TypeOK' /\ \A j \in Turns : PipelineOK(j)'
  BY <1>1, <1>2, <1>3, DoneKeeps DEF IInv, TypeOK
<1>5. SummaryIsPrefix'
  <2>1. Len(history') >= Len(history) /\ history' \in Seq(Nat)
    BY <1>1, <1>2, DoneKeeps
  <2>2. stored.through \in Nat /\ history \in Seq(Nat)
    BY DEF IInv, TypeOK, SummaryRecords
  <2>. QED  BY <1>1, <2>1, <2>2 DEF IInv, SummaryIsPrefix
<1>. QED  BY <1>4, <1>5 DEF IInv

\* Steps that touch no pipeline.
LEMMA NoPipelineKeeps ==
  ASSUME IInv, UNCHANGED <<history, stored, turnSeq, pipelineVars>>,
         current' \in Turns \cup {NoTurn}, tokenSet' \subseteq Turns, cancelledIds' \subseteq Turns
  PROVE  IInv'
<1>1. HistoryStep
  BY SameHistory DEF IInv, TypeOK
<1>2. \A j \in Turns : SamePipeline(j)
  BY DEF SamePipeline, pipelineVars
<1>3. TypeOK' /\ SummaryIsPrefix'
  BY DEF IInv, TypeOK, SummaryIsPrefix, pipelineVars
<1>. QED  BY <1>1, <1>2, <1>3, OthersStay DEF IInv

\* The turn is closed beside its pipeline.
LEMMA TurnInterruptedKeeps ==
  ASSUME IInv, TurnInterrupted
  PROVE  IInv'
<1>1. current \in Turns
  BY DEF TurnInterrupted, IInv, TypeOK
<1>2. tokenSet' \subseteq Turns /\ cancelledIds' \subseteq Turns /\ current' = NoTurn
  BY <1>1 DEF TurnInterrupted, IInv, TypeOK
<1>. QED  BY <1>2, NoPipelineKeeps DEF TurnInterrupted

\* Nothing happens.
LEMMA StutterKeeps ==
  ASSUME IInv, UNCHANGED vars
  PROVE  IInv'
BY NoPipelineKeeps DEF vars, sessionVars, IInv, TypeOK

\* IInv holds at first.
LEMMA InitEstablishes ==
  ASSUME Init
  PROVE  IInv
<1>1. NoSummary \in SummaryRecords /\ NoSummary.covers = 1 .. NoSummary.through
      /\ NoSummary.through = 0
  <2>1. 1 .. 0 = {}
    OBVIOUS
  <2>. QED  BY <2>1, NoSummaryType DEF NoSummary
<1>2. NoPreparation \in [summary : SummaryRecords, dropped : Nat,
                         how : {"none", "full", "current", "unchanged", "made"}]
  BY <1>1 DEF NoPreparation
<1>3. NoRequest \in [sections : Contexts, kept : Nat]
  BY DEF NoRequest, NoContext, Context, Contexts
<1>4. TypeOK
  BY <1>1, <1>2, <1>3, SummarizerAssumption DEF Init, TypeOK
<1>5. SummaryIsPrefix
  BY <1>1 DEF Init, SummaryIsPrefix
<1>6. ASSUME NEW t \in Turns PROVE PipelineOK(t)
  <2>1. place[t] = "idle" /\ size[t] = 0 /\ existing[t] = NoSummary /\ Len(history) = 0
    BY DEF Init
  <2>2. size[t] <= Len(history)
    BY <2>1
  <2>3. existing[t].covers = 1 .. existing[t].through
    BY <1>1, <2>1, Zenon
  <2>. QED  BY <2>1, <2>2, <2>3 DEF PipelineOK
<1>. QED  BY <1>4, <1>5, <1>6 DEF IInv

-----------------------------------------------------------------------------
(* The loop of select_history                                              *)

Less == {p \in Nat \X Nat : p[1] < p[2]}

\* A set of numbers that is not empty has a least one.
LEMMA HasLeast ==
  ASSUME NEW S \in SUBSET Nat, S # {}
  PROVE  \E x \in S : \A y \in S : x <= y
<1>1. IsWellFoundedOn(Less, Nat)
  BY NatLessThanWellFounded DEF OpToRel, Less
<1>2. PICK x \in S : \A y \in S : ~(<<y, x>> \in Less)
  BY <1>1, WFMin
<1>3. ASSUME NEW y \in S PROVE x <= y
  <2>1. x \in Nat /\ y \in Nat /\ ~(<<y, x>> \in Less)
    BY <1>2
  <2>. QED  BY <2>1 DEF Less
<1>. QED  BY <1>3

\* Induction, for a set: one that has 0 and with each number the next is Nat.
LEMMA NatSet ==
  ASSUME NEW T, 0 \in T, \A n \in Nat : n \in T => n + 1 \in T
  PROVE  \A n \in Nat : n \in T
<1> SUFFICES ASSUME Nat \ T # {} PROVE FALSE
  OBVIOUS
<1>1. PICK x \in Nat \ T : \A y \in Nat \ T : x <= y
  BY HasLeast
<1>2. x \in Nat /\ x # 0
  BY <1>1
<1>3. x - 1 \in Nat /\ (x - 1) + 1 = x /\ ~(x <= x - 1)
  BY <1>2
<1>4. x - 1 \in T
  BY <1>1, <1>3
<1>. QED  BY <1>1, <1>3, <1>4

\* One round of the loop.
Spend(left, cost) == IF cost > left THEN -1 ELSE left - cost

\* The cost of the n-th message from the end.
CostOf(h, n) == Tokens(h[Len(h) - n + 1])

\* The rounds of the loop are those of Left: what its recursion defines exists.
LEMMA LeftRounds ==
  ASSUME NEW h \in Seq(Nat), NEW b
  PROVE  /\ Left(h, b)[0] = b
         /\ \A n \in 1 .. Len(h) : Left(h, b)[n] = Spend(Left(h, b)[n - 1], CostOf(h, n))
<1> DEFINE Rounds(f, N) ==
             f = [n \in 0 .. N |-> IF n = 0 THEN b ELSE Spend(f[n - 1], CostOf(h, n))]
           T == {N \in Nat : \E f : Rounds(f, N)}
<1>1. 0 \in T
  <2> DEFINE g == [n \in 0 .. 0 |-> b]
  <2>1. Rounds(g, 0)
    OBVIOUS
  <2>. QED  BY <2>1
<1>2. ASSUME NEW N \in Nat, N \in T PROVE N + 1 \in T
  <2>1. PICK f : Rounds(f, N)
    BY <1>2
  <2> DEFINE g == [n \in 0 .. N + 1 |-> IF n = 0 THEN b ELSE Spend(f[n - 1], CostOf(h, n))]
  <2>2. \A n \in 0 .. N : g[n] = f[n]
    <3>1. \A n \in 0 .. N : f[n] = IF n = 0 THEN b ELSE Spend(f[n - 1], CostOf(h, n))
      BY <2>1
    <3>2. \A n \in 0 .. N : n \in 0 .. N + 1
      OBVIOUS
    <3>. QED  BY <3>1, <3>2
  <2>3. \A n \in 0 .. N + 1 : n # 0 => n - 1 \in 0 .. N
    OBVIOUS
  <2>4. g = [n \in 0 .. N + 1 |-> IF n = 0 THEN b ELSE Spend(g[n - 1], CostOf(h, n))]
    <3>1. \A n \in 0 .. N + 1 : n # 0 => g[n - 1] = f[n - 1]
      BY <2>2, <2>3
    <3> DEFINE G == g
    <3>2. G = [n \in 0 .. N + 1 |-> IF n = 0 THEN b ELSE Spend(f[n - 1], CostOf(h, n))]
      OBVIOUS
    <3>3. \A n \in 0 .. N + 1 : n # 0 => G[n - 1] = f[n - 1]
      BY <3>1
    <3> HIDE DEF G
    <3>4. G = [n \in 0 .. N + 1 |-> IF n = 0 THEN b ELSE Spend(G[n - 1], CostOf(h, n))]
      BY <3>2, <3>3
    <3>. QED  BY <3>4 DEF G
  <2>5. Rounds(g, N + 1)
    BY <2>4
  <2>6. N + 1 \in Nat
    OBVIOUS
  <2> HIDE DEF g, Rounds
  <2>. QED  BY <2>5, <2>6
<1>3. PICK g : Rounds(g, Len(h))
  <2>1. Len(h) \in Nat
    OBVIOUS
  <2> HIDE DEF Rounds
  <2>2. \A N \in Nat : N \in T
    <3> HIDE DEF T
    <3>. QED  BY <1>1, <1>2, NatSet
  <2>. QED  BY <2>1, <2>2
<1>4. Left(h, b) = CHOOSE f : Rounds(f, Len(h))
  BY DEF Left, Spend, CostOf
<1>5. Rounds(Left(h, b), Len(h))
  <2> HIDE DEF Rounds
  <2>. QED  BY <1>3, <1>4
<1> DEFINE L == Left(h, b)
<1>6. \A n \in 0 .. Len(h) : L[n] = IF n = 0 THEN b ELSE Spend(L[n - 1], CostOf(h, n))
  <2>1. L = [n \in 0 .. Len(h) |-> IF n = 0 THEN b ELSE Spend(L[n - 1], CostOf(h, n))]
    BY <1>5
  <2> HIDE DEF L
  <2>. QED  BY <2>1
<1>7. 0 \in 0 .. Len(h) /\ \A n \in 1 .. Len(h) : n \in 0 .. Len(h) /\ n # 0
  OBVIOUS
<1> HIDE DEF L
<1>8. L[0] = b /\ \A n \in 1 .. Len(h) : L[n] = Spend(L[n - 1], CostOf(h, n))
  BY <1>6, <1>7
<1>. QED  BY <1>8 DEF L

\* c sums up the costs t, and L is what the loop has left of b after each.
Summed(c, t, N) == c[0] = 0 /\ \A n \in 1 .. N : c[n] = t[n] + c[n - 1]
Looped(L, t, b, N) == L[0] = b /\ \A n \in 1 .. N : L[n] = Spend(L[n - 1], t[n])

\* How many rounds of the loop the budget pays for.
Reached(L, N) == Cardinality({n \in 1 .. N : L[n] >= 0})

\* The loop, for the costs t of the messages from the newest on and their sums
\* c: it keeps the longest run that the budget pays for.
LEMMA LoopIsTight ==
  ASSUME NEW N \in Nat, NEW b \in Nat, NEW t \in [1 .. N -> Nat], NEW c \in [0 .. N -> Nat],
         NEW L, Summed(c, t, N), Looped(L, t, b, N)
  PROVE  /\ Reached(L, N) \in 0 .. N
         /\ c[Reached(L, N)] <= b
         /\ Reached(L, N) < N => c[Reached(L, N) + 1] > b
<1> DEFINE OK(n) == L[n] = IF c[n] <= b THEN b - c[n] ELSE -1
           T == {n \in Nat : n <= N => OK(n)}
<1>0. /\ c[0] = 0 /\ \A n \in 1 .. N : c[n] = t[n] + c[n - 1]
      /\ L[0] = b /\ \A n \in 1 .. N : L[n] = Spend(L[n - 1], t[n])
  BY DEF Summed, Looped
<1>1. 0 \in T
  BY <1>0
<1>2. ASSUME NEW n \in Nat, n \in T PROVE n + 1 \in T
  <2> SUFFICES ASSUME n + 1 <= N PROVE OK(n + 1)
    OBVIOUS
  <2>1. n \in 0 .. N /\ n + 1 \in 1 .. N /\ n + 1 \in 0 .. N /\ (n + 1) - 1 = n
    OBVIOUS
  <2>2. /\ c[n] \in Nat /\ c[n + 1] \in Nat /\ t[n + 1] \in Nat
        /\ c[n + 1] = t[n + 1] + c[n] /\ L[n + 1] = Spend(L[n], t[n + 1])
    BY <1>0, <2>1
  <2>3. OK(n)
    BY <1>2, <2>1
  <2>. QED  BY <2>2, <2>3, SMTT(30) DEF Spend
<1>3. \A n \in 0 .. N : OK(n)
  <2>1. \A n \in Nat : n \in T
    <3> HIDE DEF T
    <3>. QED  BY <1>1, <1>2, NatSet
  <2>. QED  BY <2>1
<1> HIDE DEF T
<1> DEFINE S == {n \in 1 .. N : L[n] >= 0}
           Over == {n \in 1 .. N : c[n] > b}
<1>c. \A n \in 0 .. N : c[n] \in Nat
  OBVIOUS
<1>4. S = {n \in 1 .. N : c[n] <= b}
  <2>1. ASSUME NEW n \in 1 .. N PROVE L[n] >= 0 <=> c[n] <= b
    <3>1. n \in 0 .. N /\ c[n] \in Nat
      OBVIOUS
    <3>. QED  BY <1>3, <3>1
  <2>. QED  BY <2>1
<1> HIDE DEF OK
<1>5. \A k \in 0 .. N : Cardinality(1 .. k) = k
  <2> SUFFICES ASSUME NEW k \in 0 .. N PROVE Cardinality(1 .. k) = k
    OBVIOUS
  <2>1. 1 \in Int /\ k \in Int
    OBVIOUS
  <2>2. Cardinality(1 .. k) = IF 1 > k THEN 0 ELSE k - 1 + 1
    BY <2>1, FS_Interval, Zenon
  <2>. QED  BY <2>2
<1>6. CASE Over = {}
  <2>0. ASSUME NEW n \in 1 .. N PROVE c[n] <= b
    <3>1. ~(c[n] > b)
      BY <1>6
    <3>2. c[n] \in Nat
      BY <1>c
    <3> HIDE DEF S, Over
    <3>. QED  BY <3>1, <3>2
  <2>1. S = 1 .. N
    BY <1>4, <2>0
  <2> HIDE DEF S, Over
  <2>2. Cardinality(S) = N
    BY <1>5, <2>1
  <2>3. c[N] <= b
    <3>1. CASE N = 0
      BY <1>0, <3>1
    <3>2. CASE N # 0
      <4>1. N \in 1 .. N
        BY <3>2
      <4>. QED  BY <2>0, <4>1
    <3>. QED  BY <3>1, <3>2
  <2>4. Cardinality(S) \in 0 .. N /\ c[Cardinality(S)] <= b
        /\ (Cardinality(S) < N => c[Cardinality(S) + 1] > b)
    BY <2>2, <2>3
  <2>. QED  BY <2>4 DEF S, Reached
<1>7. CASE Over # {}
  <2>0. Over \in SUBSET Nat
    OBVIOUS
  <2>1. PICK x \in Over : \A y \in Over : x <= y
    <3> HIDE DEF Over
    <3>. QED  BY <1>7, <2>0, HasLeast
  <2>2. x \in 1 .. N /\ c[x] > b /\ x - 1 \in 0 .. N
    BY <2>1
  <2> HIDE DEF S
  <2> DEFINE U == {n \in Nat : n \in x .. N => c[n] > b}
  <2>3. \A n \in Nat : n \in U
    <3>1. 0 \in U
      BY <2>2
    <3>2. ASSUME NEW n \in Nat, n \in U PROVE n + 1 \in U
      <4> SUFFICES ASSUME n + 1 \in x .. N, n + 1 # x PROVE c[n + 1] > b
        BY <2>2
      <4>1. n \in x .. N /\ n + 1 \in 1 .. N /\ n \in 0 .. N /\ (n + 1) - 1 = n
        BY <2>2
      <4>2. c[n + 1] = t[n + 1] + c[n] /\ t[n + 1] \in Nat /\ c[n] \in Nat /\ c[n] > b
        BY <1>0, <3>2, <4>1
      <4> HIDE DEF U, Over
      <4>. QED  BY <4>2
    <3> HIDE DEF U
    <3>. QED  BY <3>1, <3>2, NatSet
  <2>4. S = 1 .. x - 1
    <3>1. \A n \in 1 .. N : c[n] \in Nat
      BY <1>c
    <3>2. \A n \in x .. N : c[n] > b
      BY <2>2, <2>3
    <3>3. \A n \in 1 .. x - 1 : c[n] <= b
      BY <2>1, <2>2, <3>1
    <3> HIDE DEF Over, U
    <3>4. \A n \in 1 .. N : c[n] <= b <=> n \in 1 .. x - 1
      BY <2>2, <3>1, <3>2, <3>3
    <3>5. 1 .. x - 1 \subseteq 1 .. N
      BY <2>2
    <3>. QED  BY <1>4, <3>4, <3>5, Zenon
  <2>5. Cardinality(S) = x - 1
    BY <1>5, <2>2, <2>4
  <2>6. c[x - 1] <= b
    <3>1. CASE x = 1
      BY <1>0, <3>1
    <3>2. CASE x # 1
      <4>1. x - 1 \in 1 .. N /\ ~(x <= x - 1)
        BY <2>2, <3>2
      <4>2. x - 1 \notin Over /\ c[x - 1] \in Nat
        BY <2>1, <2>2, <4>1
      <4>. QED  BY <4>1, <4>2
    <3>. QED  BY <3>1, <3>2
  <2>7. (x - 1) + 1 = x
    BY <2>2
  <2>8. Cardinality(S) \in 0 .. N /\ c[Cardinality(S)] <= b
        /\ (Cardinality(S) < N => c[Cardinality(S) + 1] > b)
    BY <2>2, <2>5, <2>6, <2>7
  <2>. QED  BY <2>8 DEF S, Reached
<1>. QED  BY <1>6, <1>7

-----------------------------------------------------------------------------
(* What messages cost                                                      *)

\* Four characters a token, rounded up, is a number of tokens.
LEMMA TokensType ==
  ASSUME NEW n \in Nat
  PROVE  Tokens(n) \in Nat
BY DEF Tokens

\* The running sums that Cost is the last of.
Sums(h, first, last) ==
  CHOOSE f : f = [n \in 0 .. last |-> IF n < first THEN 0 ELSE Tokens(h[n]) + f[n - 1]]

\* They exist, and add the cost of a message from the first on.
LEMMA SumsAdd ==
  ASSUME NEW h \in Seq(Nat), NEW first \in Nat \ {0}, NEW last \in 0 .. Len(h)
  PROVE  /\ Sums(h, first, last) \in [0 .. last -> Nat]
         /\ \A n \in 0 .. last : n < first => Sums(h, first, last)[n] = 0
         /\ \A n \in first .. last :
              Sums(h, first, last)[n] = Tokens(h[n]) + Sums(h, first, last)[n - 1]
<1> DEFINE Adds(f, N) ==
             f = [n \in 0 .. N |-> IF n < first THEN 0 ELSE Tokens(h[n]) + f[n - 1]]
           T == {N \in Nat : N <= last => \E f \in [0 .. N -> Nat] : Adds(f, N)}
<1>1. 0 \in T
  <2> DEFINE g == [n \in 0 .. 0 |-> 0]
  <2>1. Adds(g, 0) /\ g \in [0 .. 0 -> Nat]
    OBVIOUS
  <2>. QED  BY <2>1
<1>2. ASSUME NEW N \in Nat, N \in T PROVE N + 1 \in T
  <2> SUFFICES ASSUME N + 1 <= last PROVE \E g \in [0 .. N + 1 -> Nat] : Adds(g, N + 1)
    <3> HIDE DEF Adds
    <3>. QED  OBVIOUS
  <2>1. PICK f \in [0 .. N -> Nat] : Adds(f, N)
    BY <1>2
  <2> DEFINE g == [n \in 0 .. N + 1 |-> IF n < first THEN 0 ELSE Tokens(h[n]) + f[n - 1]]
  <2>2. \A n \in 0 .. N : g[n] = f[n]
    <3>1. \A n \in 0 .. N : f[n] = IF n < first THEN 0 ELSE Tokens(h[n]) + f[n - 1]
      BY <2>1
    <3>2. \A n \in 0 .. N : n \in 0 .. N + 1
      OBVIOUS
    <3>. QED  BY <3>1, <3>2
  <2>3. \A n \in 0 .. N + 1 : ~(n < first) => n - 1 \in 0 .. N /\ n \in 1 .. Len(h)
    OBVIOUS
  <2>4. g \in [0 .. N + 1 -> Nat]
    <3>1. ASSUME NEW n \in 0 .. N + 1, ~(n < first) PROVE Tokens(h[n]) + f[n - 1] \in Nat
      <4>1. h[n] \in Nat /\ f[n - 1] \in Nat
        BY <2>3, <3>1
      <4>2. Tokens(h[n]) \in Nat
        BY <4>1, TokensType
      <4> HIDE DEF T, g, Adds
      <4>. QED  BY <4>1, <4>2
    <3>. QED  BY <3>1
  <2>5. \A n \in 0 .. N + 1 : ~(n < first) => g[n - 1] = f[n - 1]
    BY <2>2, <2>3
  <2> DEFINE G == g
  <2>6. G = [n \in 0 .. N + 1 |-> IF n < first THEN 0 ELSE Tokens(h[n]) + f[n - 1]]
    OBVIOUS
  <2>7. \A n \in 0 .. N + 1 : ~(n < first) => G[n - 1] = f[n - 1]
    BY <2>5
  <2>8. G \in [0 .. N + 1 -> Nat]
    BY <2>4
  <2> HIDE DEF G
  <2>9. G = [n \in 0 .. N + 1 |-> IF n < first THEN 0 ELSE Tokens(h[n]) + G[n - 1]]
    BY <2>6, <2>7
  <2>. QED  BY <2>8, <2>9
<1>3. PICK g \in [0 .. last -> Nat] : Adds(g, last)
  <2> HIDE DEF Adds
  <2>1. \A N \in Nat : N \in T
    <3> HIDE DEF T
    <3>. QED  BY <1>1, <1>2, NatSet
  <2>. QED  BY <2>1
<1> DEFINE C == Sums(h, first, last)
<1>4. C = CHOOSE f : Adds(f, last)
  BY DEF Sums
<1>5. Adds(C, last)
  <2> HIDE DEF Adds, C
  <2>. QED  BY <1>3, <1>4
<1>6. \A n \in 0 .. last : C[n] = IF n < first THEN 0 ELSE Tokens(h[n]) + C[n - 1]
  <2>1. C = [n \in 0 .. last |-> IF n < first THEN 0 ELSE Tokens(h[n]) + C[n - 1]]
    BY <1>5
  <2> HIDE DEF C
  <2>. QED  BY <2>1
<1>7. C = [n \in 0 .. last |-> C[n]]
  <2>1. C = [n \in 0 .. last |-> IF n < first THEN 0 ELSE Tokens(h[n]) + C[n - 1]]
    BY <1>5
  <2> HIDE DEF C
  <2>. QED  BY <2>1
<1> HIDE DEF C
<1> DEFINE V == {n \in Nat : n <= last => C[n] \in Nat}
<1>8. \A n \in Nat : n \in V
  <2>1. 0 \in V
    BY <1>6
  <2>2. ASSUME NEW n \in Nat, n \in V PROVE n + 1 \in V
    <3> SUFFICES ASSUME n + 1 <= last PROVE C[n + 1] \in Nat
      OBVIOUS
    <3>1. n + 1 \in 0 .. last /\ n + 1 \in 1 .. Len(h) /\ (n + 1) - 1 = n /\ C[n] \in Nat
      BY <2>2
    <3>2. h[n + 1] \in Nat
      BY <3>1
    <3>3. Tokens(h[n + 1]) \in Nat
      BY <3>2, TokensType
    <3>4. C[n + 1] = IF n + 1 < first THEN 0 ELSE Tokens(h[n + 1]) + C[n]
      BY <1>6, <3>1
    <3> HIDE DEF V, T, Adds
    <3>. QED  BY <3>1, <3>3, <3>4
  <2> HIDE DEF V
  <2>. QED  BY <2>1, <2>2, NatSet
<1>9. C \in [0 .. last -> Nat]
  <2>1. \A n \in 0 .. last : C[n] \in Nat
    BY <1>8
  <2>. QED  BY <1>7, <2>1
<1>10. /\ \A n \in 0 .. last : n < first => C[n] = 0
       /\ \A n \in first .. last : C[n] = Tokens(h[n]) + C[n - 1]
  BY <1>6
<1>. QED  BY <1>9, <1>10 DEF C

\* Cost, for any history.
CostIn(h, first, last) == Sums(h, first, last)[last]

\* Cost is what CostIn says of the history, now and after a step.
LEMMA CostIsCostIn ==
  ASSUME NEW first, NEW last
  PROVE  /\ Cost(first, last) = CostIn(history, first, last)
         /\ Cost(first, last)' = CostIn(history', first, last)
BY DEF Cost, CostIn, Sums

\* No message costs nothing.
LEMMA CostOfNone ==
  ASSUME NEW h \in Seq(Nat), NEW last \in 0 .. Len(h)
  PROVE  CostIn(h, last + 1, last) = 0
<1>1. last + 1 \in Nat \ {0} /\ last < last + 1 /\ last \in 0 .. last
  OBVIOUS
<1>. QED  BY <1>1, SumsAdd DEF CostIn

\* One more, older message adds its tokens.
LEMMA CostOfOneMore ==
  ASSUME NEW h \in Seq(Nat), NEW last \in 0 .. Len(h), NEW first \in 1 .. last
  PROVE  /\ CostIn(h, first, last) \in Nat
         /\ CostIn(h, first, last) = Tokens(h[first]) + CostIn(h, first + 1, last)
<1> DEFINE A == Sums(h, first, last)
           B == Sums(h, first + 1, last)
<1>0. first \in Nat \ {0} /\ first + 1 \in Nat \ {0} /\ last \in Nat
  OBVIOUS
<1>1. /\ A \in [0 .. last -> Nat] /\ \A n \in 0 .. last : n < first => A[n] = 0
      /\ \A n \in first .. last : A[n] = Tokens(h[n]) + A[n - 1]
  BY <1>0, SumsAdd
<1>2. /\ B \in [0 .. last -> Nat] /\ \A n \in 0 .. last : n < first + 1 => B[n] = 0
      /\ \A n \in first + 1 .. last : B[n] = Tokens(h[n]) + B[n - 1]
  BY <1>0, SumsAdd
<1>3. h[first] \in Nat /\ Tokens(h[first]) \in Nat
  <2>1. first \in 1 .. Len(h)
    OBVIOUS
  <2>2. h[first] \in Nat
    BY <2>1
  <2>. QED  BY <2>2, TokensType
<1> HIDE DEF A, B
<1> DEFINE T == {n \in Nat : n \in first .. last => A[n] = Tokens(h[first]) + B[n]}
<1>4. 0 \in T
  BY <1>0
<1>5. ASSUME NEW n \in Nat, n \in T PROVE n + 1 \in T
  <2> SUFFICES ASSUME n + 1 \in first .. last
               PROVE  A[n + 1] = Tokens(h[first]) + B[n + 1]
    OBVIOUS
  <2>1. CASE n + 1 = first
    <3>1. /\ first \in 0 .. last /\ first \in first .. last /\ first < first + 1
          /\ first - 1 \in 0 .. last /\ first - 1 < first
      BY <1>0
    <3>2. A[first] = Tokens(h[first]) + A[first - 1] /\ A[first - 1] = 0 /\ B[first] = 0
      BY <1>1, <1>2, <3>1
    <3> HIDE DEF T
    <3>. QED  BY <1>3, <2>1, <3>2
  <2>2. CASE n + 1 # first
    <3>1. /\ n \in first .. last /\ n \in 0 .. last /\ (n + 1) - 1 = n
          /\ n + 1 \in first + 1 .. last /\ n + 1 \in 1 .. Len(h)
      BY <1>0, <2>2
    <3>2. /\ A[n + 1] = Tokens(h[n + 1]) + A[n] /\ B[n + 1] = Tokens(h[n + 1]) + B[n]
          /\ A[n] = Tokens(h[first]) + B[n] /\ B[n] \in Nat
      BY <1>1, <1>2, <1>5, <3>1
    <3>3. h[n + 1] \in Nat
      BY <3>1
    <3>4. Tokens(h[n + 1]) \in Nat
      BY <3>3, TokensType
    <3> HIDE DEF T
    <3>. QED  BY <1>3, <3>2, <3>4
  <2>. QED  BY <2>1, <2>2
<1>6. last \in T
  <2> HIDE DEF T
  <2>. QED  BY <1>0, <1>4, <1>5, NatSet
<1>7. last \in first .. last /\ last \in 0 .. last
  OBVIOUS
<1>. QED  BY <1>1, <1>6, <1>7 DEF A, B, CostIn

\* Messages that are appended do not change the cost of the earlier ones.
LEMMA CostStays ==
  ASSUME NEW h \in Seq(Nat), NEW e \in Seq(Nat), NEW last \in 0 .. Len(h),
         NEW first \in Nat \ {0}
  PROVE  CostIn(h \o e, first, last) = CostIn(h, first, last)
<1> DEFINE g == h \o e
           A == Sums(h, first, last)
           B == Sums(g, first, last)
<1>0. g \in Seq(Nat) /\ last \in 0 .. Len(g) /\ \A n \in 1 .. Len(h) : g[n] = h[n]
  OBVIOUS
<1> HIDE DEF g
<1>1. /\ \A n \in 0 .. last : n < first => A[n] = 0
      /\ \A n \in first .. last : A[n] = Tokens(h[n]) + A[n - 1]
  BY SumsAdd
<1>2. /\ \A n \in 0 .. last : n < first => B[n] = 0
      /\ \A n \in first .. last : B[n] = Tokens(g[n]) + B[n - 1]
  BY <1>0, SumsAdd
<1> HIDE DEF A, B
<1> DEFINE T == {n \in Nat : n <= last => A[n] = B[n]}
<1>3. 0 \in T
  BY <1>1, <1>2
<1>4. ASSUME NEW n \in Nat, n \in T PROVE n + 1 \in T
  <2> SUFFICES ASSUME n + 1 <= last PROVE A[n + 1] = B[n + 1]
    OBVIOUS
  <2>1. CASE n + 1 < first
    BY <1>1, <1>2, <2>1
  <2>2. CASE ~(n + 1 < first)
    <3>1. n + 1 \in first .. last /\ n + 1 \in 1 .. Len(h) /\ (n + 1) - 1 = n
      BY <2>2
    <3>2. A[n + 1] = Tokens(h[n + 1]) + A[n] /\ B[n + 1] = Tokens(g[n + 1]) + B[n]
      BY <1>1, <1>2, <3>1
    <3>. QED  BY <1>0, <1>4, <3>1, <3>2
  <2>. QED  BY <2>1, <2>2
<1>5. last \in T
  <2>1. last \in Nat
    OBVIOUS
  <2> HIDE DEF T
  <2>. QED  BY <1>3, <1>4, <2>1, NatSet
<1>. QED  BY <1>5 DEF A, B, g, CostIn

\* The messages that select_history returns of the history after the first d
\* cost no more than the budget, and with one more they would.
LEMMA KeptIsTight ==
  ASSUME NEW h \in Seq(Nat), NEW s \in 0 .. Len(h), NEW d \in Nat, NEW b \in Nat
  PROVE  LET k == Kept(SubSeq(h, d + 1, s), b)
         IN  /\ k \in 0 .. s
             /\ CostIn(h, s - k + 1, s) <= b
             /\ k < s - d => CostIn(h, s - k, s) > b
<1> DEFINE m == SubSeq(h, d + 1, s)
           N == Len(m)
           t == [n \in 1 .. N |-> CostOf(m, n)]
           c == [n \in 0 .. N |-> CostIn(h, s - n + 1, s)]
           L == Left(m, b)
           k == Kept(m, b)
<1>1. /\ m \in Seq(Nat) /\ N \in Nat /\ N <= s /\ (N = s - d \/ (N = 0 /\ s - d <= 0))
      /\ \A i \in 1 .. N : m[i] = h[d + i]
  OBVIOUS
<1>2. \A n \in 1 .. N : CostOf(m, n) = Tokens(h[s - n + 1]) /\ CostOf(m, n) \in Nat
  <2> SUFFICES ASSUME NEW n \in 1 .. N
               PROVE CostOf(m, n) = Tokens(h[s - n + 1]) /\ CostOf(m, n) \in Nat
    OBVIOUS
  <2> HIDE DEF m
  <2>1. N - n + 1 \in 1 .. N /\ d + (N - n + 1) = s - n + 1 /\ s - n + 1 \in 1 .. Len(h)
    BY <1>1
  <2>2. h[s - n + 1] \in Nat
    BY <2>1
  <2>3. m[N - n + 1] = h[d + (N - n + 1)]
    BY <1>1, <2>1
  <2>. QED  BY <2>1, <2>2, <2>3, TokensType DEF CostOf
<1>3. L[0] = b /\ \A n \in 1 .. N : L[n] = Spend(L[n - 1], t[n])
  <2> HIDE DEF m
  <2>1. \A n \in 1 .. N : t[n] = CostOf(m, n)
    OBVIOUS
  <2> HIDE DEF t
  <2>. QED  BY <1>1, <2>1, LeftRounds
<1>4. t \in [1 .. N -> Nat]
  BY <1>2
<1>5. CostIn(h, s + 1, s) = 0 /\ s - 0 + 1 = s + 1
  BY CostOfNone
<1>6. \A n \in 1 .. N : /\ CostIn(h, s - n + 1, s) \in Nat
                        /\ CostIn(h, s - n + 1, s)
                             = Tokens(h[s - n + 1]) + CostIn(h, s - (n - 1) + 1, s)
  <2> SUFFICES ASSUME NEW n \in 1 .. N
               PROVE /\ CostIn(h, s - n + 1, s) \in Nat
                     /\ CostIn(h, s - n + 1, s)
                          = Tokens(h[s - n + 1]) + CostIn(h, s - (n - 1) + 1, s)
    OBVIOUS
  <2> HIDE DEF m, t, c, L, k
  <2>1. s - n + 1 \in 1 .. s /\ s - (n - 1) + 1 = (s - n + 1) + 1
    BY <1>1
  <2>. QED  BY <2>1, CostOfOneMore
<1>7. /\ c \in [0 .. N -> Nat] /\ c[0] = 0 /\ \A n \in 1 .. N : c[n] = t[n] + c[n - 1]
  <2> HIDE DEF m, L, k
  <2>1. \A n \in 0 .. N : CostIn(h, s - n + 1, s) \in Nat
    <3> SUFFICES ASSUME NEW n \in 0 .. N PROVE CostIn(h, s - n + 1, s) \in Nat
      OBVIOUS
    <3>1. CASE n = 0
      BY <1>5, <3>1
    <3>2. CASE n # 0
      BY <1>6, <3>2
    <3>. QED  BY <3>1, <3>2
  <2>2. c \in [0 .. N -> Nat]
    BY <2>1
  <2>3. c[0] = 0
    BY <1>1, <1>5
  <2>4. ASSUME NEW n \in 1 .. N PROVE c[n] = t[n] + c[n - 1]
    <3>1. n \in 0 .. N /\ n - 1 \in 0 .. N
      OBVIOUS
    <3>2. c[n] = CostIn(h, s - n + 1, s) /\ c[n - 1] = CostIn(h, s - (n - 1) + 1, s)
      BY <3>1
    <3>3. t[n] = Tokens(h[s - n + 1])
      BY <1>2
    <3> HIDE DEF c, t
    <3>. QED  BY <1>6, <3>2, <3>3
  <2>. QED  BY <2>2, <2>3, <2>4
<1>8. k = Reached(L, N)
  BY DEF Kept, Reached
<1>9. k \in 0 .. N /\ c[k] <= b /\ (k < N => c[k + 1] > b)
  <2> HIDE DEF m, N, t, c, L, k
  <2>1. N \in Nat
    BY <1>1
  <2>2. /\ Reached(L, N) \in 0 .. N /\ c[Reached(L, N)] <= b
        /\ Reached(L, N) < N => c[Reached(L, N) + 1] > b
    <3>1. Summed(c, t, N) /\ Looped(L, t, b, N)
      BY <1>3, <1>7 DEF Summed, Looped
    <3>2. c \in [0 .. N -> Nat]
      BY <1>7
    <3>. QED  BY <1>4, <2>1, <3>1, <3>2, LoopIsTight, Zenon
  <2>. QED  BY <1>8, <2>2
<1>10. \A n \in 0 .. N : c[n] = CostIn(h, s - n + 1, s)
  OBVIOUS
<1> HIDE DEF m, t, c, L, k
<1>11. k \in 0 .. s /\ CostIn(h, s - k + 1, s) <= b
  BY <1>1, <1>9, <1>10
<1>12. k < s - d => CostIn(h, s - k, s) > b
  <2> SUFFICES ASSUME k < s - d PROVE CostIn(h, s - k, s) > b
    OBVIOUS
  <2>1. k < N /\ k + 1 \in 0 .. N /\ s - (k + 1) + 1 = s - k
    BY <1>1, <1>9
  <2>2. c[k + 1] > b /\ c[k + 1] = CostIn(h, s - k, s)
    BY <1>9, <1>10, <2>1
  <2>. QED  BY <2>2
<1>. QED  BY <1>11, <1>12 DEF k, m

-----------------------------------------------------------------------------
(* The request that is sent                                                *)

\* A request r of the history h up to s, of which d are left out, is as long
\* as the budget allows.
TightAt(h, s, d, r, text) ==
  /\ r.kept <= s
  /\ CostIn(h, s - r.kept + 1, s) <= Remaining(r.sections, text)
  /\ r.kept < s - d => CostIn(h, s - r.kept, s) > Remaining(r.sections, text)

\* The requests that are being answered are.
TightInv ==
  \A t \in Turns : place[t] = "streaming" =>
    TightAt(history, size[t], prepared[t].dropped, request[t], user[t])

\* RequestIsTight is what TightInv says of the budget.
LEMMA TightInvIsTight ==
  ASSUME TightInv
  PROVE  RequestIsTight
<1> SUFFICES ASSUME NEW t \in Turns, place[t] = "streaming"
             PROVE  LET r == request[t]
                        budget == MaxInputTokens - Tokens(SystemPrompt(r.sections))
                                    - Tokens(user[t])
                    IN  /\ Cost(size[t] - r.kept + 1, size[t]) <= budget
                        /\ r.kept < size[t] - prepared[t].dropped =>
                             Cost(size[t] - r.kept, size[t]) > budget
  BY DEF RequestIsTight
<1>1. TightAt(history, size[t], prepared[t].dropped, request[t], user[t])
  BY DEF TightInv
<1>. QED  BY <1>1, CostIsCostIn DEF TightAt, Remaining

\* The system prompt and what it leaves are integers.
LEMMA RemainingType ==
  ASSUME NEW c \in Contexts, NEW text \in Nat
  PROVE  Remaining(c, text) \in Int
<1>1. /\ Instructions \in Nat /\ Section(14, c.memory) \in Nat
      /\ Section(22, c.summary) \in Nat /\ Section(19, c.knowledge) \in Nat
  BY BudgetAssumption DEF Contexts, Section
<1>2. SystemPrompt(c) \in Nat
  BY <1>1 DEF SystemPrompt
<1>3. Tokens(SystemPrompt(c)) \in Nat /\ Tokens(text) \in Nat
  BY <1>2, TokensType
<1>. QED  BY <1>3, BudgetAssumption DEF Remaining

\* The sections of a request fit.
LEMMA AssembledFits ==
  ASSUME NEW c, NEW text, Assembles(c, text)
  PROVE  Fits(Assembled(c, text), text)
<1> DEFINE First(i) == /\ Fits(Ladder(c)[i], text)
                       /\ \A j \in 1 .. i - 1 : ~Fits(Ladder(c)[j], text)
<1>1. \E i \in 1..4 : First(i)
  BY DEF Assembles
<1>. QED  BY <1>1 DEF Assembled

\* A history that grows leaves a request as tight as it was.
LEMMA TightStays ==
  ASSUME IInv, HistoryStep, NEW j \in Turns, SamePipeline(j),
         TightAt(history, size[j], prepared[j].dropped, request[j], user[j])
  PROVE  TightAt(history', size'[j], prepared'[j].dropped, request'[j], user'[j])
<1>1. PICK e \in Seq(Nat) : history' = history \o e
  BY DEF HistoryStep
<1> DEFINE k == request[j].kept
           s == size[j]
           d == prepared[j].dropped
<1>2. /\ history \in Seq(Nat) /\ s \in 0 .. Len(history)
      /\ k \in Nat /\ d \in Nat /\ k <= s
  BY DEF IInv, TypeOK, PipelineOK, TightAt
<1>3. s - k + 1 \in Nat \ {0} /\ (k < s - d => s - k \in Nat \ {0})
  <2> HIDE DEF k, s, d
  <2>. QED  BY <1>2
<1>4. /\ CostIn(history', s - k + 1, s) = CostIn(history, s - k + 1, s)
      /\ k < s - d => CostIn(history', s - k, s) = CostIn(history, s - k, s)
  <2> HIDE DEF k, s, d
  <2>. QED  BY <1>1, <1>2, <1>3, CostStays
<1>. QED  BY <1>4 DEF TightAt, SamePipeline

\* A step that starts no request keeps the invariant.
LEMMA OthersStayTight ==
  ASSUME IInv, TightInv, HistoryStep, NEW t \in Turns, OnlyPipeline(t),
         place'[t] # "streaming"
  PROVE  TightInv'
<1> SUFFICES ASSUME NEW j \in Turns, place'[j] = "streaming"
             PROVE  TightAt(history', size'[j], prepared'[j].dropped, request'[j], user'[j])
  BY DEF TightInv
<1>1. SamePipeline(j)
  BY DEF OnlyPipeline
<1>2. TightAt(history, size[j], prepared[j].dropped, request[j], user[j])
  BY <1>1 DEF TightInv, SamePipeline
<1>. QED  BY <1>1, <1>2, TightStays

\* Done ends a pipeline and leaves the others alone.
LEMMA DoneOnly ==
  ASSUME IInv, NEW t \in Turns, Done(t)
  PROVE  OnlyPipeline(t) /\ place'[t] # "streaming"
BY DEF Done, OnlyPipeline, SamePipeline, IInv, TypeOK

\* A step inside prepare starts no request.
LEMMA PrepareStaysTight ==
  ASSUME IInv, TightInv, NEW t \in Turns, UNCHANGED <<history, request>>,
         \A j \in Turns \ {t} : /\ user'[j] = user[j] /\ size'[j] = size[j]
                                /\ existing'[j] = existing[j],
         \/ \E r, d, how : Return(t, r, d, how)
         \/ /\ place' \in {[place EXCEPT ![t] = "generating"], [place EXCEPT ![t] = "shortening"]}
            /\ UNCHANGED prepared
  PROVE  TightInv'
<1>1. HistoryStep
  BY SameHistory DEF IInv, TypeOK
<1>2. OnlyPipeline(t) /\ place'[t] # "streaming"
  BY DEF Return, OnlyPipeline, SamePipeline, IInv, TypeOK
<1>. QED  BY <1>1, <1>2, OthersStayTight

\* The request that assemble makes is tight.
LEMMA AssembleIsTight ==
  ASSUME IInv, TightInv, NEW t \in Turns, NEW knowledge \in Enrichment,
         NEW memory \in Enrichment, Assemble(t, knowledge, memory)
  PROVE  TightInv'
<1> DEFINE p == prepared[t]
           c == Context(memory, p.summary.length, knowledge)
           a == Assembled(c, user[t])
           b == Remaining(a, user[t])
           k == Kept(SubSeq(history, p.dropped + 1, size[t]), b)
<1>1. HistoryStep
  BY SameHistory DEF Assemble, IInv, TypeOK
<1>2. CASE Cancelled(t) \/ ~Assembles(c, user[t])
  <2>1. Done(t)
    BY <1>2 DEF Assemble
  <2>. QED  BY <1>1, <2>1, DoneOnly, OthersStayTight
<1>3. CASE ~Cancelled(t) /\ Assembles(c, user[t])
  <2>1. /\ place' = [place EXCEPT ![t] = "streaming"]
        /\ request' = [request EXCEPT ![t] = [sections |-> a, kept |-> k]]
        /\ UNCHANGED <<history, user, size, existing, prepared>>
    BY <1>3 DEF Assemble
  <2>2. /\ history \in Seq(Nat) /\ size[t] \in 0 .. Len(history) /\ user[t] \in Nat
        /\ p.dropped \in Nat /\ p.summary.length \in Nat
        /\ knowledge \in Nat /\ memory \in Nat
    <3>1. size[t] \in Nat /\ size[t] <= Len(history)
      BY DEF IInv, TypeOK, PipelineOK
    <3>2. history \in Seq(Nat) /\ user[t] \in Nat /\ p.dropped \in Nat
          /\ p.summary.length \in Nat
      BY DEF IInv, TypeOK, SummaryRecords
    <3>. QED  BY <3>1, <3>2, SummarizerAssumption
  <2>3. c \in Contexts
    BY <2>2 DEF Contexts, Context
  <2>4. a \in Contexts /\ Fits(a, user[t])
    <3> HIDE DEF c
    <3>. QED  BY <1>3, <2>3, AssembledSections, AssembledFits
  <2>5. b \in Nat
    <3> HIDE DEF a
    <3>1. b \in Int
      BY <2>2, <2>4, RemainingType
    <3>2. b >= 0
      BY <2>4 DEF Fits
    <3> HIDE DEF b
    <3>. QED  BY <3>1, <3>2
  <2>6. /\ k \in 0 .. size[t]
        /\ CostIn(history, size[t] - k + 1, size[t]) <= b
        /\ k < size[t] - p.dropped => CostIn(history, size[t] - k, size[t]) > b
    <3> HIDE DEF b, p
    <3>. QED  BY <2>2, <2>5, KeptIsTight
  <2> HIDE DEF k, a
  <2>7. place'[t] = "streaming" /\ request'[t] = [sections |-> a, kept |-> k]
    BY <2>1 DEF IInv, TypeOK
  <2>8. TightAt(history', size'[t], prepared'[t].dropped, request'[t], user'[t])
    <3>1. request'[t].kept = k /\ request'[t].sections = a
      BY <2>7
    <3>2. k <= size[t]
      BY <2>2, <2>6
    <3>. QED  BY <2>1, <2>6, <3>1, <3>2 DEF TightAt
  <2>9. ASSUME NEW j \in Turns, j # t, place'[j] = "streaming"
        PROVE  TightAt(history', size'[j], prepared'[j].dropped, request'[j], user'[j])
    <3>1. SamePipeline(j)
      BY <2>1, <2>9 DEF SamePipeline, IInv, TypeOK
    <3>2. TightAt(history, size[j], prepared[j].dropped, request[j], user[j])
      BY <2>9, <3>1 DEF TightInv, SamePipeline
    <3>. QED  BY <1>1, <3>1, <3>2, TightStays
  <2>. QED  BY <2>8, <2>9 DEF TightInv
<1>. QED  BY <1>2, <1>3

\* The history that an answer leaves is the old one or a longer one.
LEMMA AnsweredHistory ==
  ASSUME IInv, NEW t \in Turns, NEW answer \in Texts, Answered(t, answer)
  PROVE  HistoryStep
<1>1. CASE current = t
  <2>1. <<user[t], answer>> \in Seq(Nat)
    BY SummarizerAssumption DEF IInv, TypeOK
  <2>. QED  BY <1>1, <2>1 DEF Answered, HistoryStep
<1>2. CASE current # t
  BY <1>2, SameHistory DEF Answered, IInv, TypeOK
<1>. QED  BY <1>1, <1>2

-----------------------------------------------------------------------------
(* Theorems                                                                *)

\* IInv is an invariant of the session, by induction: one lemma an action.
THEOREM Invariance == Spec => []IInv
<1>1. Init => IInv
  BY InitEstablishes
<1>2. IInv /\ [Next]_vars => IInv'
  <2> SUFFICES ASSUME IInv, [Next]_vars PROVE IInv'
    OBVIOUS
  <2>1. CASE UNCHANGED vars
    BY <2>1, StutterKeeps
  <2>2. CASE Next
    <3>1. CASE TurnInterrupted
      BY <3>1, TurnInterruptedKeeps
    <3>2. ASSUME NEW t \in Turns, NEW text \in Texts, Prepare(t, text) PROVE IInv'
      BY <3>2, PrepareKeeps
    <3>3. ASSUME NEW t \in Turns, NEW text \in Texts, Answered(t, text) PROVE IInv'
      BY <3>3, AnsweredKeeps
    <3>4. ASSUME NEW t \in Turns, NEW length \in Summaries, Generated(t, length) PROVE IInv'
      BY <3>4, GeneratedKeeps
    <3>5. ASSUME NEW t \in Turns, NEW length \in Summaries, Shortened(t, length) PROVE IInv'
      BY <3>5, ShortenedKeeps
    <3>6. ASSUME NEW t \in Turns, GenerationFails(t) PROVE IInv'
      BY <3>6, GenerationFailsKeeps
    <3>7. ASSUME NEW t \in Turns, NEW knowledge \in Enrichment, NEW memory \in Enrichment,
                 Assemble(t, knowledge, memory)
          PROVE IInv'
      BY <3>7, AssembleKeeps
    <3>. QED  BY <2>2, <3>1, <3>2, <3>3, <3>4, <3>5, <3>6, <3>7 DEF Next
  <2>. QED  BY <2>1, <2>2
<1>. QED  BY <1>1, <1>2, PTL DEF Spec

\* The state of the summarizer and of the pipelines is well typed: in
\* particular prepare never drops a negative number of messages.
THEOREM TypeCorrect == Spec => []TypeOK
<1>1. IInv => TypeOK
  BY DEF IInv
<1>. QED  BY <1>1, Invariance, PTL

\* Whatever overlapping pipelines store, the stored summary tells of exactly
\* the messages up to its watermark.
THEOREM StoredIsPrefix == Spec => []SummaryIsPrefix
<1>1. IInv => SummaryIsPrefix
  BY DEF IInv
<1>. QED  BY <1>1, Invariance, PTL

\* prepare loses no message, but for a cancelled turn and a blank summary.
THEOREM PrepareLosesNothing == Spec => []NothingLost
<1>1. IInv => NothingLost
  BY DEF IInv, NothingLost, PipelineOK
<1>. QED  BY <1>1, Invariance, PTL

\* The assembler never gives up a summary that prepare has accepted.
THEOREM AcceptedSummaryIsSent == Spec => []MadeSummaryIsSent
<1>1. IInv => MadeSummaryIsSent
  BY DEF IInv, MadeSummaryIsSent, PipelineOK
<1>. QED  BY <1>1, Invariance, PTL

\* The summary repository is written by a pipeline of no cancelled turn.
THEOREM NoCancelledStore == Spec => CancelledStoresNothing
<1> DEFINE A == stored' # stored =>
                  \E t \in Turns : /\ place[t] # "prepared" /\ place'[t] = "prepared"
                                   /\ t \notin cancelledIds
<1>1. IInv /\ [Next]_vars => [A]_vars
  <2> SUFFICES ASSUME IInv, Next, stored' # stored PROVE A
    BY DEF vars
  <2>1. place \in [Turns -> {"idle", "generating", "shortening", "prepared", "streaming", "done"}]
    BY DEF IInv, TypeOK
  <2>2. PICK t \in Turns, length \in Summaries : Generated(t, length) \/ Shortened(t, length)
    BY DEF Next, TurnInterrupted, Prepare, Answered, GenerationFails, Assemble
  <2>3. ~Cancelled(t) /\ Store(t, length) /\ place[t] \in {"generating", "shortening"}
    BY <2>2 DEF Generated, Shortened
  <2>4. place'[t] = "prepared"
    BY <2>1, <2>3 DEF Store, Return
  <2>. QED  BY <2>3, <2>4 DEF Cancelled
<1>. QED  BY <1>1, Invariance, PTL DEF Spec, CancelledStoresNothing

\* Whatever the budget, the lengths and the interleaving of pipelines: the
\* request that select_history cuts out of the history fits the budget, and
\* with the next older message it would not.
THEOREM RequestsAreTight == Spec => []RequestIsTight
<1>1. Init => TightInv
  BY DEF Init, TightInv
<1>2. IInv /\ TightInv /\ [Next]_vars => TightInv'
  <2> SUFFICES ASSUME IInv, TightInv, [Next]_vars PROVE TightInv'
    OBVIOUS
  <2>0. ASSUME UNCHANGED history, UNCHANGED pipelineVars PROVE TightInv'
    BY <2>0 DEF TightInv, pipelineVars
  <2>1. CASE UNCHANGED vars
    BY <2>0, <2>1 DEF vars, sessionVars
  <2>2. CASE TurnInterrupted
    BY <2>0, <2>2 DEF TurnInterrupted
  <2>3. ASSUME NEW t \in Turns, NEW text \in Texts, Prepare(t, text) PROVE TightInv'
    <3>1. /\ UNCHANGED <<history, request>>
          /\ \A j \in Turns \ {t} : /\ user'[j] = user[j] /\ size'[j] = size[j]
                                    /\ existing'[j] = existing[j]
      BY <2>3 DEF Prepare, IInv, TypeOK
    <3>2. \/ \E r, d, how : Return(t, r, d, how)
          \/ place' = [place EXCEPT ![t] = "generating"] /\ UNCHANGED prepared
      BY <2>3 DEF Prepare
    <3>. QED  BY <3>1, <3>2, PrepareStaysTight
  <2>4. ASSUME NEW t \in Turns, NEW text \in Texts, Answered(t, text) PROVE TightInv'
    <3>1. Done(t)
      BY <2>4 DEF Answered
    <3>. QED  BY <2>4, <3>1, AnsweredHistory, DoneOnly, OthersStayTight
  <2>5. ASSUME NEW t \in Turns, NEW length \in Summaries,
               Generated(t, length) \/ Shortened(t, length)
        PROVE  TightInv'
    <3>1. UNCHANGED <<history, request, user, size, existing>>
      BY <2>5 DEF Generated, Shortened, sessionVars
    <3>2. \/ \E r, d, how : Return(t, r, d, how)
          \/ place' = [place EXCEPT ![t] = "shortening"] /\ UNCHANGED prepared
      BY <2>5 DEF Generated, Shortened, Store
    <3>. QED  BY <3>1, <3>2, PrepareStaysTight
  <2>6. ASSUME NEW t \in Turns, GenerationFails(t) PROVE TightInv'
    <3>1. UNCHANGED <<history, request, user, size, existing>>
      BY <2>6 DEF GenerationFails, sessionVars
    <3>2. \E r, d, how : Return(t, r, d, how)
      BY <2>6 DEF GenerationFails
    <3>. QED  BY <3>1, <3>2, PrepareStaysTight
  <2>7. ASSUME NEW t \in Turns, NEW knowledge \in Enrichment, NEW memory \in Enrichment,
               Assemble(t, knowledge, memory)
        PROVE  TightInv'
    BY <2>7, AssembleIsTight
  <2>. QED  BY <2>1, <2>2, <2>3, <2>4, <2>5, <2>6, <2>7 DEF Next
<1>3. TightInv => RequestIsTight
  BY TightInvIsTight
<1>. QED  BY <1>1, <1>2, <1>3, Invariance, PTL DEF Spec
=============================================================================
