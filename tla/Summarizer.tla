----------------------------- MODULE Summarizer ------------------------------
(***************************************************************************)
(* ConversationSummarizer.prepare and the assembly of the LLM request, for *)
(* the turns of one session.  A step runs a pipeline to its next await.    *)
(*                                                                         *)
(* One turn is open at a time, but a pipeline may outlive its turn: a      *)
(* cancelled one until it notices, and one whose turn was completed by a   *)
(* USER_SPEECH_ENDED input (AgentRuntime!HandleUserSpeechEnded) to its end.*)
(* A turn has one pipeline here; the second one that a finalized speech    *)
(* turn may get (AgentRuntime!OnePrepareAtATime) is left out.              *)
(* Messages are numbered from 1; the history only grows, so that a         *)
(* snapshot of it is its length.                                           *)
(***************************************************************************)
EXTENDS ContextBudget

CONSTANTS
  Texts,      \* lengths of user texts and answers
  Summaries,  \* lengths of generated summaries; 0 is a blank one
  Enrichment, \* lengths of retrieved knowledge and memory; 0 is none
  MaxTurns    \* bound: turns of the session

ASSUME SummarizerAssumption ==
  /\ Texts \subseteq Nat \ {0} /\ Summaries \subseteq Nat /\ Enrichment \subseteq Nat
  /\ MaxTurns \in Nat

Turns == 1..MaxTurns
NoTurn == 0

VARIABLES
  history,       \* the conversation: lengths of its messages
  stored,        \* the summary repository
  current,       \* the open turn
  turnSeq,       \* turns begun
  tokenSet,      \* turns whose cancellation token is set
  cancelledIds,  \* context.cancelled_turn_ids
  place,         \* where the pipeline of a turn is
  user,          \* current_user_text of a turn
  size,          \* length of the history that prepare was given
  existing,      \* the summary that prepare has read
  prepared,      \* the SummaryPreparation of a turn
  request        \* the request of a turn: its sections and number of messages

sessionVars == <<history, current, turnSeq, tokenSet, cancelledIds>>
pipelineVars == <<place, user, size, existing, prepared, request>>
vars == <<sessionVars, stored, pipelineVars>>

\* A stored summary: its watermark, the messages it tells of and its length.
NoSummary == [through |-> 0, covers |-> {}, length |-> 0]
\* A preparation: its summary, how many messages history_for_assembly leaves
\* out, and the return statement it comes from.
NoPreparation == [summary |-> NoSummary, dropped |-> 0, how |-> "none"]
NoRequest == [sections |-> NoContext, kept |-> 0]

Init ==
  /\ history = <<>> /\ stored = NoSummary
  /\ current = NoTurn /\ turnSeq = 0 /\ tokenSet = {} /\ cancelledIds = {}
  /\ place = [t \in Turns |-> "idle"]
  /\ user = [t \in Turns |-> 0]
  /\ size = [t \in Turns |-> 0]
  /\ existing = [t \in Turns |-> NoSummary]
  /\ prepared = [t \in Turns |-> NoPreparation]
  /\ request = [t \in Turns |-> NoRequest]

\* Fault: the cancelled ids are not looked at, only the token.
Cancelled_tokenOnly(t) == t \in tokenSet

Cancelled(t) == t \in tokenSet \/ t \in cancelledIds

\* The history that the pipeline of t was given.
Given(t) == SubSeq(history, 1, size[t])

\* Fault: the operands are swapped.
DropCount_swapped(given, text) == Kept(given, Remaining(NoContext, text)) - Len(given)

\* How many messages select_history drops without a summary.
DropCount(given, text) == Len(given) - Kept(given, Remaining(NoContext, text))

\* Fault: the message at the watermark is taken for covered already.
Uncovered_offByOne(through, dropped) == through + 2 .. dropped

\* The dropped messages that the summary does not tell of.
Uncovered(through, dropped) == through + 1 .. dropped

SummaryFits(length, text) == Fits(Context(0, length, 0), text)

-----------------------------------------------------------------------------
(* prepare                                                                 *)

Return(t, summary, dropped, how) ==
  /\ place' = [place EXCEPT ![t] = "prepared"]
  /\ prepared' = [prepared EXCEPT ![t] =
                    [summary |-> summary, dropped |-> dropped, how |-> how]]

\* A turn begins; prepare runs to its first await (its check of a cancellation
\* before it cannot fail: the turn is open).
Prepare(t, text) ==
  /\ current = NoTurn /\ t = turnSeq + 1
  /\ turnSeq' = t /\ current' = t
  /\ user' = [user EXCEPT ![t] = text]
  /\ size' = [size EXCEPT ![t] = Len(history)]
  /\ existing' = [existing EXCEPT ![t] = stored]
  /\ LET dropped == DropCount(history, text)
     IN  IF ~Fits(NoContext, text) \/ dropped = 0
         THEN Return(t, NoSummary, 0, "full")
         ELSE IF Uncovered(stored.through, dropped) = {}
         THEN Return(t, stored, dropped, "current")
         ELSE place' = [place EXCEPT ![t] = "generating"] /\ UNCHANGED prepared
  /\ UNCHANGED <<history, stored, tokenSet, cancelledIds, request>>

\* The summary is stored and returned.
Store(t, length) ==
  LET dropped == DropCount(Given(t), user[t])
      summary == [through |-> dropped,
                  covers  |-> existing[t].covers
                                \cup Uncovered(existing[t].through, dropped),
                  length  |-> length]
  IN  stored' = summary /\ Return(t, summary, dropped, "made")

\* _generate_summary returns a text.
Generated(t, length) ==
  /\ place[t] = "generating"
  /\ IF Cancelled(t) \/ length = 0
     THEN /\ Return(t, existing[t], DropCount(Given(t), user[t]), "unchanged")
          /\ UNCHANGED stored
     ELSE IF SummaryFits(length, user[t])
     THEN Store(t, length)
     ELSE place' = [place EXCEPT ![t] = "shortening"] /\ UNCHANGED <<stored, prepared>>
  /\ UNCHANGED <<sessionVars, user, size, existing, request>>

\* Fault: the full history is not restored.
GenerationFails_recent(t) ==
  /\ place[t] = "generating"
  /\ Return(t, NoSummary, DropCount(Given(t), user[t]), "full")
  /\ UNCHANGED <<sessionVars, stored, user, size, existing, request>>

\* It raises ProviderError.
GenerationFails(t) ==
  /\ place[t] = "generating"
  /\ Return(t, NoSummary, 0, "full")
  /\ UNCHANGED <<sessionVars, stored, user, size, existing, request>>

\* The shorter summary returns; a ProviderError counts as a blank one.
Shortened(t, length) ==
  /\ place[t] = "shortening"
  /\ IF Cancelled(t) \/ length = 0 \/ ~SummaryFits(length, user[t])
     THEN Return(t, NoSummary, 0, "full") /\ UNCHANGED stored
     ELSE Store(t, length)
  /\ UNCHANGED <<sessionVars, user, size, existing, request>>

-----------------------------------------------------------------------------
(* The rest of the pipeline, and its turn                                  *)

CloseTurn(t) == current' = IF current = t THEN NoTurn ELSE current

\* The coroutine ends, and its local variables with it.
Done(t) ==
  /\ place' = [place EXCEPT ![t] = "done"]
  /\ user' = [user EXCEPT ![t] = 0]
  /\ size' = [size EXCEPT ![t] = 0]
  /\ existing' = [existing EXCEPT ![t] = NoSummary]
  /\ prepared' = [prepared EXCEPT ![t] = NoPreparation]
  /\ request' = [request EXCEPT ![t] = NoRequest]

\* Knowledge and memory have returned, and the request is assembled.  A
\* request that does not fit fails the turn.
Assemble(t, knowledge, memory) ==
  /\ place[t] = "prepared"
  /\ LET p == prepared[t]
         c == Context(memory, p.summary.length, knowledge)
         a == Assembled(c, user[t])
         messages == SubSeq(history, p.dropped + 1, size[t])
     IN  IF Cancelled(t)
         THEN Done(t) /\ UNCHANGED current
         ELSE IF ~Assembles(c, user[t])
         THEN Done(t) /\ CloseTurn(t)
         ELSE /\ place' = [place EXCEPT ![t] = "streaming"]
              /\ request' = [request EXCEPT ![t] =
                   [sections |-> a, kept |-> Kept(messages, Remaining(a, user[t]))]]
              /\ UNCHANGED <<current, user, size, existing, prepared>>
  /\ UNCHANGED <<history, turnSeq, tokenSet, cancelledIds, stored>>

\* The answer has arrived: the exchange of a turn that is still open is
\* persisted.
Answered(t, answer) ==
  /\ place[t] = "streaming"
  /\ Done(t)
  /\ history' = IF current = t THEN history \o <<user[t], answer>> ELSE history
  /\ CloseTurn(t)
  /\ UNCHANGED <<turnSeq, tokenSet, cancelledIds, stored>>

\* CANCEL_TURN sets the token; an ERROR input only records the turn; and
\* USER_SPEECH_ENDED completes it beside its pipeline.
TurnInterrupted ==
  /\ current # NoTurn
  /\ current' = NoTurn
  /\ \/ tokenSet' = tokenSet \cup {current} /\ cancelledIds' = cancelledIds \cup {current}
     \/ cancelledIds' = cancelledIds \cup {current} /\ UNCHANGED tokenSet
     \/ UNCHANGED <<tokenSet, cancelledIds>>
  /\ UNCHANGED <<history, turnSeq, stored, pipelineVars>>

Next ==
  \/ TurnInterrupted
  \/ \E t \in Turns :
       \/ \E text \in Texts : Prepare(t, text) \/ Answered(t, text)
       \/ \E length \in Summaries : Generated(t, length) \/ Shortened(t, length)
       \/ GenerationFails(t)
       \/ \E knowledge, memory \in Enrichment : Assemble(t, knowledge, memory)

Spec == Init /\ [][Next]_vars

-----------------------------------------------------------------------------
(* Properties                                                              *)

SummaryRecords == [through : Nat, covers : SUBSET Nat, length : Nat]

TypeOK ==
  /\ history \in Seq(Nat) /\ stored \in SummaryRecords
  /\ current \in Turns \cup {NoTurn} /\ turnSeq \in 0..MaxTurns
  /\ tokenSet \subseteq Turns /\ cancelledIds \subseteq Turns
  /\ place \in [Turns -> {"idle", "generating", "shortening", "prepared", "streaming", "done"}]
  /\ user \in [Turns -> Nat] /\ size \in [Turns -> Nat]
  /\ existing \in [Turns -> SummaryRecords]
  /\ prepared \in [Turns -> [summary : SummaryRecords, dropped : Nat,
                             how : {"none", "full", "current", "unchanged", "made"}]]
  /\ request \in [Turns -> [sections : Contexts, kept : Nat]]

\* A stored summary tells of exactly the messages up to its watermark, all of
\* them persisted, whichever overlapping pipelines have stored one.
SummaryIsPrefix ==
  /\ stored.covers = 1 .. stored.through
  /\ stored.through <= Len(history)

\* A turn that was cancelled or failed before its prepare came back stores no
\* summary, in either of the two generations.
CancelledStoresNothing ==
  [][stored' # stored =>
       \E t \in Turns : /\ place[t] # "prepared" /\ place'[t] = "prepared"
                        /\ t \notin cancelledIds]_vars

\* The summary and history_for_assembly of a preparation together tell of the
\* whole history that prepare was given.
PreparedCovers(t) ==
  LET p == prepared[t]
  IN  p.summary.covers \cup (p.dropped + 1 .. size[t]) = 1 .. size[t]

\* No message is lost between the summary and history_for_assembly when
\* prepare made a summary, found one current or gave up; only a cancelled turn
\* or a blank answer of the summarizing LLM returns a summary that is behind.
NothingLost ==
  \A t \in Turns : place[t] = "prepared" /\ prepared[t].how # "unchanged" => PreparedCovers(t)

\* A summary that prepare found to fit is in the request, whatever knowledge
\* and memory were added since: those are dropped first.
MadeSummaryIsSent ==
  \A t \in Turns : place[t] = "streaming" /\ prepared[t].how = "made" =>
    request[t].sections.summary = prepared[t].summary.length

\* What the messages first..last cost.
Cost(first, last) ==
  LET sum[n \in 0 .. last] == IF n < first THEN 0 ELSE Tokens(history[n]) + sum[n - 1]
  IN  sum[last]

\* A request fits the budget, and one more message of its history would not.
RequestIsTight ==
  \A t \in Turns : place[t] = "streaming" =>
    LET r == request[t]
        budget == MaxInputTokens - Tokens(SystemPrompt(r.sections)) - Tokens(user[t])
    IN  /\ Cost(size[t] - r.kept + 1, size[t]) <= budget
        /\ r.kept < size[t] - prepared[t].dropped => Cost(size[t] - r.kept, size[t]) > budget
=============================================================================
