----------------------------- MODULE PartsProofs -----------------------------
(***************************************************************************)
(* Proofs about the parts that MCParts puts beside each other: first       *)
(* ToolExecutor, for any catalog, bindings, schema and call, SttAdapter,   *)
(* for any frames and any number of turns, and LlmStream, for any calls    *)
(* and any order of their fragments; then every safety property of the run *)
(* of MCParts, with what is proved of Summarizer, SessionStore, Paging and *)
(* Ingestion in modules of their own.                                      *)
(***************************************************************************)
EXTENDS MCParts, SummarizerProofs, SequenceTheorems, FiniteSetTheorems, TLAPS

-----------------------------------------------------------------------------
(* The tool executor                                                       *)

\* The registry of an agent holds approved tools only, and those that its
\* version enables unless the version binds none.
RegistryIsBound ==
    \A names \in registry :
      names \subseteq Catalog /\ (bindings = << >> \/ names = Exec!BoundNames)

\* A handler is invoked once, by the call that then runs, and only a call
\* that is over has a result.
CallIsInOrder ==
    /\ execCancelled \in BOOLEAN
    /\ execPc \in {"build", "failed", "call", "running", "done"}
    /\ invoked # {} => execPc \in {"running", "done"}
    /\ result = "success" => execPc = "done"

ExecInv == RegistryIsBound /\ CallIsInOrder /\ Exec!ToolRunsAsBound

\* What has to hold for execute to reach a handler.
LEMMA NotRefused ==
  ASSUME Exec!Refusal = "none"
  PROVE  /\ ~execCancelled
         /\ \E names \in registry : call.name \in names
         /\ schema.required \subseteq DOMAIN call.arguments
<1> DEFINE isNamed == \E names \in registry : call.name \in names
<1> DEFINE valid == Exec!validate_tool_arguments(schema, call.arguments)
<1>1. registry # {}
  BY DEF Exec!Refusal
<1>2. ~execCancelled
  BY <1>1 DEF Exec!Refusal
<1>3. isNamed
  BY <1>1, <1>2 DEF Exec!Refusal
<1>4. valid
  BY <1>1, <1>2, <1>3 DEF Exec!Refusal
<1>. QED  BY <1>2, <1>3, <1>4 DEF Exec!validate_tool_arguments

\* build_voice_worker_from_db gives the agent a registry of bound tools.
LEMMA BuildStep == ASSUME ExecInv, Exec!Build PROVE ExecInv'
<1>1. /\ UNCHANGED <<bindings, given, schema, call, execCancelled, invoked, result>>
      /\ execPc = "build" /\ execPc' \in {"call", "failed"}
  BY DEF Exec!Build
<1>2. Exec!BoundNames' = Exec!BoundNames /\ Exec!Enabled' = Exec!Enabled
  BY <1>1 DEF Exec!BoundNames, Exec!Enabled
<1>3. RegistryIsBound'
  <2>1. CASE registry' = registry
    BY <1>1, <1>2, <2>1 DEF ExecInv, RegistryIsBound
  <2>2. CASE registry' = {} \/ (bindings = << >> /\ registry' = {Catalog})
    BY <1>1, <1>2, <2>2 DEF RegistryIsBound
  <2>3. CASE Exec!BoundNames \subseteq Catalog /\ registry' = {Exec!BoundNames}
    BY <1>1, <1>2, <2>3 DEF RegistryIsBound
  <2>. QED
    BY <2>1, <2>2, <2>3 DEF Exec!Build, Exec!Unresolvable, Exec!build_agent_tool_registry
<1>. QED  BY <1>1, <1>2, <1>3 DEF ExecInv, CallIsInOrder, Exec!ToolRunsAsBound

\* execute invokes the handler of a bound tool only.
LEMMA ExecuteStep == ASSUME ExecInv, Exec!Execute PROVE ExecInv'
<1>1. /\ UNCHANGED <<bindings, given, schema, registry, call, execCancelled>>
      /\ execPc = "call"
  BY DEF Exec!Execute
<1>2. Exec!BoundNames' = Exec!BoundNames /\ Exec!Enabled' = Exec!Enabled
  BY <1>1 DEF Exec!BoundNames, Exec!Enabled
<1>3. RegistryIsBound'
  BY <1>1, <1>2 DEF ExecInv, RegistryIsBound
<1>4. invoked = {} /\ result # "success" /\ execCancelled \in BOOLEAN
  BY <1>1 DEF ExecInv, CallIsInOrder
<1>5. CASE Exec!Refusal # "none"
  <2>1. result' = Exec!Refusal /\ execPc' = "done" /\ invoked' = {}
    BY <1>4, <1>5 DEF Exec!Execute
  <2>2. Exec!Refusal # "success"
    BY DEF Exec!Refusal
  <2>. QED  BY <1>1, <1>3, <1>4, <2>1, <2>2 DEF ExecInv, CallIsInOrder, Exec!ToolRunsAsBound
<1>6. CASE Exec!Refusal = "none"
  <2>1. invoked' = {execCancelled} /\ execPc' = "running" /\ result' = result
    BY <1>6 DEF Exec!Execute
  <2>2. execCancelled = FALSE
    BY <1>4, <1>6, NotRefused
  <2>3. PICK names \in registry : call.name \in names
    BY <1>6, NotRefused
  <2>4. call.name \in Catalog
    BY <2>3 DEF ExecInv, RegistryIsBound
  <2>5. bindings = << >> \/ \E i \in Exec!Enabled : bindings[i].name = call.name
    BY <2>3 DEF ExecInv, RegistryIsBound, Exec!BoundNames
  <2>6. \A k \in schema.required : k \in DOMAIN call.arguments
    BY <1>6, NotRefused
  <2>7. Exec!ToolRunsAsBound'
    BY <1>1, <1>2, <1>4, <2>1, <2>2, <2>4, <2>5, <2>6 DEF Exec!ToolRunsAsBound
  <2>. QED  BY <1>1, <1>3, <1>4, <2>1, <2>7 DEF ExecInv, CallIsInOrder
<1>. QED  BY <1>5, <1>6

\* The handler's end, and a cancellation before it.
LEMMA HandlerStep ==
  ASSUME ExecInv,
         Exec!HandlerRaises \/ Exec!HandlerReturns \/ Exec!ResultTooLong \/ Exec!ExecCancel
           \/ UNCHANGED Exec!execVars
  PROVE  ExecInv'
<1>1. /\ UNCHANGED <<bindings, given, schema, registry, call, invoked>>
      /\ execCancelled' \in BOOLEAN
  BY DEF Exec!HandlerRaises, Exec!HandlerReturns, Exec!ResultTooLong, Exec!ExecCancel,
         Exec!execVars, ExecInv, CallIsInOrder
<1>2. Exec!BoundNames' = Exec!BoundNames /\ Exec!Enabled' = Exec!Enabled
  BY <1>1 DEF Exec!BoundNames, Exec!Enabled
<1>3. RegistryIsBound'
  BY <1>1, <1>2 DEF ExecInv, RegistryIsBound
<1>4. /\ execPc' \in {"build", "failed", "call", "running", "done"}
      /\ execPc \in {"running", "done"} => execPc' \in {"running", "done"}
      /\ result' = "success" => execPc' = "done" /\ ~execCancelled'
  BY DEF Exec!HandlerRaises, Exec!HandlerReturns, Exec!ResultTooLong, Exec!ExecCancel,
         Exec!Outcome, Exec!execVars, ExecInv, CallIsInOrder, Exec!ToolRunsAsBound
<1>5. CallIsInOrder'
  BY <1>1, <1>4 DEF ExecInv, CallIsInOrder
<1>6. Exec!ToolRunsAsBound'
  BY <1>1, <1>2, <1>4 DEF ExecInv, Exec!ToolRunsAsBound
<1>. QED  BY <1>3, <1>5, <1>6 DEF ExecInv

\* ExecInv holds at first.
LEMMA ExecInit ==
  ASSUME Exec!Init
  PROVE  ExecInv
BY DEF Exec!Init, ExecInv, RegistryIsBound, CallIsInOrder, Exec!ToolRunsAsBound

\* Every step keeps it.
LEMMA ExecStep ==
  ASSUME ExecInv, [Exec!Next]_(Exec!execVars)
  PROVE  ExecInv'
BY BuildStep, ExecuteStep, HandlerStep DEF Exec!Next

\* For every catalog, agent version, schema and call: a handler runs only for
\* an approved tool the version enables (or that of a given registry when it
\* binds none), with all required arguments, never for a cancelled turn, and
\* a turn cancelled while it ran gets no output of it.
THEOREM HandlersRunAsBound == Exec!Spec => []Exec!ToolRunsAsBound
<1>1. Exec!Init => ExecInv
  BY ExecInit
<1>2. ExecInv /\ [Exec!Next]_(Exec!execVars) => ExecInv'
  BY ExecStep
<1>3. ExecInv => Exec!ToolRunsAsBound
  BY DEF ExecInv
<1>. QED  BY <1>1, <1>2, <1>3, PTL DEF Exec!Spec

-----------------------------------------------------------------------------
(* The transcription                                                       *)
Recognised == Nat \ {Stt!None}

SttTypes ==
    /\ sender \in {"none", "reading", "sending", "tail", "finishing", "finished",
                   "returned", "raised"}
    /\ consumer \in {"start", "waiting", "joining", "closing", "done"}
    /\ queue \in Seq(Nat) /\ emitted \in Seq(Recognised) /\ yielded \in Seq(Nat)
    /\ cancelled \in BOOLEAN /\ errored \in BOOLEAN /\ raised \in BOOLEAN

\* The call is neither cancelled nor has the provider reported an error.
Undisturbed == ~cancelled /\ ~errored

\* The sender exists from session.start on; a sender that finished has
\* disconnected; only a cancelled one returns without an end mark.
SenderInv ==
    /\ consumer = "start" => sender = "none" /\ queue = << >> /\ yielded = << >>
                             /\ emitted = << >>
    /\ connected => sender # "none"
    /\ sender = "none" => consumer \in {"start", "closing", "done"}
    /\ sender = "finished" => ~connected
    /\ sender = "returned" => cancelled

\* What was yielded and what is still queued are the recognised turns, and
\* behind them the end mark of a sender that finished.
InOrder ==
    Undisturbed /\ consumer \in {"start", "waiting"} =>
      /\ sender \notin {"finished", "raised"} => yielded \o queue = emitted
      /\ sender = "finished" => yielded \o queue = Append(emitted, Stt!None)

\* The generator leaves its loop for the end mark, behind the last turn.
AtTheEnd ==
    /\ Undisturbed /\ consumer = "joining" =>
         /\ sender \in {"finished", "raised"}
         /\ sender = "finished" => yielded = emitted
    /\ Undisturbed /\ consumer \in {"closing", "done"} /\ ~raised =>
         sender = "finished" /\ yielded = emitted

QueueInv == SttTypes /\ SenderInv /\ InOrder /\ AtTheEnd

-----------------------------------------------------------------------------
(* Taking from and putting into a queue behind what was taken before.      *)

\* Put at the end.
LEMMA PutBehind ==
  ASSUME NEW taken \in Seq(Nat), NEW rest \in Seq(Nat), NEW x \in Nat
  PROVE  taken \o Append(rest, x) = Append(taken \o rest, x)
OBVIOUS

\* Take the first.
LEMMA TakeFirst ==
  ASSUME NEW taken \in Seq(Nat), NEW rest \in Seq(Nat), rest # << >>
  PROVE  Append(taken, Head(rest)) \o Tail(rest) = taken \o rest
OBVIOUS

\* What was taken, and the first that was not.
LEMMA WhatComesNext ==
  ASSUME NEW taken \in Seq(Nat), NEW rest \in Seq(Nat), rest # << >>
  PROVE  /\ (taken \o rest)[Len(taken) + 1] = Head(rest)
         /\ \A i \in 1 .. Len(taken) : (taken \o rest)[i] = taken[i]
OBVIOUS

\* Without an end mark in the whole the first is none.
LEMMA FirstIsTurn ==
  ASSUME NEW taken \in Seq(Nat), NEW rest \in Seq(Nat), rest # << >>,
         taken \o rest \in Seq(Recognised)
  PROVE  Head(rest) # Stt!None
<1>1. (taken \o rest)[Len(taken) + 1] = Head(rest)
  OBVIOUS
<1>2. Len(taken) + 1 \in DOMAIN (taken \o rest)
  OBVIOUS
<1>3. (taken \o rest)[Len(taken) + 1] \in Recognised
  <2> DEFINE s == taken \o rest
  <2>1. s \in Seq(Recognised) /\ Len(taken) + 1 \in 1 .. Len(s)
    BY <1>2
  <2> HIDE DEF s
  <2>2. s[Len(taken) + 1] \in Recognised
    BY <2>1, ElementOfSeq
  <2> QED
    BY <2>2 DEF s
<1> QED
  BY <1>1, <1>3 DEF Recognised

\* With the end mark only at the end of the whole, who finds it first has
\* taken all the rest.
LEMMA MarkIsLast ==
  ASSUME NEW taken \in Seq(Nat), NEW rest \in Seq(Nat), rest # << >>,
         NEW spoken \in Seq(Recognised), taken \o rest = Append(spoken, Stt!None),
         Head(rest) = Stt!None
  PROVE  taken = spoken
<1>1. spoken \in Seq(Nat)
  BY DEF Recognised
<1>2. Len(taken) + Len(rest) = Len(spoken) + 1 /\ Len(rest) >= 1
  <2>1. Len(taken \o rest) = Len(taken) + Len(rest)
    OBVIOUS
  <2>2. Len(Append(spoken, Stt!None)) = Len(spoken) + 1
    BY <1>1 DEF Stt!None
  <2> QED
    BY <2>1, <2>2
<1>3. Append(spoken, Stt!None)[Len(taken) + 1] = Stt!None
  <2>1. (taken \o rest)[Len(taken) + 1] = Head(rest)
    BY WhatComesNext
  <2> QED
    BY <2>1
<1>4. ASSUME Len(taken) < Len(spoken) PROVE FALSE
  <2>1. Append(spoken, Stt!None)[Len(taken) + 1] = spoken[Len(taken) + 1]
    BY <1>4, <1>1 DEF Stt!None
  <2>2. spoken[Len(taken) + 1] \in Recognised
    BY <1>4, ElementOfSeq
  <2> QED
    BY <1>3, <2>1, <2>2 DEF Recognised
<1>5. Len(taken) = Len(spoken)
  BY <1>1, <1>2, <1>4
<1>6. \A i \in 1 .. Len(taken) : taken[i] = spoken[i]
  <2> SUFFICES ASSUME NEW i \in 1 .. Len(taken) PROVE taken[i] = spoken[i]
    OBVIOUS
  <2>1. (taken \o rest)[i] = taken[i]
    BY WhatComesNext
  <2>2. Append(spoken, Stt!None)[i] = spoken[i]
    BY <1>1, <1>5 DEF Stt!None
  <2> QED
    BY <2>1, <2>2
<1> QED
  BY <1>1, <1>5, <1>6, SeqEqual

-----------------------------------------------------------------------------
(* The steps.                                                              *)

\* QueueInv holds at first.
LEMMA QueueInit ==
  ASSUME Stt!Init
  PROVE  QueueInv
<1>1. /\ queue = << >> /\ emitted = << >> /\ yielded = << >> /\ consumer = "start"
      /\ sender = "none" /\ ~connected
  BY DEF Stt!Init
<1>2. << >> \in Seq(Nat) /\ << >> \in Seq(Recognised)
  OBVIOUS
<1>3. SttTypes
  BY <1>1, <1>2 DEF SttTypes, Stt!Init
<1>4. << >> \o << >> = << >>
  OBVIOUS
<1> QED
  BY <1>1, <1>3, <1>4 DEF QueueInv, SenderInv, InOrder, AtTheEnd

\* A callback of the SDK comes only while the sender has not finished.
LEMMA OnTurnStep ==
  ASSUME QueueInv, Stt!on_turn
  PROVE  QueueInv'
<1> USE DEF QueueInv
<1> DEFINE turn == Len(emitted) + 1
<1>1. /\ queue' = Append(queue, turn) /\ emitted' = Append(emitted, turn)
      /\ UNCHANGED <<sender, consumer, connected, yielded, errored, raised, cancelled>>
      /\ connected
  BY DEF Stt!on_turn, Stt!senderVars, Stt!callerVars
<1>2. turn \in Recognised /\ turn \in Nat
  BY DEF SttTypes, Recognised, Stt!None
<1> HIDE DEF turn
<1>3. emitted' \in Seq(Recognised) /\ queue' \in Seq(Nat)
  BY <1>1, <1>2 DEF SttTypes
<1>4. sender \notin {"none", "finished"} /\ consumer # "start"
  BY <1>1 DEF SenderInv
<1>5. SttTypes'
  BY <1>1, <1>3 DEF SttTypes
<1>6. SenderInv'
  BY <1>1, <1>4 DEF SenderInv
<1>7. yielded \o queue = emitted => yielded' \o queue' = emitted'
  BY <1>1, <1>2, PutBehind DEF SttTypes
<1>8. InOrder'
  BY <1>1, <1>4, <1>7 DEF InOrder, Undisturbed
<1>9. AtTheEnd'
  BY <1>1, <1>4 DEF AtTheEnd, Undisturbed
<1> QED
  BY <1>5, <1>6, <1>8, <1>9

\* Steps that leave the queue and what was yielded alone.
LEMMA QuietStep ==
  ASSUME QueueInv, UNCHANGED <<queue, emitted, yielded>>,
         Stt!Start \/ (\E d \in Durations : Stt!Read(d)) \/ Stt!ReadEnd \/ Stt!Sent \/ Stt!Join \/ Stt!Abandon
           \/ Stt!Close \/ Stt!Cancel \/ Stt!AudioEnds
  PROVE  QueueInv'
<1> USE DEF QueueInv
<1>1. CASE Stt!Start
  <2>1. consumer = "start" /\ sender = "none" /\ UNCHANGED <<cancelled, errored>>
    BY <1>1 DEF Stt!Start, SenderInv, Stt!sdkVars, Stt!callerVars
  <2>2. CASE sender' = "reading" /\ consumer' = "waiting" /\ raised' = raised
    BY <2>1, <2>2 DEF SttTypes, SenderInv, InOrder, AtTheEnd, Undisturbed
  <2>3. CASE connected' = connected /\ sender' = sender /\ consumer' = "closing" /\ raised' = TRUE
    BY <2>1, <2>3 DEF SttTypes, SenderInv, InOrder, AtTheEnd, Undisturbed
  <2> QED
    BY <1>1, <2>2, <2>3 DEF Stt!Start
<1>2. ASSUME NEW d \in Durations, Stt!Read(d) PROVE QueueInv'
  BY <1>2 DEF Stt!Read, SttTypes, SenderInv, InOrder, AtTheEnd, Undisturbed, Stt!sdkVars, Stt!callerVars
<1>3. CASE Stt!ReadEnd
  BY <1>3 DEF Stt!ReadEnd, SttTypes, SenderInv, InOrder, AtTheEnd, Undisturbed, Stt!sdkVars, Stt!callerVars
<1>4. CASE Stt!Sent
  BY <1>4 DEF Stt!Sent, SttTypes, SenderInv, InOrder, AtTheEnd, Undisturbed, Stt!sdkVars, Stt!callerVars
<1>5. CASE Stt!Join
  BY <1>5 DEF Stt!Join, SttTypes, SenderInv, InOrder, AtTheEnd, Undisturbed, Stt!senderVars, Stt!sdkVars,
     Stt!callerVars
<1>6. CASE Stt!Abandon
  BY <1>6 DEF Stt!Abandon, SttTypes, SenderInv, InOrder, AtTheEnd, Undisturbed, Stt!senderVars,
     Stt!sdkVars, Stt!callerVars
<1>7. CASE Stt!Close
  BY <1>7 DEF Stt!Close, SttTypes, SenderInv, InOrder, AtTheEnd, Undisturbed, Stt!senderVars, Stt!sdkVars,
     Stt!callerVars
<1>8. CASE Stt!Cancel
  BY <1>8 DEF Stt!Cancel, SttTypes, SenderInv, InOrder, AtTheEnd, Undisturbed
<1>9. CASE Stt!AudioEnds
  BY <1>9 DEF Stt!AudioEnds, SttTypes, SenderInv, InOrder, AtTheEnd, Undisturbed
<1> QED
  BY <1>1, <1>2, <1>3, <1>4, <1>5, <1>6, <1>7, <1>8, <1>9

\* Steps that put an end mark.
LEMMA MarkStep ==
  ASSUME QueueInv, Stt!on_error \/ Stt!Finish \/ Stt!SendRaises \/ Stt!StopSender
  PROVE  QueueInv'
<1> USE DEF QueueInv
<1>1. queue' = Append(queue, Stt!None) /\ UNCHANGED <<emitted, yielded, consumer, cancelled, raised>>
  BY DEF Stt!on_error, Stt!Finish, Stt!Disconnect, Stt!SendRaises, Stt!StopSender, Stt!SenderFails, Stt!sdkVars,
     Stt!callerVars, Stt!senderVars
<1>2. queue' \in Seq(Nat)
  BY <1>1 DEF SttTypes, Stt!None
<1>3. yielded \o queue = emitted => yielded' \o queue' = Append(emitted', Stt!None)
  BY <1>1, PutBehind DEF SttTypes, Stt!None
<1>4. CASE Stt!on_error
  <2>1. errored' /\ connected /\ UNCHANGED <<sender, connected>>
    BY <1>4 DEF Stt!on_error, Stt!senderVars
  <2> QED
    BY <1>1, <1>2, <2>1 DEF SttTypes, SenderInv, InOrder, AtTheEnd, Undisturbed
<1>5. CASE Stt!Finish
  <2>1. sender = "finishing" /\ sender' = "finished" /\ ~connected' /\ errored' = errored
    BY <1>5 DEF Stt!Finish, Stt!Disconnect, Stt!sdkVars
  <2> QED
    BY <1>1, <1>2, <1>3, <2>1 DEF SttTypes, SenderInv, InOrder, AtTheEnd, Undisturbed
<1>6. CASE Stt!SendRaises \/ Stt!StopSender
  <2>1. /\ sender \notin {"none", "finished", "returned", "raised"} /\ sender' = "raised"
        /\ UNCHANGED <<connected, errored>>
    BY <1>6 DEF Stt!SendRaises, Stt!StopSender, Stt!SenderFails, Stt!SenderOver, Stt!sdkVars
  <2> QED
    BY <1>1, <1>2, <2>1 DEF SttTypes, SenderInv, InOrder, AtTheEnd, Undisturbed
<1> QED
  BY <1>4, <1>5, <1>6

\* The generator takes the next of the queue.
LEMMA GetStep ==
  ASSUME QueueInv, Stt!Get
  PROVE  QueueInv'
<1> USE DEF QueueInv
<1> DEFINE got == Head(queue)
<1>1. /\ consumer = "waiting" /\ queue # << >> /\ queue' = Tail(queue)
      /\ UNCHANGED <<sender, connected, raised, emitted, errored, cancelled>>
  BY DEF Stt!Get, Stt!senderVars, Stt!sdkVars, Stt!callerVars
<1>2. got \in Nat /\ queue' \in Seq(Nat)
  BY <1>1 DEF SttTypes
<1>3. CASE got = Stt!None
  <2>1. consumer' = "joining" /\ yielded' = yielded
    BY <1>3 DEF Stt!Get
  <2>2. ASSUME Undisturbed PROVE sender \in {"finished", "raised"}
    <3>1. yielded \o queue \notin Seq(Recognised)
      BY <1>1, <1>3, FirstIsTurn DEF SttTypes
    <3> QED
      BY <1>1, <2>2, <3>1 DEF InOrder, SttTypes
  <2>3. ASSUME Undisturbed, sender = "finished" PROVE yielded = emitted
    <3>1. yielded \o queue = Append(emitted, Stt!None)
      BY <1>1, <2>3 DEF InOrder
    <3> QED
      BY <1>1, <1>3, <3>1, MarkIsLast DEF SttTypes
  <2> QED
    BY <1>1, <1>2, <2>1, <2>2, <2>3 DEF SttTypes, SenderInv, InOrder, AtTheEnd, Undisturbed
<1>4. CASE got # Stt!None /\ cancelled
  <2>1. consumer' = "closing" /\ yielded' = yielded
    BY <1>4 DEF Stt!Get
  <2> QED
    BY <1>1, <1>2, <1>4, <2>1 DEF SttTypes, SenderInv, InOrder, AtTheEnd, Undisturbed
<1>5. CASE got # Stt!None /\ ~cancelled
  <2>1. consumer' = "waiting" /\ yielded' = Append(yielded, got)
    BY <1>5 DEF Stt!Get
  <2>2. yielded' \in Seq(Nat)
    BY <1>2, <2>1 DEF SttTypes
  <2>3. yielded' \o queue' = yielded \o queue
    BY <1>1, <2>1, TakeFirst DEF SttTypes
  <2> QED
    BY <1>1, <1>2, <2>1, <2>2, <2>3 DEF SttTypes, SenderInv, InOrder, AtTheEnd, Undisturbed
<1> QED
  BY <1>3, <1>4, <1>5 DEF SttTypes

\* Every step of the generator, the sender, the SDK and the runtime keeps
\* QueueInv.
LEMMA QueueStep ==
  ASSUME QueueInv, [Stt!Next]_(Stt!sttVars)
  PROVE  QueueInv'
<1>1. CASE Stt!on_turn
  BY <1>1, OnTurnStep
<1>2. CASE Stt!Get
  BY <1>2, GetStep
<1>3. CASE Stt!on_error \/ Stt!Finish \/ Stt!SendRaises \/ Stt!StopSender
  BY <1>3, MarkStep
<1>4. CASE Stt!Start \/ (\E d \in Durations : Stt!Read(d)) \/ Stt!ReadEnd \/ Stt!Sent \/ Stt!Join \/ Stt!Abandon
             \/ Stt!Close \/ Stt!Cancel \/ Stt!AudioEnds
  <2>1. UNCHANGED <<queue, emitted, yielded>>
    BY <1>4 DEF Stt!Start, Stt!Read, Stt!ReadEnd, Stt!Sent, Stt!Join, Stt!Abandon, Stt!Close, Stt!Cancel, Stt!AudioEnds, Stt!sdkVars
  <2> QED
    BY <1>4, <2>1, QuietStep
<1>5. CASE UNCHANGED Stt!sttVars
  BY <1>5 DEF Stt!sttVars, QueueInv, SttTypes, SenderInv, InOrder, AtTheEnd, Undisturbed
<1> QED
  BY <1>1, <1>2, <1>3, <1>4, <1>5 DEF Stt!Next, Stt!Transcribe

-----------------------------------------------------------------------------
\* The inductive invariant holds in every reachable state.
THEOREM QueueInvariant == Stt!Spec => []QueueInv
<1> QED
  BY QueueInit, QueueStep, PTL DEF Stt!Spec

\* A transcribe call that returns normally has yielded every turn AssemblyAI
\* recognised, in order, however its sender, the SDK's callbacks and its
\* consumer interleave.
THEOREM TranscribeLosesNoTurn == Stt!Spec => []Stt!NoTurnLost
<1>1. QueueInv => Stt!NoTurnLost
  BY DEF QueueInv, AtTheEnd, Undisturbed, Stt!NoTurnLost
<1> QED
  BY <1>1, QueueInvariant, PTL

-----------------------------------------------------------------------------
(* The fragments of tool calls                                             *)

\* The fragments s of each call are in the accumulator of its index, and the
\* id that its first fragment had; no index has two accumulators.
Accumulated(acc, s) ==
    /\ acc \in Seq([index : Indices, id : {"given", "none"}, parts : Seq(Nat)])
    /\ \A j, k \in 1 .. Len(acc) : acc[j].index = acc[k].index => j = k
    /\ \A i \in Indices : s[i] > 0 <=> \E k \in 1 .. Len(acc) : acc[k].index = i
    /\ \A k \in 1 .. Len(acc) :
         /\ acc[k].id = IF acc[k].index \in named THEN "given" ELSE "none"
         /\ acc[k].parts = Llm!Parts(s[acc[k].index])

LlmTypes ==
    /\ plan \in [Indices -> Nat] /\ sent \in [Indices -> Nat]
    /\ out.finished \in BOOLEAN
    /\ llmPc \in {"streaming", "returned", "raised"}

\* As long as the stream goes on, the collector holds what was sent.
CollectorInv ==
    /\ LlmTypes
    /\ llmPc = "streaming" => Accumulated(collector, sent)
    /\ Llm!CallsAreWhole

\* One fragment more.
LEMMA PartsGrow ==
  ASSUME NEW n \in Nat
  PROVE  /\ Llm!Parts(n) \in Seq(Nat)
         /\ Append(Llm!Parts(n), n + 1) = Llm!Parts(n + 1)
<1>1. Llm!Parts(n) = [k \in 1 .. n |-> k] /\ Llm!Parts(n + 1) = [k \in 1 .. n + 1 |-> k]
  BY DEF Llm!Parts
<1>2. Llm!Parts(n) \in Seq(Nat) /\ Len(Llm!Parts(n)) = n
  BY <1>1
<1>. QED  BY <1>1, <1>2

\* feed_delta keeps the accumulators in step with what was sent.
LEMMA FeedDelta ==
  ASSUME NEW acc, NEW s \in [Indices -> Nat], Accumulated(acc, s), NEW i \in Indices
  PROVE  Accumulated(Llm!feed_delta(acc, i, s[i] + 1), [s EXCEPT ![i] = @ + 1])
<1> DEFINE known == {k \in 1 .. Len(acc) : acc[k].index = i}
           id == IF s[i] + 1 = 1 /\ i \in named THEN "given" ELSE "none"
           t == [s EXCEPT ![i] = @ + 1]
           Rec == [index : Indices, id : {"given", "none"}, parts : Seq(Nat)]
<1>1. /\ acc \in Seq(Rec) /\ Len(acc) \in Nat /\ s[i] \in Nat
      /\ \A k \in 1 .. Len(acc) : acc[k] \in Rec
  <2>1. acc \in Seq(Rec)
    BY DEF Accumulated
  <2> HIDE DEF Rec
  <2>. QED  BY <2>1
<1>2. /\ t \in [Indices -> Nat] /\ t[i] = s[i] + 1 /\ t[i] > 0
      /\ \A j \in Indices : j # i => t[j] = s[j]
  BY <1>1
<1>3. /\ Llm!Parts(s[i]) \in Seq(Nat)
      /\ Append(Llm!Parts(s[i]), s[i] + 1) = Llm!Parts(s[i] + 1)
      /\ Llm!Parts(s[i] + 1) \in Seq(Nat)
  <2>1. s[i] \in Nat /\ s[i] + 1 \in Nat
    BY <1>1
  <2>. QED  BY <2>1, PartsGrow
<1> HIDE DEF t
<1>4. CASE known = {}
  <2> DEFINE new == [index |-> i, id |-> id, parts |-> <<s[i] + 1>>]
             b == Append(acc, new)
  <2>1. Llm!feed_delta(acc, i, s[i] + 1) = b
    BY <1>4 DEF Llm!feed_delta
  <2>2. s[i] = 0
    <3>1. s[i] > 0 <=> \E k \in 1 .. Len(acc) : acc[k].index = i
      BY DEF Accumulated
    <3>. QED  BY <1>1, <1>4, <3>1
  <2>3. new.parts = Llm!Parts(1) /\ new \in Rec /\ new.index = i
        /\ new.id = IF i \in named THEN "given" ELSE "none"
    BY <2>2 DEF Llm!Parts
  <2> HIDE DEF new
  <2>4. /\ b \in Seq(Rec) /\ Len(b) = Len(acc) + 1 /\ b[Len(acc) + 1] = new
        /\ \A k \in 1 .. Len(acc) : b[k] = acc[k]
    BY <1>1, <2>3
  <2> HIDE DEF b
  <2>5. \A j, k \in 1 .. Len(b) : b[j].index = b[k].index => j = k
    <3>1. \A k \in 1 .. Len(acc) : b[k].index = acc[k].index /\ acc[k].index # i
      BY <1>4, <2>4
    <3>2. b[Len(acc) + 1].index = i
      BY <2>3, <2>4
    <3>3. \A k \in 1 .. Len(b) : k \in 1 .. Len(acc) \/ k = Len(acc) + 1
      BY <1>1, <2>4
    <3>4. \A j, k \in 1 .. Len(acc) : acc[j].index = acc[k].index => j = k
      BY DEF Accumulated
    <3>. QED  BY <3>1, <3>2, <3>3, <3>4, Zenon
  <2>6. \A j \in Indices : t[j] > 0 <=> \E k \in 1 .. Len(b) : b[k].index = j
    <3>1. Len(acc) + 1 \in 1 .. Len(b) /\ b[Len(acc) + 1].index = i
      BY <1>1, <2>3, <2>4
    <3>2. ASSUME NEW j \in Indices, j # i
          PROVE  t[j] > 0 <=> \E k \in 1 .. Len(b) : b[k].index = j
      <4>1. t[j] > 0 <=> \E k \in 1 .. Len(acc) : acc[k].index = j
        BY <1>2, <3>2 DEF Accumulated
      <4>2. (\E k \in 1 .. Len(b) : b[k].index = j) <=> \E k \in 1 .. Len(acc) : acc[k].index = j
        <5>1. /\ \A k \in 1 .. Len(acc) : k \in 1 .. Len(b) /\ b[k] = acc[k]
              /\ \A k \in 1 .. Len(b) : k \in 1 .. Len(acc) \/ k = Len(acc) + 1
          <6>1. Len(acc) \in Nat /\ Len(b) = Len(acc) + 1
            BY <1>1, <2>4
          <6>2. \A k \in 1 .. Len(acc) : b[k] = acc[k]
            BY <2>4
          <6>. QED  BY <6>1, <6>2
        <5>. QED  BY <3>1, <3>2, <5>1, Zenon
      <4>. QED  BY <4>1, <4>2
    <3>. QED  BY <1>2, <3>1, <3>2
  <2>7. ASSUME NEW k \in 1 .. Len(b)
        PROVE  /\ b[k].id = IF b[k].index \in named THEN "given" ELSE "none"
               /\ b[k].parts = Llm!Parts(t[b[k].index])
    <3>1. CASE k = Len(acc) + 1
      BY <1>2, <2>2, <2>3, <2>4, <3>1
    <3>2. CASE k \in 1 .. Len(acc)
      <4>1. b[k] = acc[k] /\ acc[k].index # i /\ acc[k].index \in Indices
        BY <1>1, <1>4, <2>4, <3>2
      <4>2. /\ acc[k].id = IF acc[k].index \in named THEN "given" ELSE "none"
            /\ acc[k].parts = Llm!Parts(s[acc[k].index])
        BY <3>2 DEF Accumulated
      <4>3. t[acc[k].index] = s[acc[k].index]
        BY <1>2, <4>1
      <4>. QED  BY <4>1, <4>2, <4>3
    <3>3. k \in 1 .. Len(acc) \/ k = Len(acc) + 1
      BY <1>1, <2>4
    <3>. QED  BY <3>1, <3>2, <3>3
  <2>8. Accumulated(b, t)
    <3> HIDE DEF t
    <3>. QED  BY <2>4, <2>5, <2>6, <2>7 DEF Accumulated
  <2>. QED  BY <2>1, <2>8 DEF t
<1>5. CASE known # {}
  <2> DEFINE c == CHOOSE k \in known : TRUE
  <2>1. c \in 1 .. Len(acc) /\ acc[c].index = i
    BY <1>5
  <2> HIDE DEF c
  <2>2. /\ s[i] > 0 /\ acc[c] \in Rec /\ acc[c].parts = Llm!Parts(s[i])
        /\ acc[c].id = IF i \in named THEN "given" ELSE "none"
    BY <1>1, <2>1 DEF Accumulated
  <2> DEFINE new == [acc[c] EXCEPT !.parts = Append(@, s[i] + 1),
                                   !.id = IF id = "none" THEN @ ELSE id]
             b == [acc EXCEPT ![c] = new]
  <2>3. Llm!feed_delta(acc, i, s[i] + 1) = b
    BY <1>5 DEF Llm!feed_delta, c
  <2>4. id = "none"
    BY <1>1, <2>2
  <2>5. /\ new.index = i /\ new.parts = Llm!Parts(s[i] + 1)
        /\ new.id = IF i \in named THEN "given" ELSE "none"
        /\ new \in Rec
    BY <1>3, <2>1, <2>2, <2>4
  <2> HIDE DEF new
  <2>6. /\ b \in Seq(Rec) /\ Len(b) = Len(acc) /\ b[c] = new
        /\ \A k \in 1 .. Len(acc) : k # c => b[k] = acc[k]
    BY <1>1, <2>1, <2>5
  <2> HIDE DEF b
  <2>7. \A k \in 1 .. Len(b) : b[k].index = acc[k].index
    BY <2>1, <2>5, <2>6
  <2>8. \A j, k \in 1 .. Len(b) : b[j].index = b[k].index => j = k
    BY <2>6, <2>7 DEF Accumulated
  <2>9. \A j \in Indices : t[j] > 0 <=> \E k \in 1 .. Len(b) : b[k].index = j
    <3>1. \A j \in Indices : t[j] > 0 <=> s[j] > 0
      BY <1>1, <1>2, <2>2
    <3>2. \A j \in Indices : s[j] > 0 <=> \E k \in 1 .. Len(acc) : acc[k].index = j
      BY DEF Accumulated
    <3>. QED  BY <3>1, <3>2, <2>6, <2>7, Zenon
  <2>10. ASSUME NEW k \in 1 .. Len(b)
         PROVE  /\ b[k].id = IF b[k].index \in named THEN "given" ELSE "none"
                /\ b[k].parts = Llm!Parts(t[b[k].index])
    <3>1. CASE k = c
      BY <1>2, <2>5, <2>6, <3>1
    <3>2. CASE k # c
      <4>1. b[k] = acc[k] /\ acc[k].index # i /\ acc[k].index \in Indices /\ k \in 1 .. Len(acc)
        BY <1>1, <2>1, <2>6, <3>2 DEF Accumulated
      <4>2. /\ acc[k].id = IF acc[k].index \in named THEN "given" ELSE "none"
            /\ acc[k].parts = Llm!Parts(s[acc[k].index])
        BY <4>1 DEF Accumulated
      <4>3. t[acc[k].index] = s[acc[k].index]
        BY <1>2, <4>1
      <4>. QED  BY <4>1, <4>2, <4>3
    <3>. QED  BY <3>1, <3>2
  <2>11. Accumulated(b, t)
    <3> HIDE DEF t
    <3>. QED  BY <2>6, <2>8, <2>9, <2>10 DEF Accumulated
  <2>. QED  BY <2>3, <2>11 DEF t
<1>. QED  BY <1>4, <1>5

\* One round of the loop over delta.tool_calls.
Round(r, i) == [acc |-> Llm!feed_delta(r.acc, i, r.sent[i] + 1),
                sent |-> [r.sent EXCEPT ![i] = @ + 1]]

\* The rounds of the loop are those of Fed: what its recursion defines exists.
LEMMA FedRounds ==
  ASSUME NEW d \in Seq(Indices)
  PROVE  /\ Llm!Fed(d)[0] = [acc |-> collector, sent |-> sent]
         /\ \A k \in 1 .. Len(d) : Llm!Fed(d)[k] = Round(Llm!Fed(d)[k - 1], d[k])
<1> DEFINE first == [acc |-> collector, sent |-> sent]
           Rounds(f, N) == f = [k \in 0 .. N |-> IF k = 0 THEN first ELSE Round(f[k - 1], d[k])]
           T == {N \in Nat : \E f : Rounds(f, N)}
<1>0. Llm!Fed(d) = CHOOSE f : Rounds(f, Len(d))
  BY DEF Llm!Fed, Round
<1> HIDE DEF first
<1>1. 0 \in T
  <2> DEFINE g == [k \in 0 .. 0 |-> first]
  <2>1. Rounds(g, 0)
    OBVIOUS
  <2>. QED  BY <2>1
<1>2. ASSUME NEW N \in Nat, N \in T PROVE N + 1 \in T
  <2>1. PICK f : Rounds(f, N)
    BY <1>2
  <2> DEFINE g == [k \in 0 .. N + 1 |-> IF k = 0 THEN first ELSE Round(f[k - 1], d[k])]
  <2>2. \A k \in 0 .. N : g[k] = f[k]
    <3>1. \A k \in 0 .. N : f[k] = IF k = 0 THEN first ELSE Round(f[k - 1], d[k])
      BY <2>1
    <3>2. \A k \in 0 .. N : k \in 0 .. N + 1
      OBVIOUS
    <3>. QED  BY <3>1, <3>2
  <2>3. \A k \in 0 .. N + 1 : k # 0 => k - 1 \in 0 .. N
    OBVIOUS
  <2>4. g = [k \in 0 .. N + 1 |-> IF k = 0 THEN first ELSE Round(g[k - 1], d[k])]
    <3>1. \A k \in 0 .. N + 1 : k # 0 => g[k - 1] = f[k - 1]
      BY <2>2, <2>3
    <3> DEFINE G == g
    <3>2. G = [k \in 0 .. N + 1 |-> IF k = 0 THEN first ELSE Round(f[k - 1], d[k])]
      OBVIOUS
    <3>3. \A k \in 0 .. N + 1 : k # 0 => G[k - 1] = f[k - 1]
      BY <3>1
    <3> HIDE DEF G
    <3>4. G = [k \in 0 .. N + 1 |-> IF k = 0 THEN first ELSE Round(G[k - 1], d[k])]
      BY <3>2, <3>3
    <3>. QED  BY <3>4 DEF G
  <2>5. Rounds(g, N + 1)
    BY <2>4
  <2>6. N + 1 \in Nat
    OBVIOUS
  <2> HIDE DEF g, Rounds
  <2>. QED  BY <2>5, <2>6
<1>3. PICK g : Rounds(g, Len(d))
  <2>1. Len(d) \in Nat
    OBVIOUS
  <2> HIDE DEF Rounds
  <2>2. \A N \in Nat : N \in T
    <3> HIDE DEF T
    <3>. QED  BY <1>1, <1>2, NatSet
  <2>. QED  BY <2>1, <2>2
<1> DEFINE F == Llm!Fed(d)
<1>4. Rounds(F, Len(d))
  <2> HIDE DEF Rounds
  <2>. QED  BY <1>0, <1>3
<1>5. \A k \in 0 .. Len(d) : F[k] = IF k = 0 THEN first ELSE Round(F[k - 1], d[k])
  <2>1. F = [k \in 0 .. Len(d) |-> IF k = 0 THEN first ELSE Round(F[k - 1], d[k])]
    BY <1>4
  <2> HIDE DEF F
  <2>. QED  BY <2>1
<1>6. 0 \in 0 .. Len(d) /\ \A k \in 1 .. Len(d) : k \in 0 .. Len(d) /\ k # 0
  OBVIOUS
<1> HIDE DEF F
<1>7. F[0] = first /\ \A k \in 1 .. Len(d) : F[k] = Round(F[k - 1], d[k])
  BY <1>5, <1>6
<1>. QED  BY <1>7 DEF F, first

\* After every round the accumulators hold what was sent until then.
LEMMA FedAccumulates ==
  ASSUME NEW d \in Seq(Indices), sent \in [Indices -> Nat], Accumulated(collector, sent)
  PROVE  LET last == Llm!Fed(d)[Len(d)]
         IN  last.sent \in [Indices -> Nat] /\ Accumulated(last.acc, last.sent)
<1> DEFINE F == Llm!Fed(d)
           OK(r) == r.sent \in [Indices -> Nat] /\ Accumulated(r.acc, r.sent)
           T == {k \in Nat : k <= Len(d) => OK(F[k])}
<1>1. /\ F[0] = [acc |-> collector, sent |-> sent]
      /\ \A k \in 1 .. Len(d) : F[k] = Round(F[k - 1], d[k])
  BY FedRounds
<1>2. Len(d) \in Nat /\ \A k \in 1 .. Len(d) : d[k] \in Indices
  OBVIOUS
<1> HIDE DEF F
<1>3. 0 \in T
  BY <1>1
<1>4. ASSUME NEW k \in Nat, k \in T PROVE k + 1 \in T
  <2> HIDE DEF OK
  <2> SUFFICES ASSUME k + 1 <= Len(d) PROVE OK(F[k + 1])
    OBVIOUS
  <2> USE DEF OK
  <2>1. k <= Len(d) /\ k + 1 \in 1 .. Len(d) /\ (k + 1) - 1 = k
    BY <1>2
  <2>2. OK(F[k])
    BY <1>4, <2>1
  <2> DEFINE r == F[k]
             i == d[k + 1]
  <2>3. F[k + 1] = Round(r, i) /\ i \in Indices
    BY <1>1, <1>2, <2>1
  <2> HIDE DEF r, i
  <2>4. r.sent \in [Indices -> Nat] /\ Accumulated(r.acc, r.sent)
    BY <2>2 DEF r
  <2> HIDE DEF OK, T
  <2>5. /\ Round(r, i).acc = Llm!feed_delta(r.acc, i, r.sent[i] + 1)
        /\ Round(r, i).sent = [r.sent EXCEPT ![i] = @ + 1]
    BY DEF Round
  <2>6. [r.sent EXCEPT ![i] = @ + 1] \in [Indices -> Nat]
    <3> DEFINE u == r.sent
    <3>1. u \in [Indices -> Nat] /\ i \in Indices
      BY <2>3, <2>4
    <3> HIDE DEF u
    <3>2. [u EXCEPT ![i] = @ + 1] \in [Indices -> Nat]
      BY <3>1
    <3>. QED  BY <3>2 DEF u
  <2>7. Accumulated(Llm!feed_delta(r.acc, i, r.sent[i] + 1), [r.sent EXCEPT ![i] = @ + 1])
    BY <2>3, <2>4, FeedDelta
  <2>. QED  BY <2>3, <2>5, <2>6, <2>7 DEF OK
<1>5. \A k \in Nat : k \in T
  <2> HIDE DEF T
  <2>. QED  BY <1>3, <1>4, NatSet
<1>6. OK(F[Len(d)])
  BY <1>2, <1>5
<1>. QED  BY <1>6 DEF F

\* x is inserted into the n ascending numbers v, which gives w.
Insertion(n, v, x, w) ==
    /\ v \in [1 .. n -> Nat] /\ x \in Nat
    /\ \A a, b \in 1 .. n : a < b => v[a] < v[b]
    /\ \A m \in 1 .. n : v[m] # x
    /\ \A m \in 1 .. n + 1 :
         w[m] = IF m <= n /\ v[m] < x THEN v[m]
                ELSE IF m = 1 \/ v[m - 1] < x THEN x ELSE v[m - 1]

\* The numbers ascend with it.
LEMMA Inserted ==
  ASSUME NEW n \in Nat, NEW v, NEW x, NEW w, Insertion(n, v, x, w),
         NEW j \in 1 .. n + 1, NEW k \in 1 .. n + 1, j < k
  PROVE  w[j] < w[k]
<1> USE DEF Insertion
<1>0. \A m \in 1 .. n : v[m] \in Nat
  OBVIOUS
<1>1. CASE k <= n /\ v[k] < x
  <2>1. j \in 1 .. n /\ k \in 1 .. n
    BY <1>1
  <2>2. v[j] \in Nat /\ v[k] \in Nat /\ v[j] < v[k]
    BY <1>0, <2>1
  <2>3. v[j] < x
    BY <1>1, <2>2
  <2>4. w[j] = v[j] /\ w[k] = v[k]
    BY <1>1, <2>1, <2>3
  <2>. QED  BY <2>2, <2>4
<1>2. CASE ~(k <= n /\ v[k] < x)
  <2>1. k # 1 /\ k - 1 \in 1 .. n /\ j \in 1 .. n /\ (j = k - 1 \/ j < k - 1)
    OBVIOUS
  <2>2. v[k - 1] \in Nat /\ v[j] \in Nat /\ v[j] # x /\ v[k - 1] # x
    BY <1>0, <2>1
  <2>3. v[j] = v[k - 1] \/ v[j] < v[k - 1]
    BY <2>1
  <2>4. w[k] = IF v[k - 1] < x THEN x ELSE v[k - 1]
    BY <1>2, <2>1
  <2>5. CASE v[j] < x
    <3>1. w[j] = v[j]
      BY <2>1, <2>5
    <3>. QED  BY <2>2, <2>3, <2>4, <2>5, <3>1
  <2>6. CASE ~(v[j] < x)
    <3>1. x < v[j]
      BY <2>2, <2>6
    <3>2. w[k] = v[k - 1]
      BY <2>2, <2>3, <2>4, <3>1
    <3>3. CASE j = 1 \/ v[j - 1] < x
      <4>1. w[j] = x
        BY <2>1, <2>6, <3>3
      <4>. QED  BY <2>2, <2>3, <3>1, <3>2, <4>1
    <3>4. CASE ~(j = 1 \/ v[j - 1] < x)
      <4>1. w[j] = v[j - 1]
        BY <2>1, <2>6, <3>4
      <4>2. j - 1 \in 1 .. n /\ j - 1 < k - 1
        BY <2>1, <3>4
      <4>3. v[j - 1] < v[k - 1]
        BY <2>1, <4>2
      <4>. QED  BY <3>2, <4>1, <4>3
    <3>. QED  BY <3>3, <3>4
  <2>. QED  BY <2>5, <2>6
<1>. QED  BY <1>1, <1>2

\* Different numbers can be put in ascending order.
LEMMA CanSort ==
  ASSUME NEW N \in Nat, NEW f \in [1 .. N -> Nat],
         \A j, k \in 1 .. N : f[j] = f[k] => j = k
  PROVE  \E p \in [1 .. N -> 1 .. N] : \A j, k \in 1 .. N : j < k => f[p[j]] < f[p[k]]
<1> DEFINE Up(p, n) == /\ p \in [1 .. n -> 1 .. n]
                       /\ \A j, k \in 1 .. n : j < k => f[p[j]] < f[p[k]]
           T == {n \in Nat : n <= N => \E p : Up(p, n)}
<1>1. 0 \in T
  <2>1. Up(<< >>, 0)
    OBVIOUS
  <2>. QED  BY <2>1
<1>2. ASSUME NEW n \in Nat, n \in T PROVE n + 1 \in T
  <2> HIDE DEF Up
  <2> SUFFICES ASSUME n + 1 <= N PROVE \E p : Up(p, n + 1)
    OBVIOUS
  <2>1. PICK p : Up(p, n)
    BY <1>2
  <2> USE DEF Up
  <2> DEFINE below(k) == f[p[k]] < f[n + 1]
             q == [k \in 1 .. n + 1 |->
                     IF k <= n /\ below(k) THEN p[k]
                     ELSE IF k = 1 \/ below(k - 1) THEN n + 1 ELSE p[k - 1]]
  <2>2. /\ \A k \in 1 .. n : p[k] \in 1 .. n /\ f[p[k]] \in Nat /\ f[p[k]] # f[n + 1]
        /\ f[n + 1] \in Nat
    <3>1. \A k \in 1 .. n : p[k] \in 1 .. n
      BY <2>1
    <3>2. n + 1 \in 1 .. N /\ \A m \in 1 .. n : m \in 1 .. N /\ m # n + 1
      OBVIOUS
    <3>. QED  BY <3>1, <3>2
  <2>3. \A k \in 1 .. n + 1 : q[k] \in 1 .. n + 1
    BY <2>2
  <2>4. ASSUME NEW j \in 1 .. n + 1, NEW k \in 1 .. n + 1, j < k
        PROVE  f[q[j]] < f[q[k]]
    <3> DEFINE v == [m \in 1 .. n |-> f[p[m]]]
               x == f[n + 1]
               w == [m \in 1 .. n + 1 |-> f[q[m]]]
    <3>1. /\ v \in [1 .. n -> Nat] /\ x \in Nat /\ \A m \in 1 .. n : v[m] # x
          /\ \A a, b \in 1 .. n : a < b => v[a] < v[b]
      BY <2>1, <2>2
    <3>2. \A m \in 1 .. n + 1 :
            w[m] = IF m <= n /\ below(m) THEN f[p[m]]
                   ELSE IF m = 1 \/ below(m - 1) THEN x ELSE f[p[m - 1]]
      OBVIOUS
    <3>3. \A m \in 1 .. n + 1 :
            w[m] = IF m <= n /\ v[m] < x THEN v[m]
                   ELSE IF m = 1 \/ v[m - 1] < x THEN x ELSE v[m - 1]
      <4> SUFFICES ASSUME NEW m \in 1 .. n + 1
                   PROVE  w[m] = IF m <= n /\ v[m] < x THEN v[m]
                                 ELSE IF m = 1 \/ v[m - 1] < x THEN x ELSE v[m - 1]
        OBVIOUS
      <4>1. m <= n => v[m] = f[p[m]]
        OBVIOUS
      <4>2. m # 1 => v[m - 1] = f[p[m - 1]]
        OBVIOUS
      <4>3. w[m] = IF m <= n /\ f[p[m]] < x THEN f[p[m]]
                   ELSE IF m = 1 \/ f[p[m - 1]] < x THEN x ELSE f[p[m - 1]]
        BY <3>2
      <4> HIDE DEF v, w, q, x
      <4>. QED  BY <4>1, <4>2, <4>3
    <3>4. f[q[j]] = w[j] /\ f[q[k]] = w[k]
      OBVIOUS
    <3> HIDE DEF v, w, x, q, Up, T
    <3>5. Insertion(n, v, x, w)
      BY <3>1, <3>3, Zenon DEF Insertion
    <3>6. w[j] < w[k]
      BY <2>4, <3>5, Inserted
    <3>. QED  BY <3>4, <3>6
  <2>5. q \in [1 .. n + 1 -> 1 .. n + 1]
    BY <2>3
  <2> HIDE DEF q
  <2>6. Up(q, n + 1)
    BY <2>4, <2>5
  <2>. QED  BY <2>6
<1>3. \A n \in Nat : n \in T
  <2> HIDE DEF T
  <2>. QED  BY <1>1, <1>2, NatSet
<1>4. PICK p : Up(p, N)
  <2> HIDE DEF Up
  <2>. QED  BY <1>3
<1>. QED  BY <1>4

\* Putting them in order leaves none out.
LEMMA SortedIsAll ==
  ASSUME NEW N \in Nat, NEW f, NEW p \in [1 .. N -> 1 .. N],
         \A k \in 1 .. N : f[p[k]] \in Nat,
         \A j, k \in 1 .. N : j < k => f[p[j]] < f[p[k]]
  PROVE  \A m \in 1 .. N : \E k \in 1 .. N : p[k] = m
<1>1. \A j, k \in 1 .. N : p[j] = p[k] => j = k
  <2> SUFFICES ASSUME NEW j \in 1 .. N, NEW k \in 1 .. N, p[j] = p[k], j # k PROVE FALSE
    OBVIOUS
  <2>1. j < k \/ k < j
    OBVIOUS
  <2>2. f[p[j]] \in Nat /\ f[p[j]] = f[p[k]]
    OBVIOUS
  <2>. QED  BY <2>1, <2>2
<1>2. p \in Injection(1 .. N, 1 .. N)
  BY <1>1 DEF Injection, IsInjective
<1>3. IsFiniteSet(1 .. N)
  BY FS_Interval
<1>4. p \in Surjection(1 .. N, 1 .. N)
  BY <1>2, <1>3, FS_Injection
<1>. QED  BY <1>4 DEF Surjection

\* What CallsAreWhole says of calls c made of the fragments s.
Whole(c, s) ==
    /\ \A j, k \in 1 .. Len(c) : j < k => c[j].id[2] < c[k].id[2]
    /\ {c[k].id[2] : k \in 1 .. Len(c)} = {i \in Indices : s[i] > 0}
    /\ \A k \in 1 .. Len(c) :
         c[k] = [id |-> <<IF c[k].id[2] \in named THEN "given" ELSE "call", c[k].id[2]>>,
                 parts |-> Llm!Parts(s[c[k].id[2]])]

\* to_tool_calls makes whole calls of what was accumulated.
LEMMA ToolCalls ==
  ASSUME Indices \subseteq Nat, NEW acc, NEW s \in [Indices -> Nat], Accumulated(acc, s)
  PROVE  Whole(Llm!to_tool_calls(acc), s)
<1> DEFINE N == Len(acc)
           f == [k \in 1 .. N |-> acc[k].index]
           Sorts(p) == \A j, k \in 1 .. N : j < k => acc[p[j]].index < acc[p[k]].index
           q == CHOOSE p \in [1 .. N -> 1 .. N] : Sorts(p)
           c == Llm!to_tool_calls(acc)
<1>1. /\ N \in Nat
      /\ \A k \in 1 .. N : acc[k].index \in Indices /\ acc[k].index \in Nat
      /\ \A j, k \in 1 .. N : acc[j].index = acc[k].index => j = k
  <2> DEFINE Rec == [index : Indices, id : {"given", "none"}, parts : Seq(Nat)]
  <2>1. acc \in Seq(Rec) /\ \A j, k \in 1 .. N : acc[j].index = acc[k].index => j = k
    BY DEF Accumulated
  <2>2. \A r \in Rec : r.index \in Indices
    OBVIOUS
  <2> HIDE DEF Rec
  <2>3. N \in Nat /\ \A k \in 1 .. N : acc[k] \in Rec
    BY <2>1
  <2> HIDE DEF N
  <2>. QED  BY <2>1, <2>2, <2>3
<1>2. c = [k \in 1 .. N |-> Llm!Call(acc[q[k]])]
  BY DEF Llm!to_tool_calls
<1> HIDE DEF c
<1>3. q \in [1 .. N -> 1 .. N] /\ Sorts(q)
  <2>1. /\ f \in [1 .. N -> Nat]
        /\ \A j, k \in 1 .. N : f[j] = f[k] => j = k
    BY <1>1
  <2>2. PICK p \in [1 .. N -> 1 .. N] : \A j, k \in 1 .. N : j < k => f[p[j]] < f[p[k]]
    <3> HIDE DEF N, f
    <3>. QED  BY <1>1, <2>1, CanSort
  <2>3. Sorts(p)
    <3>1. \A k \in 1 .. N : f[p[k]] = acc[p[k]].index
      BY <2>2
    <3>. QED  BY <2>2, <3>1
  <2> HIDE DEF Sorts
  <2>. QED  BY <2>2, <2>3
<1> HIDE DEF q
<1>4. \A m \in 1 .. N : \E k \in 1 .. N : q[k] = m
  <2>1. \A k \in 1 .. N : f[q[k]] = acc[q[k]].index /\ f[q[k]] \in Nat
    BY <1>1, <1>3
  <2>2. \A j, k \in 1 .. N : j < k => f[q[j]] < f[q[k]]
    BY <1>3, <2>1
  <2>3. N \in Nat /\ q \in [1 .. N -> 1 .. N] /\ \A k \in 1 .. N : f[q[k]] \in Nat
    BY <1>1, <1>3, <2>1
  <2> HIDE DEF N, f
  <2>. QED  BY <2>2, <2>3, SortedIsAll
<1>5. Len(c) = N /\ DOMAIN c = 1 .. N
  BY <1>1, <1>2
<1>6. ASSUME NEW k \in 1 .. N
      PROVE  /\ c[k].id = <<IF acc[q[k]].index \in named THEN "given" ELSE "call", acc[q[k]].index>>
             /\ c[k].id[2] = acc[q[k]].index
             /\ c[k] = [id |-> c[k].id, parts |-> Llm!Parts(s[acc[q[k]].index])]
  <2> DEFINE a == acc[q[k]]
  <2>1. q[k] \in 1 .. N /\ c[k] = Llm!Call(a)
    BY <1>2, <1>3
  <2>2. /\ a.id = IF a.index \in named THEN "given" ELSE "none"
        /\ a.parts = Llm!Parts(s[a.index])
    BY <2>1 DEF Accumulated
  <2> HIDE DEF a
  <2>3. c[k] = [id |-> <<IF a.index \in named THEN "given" ELSE "call", a.index>>,
                parts |-> Llm!Parts(s[a.index])]
    BY <2>1, <2>2 DEF Llm!Call
  <2>. QED  BY <2>3 DEF a
<1> HIDE DEF N
<1>7. \A j, k \in 1 .. N : j < k => c[j].id[2] < c[k].id[2]
  BY <1>3, <1>6
<1>8. {c[k].id[2] : k \in 1 .. N} = {i \in Indices : s[i] > 0}
  <2>1. ASSUME NEW k \in 1 .. N PROVE c[k].id[2] \in Indices /\ s[c[k].id[2]] > 0
    <3>1. q[k] \in 1 .. N
      BY <1>3
    <3>. QED  BY <1>1, <1>6, <3>1 DEF Accumulated, N
  <2>2. ASSUME NEW i \in Indices, s[i] > 0 PROVE \E k \in 1 .. N : i = c[k].id[2]
    <3>1. PICK m \in 1 .. N : acc[m].index = i
      BY <2>2 DEF Accumulated, N
    <3>2. PICK k \in 1 .. N : q[k] = m
      BY <1>4
    <3>. QED  BY <1>6, <3>1, <3>2
  <2>. QED  BY <2>1, <2>2
<1>9. \A k \in 1 .. N :
        c[k] = [id |-> <<IF c[k].id[2] \in named THEN "given" ELSE "call", c[k].id[2]>>,
                parts |-> Llm!Parts(s[c[k].id[2]])]
  BY <1>6
<1>. QED  BY <1>5, <1>7, <1>8, <1>9 DEF Whole, c

\* CollectorInv holds at first.
LEMMA CollectorInit ==
  ASSUME Llm!Init
  PROVE  CollectorInv
<1>1. /\ plan \in [Indices -> 0 .. MaxParts] /\ sent = [i \in Indices |-> 0]
      /\ collector = << >> /\ out.finished = FALSE /\ out.calls = << >> /\ llmPc = "streaming"
  BY DEF Llm!Init
<1>2. plan \in [Indices -> Nat] /\ sent \in [Indices -> Nat]
  BY <1>1
<1>3. Accumulated(collector, sent)
  BY <1>1 DEF Accumulated
<1>4. Llm!CallsAreWhole
  BY <1>1 DEF Llm!CallsAreWhole
<1>. QED  BY <1>1, <1>2, <1>3, <1>4 DEF CollectorInv, LlmTypes

\* A chunk keeps it: its fragments are accumulated, and with the finish
\* reason the whole calls are handed out.
LEMMA ChunkStep ==
  ASSUME Indices \subseteq Nat, CollectorInv, NEW d \in Seq(Indices), NEW withText \in BOOLEAN,
         NEW finish \in BOOLEAN, ~out.finished, Llm!Chunk(d, withText, finish)
  PROVE  CollectorInv'
<1> DEFINE last == Llm!Fed(d)[Len(d)]
<1>1. /\ llmPc = "streaming" /\ sent' = last.sent
      /\ finish => sent' = plan
      /\ plan' = plan /\ named' = named
      /\ \/ llmPc' = "returned" /\ out' = out
         \/ /\ llmPc' = llmPc /\ collector' = last.acc
            /\ out'.finished = (out.finished \/ finish)
            /\ out'.calls = IF finish THEN Llm!to_tool_calls(collector') ELSE out.calls
  BY DEF Llm!Chunk
<1>2. last.sent \in [Indices -> Nat] /\ Accumulated(last.acc, last.sent)
  BY <1>1, FedAccumulates DEF CollectorInv, LlmTypes
<1> HIDE DEF last
<1>3. out.calls = << >> /\ plan \in [Indices -> Nat]
  BY DEF CollectorInv, Llm!CallsAreWhole, LlmTypes
<1>4. CASE llmPc' = "returned" /\ out' = out
  BY <1>1, <1>2, <1>4 DEF CollectorInv, LlmTypes, Llm!CallsAreWhole, Llm!Parts
<1>5. CASE /\ llmPc' = llmPc /\ collector' = last.acc
           /\ out'.finished = (out.finished \/ finish)
           /\ out'.calls = IF finish THEN Llm!to_tool_calls(collector') ELSE out.calls
  <2>1. LlmTypes'
    BY <1>1, <1>2, <1>3, <1>5 DEF LlmTypes
  <2>2. Accumulated(collector, sent)'
    BY <1>1, <1>2, <1>5 DEF Accumulated, Llm!Parts
  <2>3. CASE finish
    <3>1. Whole(out'.calls, plan)
      BY <1>1, <1>2, <1>3, <1>5, <2>3, ToolCalls
    <3>2. out'.finished
      BY <1>5, <2>3
    <3>3. Llm!CallsAreWhole'
      BY <1>1, <3>1, <3>2 DEF Whole, Llm!CallsAreWhole, Llm!Parts
    <3>. QED  BY <2>1, <2>2, <3>3 DEF CollectorInv
  <2>4. CASE ~finish
    <3>1. ~out'.finished /\ out'.calls = << >>
      BY <1>3, <1>5, <2>4
    <3>2. Llm!CallsAreWhole'
      BY <3>1 DEF Llm!CallsAreWhole
    <3>. QED  BY <2>1, <2>2, <3>2 DEF CollectorInv
  <2>. QED  BY <2>3, <2>4
<1>. QED  BY <1>1, <1>4, <1>5

\* So does every other step.
LEMMA CollectorStep ==
  ASSUME Indices \subseteq Nat, CollectorInv, [Llm!Next]_(Llm!llmVars)
  PROVE  CollectorInv'
<1>1. ASSUME NEW n \in 0 .. MaxDeltas, NEW d \in [1 .. n -> Indices],
             NEW withText \in BOOLEAN, NEW finish \in BOOLEAN,
             ~out.finished, Llm!Chunk(d, withText, finish)
      PROVE  CollectorInv'
  <2>1. n \in Nat /\ d \in Seq(Indices)
    OBVIOUS
  <2>. QED  BY <1>1, <2>1, ChunkStep
<1>2. ASSUME UNCHANGED <<plan, named, sent, collector, out>>,
             llmPc' \in {llmPc, "returned", "raised"}
      PROVE  CollectorInv'
  BY <1>2 DEF CollectorInv, LlmTypes, Accumulated, Llm!CallsAreWhole, Llm!Parts
<1>3. CASE Llm!EmptyChunk \/ Llm!StreamEnds \/ Llm!StreamRaises \/ Llm!LlmCancel
  BY <1>2, <1>3 DEF Llm!EmptyChunk, Llm!StreamEnds, Llm!StreamRaises, Llm!LlmCancel
<1>4. CASE UNCHANGED Llm!llmVars
  BY <1>2, <1>4 DEF Llm!llmVars
<1>. QED  BY <1>1, <1>3, <1>4 DEF Llm!Next

\* For every number of calls, fragments and chunks, and every order in which
\* the provider sends the fragments: the calls handed to the caller are whole,
\* sorted, none is missing, and none comes without the finish reason.
THEOREM FragmentsMakeWholeCalls ==
  ASSUME Indices \subseteq Nat
  PROVE  Llm!Spec => []Llm!CallsAreWhole
<1>1. Llm!Init => CollectorInv
  BY CollectorInit
<1>2. CollectorInv /\ [Llm!Next]_(Llm!llmVars) => CollectorInv'
  BY CollectorStep
<1>3. CollectorInv => Llm!CallsAreWhole
  BY DEF CollectorInv
<1>. QED  BY <1>1, <1>2, <1>3, PTL DEF Llm!Spec

-----------------------------------------------------------------------------
(* The parts side by side.  A step of PartsNext is one of the part that is *)
(* looked at, whose module is instantiated here a second time together     *)
(* with its proofs: the two copies are the same, definition by definition. *)

PagesP  == INSTANCE PagingProofs
IngestP == INSTANCE IngestionProofs
RowsP   == INSTANCE SessionStoreProofs WITH MaxTurns <- MaxExchanges

\* The initial states and the steps of the two copies of Paging.
LEMMA SamePages ==
  /\ Pages!Init => PagesP!Init
  /\ Pages!Next => PagesP!Next
<1>1. Pages!Init => PagesP!Init
  BY DEF Pages!Init, PagesP!Init
<1>2. Pages!Next => PagesP!Next
  BY DEF Pages!Next, PagesP!Next, Pages!Page, PagesP!Page, Pages!Create, PagesP!Create,
         Pages!Delete, PagesP!Delete, Pages!Newest, PagesP!Newest, Pages!list_in_project,
         PagesP!list_in_project, Pages!NextCursor, PagesP!NextCursor, Pages!Behind,
         PagesP!Behind, Pages!Cardinality, PagesP!Cardinality, Pages!Min, PagesP!Min
<1>. QED  BY <1>1, <1>2, Zenon

\* The initial states and the steps of the two copies of Ingestion.
LEMMA SameIngest ==
  /\ Ingest!Init => IngestP!Init
  /\ Ingest!Next => IngestP!Next
<1>1. Ingest!Init => IngestP!Init
  BY DEF Ingest!Init, IngestP!Init, Ingest!Documents, IngestP!Documents, Ingest!Chars,
         IngestP!Chars
<1>2. Ingest!Next => IngestP!Next
  BY DEF Ingest!Next, IngestP!Next, Ingest!Fail, IngestP!Fail, Ingest!Step, IngestP!Step,
         Ingest!loopVars, IngestP!loopVars, Ingest!RolledBack, IngestP!RolledBack,
         Ingest!CreateDocument, IngestP!CreateDocument, Ingest!Chunk, IngestP!Chunk,
         Ingest!Split, IngestP!Split, Ingest!Advance, IngestP!Advance, Ingest!Finish,
         IngestP!Finish, Ingest!Store, IngestP!Store, Ingest!Commit, IngestP!Commit,
         Ingest!rowVars, IngestP!rowVars, Ingest!Normalized, IngestP!Normalized,
         Ingest!RestLength, IngestP!RestLength, Ingest!find_split_position,
         IngestP!find_split_position, Ingest!Strip, IngestP!Strip, Ingest!OverlapStart,
         IngestP!OverlapStart, Ingest!StoredChunks, IngestP!StoredChunks,
         Ingest!Separators, IngestP!Separators, Ingest!SplitsAt, IngestP!SplitsAt,
         Ingest!Latest, IngestP!Latest, Ingest!Cardinality, IngestP!Cardinality
<1>. QED  BY <1>1, <1>2, Zenon

\* The initial states and the steps of the two copies of SessionStore.
LEMMA SameRows ==
  /\ Rows!Init => RowsP!Init
  /\ Rows!Next => RowsP!Next
<1>1. Rows!Init => RowsP!Init
  BY DEF Rows!Init, RowsP!Init, Rows!Down, RowsP!Down, Rows!NoWrite, RowsP!NoWrite
<1>2. Rows!Next => RowsP!Next
  BY DEF Rows!Next, RowsP!Next, Rows!CallRaises, RowsP!CallRaises, Rows!DatabaseFails,
         RowsP!DatabaseFails, Rows!ReadSequence, RowsP!ReadSequence, Rows!FlushMessage,
         RowsP!FlushMessage, Rows!ReadSession, RowsP!ReadSession, Rows!FlushSession,
         RowsP!FlushSession, Rows!ReadSummary, RowsP!ReadSummary, Rows!FlushSummary,
         RowsP!FlushSummary, Rows!Commit, RowsP!Commit, Rows!CommitAnswerLost,
         RowsP!CommitAnswerLost, Rows!StartWorker, RowsP!StartWorker, Rows!PersistExchange,
         RowsP!PersistExchange, Rows!StoreSummary, RowsP!StoreSummary, Rows!StopWorker,
         RowsP!StopWorker, Rows!ExitWorker, RowsP!ExitWorker, Rows!Crash, RowsP!Crash,
         Rows!Raise, RowsP!Raise, Rows!At, RowsP!At, Rows!next_sequence,
         RowsP!next_sequence, Rows!Reads, RowsP!Reads, Rows!Step, RowsP!Step, Rows!Call,
         RowsP!Call, Rows!Pending, RowsP!Pending, Rows!SequenceFree, RowsP!SequenceFree,
         Rows!Sees, RowsP!Sees, Rows!SummaryAllowed, RowsP!SummaryAllowed, Rows!MessageIds,
         RowsP!MessageIds, Rows!Left, RowsP!Left, Rows!Store, RowsP!Store,
         Rows!AfterFailure, RowsP!AfterFailure, Rows!Syncs, RowsP!Syncs, Rows!Down,
         RowsP!Down, Rows!Appends, RowsP!Appends, Rows!Ready, RowsP!Ready, Rows!Upserts,
         RowsP!Upserts, Rows!Turns, RowsP!Turns, Rows!NoWrite, RowsP!NoWrite
<1>. QED  BY <1>1, <1>2, Zenon

\* A step is one of the part looked at, or leaves its variables alone.
LEMMA OwnStep ==
  ASSUME [PartsNext]_partVars
  PROVE  /\ part' = part
         /\ part = "exec" => [Exec!Next]_(Exec!execVars)
         /\ part = "stt" => [Stt!Next]_(Stt!sttVars)
         /\ part = "llm" => [Llm!Next]_(Llm!llmVars)
         /\ part = "pages" => [PagesP!Next]_(PagesP!pagingVars)
         /\ part = "ingest" => [IngestP!Next]_(IngestP!ingestVars)
<1>1. part' = part
  BY DEF PartsNext, SummarizerNext, WorkerNext, SttNext, LlmNext, ExecNext, PagesNext,
         IngestNext, partVars
<1>2. ASSUME part = "exec" PROVE [Exec!Next]_(Exec!execVars)
  BY <1>2 DEF PartsNext, SummarizerNext, WorkerNext, SttNext, LlmNext, ExecNext, PagesNext,
              IngestNext, partVars, execVars, Exec!execVars
<1>3. ASSUME part = "stt" PROVE [Stt!Next]_(Stt!sttVars)
  BY <1>3 DEF PartsNext, SummarizerNext, WorkerNext, SttNext, LlmNext, ExecNext, PagesNext,
              IngestNext, partVars, sttVars, Stt!sttVars
<1>4. ASSUME part = "pages" PROVE [PagesP!Next]_(PagesP!pagingVars)
  BY <1>4, SamePages DEF PartsNext, SummarizerNext, WorkerNext, SttNext, LlmNext, ExecNext,
              PagesNext, IngestNext, partVars, pagingVars, PagesP!pagingVars
<1>5. ASSUME part = "ingest" PROVE [IngestP!Next]_(IngestP!ingestVars)
  BY <1>5, SameIngest DEF PartsNext, SummarizerNext, WorkerNext, SttNext, LlmNext, ExecNext,
              PagesNext, IngestNext, partVars, ingestVars, IngestP!ingestVars
<1>6. ASSUME part = "llm" PROVE [Llm!Next]_(Llm!llmVars)
  BY <1>6 DEF PartsNext, SummarizerNext, WorkerNext, SttNext, LlmNext, ExecNext, PagesNext,
              IngestNext, partVars, llmVars, Llm!llmVars
<1>. QED  BY <1>1, <1>2, <1>3, <1>4, <1>5, <1>6, Zenon

\* A part starts in one of its own initial states.
LEMMA OwnInit ==
  ASSUME PartsInit
  PROVE  /\ part = "exec" => Exec!Init
         /\ part = "stt" => Stt!Init
         /\ part = "llm" => Llm!Init
         /\ part = "pages" => PagesP!Init
         /\ part = "ingest" => IngestP!Init
         /\ RowsP!Init
BY SamePages, SameIngest, SameRows DEF PartsInit

\* A handler runs only as the agent version binds its tool: see
\* HandlersRunAsBound.
THEOREM EveryToolRunsAsBound == PartsSpec => []ToolRunsAsBound
<1> DEFINE Inv == part = "exec" => ExecInv
<1>1. PartsInit => Inv
  BY OwnInit, ExecInit
<1>2. Inv /\ [PartsNext]_partVars => Inv'
  BY OwnStep, ExecStep, Zenon
<1>3. Inv => ToolRunsAsBound
  BY DEF ExecInv, ToolRunsAsBound
<1>. QED  BY <1>1, <1>2, <1>3, PTL DEF PartsSpec

\* A transcribe call that returns normally has yielded every turn AssemblyAI
\* recognised: see TranscribeLosesNoTurn.
THEOREM NoRecognisedTurnLost == PartsSpec => []NoTurnLost
<1> DEFINE Inv == part = "stt" => QueueInv
<1>1. PartsInit => Inv
  BY OwnInit, QueueInit
<1>2. Inv /\ [PartsNext]_partVars => Inv'
  BY OwnStep, QueueStep, Zenon
<1>3. Inv => NoTurnLost
  BY DEF QueueInv, AtTheEnd, Undisturbed, Stt!NoTurnLost, NoTurnLost
<1>. QED  BY <1>1, <1>2, <1>3, PTL DEF PartsSpec

\* The tool calls of an LLM answer are put together right: see
\* FragmentsMakeWholeCalls.
THEOREM EveryCallIsWhole ==
  ASSUME Indices \subseteq Nat
  PROVE  PartsSpec => []CallsAreWhole
<1> DEFINE Inv == part = "llm" => CollectorInv
<1>1. PartsInit => Inv
  BY OwnInit, CollectorInit
<1>2. Inv /\ [PartsNext]_partVars => Inv'
  BY OwnStep, CollectorStep, Zenon
<1>3. Inv => CallsAreWhole
  BY DEF CollectorInv, CallsAreWhole
<1>. QED  BY <1>1, <1>2, <1>3, PTL DEF PartsSpec

\* The pages of a listing miss no row that stays, for every limit of a page
\* that pagination_limit admits: see WalkIsComplete in PagingProofs.
THEOREM NoPageMissesARow ==
  ASSUME MaxRows \in Nat, Limit \in Nat \ {0}
  PROVE  PartsSpec => []WalkMissesNothing
<1> DEFINE Inv == part = "pages" => PagesP!WalkInv
<1>1. PartsInit => Inv
  BY OwnInit, PagesP!WalkInit
<1>2. Inv /\ [PartsNext]_partVars => Inv'
  BY OwnStep, PagesP!WalkStep, Zenon
<1>3. Inv => WalkMissesNothing
  BY DEF PagesP!WalkInv, PagesP!WalkMissesNothing, Pages!WalkMissesNothing, WalkMissesNothing
<1>. QED  BY <1>1, <1>2, <1>3, PTL DEF PartsSpec

\* A committed document is in chunks of at most chunk_size characters, all of
\* it: see CommittedIsChunked in IngestionProofs.
THEOREM EveryDocumentIsChunked ==
  ASSUME IngestP!SizesOK
  PROVE  PartsSpec => []DocumentIsChunked
<1> DEFINE Inv == part = "ingest" => IngestP!IngestInv
<1>1. PartsInit => Inv
  BY OwnInit, IngestP!IngestInit
<1>2. Inv /\ [PartsNext]_partVars => Inv'
  BY OwnStep, IngestP!IngestStep, Zenon
<1>3. Inv => DocumentIsChunked
  BY DEF IngestP!IngestInv, IngestP!RowsInv, IngestP!Covered, IngestP!Small,
         IngestP!InWord, Ingest!DocumentIsChunked, DocumentIsChunked
<1>. QED  BY <1>1, <1>2, <1>3, PTL DEF PartsSpec

\* The rows of the workers change by steps of SessionStore only, whichever
\* part is looked at.
LEMMA RowsSpec == PartsSpec => RowsP!Spec
<1>1. PartsInit => RowsP!Init
  BY OwnInit
<1>2. [PartsNext]_partVars => [RowsP!Next]_(RowsP!vars)
  BY SameRows DEF PartsNext, SummarizerNext, WorkerNext, SttNext, LlmNext, ExecNext,
       PagesNext, IngestNext, partVars, workerVars, RowsP!vars
<1>. QED  BY <1>1, <1>2, PTL DEF PartsSpec, RowsP!Spec

\* What append_message acknowledged stays in the table: see AcknowledgedStays
\* in SessionStoreProofs.
THEOREM AcknowledgedRowsStay ==
  ASSUME MaxExchanges \in Nat
  PROVE  PartsSpec => []AcknowledgedIsDurable
<1>1. RowsP!Spec => []RowsP!AcknowledgedIsDurable
  BY RowsP!AcknowledgedStays
<1>2. RowsP!AcknowledgedIsDurable => AcknowledgedIsDurable
  BY DEF RowsP!AcknowledgedIsDurable, AcknowledgedIsDurable, Rows!AcknowledgedIsDurable
<1>. QED  BY <1>1, <1>2, RowsSpec, PTL

\* No answer is stored without its question before it: see NoAnswerAlone in
\* SessionStoreProofs.
THEOREM AnswersHaveQuestions ==
  ASSUME MaxExchanges \in Nat
  PROVE  PartsSpec => []AnswerAfterItsQuestion
<1>1. RowsP!Spec => []RowsP!AnswerAfterItsQuestion
  BY RowsP!NoAnswerAlone
<1>2. RowsP!AnswerAfterItsQuestion => AnswerAfterItsQuestion
  BY DEF RowsP!AnswerAfterItsQuestion, AnswerAfterItsQuestion, Rows!AnswerAfterItsQuestion
<1>. QED  BY <1>1, <1>2, RowsSpec, PTL

\* The two copies of SessionStore read the same transcript from their rows.
LEMMA SameTranscript ==
  /\ RowsP!Transcript = Rows!Transcript
  /\ RowsP!Transcript' = Rows!Transcript'
<1>1. RowsP!Transcript = Rows!Transcript
  BY DEF RowsP!Transcript, Rows!Transcript, RowsP!Cardinality, Rows!Cardinality
<1>2. RowsP!Transcript' = Rows!Transcript'
  BY DEF RowsP!Transcript, Rows!Transcript, RowsP!Cardinality, Rows!Cardinality
<1>. QED  BY <1>1, <1>2

\* The PostgreSQL adapters implement the in-memory ones: see
\* AdaptersImplementMemory in SessionStoreProofs.
THEOREM StoreImplementsMemory ==
  ASSUME MaxExchanges \in Nat
  PROVE  PartsSpec => ImplementsMemory
<1>1. RowsP!Spec => RowsP!ImplementsMemory
  BY RowsP!AdaptersImplementMemory
<1>2. RowsP!Memory!Init => Rows!Memory!Init
  BY SameTranscript DEF RowsP!Memory!Init, Rows!Memory!Init, RowsP!SessionRows, Rows!SessionRows
<1>3. [RowsP!Memory!Next]_(RowsP!Memory!vars) => [Rows!Memory!Next]_(Rows!Memory!vars)
  BY SameTranscript DEF RowsP!Memory!Next, Rows!Memory!Next, RowsP!Memory!vars,
     Rows!Memory!vars, RowsP!Memory!append_message, Rows!Memory!append_message,
     RowsP!Memory!update_session, Rows!Memory!update_session, RowsP!Memory!upsert,
     Rows!Memory!upsert, RowsP!SessionRows, Rows!SessionRows, RowsP!MessageIds,
     Rows!MessageIds, RowsP!Turns, Rows!Turns
<1>. QED  BY <1>1, <1>2, <1>3, RowsSpec, PTL DEF ImplementsMemory, Rows!ImplementsMemory,
            RowsP!ImplementsMemory, Rows!Memory!Spec, RowsP!Memory!Spec

\* What Summarizer promises holds beside the other parts: the stored summary
\* tells of a prefix, no message is lost between it and the history of a
\* request, an accepted summary is sent, a request is filled up, and a
\* cancelled turn stores no summary.
THEOREM SummariesHold ==
  PartsSpec => /\ [](SummaryIsPrefix /\ NothingLost /\ MadeSummaryIsSent /\ RequestIsTight)
               /\ CancelledStoresNothing
<1>1. PartsInit => Init
  BY DEF PartsInit
<1>2. [PartsNext]_partVars => [Next]_vars
  BY DEF PartsNext, SummarizerNext, WorkerNext, SttNext, LlmNext, ExecNext, PagesNext,
         IngestNext, partVars
<1>3. PartsSpec => Spec
  BY <1>1, <1>2, PTL DEF PartsSpec, Spec
<1>. QED  BY <1>3, StoredIsPrefix, PrepareLosesNothing, AcceptedSummaryIsSent,
             RequestsAreTight, NoCancelledStore, PTL
=============================================================================
