------------------------------ MODULE LlmStream ------------------------------
(***************************************************************************)
(* One call of stream() of an LLM adapter (openai_llm.py; groq_llm.py has  *)
(* the same loop): the provider's chunks carry text, fragments of tool     *)
(* calls and at last a finish reason, and the adapter puts the fragments   *)
(* together (_ToolCallCollector).                                          *)
(***************************************************************************)
EXTENDS Naturals, Sequences

CONSTANTS
    Indices,      \* the index of a tool call in the answer
    MaxParts,     \* bound: fragments of one call
    MaxDeltas,    \* bound: fragments in one chunk
    MaxTexts      \* bound: chunks with text

VARIABLES
    plan,       \* external: index -> fragments the call has; 0: no such call
    named,      \* external: indices whose first fragment has an id
    sent,       \* external: index -> fragments sent so far
    texts,      \* text deltas sent so far
    collector,  \* _accumulators: index -> [id, parts]
    out,        \* what the caller received: text deltas and calls
    llmCancelled,
    llmPc       \* "streaming", "returned", "raised"

llmVars == <<plan, named, sent, texts, collector, out, llmCancelled, llmPc>>

Parts(n) == [k \in 1 .. n |-> k]

\* feed_delta for one fragment of the call at index i: only the first one
\* has an id, names and arguments are concatenated in the order they come.
\* A new accumulator goes to the end of the dictionary.
feed_delta(acc, i, part) ==
    LET known == {k \in 1 .. Len(acc) : acc[k].index = i}
        id == IF part = 1 /\ i \in named THEN "given" ELSE "none"
    IN  IF known = {}
        THEN Append(acc, [index |-> i, id |-> id, parts |-> <<part>>])
        ELSE LET k == CHOOSE k \in known : TRUE
             IN  [acc EXCEPT ![k].parts = Append(@, part),
                             ![k].id = IF id = "none" THEN @ ELSE id]

\* An accumulator as a tool call; a missing id becomes call_<index>.
Call(a) == [id |-> IF a.id = "none" THEN <<"call", a.index>> ELSE <<"given", a.index>>,
            parts |-> a.parts]

\* Fault: the calls in the order their first fragments came.
to_tool_calls_arrival(acc) == [k \in 1 .. Len(acc) |-> Call(acc[k])]
\* to_tool_calls: the calls in the order of their indices.
to_tool_calls(acc) ==
    LET positions == 1 .. Len(acc)
        sorted == CHOOSE p \in [positions -> positions] :
                    \A j, k \in positions : j < k => acc[p[j]].index < acc[p[k]].index
    IN  [k \in positions |-> Call(acc[sorted[k]])]

\* The loop over delta.tool_calls, where deltas[k] is the index of the call
\* whose next fragment is the k-th of the chunk: the accumulators after k
\* rounds, and the fragments sent.
Fed(deltas) ==
    LET loop[k \in 0 .. Len(deltas)] ==
          IF k = 0 THEN [acc |-> collector, sent |-> sent]
          ELSE [acc |-> feed_delta(loop[k - 1].acc, deltas[k],
                                   loop[k - 1].sent[deltas[k]] + 1),
                sent |-> [loop[k - 1].sent EXCEPT ![deltas[k]] = @ + 1]]
    IN  loop

\* The provider sends a chunk with the next fragments of some calls, in any
\* order, with text or not, and a finish reason once nothing is left to send.
Chunk(deltas, text, finish) ==
    /\ llmPc = "streaming"
    /\ text => texts < MaxTexts
    /\ sent' = Fed(deltas)[Len(deltas)].sent
    /\ \A i \in Indices : sent'[i] <= plan[i]
    /\ finish => sent' = plan
    /\ texts' = IF text THEN texts + 1 ELSE texts
    /\ IF llmCancelled
       THEN llmPc' = "returned" /\ UNCHANGED <<collector, out>>
       ELSE /\ collector' = Fed(deltas)[Len(deltas)].acc
            /\ out' = [texts |-> IF text THEN Append(out.texts, texts') ELSE out.texts,
                       finished |-> out.finished \/ finish,
                       calls |-> IF finish THEN to_tool_calls(collector')
                                 ELSE out.calls]
            /\ llmPc' = llmPc
    /\ UNCHANGED <<plan, named, llmCancelled>>

\* A chunk without choices (usage) is passed over, or ends a cancelled call.
EmptyChunk ==
    /\ llmPc = "streaming" /\ llmCancelled
    /\ llmPc' = "returned"
    /\ UNCHANGED <<plan, named, sent, texts, collector, out, llmCancelled>>

\* The stream ends: after a finish reason or, broken off, without one.
StreamEnds ==
    /\ llmPc = "streaming"
    /\ llmPc' = "returned"
    /\ UNCHANGED <<plan, named, sent, texts, collector, out, llmCancelled>>

\* The SDK raises: _normalize_openai_error.
StreamRaises ==
    /\ llmPc = "streaming"
    /\ llmPc' = "raised"
    /\ UNCHANGED <<plan, named, sent, texts, collector, out, llmCancelled>>

LlmCancel ==
    /\ llmPc = "streaming" /\ ~llmCancelled
    /\ llmCancelled' = TRUE
    /\ UNCHANGED <<plan, named, sent, texts, collector, out, llmPc>>

Init ==
    /\ plan \in [Indices -> 0 .. MaxParts]
    /\ named \in SUBSET {i \in Indices : plan[i] > 0}
    /\ sent = [i \in Indices |-> 0]
    /\ texts = 0 /\ collector = << >>
    /\ out = [texts |-> << >>, finished |-> FALSE, calls |-> << >>]
    /\ llmCancelled = FALSE /\ llmPc = "streaming"

Next ==
    \/ \E n \in 0 .. MaxDeltas : \E deltas \in [1 .. n -> Indices], text, finish \in BOOLEAN :
         (n > 0 \/ text \/ finish) /\ ~out.finished /\ Chunk(deltas, text, finish)
    \/ EmptyChunk \/ StreamEnds \/ StreamRaises \/ LlmCancel

Spec == Init /\ [][Next]_llmVars

-----------------------------------------------------------------------------
\* The calls the caller gets are those of the answer, each one once, in the
\* order of their indices and with all its fragments in order, however the
\* fragments of several calls were interleaved; and they come only with the
\* finish reason: a stream broken off in the middle of a call runs no tool.
CallsAreWhole ==
    LET index(k) == out.calls[k].id[2]
        positions == 1 .. Len(out.calls)
    IN  /\ ~out.finished => out.calls = << >>
        /\ out.finished =>
             /\ \A j, k \in positions : j < k => index(j) < index(k)
             /\ {index(k) : k \in positions} = {i \in Indices : plan[i] > 0}
             /\ \A k \in positions :
                  LET i == index(k)
                  IN  out.calls[k] = [id |-> <<IF i \in named THEN "given" ELSE "call", i>>,
                                      parts |-> Parts(plan[i])]
=============================================================================
