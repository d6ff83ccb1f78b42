---------------------------- MODULE ContextBudget ----------------------------
(***************************************************************************)
(* ContextBudgetPolicy and LLMContextAssembler: which sections and which   *)
(* messages of the history an LLM request keeps under max_input_tokens.    *)
(*                                                                         *)
(* A text is its length in characters; an absent section has length 0 (no  *)
(* caller passes an empty one).  The history is the sequence of the        *)
(* lengths of its messages, the oldest first.                              *)
(***************************************************************************)
EXTENDS Integers, Sequences, FiniteSets

CONSTANTS
  Instructions,     \* length of system_instructions
  MaxInputTokens    \* max_input_tokens, when budgeting is enabled

ASSUME BudgetAssumption ==
  Instructions \in Nat /\ MaxInputTokens \in Nat \ {0}

Contexts == [memory : Nat, summary : Nat, knowledge : Nat]
Context(m, s, k) == [memory |-> m, summary |-> s, knowledge |-> k]
NoContext == Context(0, 0, 0)

\* Four characters a token, rounded up.
Tokens(length) == (length + 3) \div 4

Section(header, text) == IF text = 0 THEN 0 ELSE header + 1 + text

\* Length of build_system_prompt: the sections under their headers, with a
\* blank line between two of them.
SystemPrompt(c) ==
  LET sections == <<Instructions, Section(14, c.memory), Section(22, c.summary),
                    Section(19, c.knowledge)>>
      gaps == {i \in 1..4 : sections[i] > 0 /\ \E j \in 1 .. i - 1 : sections[j] > 0}
      gap(i) == IF i \in gaps THEN 2 ELSE 0
  IN  sections[1] + sections[2] + gap(2) + sections[3] + gap(3) + sections[4] + gap(4)

\* What the system prompt and the current message leave for the history.
Remaining(c, user) == MaxInputTokens - Tokens(SystemPrompt(c)) - Tokens(user)

\* select_history raises ContextBudgetExceededError unless this holds.
Fits(c, user) == Remaining(c, user) >= 0

\* Fault: a message that does not fit is skipped, older ones are tried.
Left_skips(history, budget) ==
  LET left[n \in 0 .. Len(history)] ==
        IF n = 0 THEN budget
        ELSE LET cost == Tokens(history[Len(history) - n + 1])
             IN  IF cost > left[n - 1] THEN left[n - 1] ELSE left[n - 1] - cost
  IN  left

\* What is left of the budget after the n newest messages; -1 once the loop
\* of select_history has met a message that does not fit.
Left(history, budget) ==
  LET left[n \in 0 .. Len(history)] ==
        IF n = 0 THEN budget
        ELSE LET cost == Tokens(history[Len(history) - n + 1])
             IN  IF cost > left[n - 1] THEN -1 ELSE left[n - 1] - cost
  IN  left

\* How many of the newest messages select_history returns.
Kept(history, budget) == Cardinality({n \in 1 .. Len(history) : Left(history, budget)[n] >= 0})

\* Fault: the summary is given up before the knowledge.
Ladder_summaryFirst(c) ==
  <<c, Context(0, c.summary, c.knowledge), Context(0, 0, c.knowledge), NoContext>>

\* The attempts of assemble: memory is dropped first, then the knowledge, then
\* the summary.  Dropping an absent section repeats the attempt before.
Ladder(c) ==
  <<c, Context(0, c.summary, c.knowledge), Context(0, c.summary, 0), NoContext>>

\* assemble raises unless this holds.
Assembles(c, user) == \E i \in 1..4 : Fits(Ladder(c)[i], user)

\* The sections of the request: those of the first attempt that fits.
Assembled(c, user) ==
  Ladder(c)[CHOOSE i \in 1..4 : /\ Fits(Ladder(c)[i], user)
                                /\ \A j \in 1 .. i - 1 : ~Fits(Ladder(c)[j], user)]
=============================================================================
