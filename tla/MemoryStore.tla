----------------------------- MODULE MemoryStore -----------------------------
(***************************************************************************)
(* What the persistence ports promise the runtime: the in-memory           *)
(* repositories of persistence/memory.py, for one session.  Every call is  *)
(* one step.  SessionStore, the PostgreSQL adapters shared by several      *)
(* worker processes, is shown to implement it.                             *)
(***************************************************************************)
EXTENDS Naturals, Sequences

CONSTANTS
    MessageIds,   \* the messages the runtime builds
    SessionRows,  \* the values of the session record
    Watermarks    \* through_sequence of a summary; 0 stands for no summary

VARIABLES
    messages,     \* messages_by_session[session_id]
    session,      \* sessions[session_id]
    summary       \* summaries[session_id]

vars == <<messages, session, summary>>

\* InMemoryConversationRepository.append_message: the next sequence number is
\* the length of the list plus one.
append_message ==
    /\ \E m \in MessageIds : messages' = Append(messages, m)
    /\ UNCHANGED <<session, summary>>

\* InMemorySessionRepository.update_session.
update_session ==
    /\ \E s \in SessionRows : session' = s
    /\ UNCHANGED <<messages, summary>>

\* InMemoryConversationSummaryRepository.upsert.
upsert ==
    /\ \E t \in Watermarks \ {0} : summary' = t
    /\ UNCHANGED <<messages, session>>

Init ==
    /\ messages = << >>
    /\ session \in SessionRows
    /\ summary = 0

Next == append_message \/ update_session \/ upsert

Spec == Init /\ [][Next]_vars
=============================================================================
