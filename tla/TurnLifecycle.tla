--------------------------- MODULE TurnLifecycle ---------------------------
(***************************************************************************)
(* What AgentRuntime promises its session, without coroutines, tokens or   *)
(* providers: turns are numbered in order, one is open at a time, a closed *)
(* turn stays closed, and an exchange enters the conversation exactly when *)
(* its turn commits.  The statuses are those of xymphony_contracts.Turn.   *)
(***************************************************************************)
EXTENDS Integers, Sequences

CONSTANT MaxTurns

VARIABLES
  turnStatus,   \* the contract status of each turn, "none" before it begins
  exchanges,    \* the turns whose exchange is in the conversation, in order
  closing       \* the session takes no more turns

lifecycleVars == <<turnStatus, exchanges, closing>>

TurnNumbers == 1..MaxTurns
Open(t) == turnStatus[t] = "in_progress"

LifecycleInit ==
  /\ turnStatus = [t \in TurnNumbers |-> "none"]
  /\ exchanges = <<>>
  /\ closing = FALSE

\* A turn begins when every earlier one is closed; it may fail or commit,
\* without an exchange, in the same step.
Begin(t) ==
  /\ ~closing
  /\ \A u \in TurnNumbers : IF u < t THEN turnStatus[u] # "none" /\ ~Open(u)
                                     ELSE turnStatus[u] = "none"
  /\ \E s \in {"in_progress", "committed", "failed"} :
       turnStatus' = [turnStatus EXCEPT ![t] = s]
  /\ UNCHANGED <<exchanges, closing>>

\* The open turn commits, with its exchange or (nothing was said) without.
Commit(t) ==
  /\ Open(t)
  /\ turnStatus' = [turnStatus EXCEPT ![t] = "committed"]
  /\ exchanges' = exchanges \/ exchanges' = Append(exchanges, t)
  /\ UNCHANGED closing

\* The open turn is interrupted or fails: nothing of it is kept.
Discard(t) ==
  /\ Open(t)
  /\ \E s \in {"cancelled", "failed"} : turnStatus' = [turnStatus EXCEPT ![t] = s]
  /\ UNCHANGED <<exchanges, closing>>

\* The session stops taking turns; the open one is cancelled with it.
Close ==
  /\ turnStatus' = [t \in TurnNumbers |-> IF Open(t) THEN "cancelled" ELSE turnStatus[t]]
  /\ closing' = TRUE
  /\ UNCHANGED exchanges

LifecycleNext ==
  \/ \E t \in TurnNumbers : Begin(t) \/ Commit(t) \/ Discard(t)
  \/ Close

LifecycleSpec == LifecycleInit /\ [][LifecycleNext]_lifecycleVars
=============================================================================
