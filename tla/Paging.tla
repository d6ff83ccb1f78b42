------------------------------- MODULE Paging -------------------------------
(***************************************************************************)
(* A client walks the pages of GET /agents or GET /tools (list_agents and  *)
(* list_tools of services.py over list_in_project of repositories.py)      *)
(* while other requests create and delete rows.  Each page is a            *)
(* transaction of its own; the cursor is the id of the page's last row.    *)
(* A row is the place of its (created_at, id) in the table's order; pages  *)
(* go from the newest row to the oldest.                                   *)
(***************************************************************************)
EXTENDS Naturals, FiniteSets, FiniteSetsExt

CONSTANTS
    Limit,      \* limit of a page
    MaxRows,    \* bound: places in the order, and so rows ever created
    MaxPages    \* bound: pages fetched

VARIABLES
    live,       \* the rows of the project
    drawn,      \* the places of all rows created so far
    cursor,     \* the cursor of the next page; 0: none
    listed,     \* rows the client has been given
    stable,     \* history: rows that have lived since the walk began
    pages,      \* pages fetched so far
    walkPc      \* "walking", "done"

pagingVars == <<live, drawn, cursor, listed, stable, pages, walkPc>>

\* The rows behind the cursor.  The cursor's row is looked up for its
\* created_at: when it is gone, the filter is left out.
Behind == IF cursor \in live THEN {r \in live : r < cursor} ELSE live

\* order_by(...desc()).limit(n).
Newest(S, n) == {r \in S : Cardinality({k \in S : k > r}) < n}

\* list_in_project fetches one row more than the page has.
list_in_project == Newest(Behind, Limit + 1)

\* Fault: the cursor is the row that showed there are more.
NextCursor_extra(rows) ==
    IF Cardinality(rows) > Limit THEN Min(rows) ELSE 0
\* next_cursor: the page's last row if there are more, else none.
NextCursor(rows) ==
    IF Cardinality(rows) > Limit THEN Min(Newest(rows, Limit)) ELSE 0

Page ==
    /\ walkPc = "walking" /\ pages < MaxPages
    /\ LET rows == list_in_project
       IN  /\ listed' = listed \cup Newest(rows, Limit)
           /\ cursor' = NextCursor(rows)
    /\ walkPc' = IF cursor' = 0 THEN "done" ELSE "walking"
    /\ pages' = pages + 1
    /\ UNCHANGED <<live, drawn, stable>>

\* A row appears at any place no row has had: its created_at is taken before
\* its commit, so a newer row may have been listed already.
Create(r) ==
    /\ r \in (1 .. MaxRows) \ drawn
    /\ drawn' = drawn \cup {r}
    /\ live' = live \cup {r}
    /\ UNCHANGED <<cursor, listed, stable, pages, walkPc>>

Delete(r) ==
    /\ r \in live
    /\ live' = live \ {r} /\ stable' = stable \ {r}
    /\ UNCHANGED <<drawn, cursor, listed, pages, walkPc>>

Init ==
    /\ live \in SUBSET (1 .. MaxRows) /\ drawn = live /\ stable = live
    /\ cursor = 0 /\ listed = {} /\ pages = 0 /\ walkPc = "walking"

Next == Page \/ \E r \in 1 .. MaxRows : Create(r) \/ Delete(r)

Spec == Init /\ [][Next]_pagingVars

-----------------------------------------------------------------------------
\* A client that follows the cursors to the last page has been given every
\* row that existed all the while, whatever was created or deleted between
\* two pages: the row of its cursor too, when the listing begins again.
WalkMissesNothing == walkPc = "done" => stable \subseteq listed
=============================================================================
