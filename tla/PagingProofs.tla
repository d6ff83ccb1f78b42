---------------------------- MODULE PagingProofs ----------------------------
(***************************************************************************)
(* Proofs about Paging, for any number of rows, any number of pages and    *)
(* any limit of a page that pagination_limit admits (at least one row).    *)
(* WalkInv is the inductive invariant.                                     *)
(***************************************************************************)
EXTENDS Paging, FiniteSetTheorems, TLAPS

\* The rows have places in the order, and those that have lived since the walk
\* began live.
RowTypes ==
    /\ live \subseteq 1 .. MaxRows /\ stable \subseteq live
    /\ cursor \in Nat /\ walkPc \in {"walking", "done"}

\* The client has been given every row that stayed, down to its cursor.
ListedToCursor ==
    cursor # 0 => \A r \in stable : r >= cursor => r \in listed

WalkInv == RowTypes /\ ListedToCursor /\ WalkMissesNothing

-----------------------------------------------------------------------------
(* The last and the first row of a page.                                   *)

Less == {p \in Nat \X Nat : p[1] < p[2]}

\* The order of the row numbers is well founded.
LEMMA LessIsWellFounded == IsWellFoundedOn(Less, Nat)
BY NatLessThanWellFounded DEF OpToRel, Less

\* The oldest row of a page that has one.
LEMMA HasOldest ==
  ASSUME NEW S \in SUBSET Nat, S # {}
  PROVE  Min(S) \in S /\ \A r \in S : Min(S) <= r
<1>1. PICK x \in S : \A y \in S : ~(<<y, x>> \in Less)
  BY LessIsWellFounded, WFMin
<1>2. ASSUME NEW y \in S PROVE x <= y
  <2>1. x \in Nat /\ y \in Nat /\ ~(<<y, x>> \in Less)
    BY <1>1
  <2> QED
    BY <2>1 DEF Less
<1> QED
  BY <1>2 DEF Min

\* The newest row of a page that has one.
LEMMA HasNewest ==
  ASSUME NEW n \in Nat, NEW S \in SUBSET (1 .. n), S # {}
  PROVE  \E x \in S : \A r \in S : r <= x
<1> DEFINE D == {n - r : r \in S}
<1>1. D \in SUBSET Nat /\ D # {}
  <2>1. \A r \in S : n - r \in Nat
    OBVIOUS
  <2>2. PICK r \in S : TRUE
    OBVIOUS
  <2> QED
    BY <2>1, <2>2
<1>2. PICK d \in D : \A e \in D : ~(<<e, d>> \in Less)
  BY <1>1, LessIsWellFounded, WFMin
<1>3. PICK x \in S : d = n - x
  BY <1>2
<1>4. ASSUME NEW r \in S PROVE r <= x
  <2>1. n - r \in D /\ n - r \in Nat /\ d \in Nat
    BY <1>1, <1>2
  <2>2. ~(n - r < d)
    BY <1>2, <2>1 DEF Less
  <2> QED
    BY <1>3, <2>2
<1> QED
  BY <1>4

Above(S, r) == {k \in S : k > r}

\* A set of rows is finite, and a subset of it as large as it is all of it.
LEMMA CountType ==
  ASSUME NEW n \in Nat, NEW S \in SUBSET (1 .. n)
  PROVE  /\ IsFiniteSet(S) /\ Cardinality(S) \in Nat
         /\ \A T \in SUBSET S : /\ IsFiniteSet(T) /\ Cardinality(T) \in Nat
                                /\ Cardinality(T) <= Cardinality(S)
                                /\ Cardinality(T) = Cardinality(S) => T = S
<1>1. IsFiniteSet(1 .. n)
  BY FS_Interval
<1>2. IsFiniteSet(S) /\ Cardinality(S) \in Nat
  BY <1>1, FS_Subset, FS_CardinalityType
<1> QED
  BY <1>2, FS_Subset, FS_CardinalityType

\* A query with a limit whose answer is shorter has answered with everything.
LEMMA ShortAnswerIsAll ==
  ASSUME NEW n \in Nat, NEW S \in SUBSET (1 .. n), NEW l \in Nat,
         Cardinality(Newest(S, l + 1)) <= l
  PROVE  Newest(S, l + 1) = S
<1> DEFINE rows == Newest(S, l + 1)
<1>1. SUFFICES ASSUME S \ rows # {} PROVE FALSE
  BY DEF Newest
<1>2. PICK x \in S \ rows : \A r \in S \ rows : r <= x
  BY <1>1, HasNewest
<1>3. rows \in SUBSET S /\ Above(S, x) \in SUBSET S
  BY DEF Newest, Above
<1>4. Above(S, x) \subseteq rows
  <2>1. \A k \in Above(S, x) : k \in S /\ ~(k <= x)
    BY <1>2 DEF Above
  <2> QED
    BY <1>2, <2>1
<1>5. /\ Cardinality(Above(S, x)) \in Nat /\ Cardinality(rows) \in Nat
      /\ IsFiniteSet(rows)
  BY <1>3, CountType
<1>6. ~(Cardinality(Above(S, x)) < l + 1)
  BY <1>2 DEF Newest, Above
<1>7. Cardinality(Above(S, x)) <= Cardinality(rows)
  BY <1>4, <1>5, FS_Subset
<1> QED
  BY <1>5, <1>6, <1>7

\* The rows of a page are the newest of the rows asked for: all of them when
\* list_in_project found no row more than the page has, else all down to the
\* next cursor, which is a row of the page.
LEMMA PageIsPrefix ==
  ASSUME NEW n \in Nat, NEW S \in SUBSET (1 .. n), Limit \in Nat \ {0},
         NEW rows, rows = Newest(S, Limit + 1)
  PROVE  /\ Newest(rows, Limit) \subseteq S
         /\ Cardinality(rows) <= Limit => Newest(rows, Limit) = S
         /\ Cardinality(rows) > Limit =>
              /\ Min(Newest(rows, Limit)) \in S
              /\ \A r \in S : r >= Min(Newest(rows, Limit)) => r \in Newest(rows, Limit)
<1> DEFINE page == Newest(rows, Limit)
<1>1. rows \in SUBSET S /\ page \in SUBSET rows /\ rows \in SUBSET (1 .. n)
  BY DEF Newest
<1>2. Cardinality(rows) \in Nat /\ IsFiniteSet(rows)
  BY <1>1, CountType
<1>3. ASSUME Cardinality(rows) <= Limit PROVE page = S
  <2>1. rows = S
    BY <1>3, ShortAnswerIsAll
  <2>2. ASSUME NEW r \in rows PROVE r \in page
    <3>1. Above(rows, r) \in SUBSET rows /\ r \notin Above(rows, r)
      BY <1>1 DEF Above
    <3>2. /\ Cardinality(Above(rows, r)) \in Nat
          /\ Cardinality(Above(rows, r)) <= Cardinality(rows)
          /\ Cardinality(Above(rows, r)) # Cardinality(rows)
      BY <1>1, <3>1, CountType
    <3>3. Cardinality(Above(rows, r)) < Limit
      BY <1>2, <1>3, <3>2
    <3> QED
      BY <3>3 DEF Newest, Above
  <2> QED
    BY <1>1, <2>1, <2>2
<1>4. ASSUME Cardinality(rows) > Limit
      PROVE  Min(page) \in page /\ \A r \in S : r >= Min(page) => r \in page
  <2>1. rows # {}
    BY <1>4, FS_EmptySet
  <2>2. PICK top \in rows : \A r \in rows : r <= top
    BY <1>1, <2>1, HasNewest
  <2>3. top \in page
    <3>1. Above(rows, top) = {}
      BY <1>1, <2>2 DEF Above
    <3>2. Cardinality(Above(rows, top)) < Limit
      BY <3>1, FS_EmptySet
    <3> QED
      BY <2>2, <3>2 DEF Newest, Above
  <2> DEFINE c == Min(page)
  <2>4. page \in SUBSET Nat
    BY <1>1
  <2>5. c \in page
    BY <2>3, <2>4, HasOldest
  <2>6. c \in rows /\ c \in S /\ Cardinality(Above(rows, c)) < Limit
        /\ Cardinality(Above(S, c)) < Limit + 1
    BY <1>1, <2>5 DEF Newest, Above
  <2> HIDE DEF c
  <2>7. ASSUME NEW r \in S, r >= c PROVE r \in page
    <3>1. /\ Above(S, r) \in SUBSET Above(S, c) /\ Above(S, c) \in SUBSET (1 .. n)
          /\ Above(rows, r) \in SUBSET Above(rows, c) /\ Above(rows, c) \in SUBSET (1 .. n)
      <4>1. r \in Nat /\ c \in Nat /\ S \subseteq Nat /\ rows \subseteq Nat
        BY <1>1, <2>6
      <4>2. \A k \in Nat : k > r => k > c
        BY <2>7, <4>1
      <4> QED
        BY <1>1, <4>1, <4>2 DEF Above
    <3>2. /\ Cardinality(Above(S, r)) \in Nat /\ Cardinality(Above(S, c)) \in Nat
          /\ Cardinality(Above(S, r)) <= Cardinality(Above(S, c))
      BY <3>1, CountType
    <3>3. /\ Cardinality(Above(rows, r)) \in Nat /\ Cardinality(Above(rows, c)) \in Nat
          /\ Cardinality(Above(rows, r)) <= Cardinality(Above(rows, c))
      BY <3>1, CountType
    <3>4. Cardinality(Above(S, r)) < Limit + 1 /\ Cardinality(Above(rows, r)) < Limit
      BY <2>6, <3>2, <3>3
    <3>5. r \in rows
      BY <3>4 DEF Newest, Above
    <3> QED
      BY <3>4, <3>5 DEF Newest, Above
  <2> QED
    BY <2>5, <2>7 DEF c
<1> QED
  BY <1>1, <1>2, <1>3, <1>4

-----------------------------------------------------------------------------
(* The steps.                                                              *)

\* A page keeps the walk complete: what is newer than its cursor is listed.
LEMMA PageStep ==
  ASSUME MaxRows \in Nat, Limit \in Nat \ {0}, WalkInv, Page
  PROVE  WalkInv'
<1> DEFINE rows == list_in_project
           page == Newest(rows, Limit)
<1>1. /\ MaxRows \in Nat /\ live \in SUBSET (1 .. MaxRows) /\ stable \subseteq live
      /\ cursor \in Nat
  BY DEF WalkInv, RowTypes
<1>2. /\ Behind \in SUBSET (1 .. MaxRows) /\ rows = Newest(Behind, Limit + 1)
      /\ \A r \in stable \ Behind : cursor # 0 /\ r >= cursor
  <2>1. Behind \in SUBSET (1 .. MaxRows)
    BY <1>1 DEF Behind
  <2>2. rows = Newest(Behind, Limit + 1)
    BY DEF list_in_project
  <2>3. \A r \in stable \ Behind : cursor \in live /\ r \in live /\ ~(r < cursor)
    BY <1>1 DEF Behind
  <2> QED
    BY <1>1, <2>1, <2>2, <2>3
<1>3. /\ walkPc = "walking" /\ UNCHANGED <<live, stable>>
      /\ listed' = listed \cup page
      /\ cursor' = IF Cardinality(rows) > Limit THEN Min(page) ELSE 0
      /\ walkPc' = IF cursor' = 0 THEN "done" ELSE "walking"
  BY DEF Page, NextCursor
<1>4. Cardinality(rows) \in Nat
  <2>1. rows \in SUBSET Behind
    BY <1>2 DEF Newest
  <2> QED
    BY <1>1, <1>2, <2>1, CountType
<1>5. \A r \in stable : r \in Behind \/ r \in listed
  BY <1>2 DEF WalkInv, ListedToCursor
<1> HIDE DEF rows
<1>6. /\ Cardinality(rows) <= Limit => page = Behind
      /\ Cardinality(rows) > Limit =>
           Min(page) \in Behind /\ \A r \in Behind : r >= Min(page) => r \in page
  <2> DEFINE S == Behind
  <2>1. S \in SUBSET (1 .. MaxRows) /\ rows = Newest(S, Limit + 1) /\ MaxRows \in Nat
    BY <1>1, <1>2
  <2> HIDE DEF S
  <2>2. /\ Cardinality(rows) <= Limit => Newest(rows, Limit) = S
        /\ Cardinality(rows) > Limit =>
             /\ Min(Newest(rows, Limit)) \in S
             /\ \A r \in S : r >= Min(Newest(rows, Limit)) => r \in Newest(rows, Limit)
    BY <2>1, PageIsPrefix
  <2> QED
    BY <2>2 DEF S
<1> HIDE DEF page
<1>7. CASE Cardinality(rows) <= Limit
  <2>1. cursor' = 0 /\ walkPc' = "done" /\ page = Behind
    BY <1>3, <1>4, <1>6, <1>7
  <2> QED
    BY <1>3, <1>5, <2>1 DEF WalkInv, RowTypes, ListedToCursor, WalkMissesNothing
<1>8. CASE Cardinality(rows) > Limit
  <2>1. cursor' = Min(page) /\ cursor' \in Behind /\ \A r \in Behind : r >= cursor' => r \in page
    BY <1>3, <1>6, <1>8
  <2>2. cursor' \in Nat /\ cursor' # 0 /\ walkPc' = "walking"
    BY <1>1, <1>2, <1>3, <2>1
  <2> QED
    BY <1>3, <1>5, <2>1, <2>2 DEF WalkInv, RowTypes, ListedToCursor, WalkMissesNothing
<1> QED
  BY <1>1, <1>4, <1>7, <1>8

\* A row that is created during the walk is not one the walk has to list.
LEMMA CreateStep ==
  ASSUME WalkInv, NEW r \in 1 .. MaxRows, Create(r)
  PROVE  WalkInv'
BY DEF WalkInv, RowTypes, ListedToCursor, WalkMissesNothing, Create

\* A row that is deleted during the walk is no longer one it has to list.
LEMMA DeleteStep ==
  ASSUME WalkInv, NEW r \in 1 .. MaxRows, Delete(r)
  PROVE  WalkInv'
BY DEF WalkInv, RowTypes, ListedToCursor, WalkMissesNothing, Delete

-----------------------------------------------------------------------------
\* WalkInv holds at first.
LEMMA WalkInit ==
  ASSUME Init, MaxRows \in Nat
  PROVE  WalkInv
BY DEF Init, WalkInv, RowTypes, ListedToCursor, WalkMissesNothing

\* Every step keeps WalkInv.
LEMMA WalkStep ==
  ASSUME MaxRows \in Nat, Limit \in Nat \ {0}, WalkInv, [Next]_pagingVars
  PROVE  WalkInv'
<1>1. CASE UNCHANGED pagingVars
  BY <1>1 DEF pagingVars, WalkInv, RowTypes, ListedToCursor, WalkMissesNothing
<1> QED
  BY <1>1, PageStep, CreateStep, DeleteStep DEF Next

\* The inductive invariant holds in every reachable state.
THEOREM WalkInvariant ==
  ASSUME MaxRows \in Nat, Limit \in Nat \ {0}
  PROVE  Spec => []WalkInv
<1>1. Init => WalkInv
  BY WalkInit
<1>2. WalkInv /\ [Next]_pagingVars => WalkInv'
  BY WalkStep
<1> QED
  BY <1>1, <1>2, PTL DEF Spec

\* A client that follows the cursors of list_agents or list_tools to the last
\* page has been given every row that existed all the while, for every page
\* limit and whatever other requests create and delete.
THEOREM WalkIsComplete ==
  ASSUME MaxRows \in Nat, Limit \in Nat \ {0}
  PROVE  Spec => []WalkMissesNothing
<1>1. WalkInv => WalkMissesNothing
  BY DEF WalkInv
<1> QED
  BY <1>1, WalkInvariant, PTL
=============================================================================
