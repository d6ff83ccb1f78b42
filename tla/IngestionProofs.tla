--------------------------- MODULE IngestionProofs ---------------------------
(***************************************************************************)
(* Proofs about Ingestion, for documents of any length and any chunk_size  *)
(* and chunk_overlap that chunk_text admits.                               *)
(***************************************************************************)
EXTENDS Ingestion, FiniteSetTheorems, TLAPS

-----------------------------------------------------------------------------
(* The inductive invariant of chunk_text's loop and of the transaction.    *)

\* The sizes chunk_text accepts: it raises ValueError for any other.
SizesOK == ChunkSize \in Nat /\ Overlap \in Nat /\ Overlap < ChunkSize /\ MaxLength \in Nat

IngestPCs == {"start", "not_found", "chunk", "split", "advance", "embed", "commit",
              "created", "failed"}

\* The character at position i is not a space.
InWord(i) == text[i] # " "

\* The rest of the text begins with a word, or is empty: no round of the loop
\* makes a chunk of spaces only.
AtWord ==
    /\ remaining \in 1 .. Len(text) + 1
    /\ remaining <= Len(text) => InWord(remaining)

\* The characters up to position n are in a chunk of S.
Covered(S, n) ==
    \A i \in 1 .. n : InWord(i) => \E c \in S : c[1] <= i /\ i <= c[2]

\* The chunks of S keep to chunk_size.
Small(S) == \A c \in S : c[2] - c[1] < ChunkSize \/ c = <<1, Len(text)>>

\* What the loop has covered, statement by statement.
LoopInv ==
    /\ ingestPc = "split" => AtWord /\ Covered(chunks, remaining - 1) /\ Small(chunks)
    /\ ingestPc = "advance" =>
         /\ AtWord /\ split \in 1 .. RestLength
         /\ Covered(chunks, remaining + split - 1) /\ Small(chunks)
    /\ ingestPc = "embed" => Covered(chunks, Len(text)) /\ Small(chunks)

\* What the transaction holds.
RowsInv ==
    /\ document = "committed" => ingestPc = "created"
    /\ ingestPc \in {"start", "chunk", "split", "advance", "embed"} => rows = {}
    /\ ingestPc \in {"start", "not_found", "failed"} => document = "none" /\ rows = {}
    /\ ingestPc \in {"commit", "created"} => Covered(rows, Len(text)) /\ Small(rows)

IngestInv ==
    /\ ingestPc \in IngestPCs
    /\ Len(text) \in Nat
    /\ LoopInv
    /\ RowsInv

-----------------------------------------------------------------------------
(* First and last positions.                                               *)

Less == {p \in Nat \X Nat : p[1] < p[2]}

\* The order of the positions is well founded.
LEMMA LessIsWellFounded == IsWellFoundedOn(Less, Nat)
BY NatLessThanWellFounded DEF OpToRel, Less

\* A set of positions that is not empty has a first one.
LEMMA HasFirst ==
  ASSUME NEW S \in SUBSET Nat, S # {}
  PROVE  \E x \in S : \A y \in S : x <= y
<1>1. PICK x \in S : \A y \in S : ~(<<y, x>> \in Less)
  BY LessIsWellFounded, WFMin
<1>2. ASSUME NEW y \in S PROVE x <= y
  <2>1. x \in Nat /\ y \in Nat /\ ~(<<y, x>> \in Less)
    BY <1>1
  <2>. QED  BY <2>1 DEF Less
<1>. QED  BY <1>2

\* Latest finds the last position of a set that is bounded and not empty.
LEMMA HasLatest ==
  ASSUME NEW n \in Nat, NEW S \in SUBSET (1 .. n), S # {}
  PROVE  Latest(S) \in S /\ \A y \in S : y <= Latest(S)
<1> DEFINE D == {n - r : r \in S}
<1>1. D \in SUBSET Nat /\ D # {}
  <2>1. \A r \in S : n - r \in Nat
    OBVIOUS
  <2>2. PICK r \in S : TRUE
    OBVIOUS
  <2>. QED  BY <2>1, <2>2
<1>2. PICK d \in D : \A e \in D : d <= e
  BY <1>1, HasFirst
<1>3. PICK x \in S : d = n - x
  BY <1>2
<1>4. ASSUME NEW r \in S PROVE r <= x
  <2>1. n - r \in D /\ n - r \in Nat /\ d \in Nat /\ d <= n - r /\ x \in 1 .. n /\ r \in 1 .. n
    BY <1>1, <1>2
  <2>. QED  BY <1>3, <2>1
<1>. QED  BY <1>4 DEF Latest

-----------------------------------------------------------------------------
(* " ".join(text.split())                                                  *)

\* The normalized text is as long as the positions it keeps, and begins with
\* a word.
LEMMA NormalizedFacts ==
  ASSUME NEW t, Len(t) \in Nat
  PROVE  /\ Len(Normalized(t)) \in Nat
         /\ Len(Normalized(t)) >= 1 => Normalized(t)[1] # " "
<1> DEFINE words == {i \in 1 .. Len(t) : t[i] # " "}
<1> DEFINE kept == words \cup {i \in 1 .. Len(t) - 1 :
                      /\ t[i] = " " /\ t[i + 1] # " "
                      /\ \E j \in words : j < i}
<1> DEFINE upTo(i) == {j \in kept : j <= i}
<1> DEFINE char(k) == t[CHOOSE i \in kept : Cardinality(upTo(i)) = k]
<1> DEFINE n == Cardinality(kept)
<1>1. kept \subseteq 1 .. Len(t)
  <2>1. \A l \in Nat : 1 .. l - 1 \subseteq 1 .. l
    OBVIOUS
  <2>2. words \subseteq 1 .. Len(t)
    OBVIOUS
  <2>. QED  BY <2>1, <2>2, Zenon
<1>2. IsFiniteSet(kept) /\ n \in Nat
  <2> HIDE DEF kept
  <2>1. IsFiniteSet(1 .. Len(t))
    BY FS_Interval
  <2>. QED  BY <1>1, <2>1, FS_Subset, FS_CardinalityType
<1>3. Normalized(t) = [k \in 1 .. n |-> char(k)]
  BY DEF Normalized
<1>4. \A i \in kept : i \in words \/ \E j \in words : j < i
  OBVIOUS
<1>5. words \subseteq kept
  OBVIOUS
<1>6. \A i \in words : t[i] # " "
  OBVIOUS
<1> HIDE DEF words, kept
<1>7. Len(Normalized(t)) = n
  <2> DEFINE S == {char(k) : k \in 1 .. n}
  <2>1. Normalized(t) \in [1 .. n -> S]
    <3> HIDE DEF char, n
    <3>. QED  BY <1>3
  <2> HIDE DEF S, n, char
  <2>. QED  BY <1>2, <2>1
<1>8. ASSUME n >= 1 PROVE Normalized(t)[1] # " "
  <2>1. kept # {}
    BY <1>2, <1>8, FS_EmptySet
  <2>2. PICK m \in kept : \A y \in kept : m <= y
    BY <1>1, <2>1, HasFirst
  <2>3. upTo(m) = {m}
    <3>1. \A y \in kept : m \in Nat /\ y \in Nat /\ (y <= m <=> y = m)
      BY <1>1, <2>2
    <3>. QED  BY <3>1
  <2>4. Cardinality(upTo(m)) = 1
    BY <2>3, FS_Singleton
  <2>5. PICK i \in kept : Cardinality(upTo(i)) = 1 /\ i = CHOOSE j \in kept : Cardinality(upTo(j)) = 1
    BY <2>4
  <2>6. i = m
    <3>1. m \in upTo(i) /\ i \in upTo(i)
      BY <1>1, <2>2
    <3>2. PICK x : upTo(i) = {x}
      <4>1. IsFiniteSet(upTo(i))
        BY <1>2, FS_Subset
      <4>. QED  BY <2>5, <4>1, FS_Singleton
    <3>. QED  BY <3>1, <3>2
  <2>7. m \in words
    <3>1. \A j \in words : m \in Nat /\ j \in Nat /\ ~(j < m)
      BY <1>1, <1>5, <2>2
    <3>. QED  BY <1>4, <3>1
  <2>8. Normalized(t)[1] = char(1)
    BY <1>2, <1>3, <1>8
  <2>. QED  BY <1>6, <2>5, <2>6, <2>7, <2>8
<1>. QED  BY <1>2, <1>7, <1>8

-----------------------------------------------------------------------------
(* chunk_text                                                              *)

\* Init has a document of letters, spaces and marks.
LEMMA IngestInit == ASSUME SizesOK, Init PROVE IngestInv
<1>1. PICK n \in 0 .. MaxLength : text \in [1 .. n -> Chars]
  BY DEF Init, Documents
<1>2. Len(text) \in Nat
  <2>1. n \in Nat
    BY <1>1 DEF SizesOK
  <2>. QED  BY <1>1, <2>1
<1>. QED  BY <1>2 DEF Init, IngestInv, IngestPCs, LoopInv, RowsInv

\* Positions from x to y.
LEMMA IntervalFacts ==
  ASSUME NEW x \in Nat, NEW y \in Nat, x >= 1, x <= y
  PROVE  x .. y \subseteq Nat /\ x .. y \subseteq 1 .. y /\ x \in x .. y
OBVIOUS

\* The interval that strip() leaves lies within the stripped one and holds
\* all of its characters that are not spaces.
LEMMA StripFacts ==
  ASSUME NEW a \in Nat, NEW b \in Nat, a >= 1, a <= b, InWord(a)
  PROVE  /\ Strip(a, b)[1] \in a .. b /\ Strip(a, b)[2] \in a .. b
         /\ \A i \in a .. b : InWord(i) => Strip(a, b)[1] <= i /\ i <= Strip(a, b)[2]
<1> DEFINE inside == {i \in a .. b : text[i] # " "}
<1> DEFINE first == CHOOSE i \in inside : \A j \in inside : i <= j
<1> DEFINE last == Latest(inside)
<1>2. a .. b \subseteq Nat /\ a .. b \subseteq 1 .. b /\ a \in a .. b
  BY IntervalFacts, Zenon
<1>3. inside \subseteq a .. b /\ a \in inside
  BY <1>2, Zenon DEF InWord
<1>4. \A i \in a .. b : InWord(i) => i \in inside
  BY DEF InWord
<1>5. Strip(a, b) = <<first, last>>
  BY DEF Strip
<1> HIDE DEF inside
<1>6. first \in inside /\ \A i \in inside : first <= i
  <2>1. \E x \in inside : \A y \in inside : x <= y
    BY <1>2, <1>3, HasFirst
  <2>. QED  BY <2>1
<1>7. last \in inside /\ \A i \in inside : i <= last
  <2>1. inside \in SUBSET (1 .. b) /\ inside # {}
    BY <1>2, <1>3
  <2>. QED  BY <2>1, HasLatest
<1> HIDE DEF first, last
<1>8. Strip(a, b)[1] = first /\ Strip(a, b)[2] = last
  <2>1. <<first, last>>[1] = first /\ <<first, last>>[2] = last
    OBVIOUS
  <2>. QED  BY <1>5, <2>1, Zenon
<1>. QED  BY <1>3, <1>4, <1>6, <1>7, <1>8

\* _find_split_position makes progress, within the boundary.
LEMMA SplitFacts ==
  ASSUME SizesOK, IngestInv, RestLength > ChunkSize, RestLength \in Nat
  PROVE  find_split_position \in 1 .. ChunkSize
<1> DEFINE found == {i \in 1 .. Len(Separators) : SplitsAt(Separators[i], ChunkSize) # {}}
<1> DEFINE s == CHOOSE i \in found : \A j \in found : i <= j
<1>1. ChunkSize \in Nat /\ ChunkSize >= 1
  BY DEF SizesOK
<1>2. find_split_position = IF found = {} THEN ChunkSize ELSE Latest(SplitsAt(Separators[s], ChunkSize))
  BY DEF find_split_position
<1>3. CASE found = {}
  BY <1>1, <1>2, <1>3
<1>4. CASE found # {}
  <2>1. /\ Len(Separators) = 3
        /\ Len(Separators[1]) = 2 /\ Len(Separators[2]) = 2 /\ Len(Separators[3]) = 1
    BY DEF Separators
  <2>2. found \subseteq 1 .. 3 /\ \A i \in found : SplitsAt(Separators[i], ChunkSize) # {}
    BY <2>1
  <2>3. s \in found
    <3> HIDE DEF found
    <3>1. found \subseteq Nat
      BY <2>2
    <3>2. \E x \in found : \A y \in found : x <= y
      BY <1>4, <3>1, HasFirst
    <3>. QED  BY <3>2
  <2> HIDE DEF found, s
  <2>4. s \in 1 .. 3 /\ SplitsAt(Separators[s], ChunkSize) # {}
    BY <2>2, <2>3
  <2>5. Len(Separators[s]) \in Nat
    <3>1. s = 1 \/ s = 2 \/ s = 3
      BY <2>4
    <3>. QED  BY <2>1, <3>1
  <2>6. SplitsAt(Separators[s], ChunkSize) \in SUBSET (1 .. ChunkSize)
    <3>1. \A k \in Nat : k + 1 .. ChunkSize \subseteq 1 .. ChunkSize
      BY <1>1
    <3>2. SplitsAt(Separators[s], ChunkSize) \subseteq Len(Separators[s]) + 1 .. ChunkSize
      BY DEF SplitsAt
    <3>. QED  BY <2>5, <3>1, <3>2
  <2>. QED  BY <1>1, <1>2, <1>4, <2>4, <2>6, HasLatest
<1>. QED  BY <1>3, <1>4

\* The early returns of chunk_text, and the start of its loop.
LEMMA ChunkStep == ASSUME SizesOK, IngestInv, Chunk PROVE IngestInv'
<1> DEFINE n == Len(text')
<1>1. text' = Normalized(text) /\ remaining' = 1 /\ rows' = rows /\ document' = document
      /\ ingestPc = "chunk"
  BY DEF Chunk, rowVars
<1>2. n \in Nat
  BY <1>1, NormalizedFacts DEF IngestInv
<1>8. n >= 1 => text'[1] # " "
  BY <1>1, NormalizedFacts DEF IngestInv
<1>3. rows' = {} /\ document' # "committed"
  BY <1>1 DEF IngestInv, RowsInv
<1>4. CASE text' = <<>> /\ chunks' = {} /\ ingestPc' = "commit"
  <2>1. n = 0
    BY <1>4
  <2>2. Covered(rows, Len(text))' /\ Small(rows)'
    BY <1>3, <2>1 DEF Covered, Small
  <2>. QED  BY <1>2, <1>3, <1>4, <2>2 DEF IngestInv, IngestPCs, LoopInv, RowsInv
<1>5. CASE chunks' = {<<1, n>>} /\ ingestPc' = "embed"
  <2>1. \A i \in 1 .. n : <<1, n>>[1] <= i /\ i <= <<1, n>>[2]
    BY <1>2
  <2>2. Covered(chunks, Len(text))' /\ Small(chunks)'
    BY <1>5, <2>1 DEF Covered, Small
  <2>. QED  BY <1>2, <1>3, <1>5, <2>2 DEF IngestInv, IngestPCs, LoopInv, RowsInv
<1>6. CASE n > ChunkSize /\ chunks' = {} /\ ingestPc' = "split"
  <2>1. n >= 1 /\ 1 \in 1 .. n + 1
    BY <1>2, <1>6 DEF SizesOK
  <2>2. AtWord' /\ Covered(chunks, remaining - 1)' /\ Small(chunks)'
    <3>1. 1 - 1 = 0
      OBVIOUS
    <3>2. InWord(remaining)'
      BY <1>1, <1>8, <2>1 DEF InWord
    <3>. QED  BY <1>1, <1>6, <2>1, <3>1, <3>2 DEF AtWord, Covered, Small
  <2>. QED  BY <1>2, <1>3, <1>6, <2>2 DEF IngestInv, IngestPCs, LoopInv, RowsInv
<1>7. \/ text' = <<>> /\ chunks' = {} /\ ingestPc' = "commit"
      \/ chunks' = {<<1, n>>} /\ ingestPc' = "embed"
      \/ n > ChunkSize /\ chunks' = {} /\ ingestPc' = "split"
  <2>1. n <= ChunkSize \/ n > ChunkSize
    BY <1>2 DEF SizesOK
  <2>. QED  BY <2>1 DEF Chunk
<1>. QED  BY <1>4, <1>5, <1>6, <1>7

\* One round of the loop covers the text up to split_at.
LEMMA SplitStep == ASSUME SizesOK, IngestInv, Split PROVE IngestInv'
<1> DEFINE last == remaining + split' - 1
<1> DEFINE new == Strip(remaining, last)
<1>1. /\ ingestPc = "split" /\ ingestPc' = "advance" /\ RestLength > ChunkSize
      /\ split' = find_split_position /\ chunks' = chunks \cup {new}
      /\ UNCHANGED <<text, remaining, rows, document>>
  BY DEF Split, rowVars
<1>2. /\ Len(text) \in Nat /\ AtWord /\ Covered(chunks, remaining - 1) /\ Small(chunks)
      /\ rows = {} /\ document # "committed"
  BY <1>1 DEF IngestInv, LoopInv, RowsInv
<1>3. remaining \in 1 .. Len(text) + 1 /\ ChunkSize \in Nat
  BY <1>2 DEF AtWord, SizesOK
<1>4. RestLength \in Nat /\ RestLength = Len(text) - remaining + 1
  BY <1>2, <1>3 DEF RestLength
<1>5. split' \in 1 .. ChunkSize
  BY <1>1, <1>4, SplitFacts
<1>6. split' \in 1 .. RestLength
  BY <1>1, <1>3, <1>4, <1>5
<1>7. /\ remaining \in Nat /\ remaining >= 1 /\ last \in Nat /\ remaining <= last
      /\ remaining <= Len(text) /\ last - remaining < ChunkSize
  BY <1>1, <1>2, <1>3, <1>4, <1>5
<1>8. InWord(remaining)
  BY <1>2, <1>7 DEF AtWord
<1> HIDE DEF last
<1>9. /\ new[1] \in remaining .. last /\ new[2] \in remaining .. last
      /\ \A i \in remaining .. last : InWord(i) => new[1] <= i /\ i <= new[2]
  BY <1>7, <1>8, StripFacts
<1> HIDE DEF new
<1>10. Covered(chunks', last)
  <2> SUFFICES ASSUME NEW i \in 1 .. last, InWord(i)
               PROVE  \E c \in chunks' : c[1] <= i /\ i <= c[2]
    BY DEF Covered
  <2>1. i \in 1 .. remaining - 1 \/ i \in remaining .. last
    BY <1>7
  <2>2. CASE i \in 1 .. remaining - 1
    BY <1>1, <1>2, <2>2 DEF Covered
  <2>3. CASE i \in remaining .. last
    BY <1>1, <1>9, <2>3
  <2>. QED  BY <2>1, <2>2, <2>3
<1>11. Small(chunks')
  <2>1. new[2] - new[1] < ChunkSize
    <3> DEFINE x == new[1]
    <3> DEFINE y == new[2]
    <3>1. x \in remaining .. last /\ y \in remaining .. last
      BY <1>9
    <3> HIDE DEF x, y
    <3>2. y - x < ChunkSize
      BY <1>3, <1>7, <3>1
    <3>. QED  BY <3>2 DEF x, y
  <2>. QED  BY <1>1, <1>2, <2>1 DEF Small
<1>12. AtWord' /\ RestLength' = RestLength /\ Covered(chunks, remaining + split - 1)'
       /\ Small(chunks)'
  BY <1>1, <1>2, <1>10, <1>11 DEF AtWord, RestLength, Covered, Small, InWord, last
<1>. QED  BY <1>1, <1>2, <1>6, <1>12 DEF IngestInv, IngestPCs, LoopInv, RowsInv

\* The next round begins within what is covered: at most chunk_overlap back.
LEMMA AdvanceStep == ASSUME SizesOK, IngestInv, Advance PROVE IngestInv'
<1> DEFINE from == remaining + OverlapStart
<1> DEFINE rest == {i \in from .. Len(text) : InWord(i)}
<1>1. /\ ingestPc = "advance"
      /\ remaining' = IF rest = {} THEN Len(text) + 1 ELSE CHOOSE i \in rest : \A j \in rest : i <= j
      /\ \/ /\ remaining' = 1 /\ ingestPc' = "embed"
            /\ chunks' = chunks \cup IF remaining' > Len(text) THEN {} ELSE {<<remaining', Len(text)>>}
         \/ chunks' = chunks /\ ingestPc' = "split"
      /\ UNCHANGED <<text, split, rows, document>>
  BY DEF Advance, rowVars, InWord
<1>2. /\ Len(text) \in Nat /\ AtWord /\ split \in 1 .. RestLength
      /\ Covered(chunks, remaining + split - 1) /\ Small(chunks)
      /\ rows = {} /\ document # "committed"
  BY <1>1 DEF IngestInv, LoopInv, RowsInv
<1>3. remaining \in 1 .. Len(text) + 1 /\ RestLength = Len(text) - remaining + 1
  BY <1>2 DEF AtWord, RestLength
<1>4. OverlapStart \in Nat /\ OverlapStart <= split /\ split \in Nat
  BY <1>2, <1>3 DEF OverlapStart, SizesOK
<1>5. from \in Nat /\ from >= 1 /\ from <= remaining + split /\ from <= Len(text) + 1
      /\ remaining + split - 1 \in Nat /\ remaining + split - 1 <= Len(text)
  BY <1>2, <1>3, <1>4
<1>6. \A i \in rest : i \in from .. Len(text) /\ InWord(i)
  OBVIOUS
<1>7. \A i \in from .. Len(text) : InWord(i) => i \in rest
  OBVIOUS
<1> HIDE DEF rest, from
<1>8. /\ remaining' \in 1 .. Len(text) + 1
      /\ remaining' <= Len(text) => InWord(remaining')
      /\ \A i \in from .. Len(text) : InWord(i) => remaining' <= i
  <2>1. CASE rest = {}
    BY <1>1, <1>2, <1>7, <2>1
  <2>2. CASE rest # {}
    <3>1. rest \subseteq Nat
      BY <1>2, <1>5, <1>6
    <3>2. \E x \in rest : \A y \in rest : x <= y
      BY <2>2, <3>1, HasFirst
    <3>3. remaining' \in rest /\ \A j \in rest : remaining' <= j
      BY <1>1, <2>2, <3>2
    <3>4. remaining' \in from .. Len(text) /\ InWord(remaining')
      BY <1>6, <3>3
    <3>5. remaining' \in 1 .. Len(text) + 1
      BY <1>2, <1>5, <3>4
    <3>. QED  BY <1>7, <3>3, <3>4, <3>5
  <2>. QED  BY <2>1, <2>2
<1>9. Covered(chunks, remaining' - 1)
  <2> SUFFICES ASSUME NEW i \in 1 .. remaining' - 1, InWord(i)
               PROVE  \E c \in chunks : c[1] <= i /\ i <= c[2]
    BY DEF Covered
  <2> DEFINE r == remaining'
  <2>1. r \in 1 .. Len(text) + 1 /\ i \in 1 .. r - 1
    BY <1>8
  <2>2. ~(i \in from .. Len(text))
    <3>1. r \in Nat /\ i \in Nat /\ ~(r <= i)
      <4> HIDE DEF r
      <4>. QED  BY <1>2, <2>1
    <3>. QED  BY <1>8, <3>1
  <2> HIDE DEF r
  <2>3. i \in 1 .. remaining + split - 1
    BY <1>2, <1>3, <1>4, <1>5, <2>1, <2>2
  <2>. QED  BY <1>2, <2>3 DEF Covered
<1>10. CASE chunks' = chunks /\ ingestPc' = "split"
  <2>1. AtWord' /\ Covered(chunks, remaining - 1)' /\ Small(chunks)'
    BY <1>1, <1>2, <1>8, <1>9, <1>10 DEF AtWord, Covered, Small, InWord
  <2>. QED  BY <1>1, <1>2, <1>10, <2>1 DEF IngestInv, IngestPCs, LoopInv, RowsInv
<1>11. CASE /\ remaining' = 1 /\ ingestPc' = "embed"
            /\ chunks' = chunks \cup IF remaining' > Len(text) THEN {} ELSE {<<remaining', Len(text)>>}
  <2>1. Covered(chunks', Len(text)) /\ Small(chunks')
    <3>1. CASE 1 > Len(text)
      <4>1. chunks' = chunks /\ Len(text) = 0
        BY <1>2, <1>11, <3>1
      <4>. QED  BY <1>2, <4>1 DEF Covered, Small
    <3>2. CASE ~(1 > Len(text))
      <4>1. chunks' = chunks \cup {<<1, Len(text)>>}
        BY <1>11, <3>2
      <4>2. \A i \in 1 .. Len(text) : <<1, Len(text)>>[1] <= i /\ i <= <<1, Len(text)>>[2]
        BY <1>2
      <4>. QED  BY <1>2, <4>1, <4>2 DEF Covered, Small
    <3>. QED  BY <3>1, <3>2
  <2>2. Covered(chunks, Len(text))' /\ Small(chunks)'
    BY <1>1, <2>1 DEF Covered, Small, InWord
  <2>. QED  BY <1>1, <1>2, <1>11, <2>2 DEF IngestInv, IngestPCs, LoopInv, RowsInv
<1>. QED  BY <1>1, <1>10, <1>11

\* The last chunk is the rest.
LEMMA FinishStep == ASSUME SizesOK, IngestInv, Finish PROVE IngestInv'
<1> DEFINE n == Len(text)
<1>1. /\ ingestPc = "split" /\ RestLength <= ChunkSize /\ ingestPc' = "embed"
      /\ chunks' = IF remaining > n THEN chunks ELSE chunks \cup {<<remaining, n>>}
      /\ UNCHANGED <<text, remaining, rows, document>>
  BY DEF Finish, rowVars
<1>2. /\ n \in Nat /\ AtWord /\ Covered(chunks, remaining - 1) /\ Small(chunks)
      /\ rows = {} /\ document # "committed"
  BY <1>1 DEF IngestInv, LoopInv, RowsInv
<1>3. remaining \in 1 .. n + 1 /\ ChunkSize \in Nat /\ RestLength = n - remaining + 1
  BY <1>2 DEF AtWord, RestLength, SizesOK
<1>4. Covered(chunks', n) /\ Small(chunks')
  <2>1. CASE remaining > n
    <3>1. chunks' = chunks /\ remaining - 1 = n
      BY <1>1, <1>2, <1>3, <2>1
    <3>. QED  BY <1>2, <3>1
  <2>2. CASE ~(remaining > n)
    <3> DEFINE new == <<remaining, n>>
    <3>1. chunks' = chunks \cup {new}
      BY <1>1, <2>2
    <3>2. new[1] = remaining /\ new[2] = n
      OBVIOUS
    <3> HIDE DEF new
    <3>3. Small(chunks')
      <4>1. new[2] - new[1] < ChunkSize
        BY <1>1, <1>2, <1>3, <3>2
      <4>. QED  BY <1>2, <3>1, <4>1 DEF Small
    <3>4. Covered(chunks', n)
      <4> SUFFICES ASSUME NEW i \in 1 .. n, InWord(i)
                   PROVE  \E c \in chunks' : c[1] <= i /\ i <= c[2]
        BY DEF Covered
      <4>1. i \in 1 .. remaining - 1 \/ (new[1] <= i /\ i <= new[2])
        BY <1>2, <1>3, <3>2
      <4>. QED  BY <1>2, <3>1, <4>1 DEF Covered
    <3>. QED  BY <3>3, <3>4
  <2>. QED  BY <2>1, <2>2
<1>5. Covered(chunks, Len(text))' /\ Small(chunks)'
  BY <1>1, <1>4 DEF Covered, Small, InWord
<1>. QED  BY <1>1, <1>2, <1>5 DEF IngestInv, IngestPCs, LoopInv, RowsInv

-----------------------------------------------------------------------------
(* The transaction around it                                               *)

\* Storing the chunks and committing them.
LEMMA StoreStep ==
  ASSUME IngestInv, CreateDocument \/ Store \/ Commit \/ Fail \/ UNCHANGED ingestVars
  PROVE  IngestInv'
<1>1. text' = text
  BY DEF CreateDocument, Store, Commit, Fail, loopVars, ingestVars
<1>2. CASE CreateDocument
  BY <1>1, <1>2 DEF CreateDocument, IngestInv, IngestPCs, LoopInv, RowsInv
<1>3. CASE Store
  <2>1. rows' = chunks /\ ingestPc' = "commit" /\ document' = document /\ ingestPc = "embed"
    BY <1>3 DEF Store, StoredChunks
  <2>2. Covered(rows, Len(text))' /\ Small(rows)'
    BY <1>1, <2>1 DEF IngestInv, LoopInv, Covered, Small, InWord
  <2>. QED  BY <1>1, <2>1, <2>2 DEF IngestInv, IngestPCs, LoopInv, RowsInv
<1>4. CASE Commit
  <2>1. rows' = rows /\ ingestPc' = "created" /\ ingestPc = "commit"
    BY <1>4 DEF Commit
  <2>2. Covered(rows, Len(text))' /\ Small(rows)'
    BY <1>1, <2>1 DEF IngestInv, RowsInv, Covered, Small, InWord
  <2>. QED  BY <1>1, <2>1, <2>2 DEF IngestInv, IngestPCs, LoopInv, RowsInv
<1>5. CASE Fail
  BY <1>1, <1>5 DEF Fail, RolledBack, IngestInv, IngestPCs, LoopInv, RowsInv
<1>6. CASE UNCHANGED ingestVars
  <2>1. UNCHANGED <<text, remaining, split, chunks, document, rows, ingestPc>>
    BY <1>6 DEF ingestVars
  <2>2. LoopInv' = LoopInv /\ RowsInv' = RowsInv
    BY <2>1 DEF LoopInv, RowsInv, Covered, Small, InWord, AtWord, RestLength
  <2>. QED  BY <2>1, <2>2 DEF IngestInv
<1>. QED  BY <1>2, <1>3, <1>4, <1>5, <1>6

\* Every step keeps IngestInv.
LEMMA IngestStep ==
  ASSUME SizesOK, IngestInv, [Next]_ingestVars
  PROVE  IngestInv'
BY ChunkStep, SplitStep, AdvanceStep, FinishStep, StoreStep DEF Next, Step

\* The inductive invariant of an ingestion: at every statement of chunk_text
\* the text before `remaining` (after a split, before split_at) is in the
\* chunks, and the rows of the transaction are those chunks or none.
THEOREM IngestInvariant ==
  ASSUME SizesOK
  PROVE  Spec => []IngestInv
<1>1. Init => IngestInv
  BY IngestInit
<1>2. IngestInv /\ [Next]_ingestVars => IngestInv'
  BY IngestStep
<1>. QED  BY <1>1, <1>2, PTL DEF Spec

\* A document is committed with all of its text in chunks of at most
\* chunk_size characters (or one chunk that is the whole text), for every
\* document and all sizes chunk_text accepts; a request that fails leaves
\* neither a document nor chunks.
THEOREM CommittedIsChunked ==
  ASSUME SizesOK
  PROVE  Spec => []DocumentIsChunked
<1>1. IngestInv => DocumentIsChunked
  BY DEF IngestInv, RowsInv, Covered, Small, InWord, DocumentIsChunked
<1>2. Spec => []IngestInv
  BY IngestInvariant
<1>. QED  BY <1>1, <1>2, PTL

-----------------------------------------------------------------------------
(* Where the loop of chunk_text moves on, and where it never does again.   *)

\* A round that splits beyond the overlap moves on; no round goes back.
RoundsMoveOn ==
    [][ingestPc = "advance" =>
         /\ remaining' >= remaining
         /\ split > Overlap => remaining' > remaining]_ingestVars

\* The rest of the text, not its beginning, is to be split within the overlap.
Stuck ==
    /\ ingestPc \in {"split", "advance"}
    /\ remaining > 1 /\ RestLength > ChunkSize
    /\ find_split_position <= Overlap
    /\ ingestPc = "advance" => split <= Overlap

\* What is left of CreateDocumentAnswers, and why it fails: once the loop is
\* to split within the overlap, anywhere but in its first round, it does so
\* for ever, and the request is not answered.
StuckForGood == [][Stuck => Stuck']_ingestVars

\* Where a split falls depends on the text and on where the rest begins.
LEMMA SameSplit ==
  ASSUME UNCHANGED <<text, remaining>>
  PROVE  RestLength' = RestLength /\ find_split_position' = find_split_position
<1>1. text' = text /\ remaining' = remaining
  OBVIOUS
<1>2. RestLength' = RestLength
  BY <1>1 DEF RestLength
<1>3. find_split_position' = find_split_position
  BY <1>1, SMTT(30) DEF find_split_position, SplitsAt, RestLength
<1>. QED  BY <1>2, <1>3

\* Where a round begins: no further back than the overlap, and at a word.
LEMMA AdvanceFacts ==
  ASSUME SizesOK, IngestInv, Advance
  PROVE  /\ remaining \in Nat /\ remaining' \in Nat /\ split \in Nat /\ Overlap \in Nat
         /\ remaining' >= remaining + OverlapStart
         /\ split <= Overlap /\ remaining <= Len(text) => remaining' = remaining
<1> DEFINE from == remaining + OverlapStart
<1> DEFINE rest == {i \in from .. Len(text) : InWord(i)}
<1>1. /\ ingestPc = "advance"
      /\ remaining' = IF rest = {} THEN Len(text) + 1 ELSE CHOOSE i \in rest : \A j \in rest : i <= j
  BY DEF Advance, InWord
<1>2. Len(text) \in Nat /\ AtWord /\ split \in 1 .. RestLength
  BY <1>1 DEF IngestInv, LoopInv
<1>3. remaining \in 1 .. Len(text) + 1 /\ RestLength = Len(text) - remaining + 1
  BY <1>2 DEF AtWord, RestLength
<1>4. split \in Nat /\ remaining \in Nat /\ Overlap \in Nat
  BY <1>2, <1>3 DEF SizesOK
<1>5. OverlapStart \in Nat /\ OverlapStart <= split /\ (split <= Overlap => OverlapStart = 0)
  BY <1>2, <1>3, <1>4 DEF OverlapStart
<1>6. from \in Nat /\ from <= Len(text) + 1 /\ (split <= Overlap => from = remaining)
  BY <1>2, <1>3, <1>4, <1>5
<1>7. \A i \in rest : i \in from .. Len(text)
  OBVIOUS
<1>8. \A i \in from .. Len(text) : InWord(i) => i \in rest
  OBVIOUS
<1>9. remaining' \in Nat /\ remaining' >= from
      /\ (remaining \in rest /\ from = remaining => remaining' = remaining)
  <2> HIDE DEF rest, from
  <2>1. CASE rest = {}
    BY <1>1, <1>2, <1>6, <2>1
  <2>2. CASE rest # {}
    <3>1. rest \subseteq Nat
      BY <1>2, <1>6, <1>7
    <3>2. \E x \in rest : \A y \in rest : x <= y
      BY <2>2, <3>1, HasFirst
    <3>3. remaining' \in rest /\ \A j \in rest : remaining' <= j
      BY <1>1, <2>2, <3>2
    <3>4. remaining' \in from .. Len(text)
      BY <1>7, <3>3
    <3>5. remaining' \in Nat /\ remaining' >= from
      BY <1>2, <1>6, <3>4
    <3>. QED  BY <3>3, <3>5, <1>4
  <2>. QED  BY <2>1, <2>2
<1>10. ASSUME split <= Overlap, remaining <= Len(text) PROVE remaining' = remaining
  <2>1. InWord(remaining)
    BY <1>2, <1>10 DEF AtWord
  <2>2. from = remaining
    BY <1>6, <1>10
  <2>3. remaining \in from .. Len(text)
    BY <1>2, <1>4, <1>10, <2>2
  <2>4. remaining \in rest
    BY <1>8, <2>1, <2>3
  <2>. QED  BY <1>9, <2>2, <2>4
<1>. QED  BY <1>4, <1>9, <1>10

\* For every document and all sizes, a round of chunk_text never goes back,
\* and moves on unless it splits within the overlap; so without overlap every
\* round moves on.
THEOREM LoopMovesOn ==
  ASSUME SizesOK
  PROVE  Spec => RoundsMoveOn
<1>1. IngestInv /\ [Next]_ingestVars =>
        [ingestPc = "advance" =>
           /\ remaining' >= remaining
           /\ split > Overlap => remaining' > remaining]_ingestVars
  <2> SUFFICES ASSUME IngestInv, Next, ingestPc = "advance"
               PROVE  /\ remaining' >= remaining
                      /\ split > Overlap => remaining' > remaining
    OBVIOUS
  <2>1. Advance
    BY DEF Next, Step, CreateDocument, Chunk, Split, Finish, Store, Commit, Fail
  <2>2. /\ remaining \in Nat /\ remaining' \in Nat /\ split \in Nat /\ Overlap \in Nat
        /\ remaining' >= remaining + OverlapStart
    BY <2>1, AdvanceFacts
  <2>3. OverlapStart \in Nat /\ (split > Overlap => OverlapStart > 0)
    BY <2>2 DEF OverlapStart
  <2>. QED  BY <2>2, <2>3
<1>2. Spec => []IngestInv
  BY IngestInvariant
<1>. QED  BY <1>1, <1>2, PTL DEF Spec, RoundsMoveOn

\* For every document and all sizes, a loop that is to split within the
\* overlap, after its first round, has no way out: chunk_text's test for a
\* round without progress compares with the whole text and not with the rest.
THEOREM NoWayOut ==
  ASSUME SizesOK
  PROVE  Spec => StuckForGood
<1>1. IngestInv /\ [Next]_ingestVars => [Stuck => Stuck']_ingestVars
  <2> SUFFICES ASSUME IngestInv, Next, Stuck PROVE Stuck'
    OBVIOUS
  <2>1. Len(text) \in Nat /\ ChunkSize \in Nat
    BY DEF IngestInv, SizesOK
  <2>2. CASE Split
    <3>1. /\ split' = find_split_position /\ ingestPc' = "advance"
          /\ UNCHANGED <<text, remaining>>
      BY <2>2 DEF Split
    <3>2. RestLength' = RestLength /\ find_split_position' = find_split_position
      BY <3>1, SameSplit
    <3>. QED  BY <3>1, <3>2 DEF Stuck
  <2>3. CASE Advance
    <3>1. ingestPc = "advance" /\ split <= Overlap
      BY <2>3 DEF Advance, Stuck
    <3>2. AtWord
      BY <3>1 DEF IngestInv, LoopInv
    <3>3. remaining <= Len(text)
      BY <2>1, <3>2 DEF Stuck, RestLength, AtWord
    <3>4. UNCHANGED <<text, remaining>>
      BY <2>3, <3>1, <3>3, AdvanceFacts DEF Advance
    <3>5. ingestPc' = "split"
      <4>1. remaining' # 1
        <5>1. remaining \in Nat /\ remaining > 1
          BY <2>1, <3>2 DEF Stuck, AtWord
        <5>. QED  BY <3>4, <5>1
      <4>. QED  BY <2>3, <4>1 DEF Advance
    <3>6. RestLength' = RestLength /\ find_split_position' = find_split_position
      BY <3>4, SameSplit
    <3>. QED  BY <3>4, <3>5, <3>6 DEF Stuck
  <2>4. ~Finish
    <3>1. RestLength \in Int
      <4>1. AtWord
        BY DEF IngestInv, LoopInv, Stuck
      <4>. QED  BY <2>1, <4>1 DEF AtWord, RestLength
    <3>. QED  BY <2>1, <3>1 DEF Finish, Stuck
  <2>5. ~CreateDocument /\ ~Chunk /\ ~Store /\ ~Commit /\ ~Fail
    BY DEF Stuck, CreateDocument, Chunk, Store, Commit, Fail
  <2>. QED  BY <2>2, <2>3, <2>4, <2>5 DEF Next, Step
<1>2. Spec => []IngestInv
  BY IngestInvariant
<1>. QED  BY <1>1, <1>2, PTL DEF Spec, StuckForGood
=============================================================================
