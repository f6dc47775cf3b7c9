------------------------------ MODULE TextProofs ------------------------------
(*****************************************************************************)
(* Proofs about text on its way to a drawer, whatever its length and its     *)
(* content:                                                                  *)
(*   ChunksAreSound      a file is cut into pieces that cover it, a unit     *)
(*                       into slices that hold each of its lines once        *)
(*   MegaFilesAreSound   a file of several sessions is split into all of     *)
(*                       them that have names of their own                   *)
(*   TranscriptsAreSound what is said in an export is filed once, in order,  *)
(*                       each turn with its answer                           *)
(*****************************************************************************)
EXTENDS Chunking, MegaFiles, Transcripts, FiniteSetTheorems, FunctionTheorems, TLAPS

-----------------------------------------------------------------------------
(* Chunking: arithmetic.                                                   *)

LEMMA DivMeans ==
  ASSUME NEW x \in Nat, NEW c \in Nat, c > 0
  PROVE  x \div c \in Nat /\ (x \div c) * c <= x /\ x < (x \div c) * c + c
OBVIOUS

LEMMA TimesMonotone ==
  ASSUME NEW i \in Nat, NEW j \in Nat, NEW c \in Nat, i < j
  PROVE  i * c + c <= j * c
OBVIOUS

LEMMA TimesNext ==
  ASSUME NEW i \in Nat, NEW c \in Nat
  PROVE  (i + 1) * c = i * c + c /\ i * c \in Nat
OBVIOUS

LEMMA HalfMeans ==
  ASSUME NEW c \in Nat, NEW o \in Nat, o < c \div 2
  PROVE  c \div 2 \in Nat /\ 2 * (c \div 2) <= c /\ c >= 2 /\ c \div 2 > o
OBVIOUS

\* The sizes.
LEMMA Sizes ==
  /\ ChunkSize \in Nat /\ ChunkOverlap \in Nat /\ ChunkSize >= 2 /\ ChunkSize \div 2 \in Nat
  /\ ChunkSize \div 2 > ChunkOverlap /\ ChunkSize \div 2 <= ChunkSize /\ MinChunk \in Nat
<1>1. ChunkSize \in Nat /\ ChunkOverlap \in Nat /\ ChunkOverlap < ChunkSize \div 2 /\ MinChunk \in Nat
  BY ChunkingAssumption
<1>2. /\ ChunkSize \div 2 \in Nat /\ 2 * (ChunkSize \div 2) <= ChunkSize /\ ChunkSize >= 2
      /\ ChunkSize \div 2 > ChunkOverlap
  BY ONLY <1>1, HalfMeans
<1> QED BY <1>1, <1>2

\* Min and Max of a set of places of a text.
LEMMA PlacesFinite ==
  ASSUME NEW a \in Int, NEW b \in Int, NEW S \in SUBSET (a..b), S # {}
  PROVE  /\ Min(S) \in S /\ \A x \in S : Min(S) <= x
         /\ Max(S) \in S /\ \A x \in S : x <= Max(S)
<1>1. IsFiniteSet(a..b)
  BY FS_Interval
<1>2. IsFiniteSet(S)
  BY <1>1, FS_Subset
<1>3. S \in SUBSET Int
  OBVIOUS
<1> QED BY <1>2, <1>3, LeastAndGreatest

-----------------------------------------------------------------------------
(* Chunking: the break, the next start, and the stripped length.           *)

\* A window that does not reach the end of the text is broken in its back half.
LEMMA BreakInBackHalf ==
  ASSUME NEW end \in Nat, place \in Nat, end = place + ChunkSize
  PROVE  ChunkBreak(end) \in Nat /\ place + ChunkSize \div 2 <= ChunkBreak(end) /\ ChunkBreak(end) <= end
<1> DEFINE window == place..end - 1
           boundaries == <<
             {p \in window : p + 1 < end /\ At(p) = "newline" /\ At(p + 1) = "newline"},
             {p \in window : At(p) = "newline"},
             {p + 1 : p \in {q \in window : At(q) = "." /\ (q + 1 < end => Blank(q + 1))}},
             {p \in window : At(p) = " "}>>
           good == {k \in DOMAIN boundaries : \E p \in boundaries[k] : p >= BackHalf}
<1>1. ChunkBreak(end) = IF good = {} THEN end ELSE Max(boundaries[Min(good)])
  BY DEF ChunkBreak
<1>2. DOMAIN boundaries = 1..4
  OBVIOUS
<1>3. \A k \in 1..4 : boundaries[k] \in SUBSET (place..end)
  <2>1. \A p \in window : p \in place..end /\ p + 1 \in place..end
    BY Sizes
  <2>2. /\ boundaries[1] \in SUBSET (place..end) /\ boundaries[2] \in SUBSET (place..end)
        /\ boundaries[3] \in SUBSET (place..end) /\ boundaries[4] \in SUBSET (place..end)
    BY <2>1
  <2> HIDE DEF boundaries
  <2> QED BY <2>2
<1>4. BackHalf = place + ChunkSize \div 2
  BY DEF BackHalf
<1> HIDE DEF boundaries
<1>5. CASE good = {}
  BY <1>1, <1>5, Sizes
<1>6. CASE good # {}
  <2>1. good \in SUBSET (1..4)
    BY <1>2
  <2> HIDE DEF good
  <2>2. 1 \in Int /\ 4 \in Int
    OBVIOUS
  <2>3. Min(good) \in good
    BY ONLY <1>6, <2>1, <2>2, PlacesFinite
  <2> DEFINE S == boundaries[Min(good)]
  <2>4. PICK p \in S : p >= BackHalf
    BY <2>3 DEF good
  <2>9. Min(good) \in 1..4
    BY <2>1, <2>3
  <2>5. S \in SUBSET (place..end) /\ S # {}
    BY <1>3, <2>4, <2>9
  <2>10. place \in Int /\ end \in Int
    OBVIOUS
  <2> HIDE DEF S
  <2>6. Max(S) \in S /\ \A x \in S : x <= Max(S)
    BY ONLY <2>5, <2>10, PlacesFinite
  <2>7. Max(S) \in place..end /\ p \in place..end /\ p <= Max(S)
    BY <2>4, <2>5, <2>6
  <2>8. ChunkBreak(end) = Max(S)
    BY <1>1, <1>6 DEF S
  <2> QED BY <1>4, <2>4, <2>7, <2>8, Sizes
<1> QED BY <1>5, <1>6

\* The end of a piece.
LEMMA PieceEnds ==
  ASSUME place \in Nat, Len(text) \in Nat, place < Len(text)
  PROVE  /\ End \in Nat /\ place < End /\ End <= Len(text) /\ End - place <= ChunkSize
         /\ End < Len(text) => End - ChunkOverlap > place
<1>1. CASE place + ChunkSize < Len(text)
  <2> DEFINE e == place + ChunkSize
  <2>1. e \in Nat /\ End = ChunkBreak(e)
    BY <1>1, Sizes DEF End
  <2>2. ChunkBreak(e) \in Nat /\ place + ChunkSize \div 2 <= ChunkBreak(e) /\ ChunkBreak(e) <= e
    BY <2>1, BreakInBackHalf
  <2> QED BY <1>1, <2>1, <2>2, Sizes
<1>2. CASE ~(place + ChunkSize < Len(text))
  BY <1>2, Sizes DEF End
<1> QED BY <1>1, <1>2

\* The first blank from a place on, or the first that is none.
LEMMA NextPlaceMeans ==
  ASSUME Len(text) \in Nat, NEW p \in Nat, p <= Len(text), NEW blank
  PROVE  LET q == NextPlace(p, blank)
         IN /\ q \in Nat /\ p <= q /\ q <= Len(text)
            /\ \A i \in p..q - 1 : Blank(i) # blank
            /\ q < Len(text) => Blank(q) = blank
<1> DEFINE S == {q \in p..Len(text) : q = Len(text) \/ Blank(q) = blank}
           q == Min(S)
<1>1. S \in SUBSET (p..Len(text)) /\ Len(text) \in S /\ p \in Int /\ Len(text) \in Int
  OBVIOUS
<1>2. \A x \in p..Len(text) : x \in S <=> x = Len(text) \/ Blank(x) = blank
  OBVIOUS
<1> HIDE DEF S
<1>3. q \in S /\ \A x \in S : q <= x
  BY <1>1, PlacesFinite
<1>4. q = NextPlace(p, blank)
  BY DEF NextPlace, S
<1> HIDE DEF q
<1>5. q \in p..Len(text)
  BY <1>1, <1>3
<1>6. ASSUME NEW i \in p..q - 1 PROVE Blank(i) # blank
  <2>1. i \in p..Len(text) /\ i < q
    BY <1>5
  <2>2. i \notin S
    BY <1>3, <1>5, <2>1
  <2> QED BY <1>2, <2>1, <2>2
<1>7. q < Len(text) => Blank(q) = blank
  BY <1>2, <1>3, <1>5
<1> QED BY <1>4, <1>5, <1>6, <1>7

\* Where the next piece begins: after the place of this one; and what lies between
\* the end of this one and there is the rest of a word that began before the overlap.
LEMMA NextStartMeans ==
  ASSUME place \in Nat, Len(text) \in Nat, NEW end \in Nat, end < Len(text), end - ChunkOverlap > place
  PROVE  LET q == NextStart(end)
         IN /\ q \in Nat /\ place < q /\ q <= Len(text)
            /\ \A i \in end..q - 1 : ~Blank(i) =>
                 \A k \in end - ChunkOverlap - 1..i : ~Blank(k)
<1> DEFINE p == end - ChunkOverlap
           mid == NextPlace(p, TRUE)
           last == NextPlace(mid, FALSE)
<1>1. p \in Nat /\ p > place /\ p <= end /\ p > 0 /\ p <= Len(text)
  BY Sizes
<1>2. NextStart(end) = IF Blank(p - 1) THEN p ELSE last
  <2>1. NextStart(end) = IF p <= 0 THEN 0 ELSE IF Blank(p - 1) THEN p ELSE last
    BY DEF NextStart
  <2>2. ~(p <= 0)
    BY <1>1
  <2> QED BY ONLY <2>1, <2>2
<1>3. \A i : Blank(i) \in BOOLEAN
  BY DEF Blank
<1>4. /\ mid \in Nat /\ p <= mid /\ mid <= Len(text) /\ \A i \in p..mid - 1 : Blank(i) # TRUE
  BY <1>1, NextPlaceMeans
<1> HIDE DEF mid
<1>5. /\ last \in Nat /\ mid <= last /\ last <= Len(text) /\ \A i \in mid..last - 1 : Blank(i) # FALSE
  BY <1>4, NextPlaceMeans
<1> HIDE DEF last, p
<1>6. CASE Blank(p - 1)
  BY <1>1, <1>2, <1>6
<1>7. CASE ~Blank(p - 1)
  <2>1. NextStart(end) = last /\ place < last
    BY <1>1, <1>2, <1>4, <1>5, <1>7
  <2>2. ASSUME NEW i \in end..last - 1, ~Blank(i), NEW k \in p - 1..i PROVE ~Blank(k)
    <3>3. i \in Int /\ i <= last - 1 /\ p <= i
      BY <1>1, <1>5, <2>2
    <3>4. i \notin mid..last - 1
      BY <1>3, <1>5, <2>2
    <3>1. i < mid
      BY <1>4, <1>5, <3>3, <3>4
    <3>2. k = p - 1 \/ k \in p..mid - 1
      BY <1>1, <1>4, <3>1
    <3> QED BY <1>3, <1>4, <1>7, <3>2
  <2> QED BY <1>5, <2>1, <2>2 DEF p
<1> QED BY <1>6, <1>7

\* From further on, less is left when it is stripped.
LEMMA StrippedShrinks ==
  ASSUME NEW a \in Nat, NEW i \in Nat, NEW e \in Nat, a <= i, i < e, ~Blank(i)
  PROVE  Stripped(i, e) <= Stripped(a, e) /\ Stripped(a, e) \in Nat /\ Stripped(i, e) \in Nat
<1> DEFINE A == {k \in a..e - 1 : ~Blank(k)}
           B == {k \in i..e - 1 : ~Blank(k)}
<1>1. /\ i \in A /\ i \in B /\ B \subseteq A /\ A \in SUBSET (a..e - 1) /\ B \in SUBSET (i..e - 1)
      /\ a \in Int /\ i \in Int /\ e - 1 \in Int
  OBVIOUS
<1>2. Stripped(a, e) = Max(A) - Min(A) + 1 /\ Stripped(i, e) = Max(B) - Min(B) + 1
  <2>1. Stripped(a, e) = (IF A = {} THEN 0 ELSE Max(A) - Min(A) + 1) /\ Stripped(i, e) = (IF B = {} THEN 0 ELSE Max(B) - Min(B) + 1)
    BY DEF Stripped
  <2> HIDE DEF A, B
  <2> QED BY <1>1, <2>1
<1> HIDE DEF A, B
<1>3. Min(A) \in A /\ Max(A) \in A /\ (\A x \in A : Min(A) <= x) /\ \A x \in A : x <= Max(A)
  BY <1>1, PlacesFinite
<1>4. Min(B) \in B /\ Max(B) \in B
  BY <1>1, PlacesFinite
<1>7. Min(A) \in a..e - 1 /\ Max(A) \in a..e - 1 /\ Min(B) \in i..e - 1 /\ Max(B) \in i..e - 1
  BY <1>1, <1>3, <1>4
<1>8. Min(A) <= Min(B) /\ Max(B) <= Max(A) /\ Min(A) <= i /\ i <= Max(A)
  BY <1>1, <1>3, <1>4
<1>5. /\ Min(A) \in Int /\ Max(A) \in Int /\ Min(B) \in Int /\ Max(B) \in Int /\ Min(A) <= Min(B) /\ Max(B) <= Max(A)
      /\ Min(A) <= i /\ i <= Max(A)
  BY <1>7, <1>8
<1>6. Min(B) <= Max(B)
  <2>1. (\A x \in B : Min(B) <= x)
    BY <1>1, PlacesFinite
  <2> QED BY <1>4, <2>1
<1> QED BY <1>2, <1>5, <1>6

\* A run of letters is in one word.
LEMMA RunInWord ==
  ASSUME Len(text) \in Nat, NEW a \in Nat, NEW i \in Nat, a <= i, i < Len(text), \A k \in a..i : ~Blank(k)
  PROVE  a..i \subseteq WordAt(i) /\ Cardinality(WordAt(i)) >= i - a + 1 /\ Cardinality(WordAt(i)) \in Nat
<1>1. ASSUME NEW j \in a..i PROVE j \in WordAt(i)
  <2> DEFINE S == {i, j}
  <2>1. S \in SUBSET (a..i) /\ S # {} /\ a \in Int /\ i \in Int
    OBVIOUS
  <2> HIDE DEF S
  <2>2. Min(S) \in a..i /\ Max(S) \in a..i
    BY <2>1, PlacesFinite
  <2>3. \A k \in Min(S)..Max(S) : k \in a..i
    BY <2>2
  <2>4. \A k \in Min({i, j})..Max({i, j}) : ~Blank(k)
    BY <2>3 DEF S
  <2>5. j \in 0..Len(text) - 1
    OBVIOUS
  <2> QED BY <2>4, <2>5 DEF WordAt
<1>2. a..i \in SUBSET WordAt(i)
  BY <1>1
<1>3. IsFiniteSet(WordAt(i))
  <2>1. 0 \in Int /\ Len(text) - 1 \in Int /\ WordAt(i) \in SUBSET (0..Len(text) - 1)
    BY DEF WordAt
  <2>2. IsFiniteSet(0..Len(text) - 1)
    BY <2>1, FS_Interval
  <2> QED BY <2>1, <2>2, FS_Subset
<1>4. Cardinality(a..i) = i - a + 1
  <2>1. a \in Int /\ i \in Int
    OBVIOUS
  <2>2. Cardinality(a..i) = IF a > i THEN 0 ELSE i - a + 1
    BY <2>1, FS_Interval
  <2> QED BY <2>2
<1>5. Cardinality(a..i) <= Cardinality(WordAt(i))
  BY <1>2, <1>3, FS_Subset
<1>6. Cardinality(WordAt(i)) \in Nat
  BY <1>3, FS_CardinalityType
<1> QED BY <1>2, <1>4, <1>5, <1>6

-----------------------------------------------------------------------------
(* Chunking: the slices of a unit.                                         *)

PieceRec == [from : Nat, to : Nat, kept : BOOLEAN]

\* The lesser of two numbers.
LEMMA LesserOfTwo ==
  ASSUME NEW a \in Int, NEW b \in Int
  PROVE  Min({a, b}) = IF a <= b THEN a ELSE b
<1> DEFINE S == {a, b}
<1>1. S \in SUBSET Int /\ S # {} /\ IsFiniteSet(S)
  <2>1. IsFiniteSet({a})
    BY FS_Singleton
  <2>2. IsFiniteSet({a} \cup {b}) /\ {a} \cup {b} = {a, b}
    BY <2>1, FS_AddElement
  <2> QED BY <2>2
<1> HIDE DEF S
<1>2. Min(S) \in S /\ \A x \in S : Min(S) <= x
  BY <1>1, LeastAndGreatest
<1> QED BY <1>2 DEF S

\* The pieces of a list are as long as they may be, each begins after the one
\* before it, and all begin before p.
Advances(s, p) ==
  /\ \A k \in 1..Len(s) : s[k].from < s[k].to /\ s[k].to - s[k].from <= ChunkSize /\ s[k].from < p
  /\ \A k \in 1..Len(s) - 1 : s[k].from < s[k + 1].from

\* More pieces, which begin at p or after it.
LEMMA MoreAdvance ==
  ASSUME NEW s \in Seq(PieceRec), NEW t \in Seq(PieceRec), NEW p \in Nat, NEW q \in Nat, p <= q,
         Advances(s, p), Advances(t, q), \A k \in 1..Len(t) : p <= t[k].from
  PROVE  Advances(s \o t, q)
<1> DEFINE u == s \o t
           n == Len(s)
           m == Len(t)
<1>1. /\ u \in Seq(PieceRec) /\ Len(u) = n + m /\ n \in Nat /\ m \in Nat
      /\ \A i \in 1..n : u[i] = s[i]
      /\ \A i \in 1..m : u[n + i] = t[i]
  BY JoinedRows
<1>2. \A i \in 1..n : s[i].from \in Nat /\ s[i].to \in Nat
  <2>1. \A i \in 1..n : s[i] \in PieceRec
    OBVIOUS
  <2> HIDE DEF n
  <2> QED BY <2>1 DEF PieceRec
<1>3. \A i \in 1..m : t[i].from \in Nat /\ t[i].to \in Nat
  <2>1. \A i \in 1..m : t[i] \in PieceRec
    OBVIOUS
  <2> HIDE DEF m
  <2> QED BY <2>1 DEF PieceRec
<1> HIDE DEF u, n, m
<1>4. /\ \A k \in 1..n : s[k].from < s[k].to /\ s[k].to - s[k].from <= ChunkSize /\ s[k].from < p
      /\ \A k \in 1..n - 1 : s[k].from < s[k + 1].from
  BY DEF Advances, n
<1>5. /\ \A k \in 1..m : t[k].from < t[k].to /\ t[k].to - t[k].from <= ChunkSize /\ t[k].from < q /\ p <= t[k].from
      /\ \A k \in 1..m - 1 : t[k].from < t[k + 1].from
  BY DEF Advances, m
<1>6. ASSUME NEW k \in 1..n + m
      PROVE  u[k].from < u[k].to /\ u[k].to - u[k].from <= ChunkSize /\ u[k].from < q
  <2>1. CASE k <= n
    <3>1. k \in 1..n
      BY <1>1, <2>1
    <3> QED BY <1>1, <1>2, <1>4, <3>1
  <2>2. CASE k > n
    <3>1. k - n \in 1..m /\ n + (k - n) = k
      BY <1>1, <2>2
    <3>2. u[k] = t[k - n]
      BY <1>1, <3>1
    <3> QED BY <1>3, <1>5, <3>1, <3>2
  <2> QED BY <1>1, <2>1, <2>2
<1>7. ASSUME NEW k \in 1..n + m - 1
      PROVE  u[k].from < u[k + 1].from
  <2>1. CASE k < n
    <3>1. k \in 1..n /\ k \in 1..n - 1 /\ k + 1 \in 1..n
      BY <1>1, <2>1
    <3> QED BY <1>1, <1>4, <3>1
  <2>2. CASE k = n
    <3>1. k \in 1..n /\ 1 \in 1..m
      BY <1>1, <2>2
    <3>2. u[k] = s[k] /\ u[k + 1] = t[1]
      BY <1>1, <2>2, <3>1
    <3> QED BY <1>2, <1>3, <1>4, <1>5, <3>1, <3>2
  <2>3. CASE k > n
    <3> DEFINE j == k - n
    <3>1. j \in 1..m /\ j \in 1..m - 1 /\ j + 1 \in 1..m /\ n + j = k /\ n + (j + 1) = k + 1
      BY <1>1, <2>3
    <3>2. u[k] = t[j] /\ u[k + 1] = t[j + 1]
      BY <1>1, <3>1
    <3> QED BY <1>5, <3>1, <3>2
  <2> QED BY <1>1, <2>1, <2>2, <2>3
<1>8. Advances(u, q)
  BY <1>1, <1>6, <1>7 DEF Advances
<1> QED BY <1>8 DEF u

\* The slices of a unit follow each other, and each of its lines is in just one.
LEMMA SlicesMean ==
  ASSUME NEW a \in Nat, NEW b \in Nat, a < b
  PROVE  /\ Slices(a, b) \in Seq(PieceRec) /\ Advances(Slices(a, b), b)
         /\ \A k \in 1..Len(Slices(a, b)) : a <= Slices(a, b)[k].from /\ Slices(a, b)[k].to <= b
         /\ \A i \in a..b - 1 : \E k \in 1..Len(Slices(a, b)) : \A j \in 1..Len(Slices(a, b)) :
              i \in Slices(a, b)[j].from..Slices(a, b)[j].to - 1 <=> j = k
<1> DEFINE c == ChunkSize
           n == (b - a + c - 1) \div c
           s == Slices(a, b)
<1>1. c \in Nat /\ c >= 2
  BY Sizes
<1> HIDE DEF c
<1>2. n \in Nat /\ n * c <= b - a + c - 1 /\ b - a + c - 1 < n * c + c
  <2>1. b - a + c - 1 \in Nat /\ c > 0
    BY <1>1
  <2> QED BY ONLY <1>1, <2>1, DivMeans
<1>3. s = [k \in 1..n |-> [from |-> a + (k - 1) * c, to |-> Min({a + k * c, b}), kept |-> TRUE]]
  BY DEF Slices, c
<1> HIDE DEF n
<1>4. ASSUME NEW k \in 1..n
      PROVE  /\ (k - 1) * c \in Nat /\ k * c \in Nat /\ k * c = (k - 1) * c + c
             /\ a + (k - 1) * c < b
             /\ s[k].from = a + (k - 1) * c
             /\ s[k].to = IF a + k * c <= b THEN a + k * c ELSE b
             /\ s[k] \in PieceRec
  <2> DEFINE h == k - 1
  <2>1. h \in Nat /\ k \in Nat /\ h + 1 = k /\ h < n
    BY <1>2
  <2>2. h * c \in Nat /\ k * c \in Nat /\ k * c = h * c + c
    BY <1>1, <2>1, TimesNext
  <2>3. h * c + c <= n * c
    BY <1>1, <1>2, <2>1, TimesMonotone
  <2>4. n * c \in Nat
    BY <1>1, <1>2, TimesNext
  <2>5. a + h * c < b
    <3> HIDE DEF h
    <3>1. \A x, y \in Nat : x + c <= y /\ y <= b - a + c - 1 => a + x < b
      BY <1>1
    <3> QED BY <1>2, <2>2, <2>3, <2>4, <3>1
  <2>6. s[k] = [from |-> a + h * c, to |-> Min({a + k * c, b}), kept |-> TRUE]
    BY <1>3
  <2> HIDE DEF h
  <2>7. Min({a + k * c, b}) = IF a + k * c <= b THEN a + k * c ELSE b
    <3>1. a + k * c \in Int /\ b \in Int
      BY <2>2
    <3> QED BY ONLY <3>1, LesserOfTwo
  <2>8. s[k] \in PieceRec
    BY <2>2, <2>6, <2>7 DEF PieceRec
  <2>9. h = k - 1
    BY DEF h
  <2> QED BY <2>2, <2>5, <2>6, <2>7, <2>8, <2>9
<1>5. s \in Seq(PieceRec) /\ Len(s) = n
  BY <1>2, <1>3, <1>4
<1> HIDE DEF s
<1>6. ASSUME NEW k \in 1..n
      PROVE  /\ s[k].from < s[k].to /\ s[k].to - s[k].from <= c /\ s[k].from < b
             /\ a <= s[k].from /\ s[k].to <= b /\ s[k].from \in Nat /\ s[k].to \in Nat
  <2> DEFINE x == (k - 1) * c
             y == k * c
  <2>1. x \in Nat /\ y \in Nat /\ y = x + c /\ a + x < b /\ s[k].from = a + x
        /\ s[k].to = IF a + y <= b THEN a + y ELSE b
    BY <1>4
  <2> HIDE DEF x, y
  <2> QED BY <1>1, <2>1
<1>7. ASSUME NEW k \in 1..n, NEW j \in 1..n, k < j
      PROVE  s[k].to <= s[j].from
  <2> DEFINE x == k * c
             y == (j - 1) * c
  <2>1. s[k].to <= a + x /\ x \in Nat /\ y \in Nat /\ s[j].from = a + y
    <3>1. x \in Nat /\ y \in Nat /\ s[j].from = a + y /\ s[k].to = IF a + x <= b THEN a + x ELSE b
      BY <1>4
    <3> HIDE DEF x, y
    <3> QED BY <3>1
  <2>2. x <= y
    <3>1. CASE k = j - 1
      BY <3>1, <2>1
    <3>2. CASE k < j - 1
      <4>1. k \in Nat /\ j - 1 \in Nat
        BY <3>2
      <4>2. k * c + c <= (j - 1) * c
        BY ONLY <1>1, <3>2, <4>1, TimesMonotone
      <4> HIDE DEF x, y
      <4>3. x + c <= y
        BY <4>2 DEF x, y
      <4> QED BY <1>1, <2>1, <4>3
    <3>3. k = j - 1 \/ k < j - 1
      BY <1>2, <1>7
    <3> QED BY <3>1, <3>2, <3>3
  <2> HIDE DEF x, y
  <2> QED BY <1>6, <2>1, <2>2
<1>8. Advances(s, b)
  <2>1. ASSUME NEW k \in 1..n - 1 PROVE s[k].from < s[k + 1].from
    <3>1. k \in 1..n /\ k + 1 \in 1..n /\ k < k + 1
      BY <1>2
    <3> QED BY <1>6, <1>7, <3>1
  <2> QED BY <1>5, <1>6, <2>1 DEF Advances, c
<1>9. ASSUME NEW i \in a..b - 1
      PROVE  \E k \in 1..n : \A j \in 1..n : i \in s[j].from..s[j].to - 1 <=> j = k
  <2> DEFINE d == (i - a) \div c
             k == d + 1
  <2>1. d \in Nat /\ d * c <= i - a /\ i - a < d * c + c
    <3>1. i - a \in Nat /\ c > 0
      BY <1>1
    <3> QED BY ONLY <1>1, <3>1, DivMeans
  <2> HIDE DEF d
  <2>2. d < n
    <3> SUFFICES ASSUME n <= d PROVE FALSE
      BY <1>2, <2>1
    <3>1. n * c <= d * c
      <4>1. CASE n = d
        <5>1. d * c \in Nat
          BY <1>1, <2>1, TimesNext
        <5> QED BY <4>1, <5>1
      <4>2. CASE n < d
        <5>1. n * c + c <= d * c
          BY ONLY <1>1, <1>2, <2>1, <4>2, TimesMonotone
        <5>2. n * c \in Nat /\ d * c \in Nat
          BY <1>1, <1>2, <2>1, TimesNext
        <5> QED BY <1>1, <5>1, <5>2
      <4> QED BY <1>2, <2>1, <4>1, <4>2
    <3>2. n * c \in Nat /\ d * c \in Nat
      BY <1>1, <1>2, <2>1, TimesNext
    <3>3. \A x, y \in Nat : x <= y /\ y <= i - a /\ b - a + c - 1 < x + c => FALSE
      BY <1>1
    <3> QED BY <1>2, <2>1, <3>1, <3>2, <3>3
  <2>3. k \in 1..n /\ k - 1 = d
    BY <1>2, <2>1, <2>2
  <2>4. i \in s[k].from..s[k].to - 1
    <3> DEFINE x == (k - 1) * c
               y == k * c
    <3>1. x \in Nat /\ y \in Nat /\ y = x + c /\ s[k].from = a + x /\ s[k].to = IF a + y <= b THEN a + y ELSE b
      BY <1>4, <2>3
    <3>2. x = d * c
      BY <2>3
    <3>3. x <= i - a /\ i - a < x + c
      BY <2>1, <3>2
    <3> HIDE DEF x, y
    <3> QED BY <1>1, <3>1, <3>3
  <2> HIDE DEF k
  <2>5. ASSUME NEW j \in 1..n, i \in s[j].from..s[j].to - 1 PROVE j = k
    <3>1. k < j => s[k].to <= s[j].from
      BY <1>7, <2>3
    <3>2. j < k => s[j].to <= s[k].from
      BY <1>7, <2>3
    <3>3. /\ s[k].from \in Nat /\ s[k].to \in Nat /\ s[j].from \in Nat /\ s[j].to \in Nat
      BY <1>6, <2>3
    <3> QED BY <2>3, <2>4, <2>5, <3>1, <3>2, <3>3
  <2> QED BY <2>3, <2>4, <2>5
<1>10. \A k \in 1..n : a <= s[k].from /\ s[k].to <= b
  BY <1>6
<1> QED BY <1>5, <1>8, <1>9, <1>10 DEF s

-----------------------------------------------------------------------------
(* Chunking: the inductive invariant.                                      *)

\* What holds of a place in a text that the loop has passed.
InkKept(i) ==
  \/ \E k \in DOMAIN pieces : /\ i \in pieces[k].from..pieces[k].to - 1
                              /\ pieces[k].kept \/ Stripped(i, pieces[k].to) < MinChunk
  \/ Cardinality(WordAt(i)) > ChunkOverlap

\* The turn that a line answers, and the pieces that hold a line.
TurnsOf(i) == {j \in 0..i : lines[j + 1] = "turn" /\ \A k \in j + 1..i : ~IsMarker(k)}
Holding(s, i) == {k \in DOMAIN s : i \in s[k].from..s[k].to - 1}

\* What holds of a line that the loop has passed.
LineKept(i) ==
  IF TurnsOf(i) = {} THEN Holding(pieces, i) = {}
  ELSE \A t \in TurnsOf(i) : Cardinality(Holding(pieces, i)) = IF AnswerEnd(t + 1) - t > MinExchange THEN 1 ELSE 0

\* An answer is passed at once: a turn that was passed is not the one that the line
\* looked at answers.
TurnsClosed ==
  \A t \in Nat : t < place /\ place < Len(lines) /\ lines[t + 1] = "turn" => \E k \in t + 1..place : IsMarker(k)

ChunkInv ==
  /\ text \in Seq(Blanks \cup {"a", "."}) /\ lines \in Seq({"turn", "rule", "line"})
  /\ place \in Nat /\ pieces \in Seq(PieceRec)
  /\ text = <<>> \/ lines = <<>>
  /\ Advances(pieces, place)
  /\ lines = <<>> => place <= Len(text) /\ \A i \in Nat : i < place /\ ~Blank(i) => InkKept(i)
  /\ text = <<>> => /\ place <= Len(lines) /\ TurnsClosed
                    /\ \A k \in 1..Len(pieces) : pieces[k].to <= place
                    /\ \A i \in Nat : i < place => LineKept(i)

LEMMA ChunkInvInit == ChunkInit => ChunkInv
<1> SUFFICES ASSUME ChunkInit PROVE ChunkInv
  OBVIOUS
<1>1. place = 0 /\ pieces = <<>>
  BY DEF ChunkInit
<1>2. \A S : BoundedSeq(S, MaxText) \subseteq Seq(S)
  BY ChunkingAssumption DEF BoundedSeq, SeqOf
<1>3. text \in Seq(Blanks \cup {"a", "."}) /\ lines \in Seq({"turn", "rule", "line"}) /\ (text = <<>> \/ lines = <<>>)
  <2>1. <<>> \in Seq(Blanks \cup {"a", "."}) /\ <<>> \in Seq({"turn", "rule", "line"})
    OBVIOUS
  <2> QED BY <1>2, <2>1 DEF ChunkInit
<1>4. pieces \in Seq(PieceRec) /\ Len(pieces) = 0 /\ Len(text) \in Nat /\ Len(lines) \in Nat
  BY <1>1, <1>3
<1>5. Advances(pieces, place) /\ TurnsClosed
  BY <1>1, <1>4 DEF Advances, TurnsClosed
<1>6. \A i \in Nat : ~(i < place)
  BY <1>1
<1> QED BY <1>1, <1>3, <1>4, <1>5, <1>6 DEF ChunkInv

\* One more piece of a text.
LEMMA NextPieceStep ==
  ASSUME ChunkInv, NextPiece
  PROVE  ChunkInv'
<1> DEFINE e == End
           r == [from |-> place, to |-> e, kept |-> Stripped(place, e) >= MinChunk]
           one == <<r>>
           q == IF e < Len(text) THEN NextStart(e) ELSE e
<1>1. /\ text \in Seq(Blanks \cup {"a", "."}) /\ lines \in Seq({"turn", "rule", "line"})
      /\ place \in Nat /\ pieces \in Seq(PieceRec) /\ Len(text) \in Nat /\ Len(pieces) \in Nat
  BY DEF ChunkInv
<1>2. /\ place < Len(text) /\ pieces' = Append(pieces, r) /\ place' = q /\ text' = text /\ lines' = lines
  BY DEF NextPiece
<1>3. text # <<>> /\ lines = <<>>
  <2>1. text # <<>>
    BY <1>1, <1>2
  <2> QED BY <2>1 DEF ChunkInv
<1>4. /\ e \in Nat /\ place < e /\ e <= Len(text) /\ e - place <= ChunkSize
      /\ e < Len(text) => e - ChunkOverlap > place
  BY <1>1, <1>2, PieceEnds
<1> HIDE DEF e
<1>5. /\ q \in Nat /\ place < q /\ q <= Len(text)
      /\ \A i \in e..q - 1 : ~Blank(i) => \A k \in e - ChunkOverlap - 1..i : ~Blank(k)
      /\ e <= q - 1 => e < Len(text)
  <2>1. CASE e < Len(text)
    <3>1. LET p == NextStart(e)
          IN /\ p \in Nat /\ place < p /\ p <= Len(text)
             /\ \A i \in e..p - 1 : ~Blank(i) => \A k \in e - ChunkOverlap - 1..i : ~Blank(k)
      BY <1>1, <1>4, <2>1, NextStartMeans
    <3> QED BY <2>1, <3>1
  <2>2. CASE ~(e < Len(text))
    BY <1>1, <1>4, <2>2
  <2> QED BY <2>1, <2>2
<1> HIDE DEF q
<1>6. r \in PieceRec /\ r.from = place /\ r.to = e /\ r.kept = (Stripped(place, e) >= MinChunk)
  BY <1>1, <1>4 DEF PieceRec
<1> HIDE DEF r
<1>7. one \in Seq(PieceRec) /\ Len(one) = 1 /\ one[1] = r /\ pieces' = pieces \o one
  BY <1>1, <1>2, <1>6
<1> HIDE DEF one
<1>8. Advances(pieces', place')
  <2>1. Advances(one, q)
    BY <1>1, <1>4, <1>5, <1>6, <1>7 DEF Advances
  <2>2. Advances(pieces, place) /\ place <= q /\ \A k \in 1..Len(one) : place <= one[k].from
    BY <1>1, <1>5, <1>6, <1>7 DEF ChunkInv
  <2>3. Advances(pieces \o one, q)
    BY ONLY <1>1, <1>5, <1>7, <2>1, <2>2, MoreAdvance
  <2> QED BY <1>2, <1>7, <2>3
<1>9. /\ pieces' \in Seq(PieceRec) /\ Len(pieces') = Len(pieces) + 1 /\ pieces'[Len(pieces) + 1] = r
      /\ \A k \in 1..Len(pieces) : pieces'[k] = pieces[k]
      /\ DOMAIN pieces' = 1..Len(pieces) + 1 /\ DOMAIN pieces = 1..Len(pieces)
  <2>1. pieces' = Append(pieces, r)
    BY <1>2
  <2> QED BY <1>1, <1>6, <2>1
<1>10. ASSUME NEW i \in Nat, i < place', ~Blank(i)
       PROVE  InkKept(i)'
  <2>1. CASE i < place
    <3>1. InkKept(i)
      BY <1>3, <1>10, <2>1 DEF ChunkInv
    <3>2. CASE \E k \in DOMAIN pieces : /\ i \in pieces[k].from..pieces[k].to - 1
                                        /\ pieces[k].kept \/ Stripped(i, pieces[k].to) < MinChunk
      <4>1. PICK k \in DOMAIN pieces : /\ i \in pieces[k].from..pieces[k].to - 1
                                       /\ pieces[k].kept \/ Stripped(i, pieces[k].to) < MinChunk
        BY <3>2
      <4>2. k \in DOMAIN pieces' /\ pieces'[k] = pieces[k]
        BY <1>9, <4>1
      <4> QED BY <1>2, <4>1, <4>2 DEF InkKept, Stripped, Blank, At
    <3>3. CASE Cardinality(WordAt(i)) > ChunkOverlap
      BY <1>2, <3>3 DEF InkKept, WordAt, Blank, At
    <3> QED BY <3>1, <3>2, <3>3 DEF InkKept
  <2>2. CASE i >= place /\ i < e
    <3> DEFINE k == Len(pieces) + 1
    <3>1. k \in DOMAIN pieces' /\ pieces'[k] = r /\ i \in pieces'[k].from..pieces'[k].to - 1
      BY <1>1, <1>4, <1>6, <1>9, <2>2
    <3>2. Stripped(i, e) <= Stripped(place, e) /\ Stripped(place, e) \in Nat /\ Stripped(i, e) \in Nat
      BY <1>1, <1>4, <1>10, <2>2, StrippedShrinks
    <3>3. r.kept \/ Stripped(i, e) < MinChunk
      <4>1. MinChunk \in Nat
        BY Sizes
      <4>2. CASE Stripped(place, e) >= MinChunk
        BY <1>6, <4>2
      <4>3. CASE ~(Stripped(place, e) >= MinChunk)
        BY ONLY <3>2, <4>1, <4>3
      <4> QED BY <4>2, <4>3
    <3>4. pieces'[k].kept \/ Stripped(i, pieces'[k].to) < MinChunk
      BY <1>6, <3>1, <3>3
    <3> HIDE DEF k
    <3> QED BY <1>2, <3>1, <3>4 DEF InkKept, Stripped, Blank, At
  <2>3. CASE i >= e
    <3> DEFINE a == e - ChunkOverlap - 1
    <3>1. i \in e..q - 1 /\ e < Len(text) /\ e - ChunkOverlap > place /\ ChunkOverlap \in Nat
      BY <1>2, <1>4, <1>5, <1>10, <2>3, Sizes
    <3>2. a \in Nat /\ a <= i /\ i < Len(text) /\ i - a + 1 > ChunkOverlap
      BY <1>1, <1>4, <1>5, <3>1
    <3>3. \A j \in a..i : ~Blank(j)
      BY <1>5, <1>10, <3>1
    <3> HIDE DEF a
    <3>4. Cardinality(WordAt(i)) >= i - a + 1 /\ Cardinality(WordAt(i)) \in Nat
      BY <1>1, <3>2, <3>3, RunInWord
    <3>5. Cardinality(WordAt(i)) > ChunkOverlap
      BY <3>1, <3>2, <3>4
    <3>6. WordAt(i)' = WordAt(i)
      BY <1>2 DEF WordAt, Blank, At
    <3> QED BY <3>5, <3>6 DEF InkKept
  <2> QED BY <1>1, <1>4, <2>1, <2>2, <2>3
<1>11. \A i \in Nat : i < place' /\ ~Blank(i)' => InkKept(i)'
  <2>1. \A i \in Nat : Blank(i)' = Blank(i)
    BY <1>2 DEF Blank, At
  <2> QED BY <1>10, <2>1
<1>12. place' \in Nat /\ place' <= Len(text')
  BY <1>2, <1>5
<1>13. text' # <<>> /\ lines' = <<>> /\ text' \in Seq(Blanks \cup {"a", "."}) /\ lines' \in Seq({"turn", "rule", "line"})
  BY <1>1, <1>2, <1>3
<1> QED BY <1>8, <1>9, <1>11, <1>12, <1>13 DEF ChunkInv, Blanks

\* The end of an answer.
LEMMA AnswerEndMeans ==
  ASSUME Len(lines) \in Nat, NEW i \in Nat, i <= Len(lines)
  PROVE  /\ AnswerEnd(i) \in Nat /\ i <= AnswerEnd(i) /\ AnswerEnd(i) <= Len(lines)
         /\ \A k \in i..AnswerEnd(i) - 1 : ~IsMarker(k)
         /\ AnswerEnd(i) < Len(lines) => IsMarker(AnswerEnd(i))
<1> DEFINE S == {j \in i..Len(lines) : j = Len(lines) \/ IsMarker(j)}
           q == Min(S)
<1>1. S \in SUBSET (i..Len(lines)) /\ Len(lines) \in S /\ i \in Int /\ Len(lines) \in Int
  OBVIOUS
<1>2. \A x \in i..Len(lines) : x \in S <=> x = Len(lines) \/ IsMarker(x)
  OBVIOUS
<1> HIDE DEF S
<1>3. q \in S /\ \A x \in S : q <= x
  BY <1>1, PlacesFinite
<1>4. q = AnswerEnd(i)
  BY DEF AnswerEnd, S
<1> HIDE DEF q
<1>5. q \in i..Len(lines)
  BY <1>1, <1>3
<1>6. ASSUME NEW k \in i..q - 1 PROVE ~IsMarker(k)
  <2>1. k \in i..Len(lines) /\ k < q
    BY <1>5
  <2>2. k \notin S
    BY <1>3, <1>5, <2>1
  <2> QED BY <1>2, <2>1, <2>2
<1>7. q < Len(lines) => IsMarker(q)
  BY <1>2, <1>3, <1>5
<1> QED BY <1>4, <1>5, <1>6, <1>7

\* What is added after a line does not hold it.
LEMMA HoldingEarlier ==
  ASSUME NEW s \in Seq(PieceRec), NEW t \in Seq(PieceRec), NEW i \in Nat, \A k \in 1..Len(t) : i < t[k].from
  PROVE  Holding(s \o t, i) = Holding(s, i)
<1> DEFINE u == s \o t
           n == Len(s)
           m == Len(t)
<1>1. /\ u \in Seq(PieceRec) /\ Len(u) = n + m /\ n \in Nat /\ m \in Nat
      /\ \A k \in 1..n : u[k] = s[k]
      /\ \A k \in 1..m : u[n + k] = t[k]
  BY JoinedRows
<1>2. DOMAIN u = 1..n + m /\ DOMAIN s = 1..n
  BY <1>1
<1>3. \A k \in 1..m : i < t[k].from /\ t[k].from \in Nat /\ t[k].to \in Nat
  <2>1. \A k \in 1..m : t[k] \in PieceRec /\ i < t[k].from
    OBVIOUS
  <2> HIDE DEF m
  <2> QED BY <2>1 DEF PieceRec
<1> HIDE DEF u, n, m
<1>4. ASSUME NEW k \in 1..n + m, k \notin 1..n PROVE i \notin u[k].from..u[k].to - 1
  <2>1. k - n \in 1..m /\ n + (k - n) = k
    BY <1>1, <1>4
  <2>2. u[k] = t[k - n]
    BY <1>1, <2>1
  <2> QED BY <1>3, <2>1, <2>2
<1>5. Holding(u, i) = Holding(s, i)
  BY <1>1, <1>2, <1>4 DEF Holding
<1> QED BY <1>5 DEF u

\* Nor does what ends before it.
LEMMA HoldingLater ==
  ASSUME NEW s \in Seq(PieceRec), NEW t \in Seq(PieceRec), NEW i \in Nat, \A k \in 1..Len(s) : s[k].to <= i
  PROVE  Holding(s \o t, i) = {Len(s) + k : k \in Holding(t, i)}
<1> DEFINE u == s \o t
           n == Len(s)
           m == Len(t)
           Y == {n + k : k \in Holding(t, i)}
<1>1. /\ u \in Seq(PieceRec) /\ Len(u) = n + m /\ n \in Nat /\ m \in Nat
      /\ \A k \in 1..n : u[k] = s[k]
      /\ \A k \in 1..m : u[n + k] = t[k]
  BY JoinedRows
<1>2. DOMAIN u = 1..n + m /\ DOMAIN t = 1..m
  BY <1>1
<1>3. \A k \in 1..n : s[k].to <= i /\ s[k].from \in Nat /\ s[k].to \in Nat
  <2>1. \A k \in 1..n : s[k] \in PieceRec /\ s[k].to <= i
    OBVIOUS
  <2> HIDE DEF n
  <2> QED BY <2>1 DEF PieceRec
<1> HIDE DEF u, n, m
<1>4. ASSUME NEW k \in Holding(u, i) PROVE k \in Y
  <2>1. k \in 1..n + m /\ i \in u[k].from..u[k].to - 1
    BY <1>2 DEF Holding
  <2>2. k \notin 1..n
    BY <1>1, <1>3, <2>1
  <2>3. k - n \in 1..m /\ n + (k - n) = k
    BY <1>1, <2>1, <2>2
  <2>4. u[k] = t[k - n]
    BY <1>1, <2>3
  <2>5. k - n \in Holding(t, i)
    BY <1>2, <2>1, <2>3, <2>4 DEF Holding
  <2> QED BY <2>3, <2>5
<1>5. ASSUME NEW k \in Holding(t, i) PROVE n + k \in Holding(u, i)
  <2>1. k \in 1..m /\ i \in t[k].from..t[k].to - 1
    BY <1>2 DEF Holding
  <2>2. n + k \in 1..n + m /\ u[n + k] = t[k]
    BY <1>1, <2>1
  <2> QED BY <1>2, <2>1, <2>2 DEF Holding
<1>6. Holding(u, i) = Y
  <2>1. Holding(u, i) \subseteq Y
    BY ONLY <1>4
  <2>2. Y \subseteq Holding(u, i)
    BY <1>5
  <2> QED BY ONLY <2>1, <2>2
<1> QED BY <1>6 DEF u, n

\* A line that the loop passes over is in no piece.
LEMMA PassedOver ==
  ASSUME ChunkInv, place < Len(lines), lines[place + 1] # "turn"
  PROVE  LineKept(place)
<1>1. text = <<>> /\ place \in Nat /\ Len(lines) \in Nat /\ pieces \in Seq(PieceRec)
  <2>1. lines # <<>> /\ place \in Nat /\ Len(lines) \in Nat
    BY DEF ChunkInv
  <2> QED BY <2>1 DEF ChunkInv
<1>2. ASSUME NEW j \in TurnsOf(place) PROVE FALSE
  <2>1. j \in 0..place /\ lines[j + 1] = "turn" /\ \A k \in j + 1..place : ~IsMarker(k)
    BY DEF TurnsOf
  <2>2. j \in Nat /\ j < place
    BY <1>1, <2>1
  <2>3. \E k \in j + 1..place : IsMarker(k)
    BY <1>1, <2>1, <2>2 DEF ChunkInv, TurnsClosed
  <2> QED BY <2>1, <2>3
<1>3. Holding(pieces, place) = {}
  <2>1. \A k \in DOMAIN pieces : pieces[k].to <= place /\ pieces[k].to \in Nat
    <3>1. \A k \in DOMAIN pieces : pieces[k] \in PieceRec /\ k \in 1..Len(pieces)
      BY <1>1
    <3> QED BY <1>1, <3>1 DEF ChunkInv, PieceRec
  <2>2. \A k \in DOMAIN pieces : place \notin pieces[k].from..pieces[k].to - 1
    <3>1. \A k \in DOMAIN pieces : pieces[k] \in PieceRec
      BY <1>1
    <3> QED BY <1>1, <2>1, <3>1 DEF PieceRec
  <2> QED BY <2>2 DEF Holding
<1> QED BY <1>2, <1>3 DEF LineKept

\* As many numbers when each is moved by n.
LEMMA ShiftedCount ==
  ASSUME NEW n \in Nat, NEW H \in SUBSET Nat, IsFiniteSet(H)
  PROVE  Cardinality({n + k : k \in H}) = Cardinality(H)
<1> DEFINE X == {n + k : k \in H}
           g == [k \in H |-> n + k]
<1>1. g \in Bijection(H, X)
  <2>1. g \in [H -> X]
    OBVIOUS
  <2>2. \A i, j \in H : g[i] = g[j] => i = j
    OBVIOUS
  <2>3. \A x \in X : \E k \in H : g[k] = x
    OBVIOUS
  <2> HIDE DEF g, X
  <2> QED BY <2>1, <2>2, <2>3, Fun_IsBij
<1> HIDE DEF g, X
<1>2. Cardinality(X) = Cardinality(H)
  BY <1>1, FS_Bijection DEF ExistsBijection
<1> QED BY <1>2 DEF X

\* The line looked at answers nothing: the loop goes on to the next.
LEMMA LinePassedStep ==
  ASSUME ChunkInv, NextExchange, lines[place + 1] # "turn"
  PROVE  ChunkInv'
<1>1. /\ text \in Seq(Blanks \cup {"a", "."}) /\ lines \in Seq({"turn", "rule", "line"})
      /\ place \in Nat /\ pieces \in Seq(PieceRec) /\ Len(lines) \in Nat /\ Len(pieces) \in Nat
  BY DEF ChunkInv
<1>2. place < Len(lines) /\ place' = place + 1 /\ pieces' = pieces /\ text' = text /\ lines' = lines
  BY DEF NextExchange
<1>3. lines # <<>> /\ text = <<>>
  <2>1. lines # <<>>
    BY <1>1, <1>2
  <2> QED BY <2>1 DEF ChunkInv
<1>4. Advances(pieces', place')
  <2>1. Advances(pieces, place)
    BY DEF ChunkInv
  <2>2. \A k \in 1..Len(pieces) : pieces[k].from \in Nat
    <3>1. \A k \in 1..Len(pieces) : pieces[k] \in PieceRec
      BY <1>1
    <3> QED BY <3>1 DEF PieceRec
  <2>3. Advances(pieces, place + 1)
    <3>1. \A k \in 1..Len(pieces) : pieces[k].from < place
      BY <2>1 DEF Advances
    <3>2. \A k \in 1..Len(pieces) : pieces[k].from < place + 1
      BY <1>1, <2>2, <3>1
    <3> QED BY <2>1, <3>2 DEF Advances
  <2> QED BY <1>2, <2>3
<1>5. TurnsClosed'
  <2>1. ASSUME NEW t \in Nat, t < place + 1, lines[t + 1] = "turn"
        PROVE  \E k \in t + 1..place + 1 : IsMarker(k)
    <3>1. t # place /\ t < place
      BY <1>1, <2>1
    <3>2. PICK k \in t + 1..place : IsMarker(k)
      BY <1>2, <1>3, <2>1, <3>1 DEF ChunkInv, TurnsClosed
    <3>3. k \in t + 1..place + 1
      BY <1>1, <3>2
    <3> QED BY <3>2, <3>3
  <2> QED BY <1>2, <2>1 DEF TurnsClosed, IsMarker
<1>6. \A k \in 1..Len(pieces') : pieces'[k].to <= place'
  <2>1. \A k \in 1..Len(pieces) : pieces[k].to \in Nat
    <3>1. \A k \in 1..Len(pieces) : pieces[k] \in PieceRec
      BY <1>1
    <3> QED BY <3>1 DEF PieceRec
  <2>2. \A k \in 1..Len(pieces) : pieces[k].to <= place
    BY <1>3 DEF ChunkInv
  <2> QED BY <1>1, <1>2, <2>1, <2>2
<1>7. ASSUME NEW i \in Nat, i < place' PROVE LineKept(i)'
  <2>1. LineKept(i)
    <3>1. CASE i < place
      BY <1>3, <3>1 DEF ChunkInv
    <3>2. CASE i = place
      BY <1>2, <3>2, PassedOver
    <3> QED BY <1>1, <1>2, <1>7, <3>1, <3>2
  <2> QED BY <1>2, <2>1 DEF LineKept, TurnsOf, Holding, AnswerEnd, IsMarker
<1>8. place' \in Nat /\ place' <= Len(lines') /\ text' = <<>> /\ lines' # <<>>
  BY <1>1, <1>2, <1>3
<1> QED BY <1>1, <1>2, <1>4, <1>5, <1>6, <1>7, <1>8 DEF ChunkInv, Blanks

\* A turn is met: the loop goes on to the end of the answer.
LEMMA ExchangeStep ==
  ASSUME ChunkInv, NextExchange, lines[place + 1] = "turn"
  PROVE  ChunkInv'
<1> DEFINE e == AnswerEnd(place + 1)
           more == IF e - place > MinExchange THEN Slices(place, e) ELSE <<>>
<1>1. /\ text \in Seq(Blanks \cup {"a", "."}) /\ lines \in Seq({"turn", "rule", "line"})
      /\ place \in Nat /\ pieces \in Seq(PieceRec) /\ Len(lines) \in Nat /\ Len(pieces) \in Nat
  BY DEF ChunkInv
<1>2. place < Len(lines) /\ place' = e /\ pieces' = pieces \o more /\ text' = text /\ lines' = lines
  BY DEF NextExchange
<1>3. lines # <<>> /\ text = <<>>
  <2>1. lines # <<>>
    BY <1>1, <1>2
  <2> QED BY <2>1 DEF ChunkInv
<1>4. /\ e \in Nat /\ place + 1 <= e /\ e <= Len(lines)
      /\ \A k \in place + 1..e - 1 : ~IsMarker(k)
      /\ e < Len(lines) => IsMarker(e)
  BY <1>1, <1>2, AnswerEndMeans
<1>5. e = AnswerEnd(place + 1)
  OBVIOUS
<1> HIDE DEF e
<1>6. place < e
  BY <1>1, <1>4
<1>7. /\ more \in Seq(PieceRec) /\ Advances(more, e)
      /\ \A k \in 1..Len(more) : place <= more[k].from /\ more[k].to <= e
  <2>1. CASE e - place > MinExchange
    BY <1>1, <1>4, <1>6, <2>1, SlicesMean
  <2>2. CASE ~(e - place > MinExchange)
    <3>1. more = <<>> /\ Len(more) = 0
      BY <2>2
    <3> HIDE DEF more
    <3> QED BY <3>1 DEF Advances
  <2> QED BY <2>1, <2>2
<1>8. \A i \in place..e - 1 : Cardinality(Holding(more, i)) = IF e - place > MinExchange THEN 1 ELSE 0
  <2> SUFFICES ASSUME NEW i \in place..e - 1
               PROVE  Cardinality(Holding(more, i)) = IF e - place > MinExchange THEN 1 ELSE 0
    OBVIOUS
  <2>1. CASE e - place > MinExchange
    <3>1. more = Slices(place, e)
      BY <2>1
    <3> HIDE DEF more
    <3>2. \A j \in place..e - 1 : \E k \in 1..Len(more) : \A h \in 1..Len(more) :
            j \in more[h].from..more[h].to - 1 <=> h = k
      <4> DEFINE z == Slices(place, e)
      <4>1. \A j \in place..e - 1 : \E k \in 1..Len(z) : \A h \in 1..Len(z) : j \in z[h].from..z[h].to - 1 <=> h = k
        BY ONLY <1>1, <1>4, <1>6, SlicesMean
      <4>2. z = more
        BY <3>1
      <4> HIDE DEF z
      <4> QED BY ONLY <4>1, <4>2
    <3>3. PICK k \in 1..Len(more) : \A h \in 1..Len(more) : i \in more[h].from..more[h].to - 1 <=> h = k
      BY <3>2
    <3>4. Holding(more, i) = {k}
      <4>1. DOMAIN more = 1..Len(more)
        BY <1>7
      <4> QED BY <3>3, <4>1 DEF Holding
    <3> QED BY <2>1, <3>4, FS_Singleton
  <2>2. CASE ~(e - place > MinExchange)
    <3>1. more = <<>>
      BY <2>2
    <3>2. Holding(more, i) = {}
      <4> HIDE DEF more
      <4> QED BY <3>1 DEF Holding
    <3> QED BY <2>2, <3>2, FS_EmptySet
  <2> QED BY <2>1, <2>2
<1> HIDE DEF more
<1>9. Advances(pieces', place') /\ pieces' \in Seq(PieceRec)
  <2>1. Advances(pieces, place) /\ place <= e /\ \A k \in 1..Len(more) : place <= more[k].from
    BY <1>1, <1>4, <1>6, <1>7 DEF ChunkInv
  <2>2. Advances(pieces \o more, e)
    BY ONLY <1>1, <1>4, <1>7, <2>1, MoreAdvance
  <2> QED BY <1>1, <1>2, <1>7, <2>2
<1>10. TurnsClosed'
  <2>1. ASSUME NEW t \in Nat, t < e, e < Len(lines) PROVE \E k \in t + 1..e : IsMarker(k)
    <3>1. e \in t + 1..e
      BY <1>4, <2>1
    <3> QED BY <1>4, <2>1, <3>1
  <2> QED BY <1>2, <2>1 DEF TurnsClosed, IsMarker
<1>11. \A k \in 1..Len(pieces) : pieces[k].to <= place /\ pieces[k].to \in Nat /\ pieces[k].from \in Nat
  <2>1. \A k \in 1..Len(pieces) : pieces[k] \in PieceRec
    BY <1>1
  <2>2. \A k \in 1..Len(pieces) : pieces[k].to <= place
    BY <1>3 DEF ChunkInv
  <2> QED BY <2>1, <2>2 DEF PieceRec
<1>12. \A k \in 1..Len(pieces') : pieces'[k].to <= place'
  <2> DEFINE n == Len(pieces)
             m == Len(more)
  <2>1. /\ Len(pieces') = n + m /\ n \in Nat /\ m \in Nat
        /\ \A k \in 1..n : pieces'[k] = pieces[k]
        /\ \A k \in 1..m : pieces'[n + k] = more[k]
    BY <1>1, <1>2, <1>7, JoinedRows
  <2>2. \A k \in 1..m : more[k].to <= e
    BY <1>7
  <2>3. \A k \in 1..n : pieces[k].to <= place /\ pieces[k].to \in Nat
    BY <1>11
  <2> HIDE DEF n, m
  <2>4. ASSUME NEW k \in 1..n + m PROVE pieces'[k].to <= e
    <3>1. CASE k \in 1..n
      <4>1. pieces'[k] = pieces[k]
        BY <2>1, <3>1
      <4> QED BY <1>1, <1>4, <1>6, <2>3, <3>1, <4>1
    <3>2. CASE k \notin 1..n
      <4>1. k - n \in 1..m /\ n + (k - n) = k
        BY <2>1, <3>2
      <4>2. pieces'[k] = more[k - n]
        BY <2>1, <4>1
      <4> QED BY <2>2, <4>1, <4>2
    <3> QED BY <3>1, <3>2
  <2> QED BY <1>2, <2>1, <2>4
<1>13. ASSUME NEW i \in Nat, i < e
       PROVE  IF TurnsOf(i) = {} THEN Holding(pieces \o more, i) = {}
              ELSE \A t \in TurnsOf(i) :
                     Cardinality(Holding(pieces \o more, i)) = IF AnswerEnd(t + 1) - t > MinExchange THEN 1 ELSE 0
  <2>1. CASE i < place
    <3>1. LineKept(i)
      BY <1>3, <2>1 DEF ChunkInv
    <3>2. \A k \in 1..Len(more) : i < more[k].from
      <4>1. \A k \in 1..Len(more) : place <= more[k].from /\ more[k] \in PieceRec
        BY <1>7
      <4> QED BY <1>1, <2>1, <4>1 DEF PieceRec
    <3>3. Holding(pieces \o more, i) = Holding(pieces, i)
      BY <1>1, <1>7, <3>2, HoldingEarlier
    <3> QED BY <3>1, <3>3 DEF LineKept
  <2>2. CASE i >= place
    <3>1. i \in place..e - 1
      BY <1>1, <1>4, <1>13, <2>2
    <3>2. \A t \in TurnsOf(i) : t = place
      <4> SUFFICES ASSUME NEW t \in TurnsOf(i) PROVE t = place
        OBVIOUS
      <4>1. t \in 0..i /\ lines[t + 1] = "turn" /\ \A k \in t + 1..i : ~IsMarker(k)
        BY DEF TurnsOf
      <4>2. IsMarker(t) /\ IsMarker(place)
        BY <4>1 DEF IsMarker
      <4>3. ~(t < place)
        <5> SUFFICES ASSUME t < place PROVE FALSE
          OBVIOUS
        <5>1. place \in t + 1..i
          BY <1>1, <2>2, <4>1
        <5> QED BY <4>1, <4>2, <5>1
      <4>4. ~(t > place)
        <5> SUFFICES ASSUME t > place PROVE FALSE
          OBVIOUS
        <5>1. t \in place + 1..e - 1
          BY <1>1, <1>4, <3>1, <4>1
        <5> QED BY <1>4, <4>2, <5>1
      <4> QED BY <1>1, <4>1, <4>3, <4>4
    <3>3. place \in TurnsOf(i)
      <4>1. place \in 0..i
        BY <1>1, <2>2
      <4>2. \A k \in place + 1..i : k \in place + 1..e - 1
        BY <1>1, <1>4, <3>1
      <4> QED BY <1>4, <4>1, <4>2 DEF TurnsOf
    <3>4. Cardinality(Holding(pieces \o more, i)) = Cardinality(Holding(more, i))
      <4> DEFINE n == Len(pieces)
                 H == Holding(more, i)
      <4>1. \A k \in 1..n : pieces[k].to <= i
        BY <1>1, <1>11, <2>2
      <4>2. Holding(pieces \o more, i) = {n + k : k \in H}
        BY <1>1, <1>7, <4>1, HoldingLater
      <4>3. n \in Nat /\ H \in SUBSET Nat
        <5>1. DOMAIN more = 1..Len(more)
          BY <1>7
        <5> QED BY <1>1, <5>1 DEF Holding
      <4>4. IsFiniteSet(H)
        <5>1. DOMAIN more = 1..Len(more) /\ Len(more) \in Int /\ 1 \in Int
          BY <1>7
        <5>2. IsFiniteSet(DOMAIN more)
          BY ONLY <5>1, FS_Interval
        <5> QED BY <5>2, FS_Subset DEF Holding
      <4> HIDE DEF n, H
      <4>5. Cardinality({n + k : k \in H}) = Cardinality(H)
        BY ONLY <4>3, <4>4, ShiftedCount
      <4> QED BY <4>2, <4>5 DEF H
    <3>5. Cardinality(Holding(more, i)) = IF e - place > MinExchange THEN 1 ELSE 0
      BY <1>8, <3>1
    <3> QED BY <1>5, <3>2, <3>3, <3>4, <3>5
  <2> QED BY <1>1, <2>1, <2>2
<1>14. \A i \in Nat : i < place' => LineKept(i)'
  BY <1>2, <1>13 DEF LineKept, TurnsOf, Holding, AnswerEnd, IsMarker
<1>15. place' \in Nat /\ place' <= Len(lines') /\ text' = <<>> /\ lines' # <<>>
  BY <1>1, <1>2, <1>3, <1>4
<1> QED BY <1>1, <1>2, <1>9, <1>10, <1>12, <1>14, <1>15 DEF ChunkInv, Blanks

LEMMA ChunkInvStep == ChunkInv /\ [ChunkNext]_chunkVars => ChunkInv'
<1> SUFFICES ASSUME ChunkInv, [ChunkNext]_chunkVars PROVE ChunkInv'
  OBVIOUS
<1>1. CASE NextPiece
  BY <1>1, NextPieceStep
<1>2. CASE NextExchange
  <2>1. CASE lines[place + 1] = "turn"
    BY <1>2, <2>1, ExchangeStep
  <2>2. CASE lines[place + 1] # "turn"
    BY <1>2, <2>2, LinePassedStep
  <2> QED BY <2>1, <2>2
<1>3. CASE UNCHANGED chunkVars
  <2>1. text' = text /\ lines' = lines /\ place' = place /\ pieces' = pieces
    BY <1>3 DEF chunkVars
  <2>2. \A i : Blank(i)' <=> Blank(i)
    BY <2>1 DEF Blank, At
  <2>3. \A i : InkKept(i)' <=> InkKept(i)
    BY <2>1 DEF InkKept, Stripped, WordAt, Blank, At
  <2>4. \A i : LineKept(i)' <=> LineKept(i)
    BY <2>1 DEF LineKept, TurnsOf, Holding, AnswerEnd, IsMarker
  <2>5. TurnsClosed' <=> TurnsClosed
    BY <2>1 DEF TurnsClosed, IsMarker
  <2>6. Advances(pieces, place)' <=> Advances(pieces, place)
    BY <2>1 DEF Advances
  <2> QED BY <2>1, <2>2, <2>3, <2>4, <2>5, <2>6 DEF ChunkInv, Blanks
<1> QED BY <1>1, <1>2, <1>3 DEF ChunkNext

LEMMA ChunkInvIsSound == ChunkInv => ChunkSound
<1> SUFFICES ASSUME ChunkInv PROVE ChunkSound
  OBVIOUS
<1>1. /\ place \in Nat /\ pieces \in Seq(PieceRec) /\ Len(text) \in Nat /\ Len(lines) \in Nat /\ Len(pieces) \in Nat
      /\ DOMAIN pieces = 1..Len(pieces)
  BY DEF ChunkInv
<1>2. Advancing
  <2>1. Advances(pieces, place)
    BY DEF ChunkInv
  <2>2. pieces # <<>> => Last(pieces) = pieces[Len(pieces)] /\ Len(pieces) \in 1..Len(pieces)
    BY <1>1 DEF Last
  <2> QED BY <1>1, <2>1, <2>2 DEF Advancing, Advances
<1>3. ASSUME lines = <<>> PROVE TextKept
  <2>1. place <= Len(text) /\ \A i \in Nat : i < place /\ ~Blank(i) => InkKept(i)
    BY <1>3 DEF ChunkInv
  <2>2. Min({place, Len(text)}) = place
    BY <1>1, <2>1, LesserOfTwo
  <2>3. \A i \in 0..place - 1 : i \in Nat /\ i < place
    BY <1>1
  <2> QED BY <2>1, <2>2, <2>3 DEF TextKept, InkKept
<1>4. ASSUME text = <<>> PROVE AnswersKept
  <2>1. place <= Len(lines) /\ \A i \in Nat : i < place => LineKept(i)
    BY <1>4 DEF ChunkInv
  <2>2. Min({place, Len(lines)}) = place
    BY <1>1, <2>1, LesserOfTwo
  <2>3. \A i \in 0..place - 1 : i \in Nat /\ i < place
    BY <1>1
  <2> QED BY <2>1, <2>2, <2>3 DEF AnswersKept, LineKept, TurnsOf, Holding
<1> QED BY <1>2, <1>3, <1>4 DEF ChunkSound

\* THEOREM.  chunk_text and chunk_exchanges advance with each piece, keep a piece
\* within its size, and lose nothing but noise: a character of a file is in a piece
\* that is kept, unless the piece is too small or the word longer than the overlap;
\* a line that answers a turn is in just one slice of the unit.
THEOREM ChunksAreSound == ChunkSpec => []ChunkSound
BY ChunkInvInit, ChunkInvStep, ChunkInvIsSound, PTL DEF ChunkSpec

-----------------------------------------------------------------------------
(* Mega-files: the sessions of a text.                                     *)

LineKind == {"head", "again", "stamp", "text"}

\* The names of files: that of a mega-file has a stem of one part.
FileName == {n \in [suffix : {"txt", "mega_backup"}, stem : Seq(MegaSource \cup Nat)] :
               n.stem # <<>> /\ n.stem[1] \in MegaSource}

\* Session i of a text runs from its head to the line before the next.
SessionEnd(body, i) ==
  IF i = Cardinality(Boundaries(body)) THEN Len(body) ELSE Ascending(Boundaries(body))[i + 1] - 1
SessionText(body, i) == SubSeq(body, Ascending(Boundaries(body))[i], SessionEnd(body, i))

\* The boundaries, ascending.
LEMMA BoundariesMean ==
  ASSUME NEW body \in Seq(LineKind)
  PROVE  LET B == Boundaries(body)
             N == Cardinality(B)
             spot == Ascending(B)
         IN /\ B \in SUBSET (1..Len(body)) /\ IsFiniteSet(B) /\ N \in Nat /\ spot \in [1..N -> B]
            /\ \A i, j \in 1..N : i < j => spot[i] < spot[j]
            /\ \A b \in B : \E i \in 1..N : spot[i] = b
<1> DEFINE B == Boundaries(body)
<1>1. B \in SUBSET (1..Len(body)) /\ Len(body) \in Int /\ 1 \in Int
  <2>1. DOMAIN body = 1..Len(body) /\ Len(body) \in Nat
    OBVIOUS
  <2> QED BY <2>1 DEF Boundaries
<1> HIDE DEF B
<1>2. IsFiniteSet(B) /\ B \in SUBSET Int
  <2>1. IsFiniteSet(1..Len(body))
    BY ONLY <1>1, FS_Interval
  <2>2. B \in SUBSET Int
    BY <1>1
  <2> QED BY <1>1, <2>1, <2>2, FS_Subset
<1>3. /\ Cardinality(B) \in Nat /\ Ascending(B) \in [1..Cardinality(B) -> B]
      /\ \A i, j \in 1..Cardinality(B) : i < j => Ascending(B)[i] < Ascending(B)[j]
      /\ \A b \in B : \E i \in 1..Cardinality(B) : Ascending(B)[i] = b
  BY <1>2, AscendingNumbers
<1> QED BY <1>1, <1>2, <1>3 DEF B

\* A session is a part of the text, from one boundary to the next.
LEMMA SessionIsPart ==
  ASSUME NEW body \in Seq(LineKind), NEW i \in 1..Cardinality(Boundaries(body))
  PROVE  LET a == Ascending(Boundaries(body))[i]
             z == SessionEnd(body, i)
             s == SessionText(body, i)
         IN /\ a \in Boundaries(body) /\ a \in Nat /\ z \in Nat /\ 1 <= a /\ a <= z /\ z <= Len(body)
            /\ s \in Seq(LineKind) /\ Len(s) = z - a + 1
            /\ \A j \in 1..z - a + 1 : s[j] = body[a + j - 1]
            /\ \A b \in Boundaries(body) : b > a => b > z
            /\ z < Len(body) => z + 1 \in Boundaries(body)
<1> DEFINE B == Boundaries(body)
           N == Cardinality(B)
           spot == Ascending(B)
           a == spot[i]
           z == SessionEnd(body, i)
<1>1. /\ B \in SUBSET (1..Len(body)) /\ N \in Nat /\ spot \in [1..N -> B]
      /\ \A k, j \in 1..N : k < j => spot[k] < spot[j]
      /\ \A b \in B : \E k \in 1..N : spot[k] = b
  BY BoundariesMean
<1>2. i \in 1..N /\ Len(body) \in Nat
  OBVIOUS
<1>3. z = IF i = N THEN Len(body) ELSE spot[i + 1] - 1
  BY DEF SessionEnd
<1>4. SessionText(body, i) = SubSeq(body, a, z)
  BY DEF SessionText
<1> HIDE DEF B, N, spot, z
<1>10. \A b \in B : b \in Nat /\ 1 <= b /\ b <= Len(body)
  BY <1>1, <1>2
<1>5. a \in B /\ a \in Nat /\ 1 <= a /\ a <= Len(body)
  <2>1. spot[i] \in B
    BY <1>1, <1>2
  <2> QED BY <1>10, <2>1
<1>6. i # N => i + 1 \in 1..N /\ spot[i + 1] \in B /\ spot[i + 1] \in Nat /\ spot[i + 1] <= Len(body) /\ a < spot[i + 1]
  <2>1. i # N => i + 1 \in 1..N
    BY <1>1, <1>2
  <2>2. i # N => spot[i + 1] \in B
    BY <1>1, <2>1
  <2>3. i # N => spot[i] < spot[i + 1]
    <3>1. i < i + 1
      BY <1>2, <1>1
    <3> QED BY <1>1, <1>2, <2>1, <3>1
  <2> QED BY <1>10, <2>1, <2>2, <2>3
<1>7. z \in Nat /\ a <= z /\ z <= Len(body) /\ (z < Len(body) => z + 1 \in B)
  <2>1. CASE i = N
    BY <1>2, <1>3, <1>5, <2>1
  <2>2. CASE i # N
    <3>1. z = spot[i + 1] - 1
      BY <1>3, <2>2
    <3> QED BY <1>2, <1>5, <1>6, <2>2, <3>1
  <2> QED BY <2>1, <2>2
<1>8. ASSUME NEW b \in B, b > a PROVE b > z
  <2>1. PICK k \in 1..N : spot[k] = b
    BY <1>1
  <2>2. i < k
    <3>1. k < i => b < a
      BY <1>1, <1>2, <2>1
    <3>2. b \in Nat
      BY <1>1
    <3> QED BY <1>2, <1>5, <1>8, <2>1, <3>1, <3>2
  <2>3. i # N
    BY <1>1, <1>2, <2>2
  <2>4. spot[i + 1] <= b
    <3>1. i + 1 = k \/ i + 1 < k
      BY <1>2, <2>2
    <3> QED BY <1>1, <1>6, <2>1, <2>3, <3>1
  <2> QED BY <1>1, <1>3, <1>6, <2>3, <2>4
<1> HIDE DEF a
<1>9. /\ SubSeq(body, a, z) \in Seq(LineKind) /\ Len(SubSeq(body, a, z)) = z - a + 1
      /\ \A j \in 1..z - a + 1 : SubSeq(body, a, z)[j] = body[a + j - 1]
  <2> DEFINE o == a - 1
  <2>1. o \in Nat /\ o <= z /\ z \in Nat /\ z <= Len(body) /\ o + 1 = a /\ z - o = z - a + 1
    BY <1>5, <1>7
  <2>2. /\ SubSeq(body, o + 1, z) \in Seq(LineKind) /\ Len(SubSeq(body, o + 1, z)) = z - o
        /\ \A j \in 1..(z - o) : SubSeq(body, o + 1, z)[j] = body[o + j]
    <3> HIDE DEF o
    <3> QED BY <2>1, PageRows
  <2>3. \A j \in 1..z - a + 1 : o + j = a + j - 1
    BY <1>5, <1>7
  <2> HIDE DEF o
  <2> QED BY <2>1, <2>2, <2>3
<1> QED BY <1>4, <1>5, <1>7, <1>8, <1>9 DEF a, B, N, spot, z

\* What the splitter writes is one session: no head within it, that the text has
\* told to be taken up again, is a boundary once the session stands alone.
LEMMA SessionIsOne ==
  ASSUME NEW body \in Seq(LineKind), NEW i \in 1..Cardinality(Boundaries(body))
  PROVE  Boundaries(SessionText(body, i)) = {1}
<1> DEFINE B == Boundaries(body)
           a == Ascending(B)[i]
           z == SessionEnd(body, i)
           s == SessionText(body, i)
<1>1. /\ a \in B /\ a \in Nat /\ z \in Nat /\ 1 <= a /\ a <= z /\ z <= Len(body)
      /\ s \in Seq(LineKind) /\ Len(s) = z - a + 1
      /\ \A j \in 1..z - a + 1 : s[j] = body[a + j - 1]
      /\ \A b \in B : b > a => b > z
      /\ z < Len(body) => z + 1 \in B
  BY SessionIsPart
<1>2. /\ DOMAIN body = 1..Len(body) /\ Len(body) \in Nat /\ Near \in Nat /\ Near >= 1
  BY MegaAssumption
<1>3. DOMAIN s = 1..z - a + 1
  BY <1>1
<1>4. \A b \in DOMAIN body : b \in B <=> body[b] = "head" /\ \A j \in b..(b + Near - 1) : j \in DOMAIN body => body[j] # "again"
  BY DEF Boundaries, TrueStart
<1>5. \A b \in DOMAIN s : b \in Boundaries(s) <=> s[b] = "head" /\ \A j \in b..(b + Near - 1) : j \in DOMAIN s => s[j] # "again"
  BY DEF Boundaries, TrueStart
<1>6. Boundaries(s) \subseteq DOMAIN s
  BY DEF Boundaries
<1> HIDE DEF B, a, z, s
<1>7. 1 \in Boundaries(s)
  <2>1. 1 \in DOMAIN s /\ s[1] = body[a] /\ a \in DOMAIN body
    BY <1>1, <1>2, <1>3
  <2>2. ASSUME NEW j \in 1..(1 + Near - 1), j \in DOMAIN s PROVE s[j] # "again"
    <3>1. a + j - 1 \in a..(a + Near - 1) /\ a + j - 1 \in DOMAIN body /\ s[j] = body[a + j - 1]
      BY <1>1, <1>2, <1>3, <2>2
    <3> QED BY <1>1, <1>4, <2>1, <3>1
  <2> QED BY <1>1, <1>4, <1>5, <2>1, <2>2
<1>8. ASSUME NEW j \in Boundaries(s), j # 1 PROVE FALSE
  <2> DEFINE p == a + j - 1
  <2>1. j \in DOMAIN s /\ j \in Nat /\ j > 1 /\ p \in Nat /\ p > a /\ p <= z /\ p \in DOMAIN body /\ s[j] = body[p]
    BY <1>1, <1>2, <1>3, <1>6, <1>8
  <2>2. p \notin B /\ body[p] = "head"
    BY <1>1, <1>5, <2>1
  <2> HIDE DEF p
  <2>3. PICK q \in p..(p + Near - 1) : q \in DOMAIN body /\ body[q] = "again"
    BY <1>4, <2>1, <2>2
  <2>4. CASE q <= z
    <3>1. q - a + 1 \in j..(j + Near - 1) /\ q - a + 1 \in DOMAIN s /\ a + (q - a + 1) - 1 = q
      BY <1>1, <1>2, <1>3, <2>1, <2>3, <2>4 DEF p
    <3>2. s[q - a + 1] = body[q]
      BY <1>1, <1>3, <3>1
    <3> QED BY <1>5, <2>1, <2>3, <3>1, <3>2
  <2>5. CASE q > z
    <3>1. z < Len(body) /\ z + 1 \in B /\ z + 1 \in DOMAIN body
      BY <1>1, <1>2, <2>3, <2>5
    <3>2. q \in z + 1..(z + 1 + Near - 1)
      BY <1>1, <1>2, <2>1, <2>3, <2>5
    <3> QED BY <1>4, <2>3, <3>1, <3>2
  <2> QED BY <1>1, <1>2, <2>3, <2>4, <2>5
<1> QED BY <1>7, <1>8 DEF s

SessionRec == [name : FileName, text : Seq(LineKind)]

\* The sessions of a file, in the order in which they stand, with their names.
LEMMA SessionsMean ==
  ASSUME NEW n \in FileName, NEW body \in Seq(LineKind)
  PROVE  LET ss == Sessions(n, body)
         IN /\ ss \in Seq(SessionRec)
            /\ \A k \in 1..Len(ss) : ss[k].name.suffix = "txt" /\ Len(ss[k].name.stem) = Len(n.stem) + 1
            /\ \E spot \in [1..Len(ss) -> 1..Cardinality(Boundaries(body))] :
                 /\ \A k, l \in 1..Len(ss) : k < l => spot[k] < spot[l]
                 /\ \A k \in 1..Len(ss) : /\ ss[k].text = SessionText(body, spot[k])
                                          /\ ss[k].name = SessionName(n, SessionText(body, spot[k]), spot[k])
<1> DEFINE B == Boundaries(body)
           N == Cardinality(B)
           starts == Ascending(B)
           session == [i \in DOMAIN starts |->
                         SubSeq(body, starts[i], IF i = Len(starts) THEN Len(body) ELSE starts[i + 1] - 1)]
           named == [i \in DOMAIN starts |-> [name |-> SessionName(n, session[i], i), text |-> session[i]]]
           K == {i \in DOMAIN named : Len(named[i].text) >= MinLines}
           ss == Picked(named, K)
<1>1. Sessions(n, body) = ss
  BY DEF Sessions
<1>2. N \in Nat /\ starts \in [1..N -> B]
  BY BoundariesMean
<1>3. DOMAIN starts = 1..N /\ Len(starts) = N
  <2> HIDE DEF starts, N, B
  <2> QED BY <1>2
<1>4. \A i \in 1..N : session[i] = SessionText(body, i)
  BY <1>3 DEF SessionText, SessionEnd
<1>5. \A i \in 1..N : SessionText(body, i) \in Seq(LineKind)
  BY SessionIsPart
<1>6. named = [i \in 1..N |-> [name |-> SessionName(n, SessionText(body, i), i), text |-> SessionText(body, i)]]
  <2>1. named = [i \in 1..N |-> [name |-> SessionName(n, session[i], i), text |-> session[i]]]
    BY <1>3
  <2> HIDE DEF named, session
  <2> QED BY <1>4, <2>1
<1> HIDE DEF named, session, starts, N
<1>7. \A i \in 1..N : \A s : SessionName(n, s, i) \in FileName /\ SessionName(n, s, i).suffix = "txt"
                             /\ Len(SessionName(n, s, i).stem) = Len(n.stem) + 1
  <2> SUFFICES ASSUME NEW i \in 1..N, NEW s
               PROVE  SessionName(n, s, i) \in FileName /\ SessionName(n, s, i).suffix = "txt"
                      /\ Len(SessionName(n, s, i).stem) = Len(n.stem) + 1
    OBVIOUS
  <2> DEFINE m == IF "stamp" \in ToSet(s) THEN 0 ELSE i
             P == MegaSource \cup Nat
  <2>1. m \in Nat /\ m \in P
    BY <1>2
  <2>2. Stem[n.stem[1]] \in MegaSource /\ Stem[n.stem[1]] \in P
    BY MegaAssumption DEF FileName
  <2>3. n.stem \in Seq(P) /\ n.stem # <<>>
    BY DEF FileName
  <2> DEFINE u == <<Stem[n.stem[1]]>> \o Tail(n.stem) \o <<m>>
             h == Stem[n.stem[1]]
             t == Tail(n.stem)
  <2>4. SessionName(n, s, i) = [suffix |-> "txt", stem |-> u]
    BY DEF SessionName
  <2> HIDE DEF P, m
  <2>5. t \in Seq(P) /\ Len(t) = Len(n.stem) - 1
    <3> HIDE DEF t
    <3>1. t = Tail(n.stem)
      BY DEF t
    <3> QED BY <2>3, <3>1, HeadAndTail
  <2>6. u = <<h>> \o t \o <<m>> /\ h \in P
    BY <2>2
  <2> HIDE DEF u, h, t
  <2>7. <<h>> \in Seq(P) /\ <<m>> \in Seq(P) /\ Len(<<h>>) = 1 /\ Len(<<m>>) = 1 /\ <<h>>[1] = h
    BY <2>1, <2>6
  <2>8. <<h>> \o t \in Seq(P) /\ Len(<<h>> \o t) = 1 + Len(t) /\ (<<h>> \o t)[1] = h
    BY <2>5, <2>6, <2>7
  <2>9. u \in Seq(P) /\ Len(u) = Len(n.stem) + 1 /\ u[1] = h /\ u # <<>>
    <3> DEFINE v == <<h>> \o t
    <3>1. v \in Seq(P) /\ Len(v) = 1 + Len(t) /\ v[1] = h /\ u = v \o <<m>>
      BY <2>6, <2>8
    <3>2. Len(t) = Len(n.stem) - 1 /\ Len(n.stem) \in Nat /\ Len(t) \in Nat
      BY <2>3, <2>5
    <3> HIDE DEF v
    <3>3. v \o <<m>> \in Seq(P) /\ Len(v \o <<m>>) = Len(v) + 1 /\ (v \o <<m>>)[1] = v[1]
      BY <2>1, <3>1, <3>2
    <3>4. u \in Seq(P) /\ Len(u) = Len(n.stem) + 1 /\ u[1] = h
      BY <3>1, <3>2, <3>3
    <3> QED BY <3>2, <3>4
  <2> QED BY <2>2, <2>4, <2>9 DEF FileName, P, h
<1>8. named \in Seq(SessionRec) /\ Len(named) = N /\ DOMAIN named = 1..N
  <2>1. \A i \in 1..N : [name |-> SessionName(n, SessionText(body, i), i), text |-> SessionText(body, i)] \in SessionRec
    BY <1>5, <1>7 DEF SessionRec
  <2> QED BY <1>2, <1>6, <2>1
<1>9. K \in SUBSET (1..Len(named))
  BY <1>8
<1> DEFINE spot == Ascending(K)
           c == Cardinality(K)
<1> HIDE DEF K
<1>10. /\ c \in Nat /\ ss \in Seq(SessionRec) /\ Len(ss) = c /\ spot \in [1..c -> K]
       /\ \A i \in 1..c : ss[i] = named[spot[i]]
       /\ \A i, j \in 1..c : i < j => spot[i] < spot[j]
  BY <1>8, <1>9, PickedRows
<1> HIDE DEF spot, c, ss
<1>11. \A k \in 1..c : spot[k] \in 1..N
  BY <1>8, <1>9, <1>10
<1>12. spot \in [1..c -> 1..N]
  BY <1>10, <1>11
<1>13. \A k \in 1..c : /\ ss[k].text = SessionText(body, spot[k])
                       /\ ss[k].name = SessionName(n, SessionText(body, spot[k]), spot[k])
  <2>1. \A k \in 1..c : ss[k] = [name |-> SessionName(n, SessionText(body, spot[k]), spot[k]), text |-> SessionText(body, spot[k])]
    BY <1>6, <1>10, <1>11
  <2> SUFFICES ASSUME NEW k \in 1..c
               PROVE  /\ ss[k].text = SessionText(body, spot[k])
                      /\ ss[k].name = SessionName(n, SessionText(body, spot[k]), spot[k])
    OBVIOUS
  <2> DEFINE x == SessionText(body, spot[k])
             y == SessionName(n, x, spot[k])
  <2>2. ss[k] = [name |-> y, text |-> x]
    BY <2>1
  <2> HIDE DEF x, y
  <2>3. ss[k].text = x /\ ss[k].name = y
    BY ONLY <2>2
  <2> QED BY <2>3 DEF x, y
<1>14. \A k \in 1..c : ss[k].name.suffix = "txt" /\ Len(ss[k].name.stem) = Len(n.stem) + 1
  BY <1>7, <1>11, <1>13
<1> QED BY <1>1, <1>10, <1>12, <1>13, <1>14 DEF N, B

\* Two names are of two files unless both sessions are stamped.
LEMMA SessionsApart ==
  ASSUME NEW n \in FileName, NEW body \in Seq(LineKind),
         NEW i \in 1..Len(Sessions(n, body)), NEW j \in 1..Len(Sessions(n, body)), i # j,
         Sessions(n, body)[i].name = Sessions(n, body)[j].name
  PROVE  "stamp" \in ToSet(Sessions(n, body)[i].text) /\ "stamp" \in ToSet(Sessions(n, body)[j].text)
<1> DEFINE ss == Sessions(n, body)
           N == Cardinality(Boundaries(body))
<1>1. ss \in Seq(SessionRec)
  BY SessionsMean
<1>2. PICK spot \in [1..Len(ss) -> 1..N] :
                 /\ \A k, l \in 1..Len(ss) : k < l => spot[k] < spot[l]
                 /\ \A k \in 1..Len(ss) : /\ ss[k].text = SessionText(body, spot[k])
                                          /\ ss[k].name = SessionName(n, SessionText(body, spot[k]), spot[k])
  BY SessionsMean
<1>3. i \in 1..Len(ss) /\ j \in 1..Len(ss) /\ Len(ss) \in Nat /\ ss[i].name = ss[j].name
  BY <1>1
<1> HIDE DEF ss
<1>4. N \in Nat
  BY BoundariesMean
<1> HIDE DEF N
<1>5. spot[i] \in 1..N /\ spot[j] \in 1..N /\ spot[i] # spot[j]
  <2>1. i < j \/ j < i
    BY <1>3
  <2>2. spot[i] \in 1..N /\ spot[j] \in 1..N
    BY <1>2, <1>3
  <2> QED BY <1>2, <1>3, <1>4, <2>1, <2>2
<1> DEFINE P == MegaSource \cup Nat
           w == <<Stem[n.stem[1]]>> \o Tail(n.stem)
           x == IF "stamp" \in ToSet(ss[i].text) THEN 0 ELSE spot[i]
           y == IF "stamp" \in ToSet(ss[j].text) THEN 0 ELSE spot[j]
<1>6. ss[i].name = [suffix |-> "txt", stem |-> w \o <<x>>] /\ ss[j].name = [suffix |-> "txt", stem |-> w \o <<y>>]
  BY <1>2, <1>3 DEF SessionName
<1>7. w \in Seq(P)
  <2>1. Stem[n.stem[1]] \in P /\ n.stem \in Seq(P) /\ n.stem # <<>>
    BY MegaAssumption DEF FileName
  <2>2. Tail(n.stem) \in Seq(P)
    BY ONLY <2>1, HeadAndTail
  <2> HIDE DEF P
  <2> QED BY <2>1, <2>2
<1>8. x \in P /\ y \in P /\ (x = y => x = 0)
  BY <1>4, <1>5
<1>9. w \o <<x>> = w \o <<y>>
  <2> HIDE DEF w, x, y
  <2>1. ss[i].name.stem = w \o <<x>> /\ ss[j].name.stem = w \o <<y>>
    BY <1>6
  <2> QED BY <1>3, <2>1
<1>10. x = y
  <2> HIDE DEF w, x, y, P
  <2>1. (w \o <<x>>)[Len(w) + 1] = x /\ (w \o <<y>>)[Len(w) + 1] = y
    BY <1>7, <1>8
  <2> QED BY <1>9, <2>1
<1>11. "stamp" \in ToSet(ss[i].text) /\ "stamp" \in ToSet(ss[j].text)
  BY <1>4, <1>5, <1>8, <1>10
<1> QED BY <1>11 DEF ss

-----------------------------------------------------------------------------
(* Mega-files: the inductive invariant.                                    *)

FolderOK ==
  /\ folder = [n \in DOMAIN folder |-> folder[n]]
  /\ \A n \in DOMAIN folder : n \in FileName /\ folder[n] \in Seq(LineKind)

\* A mega-file is there, or its backup is, and not both.
EitherName ==
  \A f \in MegaSource : SourceName(f) \in DOMAIN folder <=> BackupName(SourceName(f)) \notin DOMAIN folder

\* What is written of the file being split stands, unless a later session of it has
\* the same name.
WrittenStand ==
  \A k \in 1..splitting.done :
    LET s == splitting.sessions[k]
    IN \/ s.name \in DOMAIN folder /\ folder[s.name] = s.text
       \/ \E t \in ToSet(splitting.sessions) : t.name = s.name /\ t.text # s.text

\* The file being split is the one that was read: nothing writes to it meanwhile.
SplittingOK ==
  splitting # NoMegaFile =>
    /\ splitting.source \in DOMAIN folder /\ splitting.source.suffix = "txt" /\ splitting.source \notin toSplit
    /\ splitting.sessions = Sessions(splitting.source, folder[splitting.source])
    /\ Cardinality(Boundaries(folder[splitting.source])) >= 2
    /\ splitting.done \in 0..Len(splitting.sessions) /\ splitting.written \in BOOLEAN
    /\ splitting.written <=> splitting.done > 0
    /\ splitting = [source |-> splitting.source, sessions |-> splitting.sessions, done |-> splitting.done,
                    written |-> splitting.written]
    /\ WrittenStand

MegaInv ==
  /\ FolderOK /\ EitherName /\ SplittingOK /\ RenamedIsSplit
  /\ toSplit \subseteq {n \in DOMAIN folder : n.suffix = "txt"}

\* The names of a mega-file and its backup have one part; what is written has more.
LEMMA NamesApart ==
  ASSUME NEW f \in MegaSource
  PROVE  /\ SourceName(f) \in FileName /\ BackupName(SourceName(f)) \in FileName
         /\ Len(SourceName(f).stem) = 1 /\ Len(BackupName(SourceName(f)).stem) = 1
         /\ SourceName(f).suffix = "txt" /\ BackupName(SourceName(f)).suffix = "mega_backup"
         /\ \A n \in FileName : Len(n.stem) = 1 /\ n.suffix = "txt" => n = SourceName(n.stem[1]) /\ n.stem[1] \in MegaSource
         /\ \A g : (SourceName(f) = SourceName(g) \/ BackupName(SourceName(f)) = BackupName(SourceName(g))) => f = g
<1>1. <<f>> \in Seq(MegaSource \cup Nat) /\ Len(<<f>>) = 1 /\ <<f>>[1] = f /\ <<f>> # <<>>
  OBVIOUS
<1>2. SourceName(f) = [suffix |-> "txt", stem |-> <<f>>] /\ BackupName(SourceName(f)) = [suffix |-> "mega_backup", stem |-> <<f>>]
  BY DEF SourceName, BackupName
<1>3. \A n \in FileName : Len(n.stem) = 1 /\ n.suffix = "txt" => n = SourceName(n.stem[1]) /\ n.stem[1] \in MegaSource
  <2> SUFFICES ASSUME NEW n \in FileName, Len(n.stem) = 1, n.suffix = "txt"
               PROVE  n = SourceName(n.stem[1]) /\ n.stem[1] \in MegaSource
    OBVIOUS
  <2> DEFINE st == n.stem
  <2>1. st \in Seq(MegaSource \cup Nat) /\ st[1] \in MegaSource /\ n = [suffix |-> n.suffix, stem |-> st]
    BY DEF FileName
  <2>2. Len(st) = 1
    OBVIOUS
  <2> HIDE DEF st
  <2>3. st = <<st[1]>>
    BY <2>1, <2>2
  <2>4. n = SourceName(st[1])
    BY <2>1, <2>3 DEF SourceName
  <2> QED BY <2>1, <2>4 DEF st
<1>4. ASSUME NEW g, SourceName(f) = SourceName(g) \/ BackupName(SourceName(f)) = BackupName(SourceName(g)) PROVE f = g
  <2>1. SourceName(f).stem = <<f>> /\ SourceName(g).stem = <<g>> /\ BackupName(SourceName(f)).stem = <<f>> /\ BackupName(SourceName(g)).stem = <<g>>
    BY DEF SourceName, BackupName
  <2>2. <<f>> = <<g>>
    BY <1>4, <2>1
  <2> QED BY <2>2
<1>5. \A x \in {"txt", "mega_backup"} : [suffix |-> x, stem |-> <<f>>] \in FileName
  <2> DEFINE st == <<f>>
  <2>1. st \in Seq(MegaSource \cup Nat) /\ st # <<>> /\ st[1] \in MegaSource
    BY <1>1
  <2> HIDE DEF st
  <2>2. \A x \in {"txt", "mega_backup"} : [suffix |-> x, stem |-> st] \in FileName
    BY <2>1 DEF FileName
  <2> QED BY <2>2 DEF st
<1>6. SourceName(f) \in FileName /\ BackupName(SourceName(f)) \in FileName
  BY <1>2, <1>5
<1>7. /\ SourceName(f).stem = <<f>> /\ BackupName(SourceName(f)).stem = <<f>>
      /\ SourceName(f).suffix = "txt" /\ BackupName(SourceName(f)).suffix = "mega_backup"
  BY <1>2
<1> QED BY <1>1, <1>3, <1>4, <1>6, <1>7

\* A file's sessions are those of its backup.
LEMMA BackupSessions ==
  ASSUME NEW n, NEW body
  PROVE  Sessions(BackupName(n), body) = Sessions(n, body)
<1>1. BackupName(n).stem = n.stem
  BY DEF BackupName
<1> QED BY <1>1 DEF Sessions, SessionName

\* A mega-file is in the directory under the one name or the other.
LEMMA MegaNamed ==
  ASSUME FolderOK, EitherName, NEW f \in MegaSource
  PROVE  /\ NameNow(f) \in DOMAIN folder /\ NameNow(f) \in FileName /\ Len(NameNow(f).stem) = 1
         /\ folder[NameNow(f)] \in Seq(LineKind)
         /\ SessionsOf(f) = ToSet(Sessions(SourceName(f), folder[NameNow(f)]))
         /\ \A s \in SessionsOf(f) : s \in SessionRec /\ s.name.suffix = "txt" /\ Len(s.name.stem) = 2
                                     /\ Boundaries(s.text) = {1}
<1>1. NameNow(f) \in DOMAIN folder /\ NameNow(f) \in FileName /\ Len(NameNow(f).stem) = 1
  BY NamesApart DEF EitherName, NameNow
<1>2. folder[NameNow(f)] \in Seq(LineKind)
  BY <1>1 DEF FolderOK
<1>3. Sessions(NameNow(f), folder[NameNow(f)]) = Sessions(SourceName(f), folder[NameNow(f)])
  <2>1. NameNow(f) = SourceName(f) \/ NameNow(f) = BackupName(SourceName(f))
    BY DEF NameNow
  <2>2. ASSUME NameNow(f) = BackupName(SourceName(f))
        PROVE  Sessions(NameNow(f), folder[NameNow(f)]) = Sessions(SourceName(f), folder[NameNow(f)])
    <3>1. Sessions(BackupName(SourceName(f)), folder[NameNow(f)]) = Sessions(SourceName(f), folder[NameNow(f)])
      BY BackupSessions
    <3> QED BY <2>2, <3>1
  <2> QED BY <2>1, <2>2
<1> DEFINE ss == Sessions(NameNow(f), folder[NameNow(f)])
           N == Cardinality(Boundaries(folder[NameNow(f)]))
<1>4. /\ ss \in Seq(SessionRec)
      /\ \A k \in 1..Len(ss) : ss[k].name.suffix = "txt" /\ Len(ss[k].name.stem) = 2
      /\ \A k \in 1..Len(ss) : \E i \in 1..N : ss[k].text = SessionText(folder[NameNow(f)], i)
  <2>1. LET zz == Sessions(NameNow(f), folder[NameNow(f)])
        IN /\ zz \in Seq(SessionRec)
           /\ \A k \in 1..Len(zz) : zz[k].name.suffix = "txt" /\ Len(zz[k].name.stem) = Len(NameNow(f).stem) + 1
           /\ \E spot \in [1..Len(zz) -> 1..N] : \A k \in 1..Len(zz) : zz[k].text = SessionText(folder[NameNow(f)], spot[k])
    BY <1>1, <1>2, SessionsMean
  <2> HIDE DEF ss, N
  <2>2. PICK spot \in [1..Len(ss) -> 1..N] : \A k \in 1..Len(ss) : ss[k].text = SessionText(folder[NameNow(f)], spot[k])
    BY <2>1 DEF ss
  <2>3. \A k \in 1..Len(ss) : spot[k] \in 1..N
    BY <2>2
  <2>4. \A k \in 1..Len(ss) : \E i \in 1..N : ss[k].text = SessionText(folder[NameNow(f)], i)
    BY <2>2, <2>3
  <2>5. ss \in Seq(SessionRec) /\ \A k \in 1..Len(ss) : ss[k].name.suffix = "txt" /\ Len(ss[k].name.stem) = 2
    BY <1>1, <2>1 DEF ss
  <2> QED BY <2>4, <2>5
<1>5. \A i \in 1..N : Boundaries(SessionText(folder[NameNow(f)], i)) = {1}
  BY <1>2, SessionIsOne
<1>6. SessionsOf(f) = ToSet(ss)
  BY DEF SessionsOf
<1>7. ASSUME NEW s \in ToSet(ss)
      PROVE  s \in SessionRec /\ s.name.suffix = "txt" /\ Len(s.name.stem) = 2 /\ Boundaries(s.text) = {1}
  <2> HIDE DEF ss, N
  <2>1. PICK k \in 1..Len(ss) : ss[k] = s
    BY <1>4 DEF ToSet
  <2>2. s \in SessionRec
    BY <1>4, <2>1
  <2>3. PICK i \in 1..N : ss[k].text = SessionText(folder[NameNow(f)], i)
    BY <1>4
  <2>4. Boundaries(s.text) = {1}
    BY <1>5, <2>1, <2>3
  <2> QED BY <1>4, <2>1, <2>2, <2>4
<1> QED BY <1>1, <1>2, <1>3, <1>6, <1>7

LEMMA MegaInvInit == MegaInit => MegaInv
<1> SUFFICES ASSUME MegaInit PROVE MegaInv
  OBVIOUS
<1>1. PICK held \in Held : folder = [n \in {SourceName(f) : f \in MegaSource} |-> held[n.stem[1]]]
  BY DEF MegaInit
<1>2. held \in [MegaSource -> Seq(LineKind)]
  BY MegaAssumption DEF LineKind
<1>3. DOMAIN folder = {SourceName(f) : f \in MegaSource} /\ \A f \in MegaSource : folder[SourceName(f)] = held[f]
  <2>1. \A f \in MegaSource : SourceName(f).stem[1] = f
    BY DEF SourceName
  <2> QED BY <1>1, <2>1
<1>4. FolderOK
  <2>1. folder = [n \in DOMAIN folder |-> folder[n]]
    BY <1>1
  <2> QED BY <1>2, <1>3, <2>1, NamesApart DEF FolderOK
<1>5. EitherName
  <2>1. ASSUME NEW f \in MegaSource, NEW g \in MegaSource PROVE BackupName(SourceName(f)) # SourceName(g)
    <3>1. BackupName(SourceName(f)).suffix # SourceName(g).suffix
      BY NamesApart
    <3> QED BY <3>1
  <2> QED BY <1>3, <2>1 DEF EitherName
<1>6. splitting = NoMegaFile /\ toSplit = {} /\ \A f \in MegaSource : SourceName(f) \in DOMAIN folder
  BY <1>3 DEF MegaInit
<1> QED BY <1>4, <1>5, <1>6 DEF MegaInv, SplittingOK, RenamedIsSplit

LEMMA MegaInvIsSound == MegaInv => MegaSound
<1> SUFFICES ASSUME MegaInv PROVE MegaSound
  OBVIOUS
<1>1. FolderOK /\ EitherName /\ SplittingOK /\ RenamedIsSplit
  BY DEF MegaInv
<1>2. SessionsStayWhole
  <2> SUFFICES ASSUME NEW n \in DOMAIN folder, NEW s \in ToSet(Sessions(n, folder[n])) PROVE Cardinality(Boundaries(s.text)) = 1
    BY DEF SessionsStayWhole
  <2> DEFINE body == folder[n]
             ss == Sessions(n, body)
             N == Cardinality(Boundaries(body))
  <2>1. n \in FileName /\ body \in Seq(LineKind)
    BY <1>1 DEF FolderOK
  <2>2. LET zz == Sessions(n, body)
        IN /\ zz \in Seq(SessionRec)
           /\ \E spot \in [1..Len(zz) -> 1..N] : \A k \in 1..Len(zz) : zz[k].text = SessionText(body, spot[k])
    <3> HIDE DEF body
    <3> QED BY <2>1, SessionsMean
  <2>3. ss \in Seq(SessionRec) /\ \E spot \in [1..Len(ss) -> 1..N] : \A k \in 1..Len(ss) : ss[k].text = SessionText(body, spot[k])
    BY <2>2
  <2>4. \A i \in 1..N : Boundaries(SessionText(body, i)) = {1}
    BY <2>1, SessionIsOne
  <2>5. s \in ToSet(ss)
    OBVIOUS
  <2> HIDE DEF ss, N, body
  <2>6. PICK spot \in [1..Len(ss) -> 1..N] : \A k \in 1..Len(ss) : ss[k].text = SessionText(body, spot[k])
    BY <2>3
  <2>7. PICK k \in 1..Len(ss) : ss[k] = s
    BY <2>3, <2>5 DEF ToSet
  <2>8. spot[k] \in 1..N
    BY <2>6
  <2>9. Boundaries(s.text) = {1}
    BY <2>4, <2>6, <2>7, <2>8
  <2> QED BY <2>9, FS_Singleton
<1>3. OriginalsKept
  BY <1>1 DEF EitherName, OriginalsKept
<1>4. UnstampedApart
  <2> SUFFICES ASSUME NEW i \in DOMAIN splitting.sessions, NEW j \in DOMAIN splitting.sessions, i # j,
                      splitting.sessions[i].name = splitting.sessions[j].name
               PROVE  "stamp" \in ToSet(splitting.sessions[i].text) \cap ToSet(splitting.sessions[j].text)
    BY DEF UnstampedApart
  <2>1. splitting # NoMegaFile
    BY DEF NoMegaFile
  <2> DEFINE n == splitting.source
             body == folder[splitting.source]
  <2>2. n \in FileName /\ body \in Seq(LineKind) /\ splitting.sessions = Sessions(n, body)
    BY <1>1, <2>1 DEF SplittingOK, FolderOK
  <2> HIDE DEF n, body
  <2>3. Sessions(n, body) \in Seq(SessionRec)
    BY <2>2, SessionsMean
  <2>4. i \in 1..Len(Sessions(n, body)) /\ j \in 1..Len(Sessions(n, body))
    BY <2>2, <2>3
  <2> QED BY <2>2, <2>4, SessionsApart
<1> QED BY <1>1, <1>2, <1>3, <1>4 DEF MegaSound

-----------------------------------------------------------------------------
(* Mega-files: every step keeps the invariant.                             *)

\* What writing a file does to the directory.
LEMMA Written ==
  ASSUME FolderOK, NEW n \in FileName, NEW x \in Seq(LineKind)
  PROVE  LET new == WithFile(n, x)
         IN /\ DOMAIN new = DOMAIN folder \cup {n} /\ new = [m \in DOMAIN new |-> new[m]]
            /\ new[n] = x /\ \A m \in DOMAIN folder : m # n => new[m] = folder[m]
            /\ \A m \in DOMAIN new : m \in FileName /\ new[m] \in Seq(LineKind)
<1> DEFINE new == WithFile(n, x)
<1>1. new = [m \in DOMAIN folder \cup {n} |-> IF m = n THEN x ELSE folder[m]]
  BY DEF WithFile
<1>2. DOMAIN new = DOMAIN folder \cup {n} /\ \A m \in DOMAIN folder \cup {n} : new[m] = IF m = n THEN x ELSE folder[m]
  BY <1>1
<1> QED BY <1>1, <1>2 DEF FolderOK

\* What the splitter writes, whole or in part, is not one of the mega-files, so that
\* these keep their names and sessions; and what it writes over is a session of the
\* file being split.
LEMMA WritingKeeps ==
  ASSUME MegaInv, splitting # NoMegaFile, NEW s \in ToSet(splitting.sessions), NEW x \in Seq(LineKind),
         folder' = WithFile(s.name, x)
  PROVE  /\ FolderOK' /\ EitherName' /\ RenamedIsSplit'
         /\ DOMAIN folder' = DOMAIN folder \cup {s.name} /\ folder'[s.name] = x
         /\ \A m \in DOMAIN folder : m # s.name => folder'[m] = folder[m]
         /\ s.name # splitting.source /\ s.name \in FileName /\ s.name.suffix = "txt"
<1> DEFINE n == splitting.source
           body == folder[splitting.source]
<1>1. FolderOK /\ EitherName /\ RenamedIsSplit /\ SplittingOK
  BY DEF MegaInv
<1>2. n \in DOMAIN folder /\ n \in FileName /\ n.suffix = "txt" /\ body \in Seq(LineKind) /\ splitting.sessions = Sessions(n, body)
  BY <1>1 DEF SplittingOK, FolderOK
<1> HIDE DEF n, body
<1>3. s.name \in FileName /\ s.name.suffix = "txt" /\ Len(s.name.stem) = Len(n.stem) + 1
  <2> DEFINE ss == Sessions(n, body)
  <2>1. ss \in Seq(SessionRec) /\ \A k \in 1..Len(ss) : ss[k].name.suffix = "txt" /\ Len(ss[k].name.stem) = Len(n.stem) + 1
    BY <1>2, SessionsMean
  <2>2. s \in ToSet(ss)
    BY <1>2
  <2> HIDE DEF ss
  <2>3. PICK k \in 1..Len(ss) : ss[k] = s
    BY <2>1, <2>2 DEF ToSet
  <2>4. s \in SessionRec
    BY <2>1, <2>3
  <2> QED BY <2>1, <2>3, <2>4 DEF SessionRec
<1>4. Len(n.stem) \in Nat /\ Len(n.stem) >= 1 /\ Len(s.name.stem) > 1 /\ Len(s.name.stem) # 1
  <2>1. n.stem \in Seq(MegaSource \cup Nat) /\ n.stem # <<>>
    BY <1>2 DEF FileName
  <2>2. Len(n.stem) \in Nat /\ Len(n.stem) >= 1
    <3> DEFINE st == n.stem
    <3>1. st \in Seq(MegaSource \cup Nat) /\ st # <<>>
      BY <2>1
    <3> HIDE DEF st
    <3>2. Len(st) \in Nat /\ Len(st) >= 1
      BY <3>1
    <3> QED BY <3>2 DEF st
  <2> QED BY <1>3, <2>2
<1>5. /\ DOMAIN folder' = DOMAIN folder \cup {s.name} /\ folder' = [m \in DOMAIN folder' |-> folder'[m]]
      /\ folder'[s.name] = x /\ \A m \in DOMAIN folder : m # s.name => folder'[m] = folder[m]
      /\ \A m \in DOMAIN folder' : m \in FileName /\ folder'[m] \in Seq(LineKind)
  <2> DEFINE new == WithFile(s.name, x)
  <2>1. folder' = new
    OBVIOUS
  <2>2. /\ DOMAIN new = DOMAIN folder \cup {s.name} /\ new = [m \in DOMAIN new |-> new[m]]
        /\ new[s.name] = x /\ \A m \in DOMAIN folder : m # s.name => new[m] = folder[m]
        /\ \A m \in DOMAIN new : m \in FileName /\ new[m] \in Seq(LineKind)
    BY <1>1, <1>3, Written
  <2> HIDE DEF new
  <2> QED BY <2>1, <2>2
<1>6. \A m : Len(m.stem) = 1 => m # s.name
  BY <1>4
<1>7. \A f \in MegaSource : /\ SourceName(f) # s.name /\ BackupName(SourceName(f)) # s.name
  BY <1>6, NamesApart
<1>8. EitherName'
  BY <1>1, <1>5, <1>7 DEF EitherName
<1>9. \A f \in MegaSource : /\ SourceName(f) \in DOMAIN folder' <=> SourceName(f) \in DOMAIN folder
                            /\ SessionsOf(f)' = SessionsOf(f)
  <2> SUFFICES ASSUME NEW f \in MegaSource
               PROVE  /\ SourceName(f) \in DOMAIN folder' <=> SourceName(f) \in DOMAIN folder
                      /\ SessionsOf(f)' = SessionsOf(f)
    OBVIOUS
  <2>1. SourceName(f) \in DOMAIN folder' <=> SourceName(f) \in DOMAIN folder
    BY <1>5, <1>7
  <2>2. NameNow(f)' = NameNow(f)
    BY <2>1 DEF NameNow
  <2>3. NameNow(f) \in DOMAIN folder /\ NameNow(f) # s.name
    BY <1>1, <1>6, MegaNamed
  <2>4. folder'[NameNow(f)] = folder[NameNow(f)]
    BY <1>5, <2>3
  <2> QED BY <2>1, <2>2, <2>4 DEF SessionsOf
<1>10. RenamedIsSplit'
  <2> SUFFICES ASSUME NEW f \in MegaSource, SourceName(f) \notin DOMAIN folder', NEW r \in SessionsOf(f)
               PROVE  \/ r.name \in DOMAIN folder' /\ folder'[r.name] = r.text
                      \/ \E g \in MegaSource : \E t \in SessionsOf(g) :
                           t.name = r.name /\ (t.text # r.text \/ SourceName(g) \in DOMAIN folder)
    BY <1>9 DEF RenamedIsSplit
  <2>1. \/ r.name \in DOMAIN folder /\ folder[r.name] = r.text
        \/ \E g \in MegaSource : \E t \in SessionsOf(g) :
             t.name = r.name /\ (t.text # r.text \/ SourceName(g) \in DOMAIN folder)
    BY <1>1, <1>9 DEF RenamedIsSplit
  <2>2. CASE r.name = s.name
    <3>1. Len(n.stem) = 1
      <4>1. Len(r.name.stem) = 2
        BY <1>1, MegaNamed
      <4>2. Len(s.name.stem) = 2
        BY <2>2, <4>1
      <4>3. PICK a \in Nat : a = Len(n.stem)
        BY <1>4
      <4>4. a + 1 = 2
        BY <1>3, <4>2, <4>3
      <4>5. a = 1
        BY ONLY a \in Nat, <4>4
      <4> QED BY ONLY <4>3, <4>5
    <3> DEFINE g == n.stem[1]
    <3>2. g \in MegaSource /\ n = SourceName(g)
      BY <1>2, <3>1, NamesApart
    <3> HIDE DEF g
    <3>3. SourceName(g) \in DOMAIN folder /\ NameNow(g) = n
      BY <1>2, <3>2 DEF NameNow
    <3>4. s \in SessionsOf(g)
      BY <1>2, <3>3 DEF SessionsOf, body, n
    <3> QED BY <2>2, <3>2, <3>3, <3>4
  <2>3. CASE r.name # s.name
    BY <1>5, <2>1, <2>3
  <2> QED BY <2>2, <2>3
<1>11. s.name # n
  BY <1>3, <1>4
<1> QED BY <1>3, <1>5, <1>8, <1>10, <1>11 DEF FolderOK, n

\* A session is written.
LEMMA WriteSessionStep ==
  ASSUME MegaInv, WriteSession
  PROVE  MegaInv'
<1> DEFINE d == splitting.done + 1
           ss == splitting.sessions
           n == splitting.source
           s == splitting.sessions[splitting.done + 1]
<1>1. FolderOK /\ EitherName /\ RenamedIsSplit /\ SplittingOK
  BY DEF MegaInv
<1>2. /\ splitting # NoMegaFile /\ splitting.done < Len(ss) /\ folder' = WithFile(s.name, s.text)
      /\ splitting' = [splitting EXCEPT !.done = @ + 1, !.written = TRUE] /\ toSplit' = toSplit
  BY DEF WriteSession
<1>3. /\ n \in DOMAIN folder /\ n.suffix = "txt" /\ n \notin toSplit /\ ss = Sessions(n, folder[n])
      /\ Cardinality(Boundaries(folder[n])) >= 2 /\ splitting.done \in 0..Len(ss) /\ WrittenStand
      /\ splitting = [source |-> n, sessions |-> ss, done |-> splitting.done, written |-> splitting.written]
  BY <1>1, <1>2 DEF SplittingOK
<1>4. ss \in Seq(SessionRec)
  <2>1. n \in FileName /\ folder[n] \in Seq(LineKind)
    BY <1>1, <1>3 DEF FolderOK
  <2>2. Sessions(n, folder[n]) \in Seq(SessionRec)
    BY <2>1, SessionsMean
  <2> HIDE DEF ss, n
  <2> QED BY <1>3, <2>2
<1>5. splitting' = [source |-> n, sessions |-> ss, done |-> d, written |-> TRUE]
  BY <1>2, <1>3
<1>6. splitting'.source = n /\ splitting'.sessions = ss /\ splitting'.done = d /\ splitting'.written = TRUE
  BY <1>5
<1>7. d \in 1..Len(ss) /\ s = ss[d] /\ s \in ToSet(ss) /\ s.text \in Seq(LineKind) /\ splitting.done \in Nat
  <2>1. d \in 1..Len(ss) /\ s = ss[d] /\ splitting.done \in Nat
    BY <1>2, <1>3, <1>4
  <2>2. ss[d] \in SessionRec /\ d \in DOMAIN ss
    BY <1>4, <2>1
  <2> QED BY <2>1, <2>2 DEF ToSet, SessionRec
<1>8. /\ FolderOK' /\ EitherName' /\ RenamedIsSplit'
      /\ DOMAIN folder' = DOMAIN folder \cup {s.name} /\ folder'[s.name] = s.text
      /\ \A m \in DOMAIN folder : m # s.name => folder'[m] = folder[m]
      /\ s.name # n
  <2>1. s \in ToSet(splitting.sessions) /\ s.text \in Seq(LineKind)
    BY <1>7
  <2> HIDE DEF s
  <2> QED BY <1>2, <2>1, WritingKeeps
<1> HIDE DEF d, ss, n, s
<1>9. n \in DOMAIN folder' /\ folder'[n] = folder[n]
  BY <1>3, <1>8
<1>10. ASSUME NEW k \in 1..d
       PROVE  \/ ss[k].name \in DOMAIN folder' /\ folder'[ss[k].name] = ss[k].text
              \/ \E t \in ToSet(ss) : t.name = ss[k].name /\ t.text # ss[k].text
  <2>1. CASE ss[k].name = s.name
    BY <1>7, <1>8, <2>1
  <2>2. CASE ss[k].name # s.name
    <3>1. k # d
      BY <1>7, <2>2
    <3>2. k \in 1..splitting.done
      BY <1>7, <3>1 DEF d
    <3>3. \/ ss[k].name \in DOMAIN folder /\ folder[ss[k].name] = ss[k].text
          \/ \E t \in ToSet(ss) : t.name = ss[k].name /\ t.text # ss[k].text
      BY <1>3, <3>2 DEF WrittenStand, ss
    <3> QED BY <1>8, <2>2, <3>3
  <2> QED BY <2>1, <2>2
<1>11. WrittenStand'
  BY <1>6, <1>10 DEF WrittenStand
<1>12. d \in 0..Len(ss) /\ d > 0
  BY <1>7
<1>13. SplittingOK'
  BY <1>2, <1>3, <1>5, <1>6, <1>9, <1>11, <1>12 DEF SplittingOK
<1>14. toSplit' \subseteq {m \in DOMAIN folder' : m.suffix = "txt"}
  BY <1>2, <1>8 DEF MegaInv
<1> QED BY <1>8, <1>13, <1>14 DEF MegaInv

\* The run dies, between two files or in the middle of one.
LEMMA StopSplittingStep ==
  ASSUME MegaInv, StopSplitting
  PROVE  MegaInv'
<1> DEFINE ss == splitting.sessions
           s == splitting.sessions[splitting.done + 1]
<1>1. FolderOK /\ EitherName /\ RenamedIsSplit /\ SplittingOK
  BY DEF MegaInv
<1>2. toSplit' = {} /\ splitting' = NoMegaFile
  BY DEF StopSplitting
<1>3. SplittingOK' /\ toSplit' \subseteq {m \in DOMAIN folder' : m.suffix = "txt"}
  BY <1>2 DEF SplittingOK
<1>4. CASE folder' = folder
  <2>1. FolderOK' /\ EitherName' /\ RenamedIsSplit'
    BY <1>1, <1>4 DEF FolderOK, EitherName, RenamedIsSplit, SessionsOf, NameNow
  <2> QED BY <1>3, <2>1 DEF MegaInv
<1>5. CASE splitting.done < Len(ss) /\ \E cut \in 0..(Len(s.text) - 1) : folder' = WithFile(s.name, SubSeq(s.text, 1, cut))
  <2>1. PICK cut \in 0..(Len(s.text) - 1) : folder' = WithFile(s.name, SubSeq(s.text, 1, cut))
    BY <1>5
  <2>2. splitting # NoMegaFile
    BY <1>5 DEF NoMegaFile
  <2>3. ss \in Seq(SessionRec) /\ splitting.done \in 0..Len(ss)
    <3> DEFINE n == splitting.source
    <3>1. n \in FileName /\ folder[n] \in Seq(LineKind) /\ ss = Sessions(n, folder[n]) /\ splitting.done \in 0..Len(ss)
      BY <1>1, <2>2 DEF FolderOK, SplittingOK
    <3>2. Sessions(n, folder[n]) \in Seq(SessionRec)
      BY <3>1, SessionsMean
    <3> HIDE DEF ss, n
    <3> QED BY <3>1, <3>2
  <2>4. s \in ToSet(ss) /\ s.text \in Seq(LineKind)
    <3>1. splitting.done + 1 \in DOMAIN ss /\ s = ss[splitting.done + 1] /\ s \in SessionRec
      BY <1>5, <2>3
    <3> QED BY <3>1 DEF ToSet, SessionRec
  <2>5. SubSeq(s.text, 1, cut) \in Seq(LineKind)
    <3> DEFINE u == s.text
    <3>1. u \in Seq(LineKind) /\ cut \in Nat /\ cut <= Len(u)
      BY <2>4
    <3> HIDE DEF u
    <3>2. SubSeq(u, 1, cut) \in Seq(LineKind)
      BY <3>1
    <3> QED BY <3>2 DEF u
  <2>6. FolderOK' /\ EitherName' /\ RenamedIsSplit'
    <3> HIDE DEF s
    <3> QED BY <2>1, <2>2, <2>4, <2>5, WritingKeeps
  <2> QED BY <1>3, <2>6 DEF MegaInv
<1> QED BY <1>4, <1>5 DEF StopSplitting

\* A file is opened.
LEMMA OpenMegaFileStep ==
  ASSUME MegaInv, OpenMegaFile
  PROVE  MegaInv'
<1>1. PICK n \in toSplit :
        /\ toSplit' = toSplit \ {n} /\ folder' = folder
        /\ splitting' = IF Cardinality(Boundaries(folder[n])) < 2 THEN NoMegaFile
                        ELSE [source |-> n, sessions |-> Sessions(n, folder[n]), done |-> 0, written |-> FALSE]
  BY DEF OpenMegaFile
<1>2. FolderOK /\ EitherName /\ RenamedIsSplit /\ toSplit \subseteq {m \in DOMAIN folder : m.suffix = "txt"}
  BY DEF MegaInv
<1>3. FolderOK' /\ EitherName' /\ RenamedIsSplit' /\ toSplit' \subseteq {m \in DOMAIN folder' : m.suffix = "txt"}
  BY <1>1, <1>2 DEF FolderOK, EitherName, RenamedIsSplit, SessionsOf, NameNow
<1> DEFINE ss == Sessions(n, folder[n])
           N == Cardinality(Boundaries(folder[n]))
<1>4. n \in FileName /\ folder[n] \in Seq(LineKind) /\ n \in DOMAIN folder /\ n.suffix = "txt"
  BY <1>2 DEF FolderOK
<1>5. N \in Nat /\ ss \in Seq(SessionRec)
  BY <1>4, BoundariesMean, SessionsMean
<1>6. CASE N < 2
  BY <1>1, <1>3, <1>6 DEF MegaInv, SplittingOK
<1>7. CASE ~(N < 2)
  <2>1. splitting' = [source |-> n, sessions |-> ss, done |-> 0, written |-> FALSE]
    BY <1>1, <1>7
  <2>2. N >= 2 /\ 0 \in 0..Len(ss)
    BY <1>5, <1>7
  <2> HIDE DEF ss
  <2>3. splitting'.source = n /\ splitting'.sessions = ss /\ splitting'.done = 0 /\ splitting'.written = FALSE
    BY <2>1
  <2>4. WrittenStand'
    BY <2>3 DEF WrittenStand
  <2>5. SplittingOK'
    <3>1. ss = Sessions(splitting'.source, folder'[splitting'.source]) /\ N = Cardinality(Boundaries(folder'[splitting'.source]))
      BY <1>1, <2>3 DEF ss
    <3>2. n \in DOMAIN folder' /\ n \notin toSplit' /\ ~(0 > 0)
      BY <1>1, <1>4
    <3> HIDE DEF N
    <3> QED BY <1>4, <2>1, <2>2, <2>3, <2>4, <3>1, <3>2 DEF SplittingOK
  <2> QED BY <1>3, <2>5 DEF MegaInv
<1> QED BY <1>6, <1>7

\* The list of mega-files is made.
LEMMA FindMegaFilesStep ==
  ASSUME MegaInv, FindMegaFiles
  PROVE  MegaInv'
<1>1. /\ folder' = folder /\ splitting' = splitting /\ splitting = NoMegaFile
      /\ toSplit' \subseteq {m \in DOMAIN folder : m.suffix = "txt"}
  BY DEF FindMegaFiles
<1>2. FolderOK /\ EitherName /\ RenamedIsSplit
  BY DEF MegaInv
<1> QED BY <1>1, <1>2 DEF MegaInv, SplittingOK, FolderOK, EitherName, RenamedIsSplit, SessionsOf, NameNow

\* The file is renamed, once its sessions are written.
LEMMA RenameMegaFileStep ==
  ASSUME MegaInv, RenameMegaFile
  PROVE  MegaInv'
<1> DEFINE n == splitting.source
           b == BackupName(splitting.source)
           ss == splitting.sessions
<1>1. FolderOK /\ EitherName /\ RenamedIsSplit /\ SplittingOK /\ toSplit \subseteq {m \in DOMAIN folder : m.suffix = "txt"}
  BY DEF MegaInv
<1>2. /\ splitting # NoMegaFile /\ splitting.done = Len(ss)
      /\ folder' = IF splitting.written THEN WithRenamed(n, b) ELSE folder
      /\ splitting' = NoMegaFile /\ toSplit' = toSplit
  BY DEF RenameMegaFile
<1>3. SplittingOK'
  BY <1>2 DEF SplittingOK
<1>4. CASE ~splitting.written
  <2>1. folder' = folder
    BY <1>2, <1>4
  <2> QED BY <1>1, <1>2, <1>3, <2>1 DEF MegaInv, FolderOK, EitherName, RenamedIsSplit, SessionsOf, NameNow
<1>5. CASE splitting.written
  <2>1. folder' = WithRenamed(n, b)
    BY <1>2, <1>5
  <2>2. /\ n \in DOMAIN folder /\ n.suffix = "txt" /\ n \notin toSplit /\ ss = Sessions(n, folder[n])
        /\ Cardinality(Boundaries(folder[n])) >= 2 /\ WrittenStand
    BY <1>1, <1>2 DEF SplittingOK
  <2>3. n \in FileName /\ folder[n] \in Seq(LineKind)
    BY <1>1, <2>2 DEF FolderOK
  <2>4. b = [suffix |-> "mega_backup", stem |-> n.stem] /\ b.suffix = "mega_backup" /\ b.stem = n.stem /\ b \in FileName /\ b # n
    <3>1. b = [suffix |-> "mega_backup", stem |-> n.stem]
      BY DEF BackupName
    <3> HIDE DEF b, n
    <3>2. n.stem \in Seq(MegaSource \cup Nat) /\ n.stem # <<>> /\ n.stem[1] \in MegaSource
      BY <2>3 DEF FileName
    <3>3. b.suffix = "mega_backup" /\ b.stem = n.stem
      BY <3>1
    <3>4. b \in FileName
      BY <3>1, <3>2, <3>3 DEF FileName
    <3> QED BY <2>2, <3>1, <3>3, <3>4
  <2>5. ss \in Seq(SessionRec) /\ DOMAIN ss = 1..Len(ss)
    <3>1. Sessions(n, folder[n]) \in Seq(SessionRec)
      BY <2>3, SessionsMean
    <3>2. ss \in Seq(SessionRec)
      BY <2>2, <3>1
    <3> QED BY <3>2
  <2>6. \A r \in ToSet(ss) : \/ r.name \in DOMAIN folder /\ folder[r.name] = r.text
                             \/ \E t \in ToSet(ss) : t.name = r.name /\ t.text # r.text
    <3>1. \A k \in 1..Len(ss) : \/ ss[k].name \in DOMAIN folder /\ folder[ss[k].name] = ss[k].text
                                \/ \E t \in ToSet(ss) : t.name = ss[k].name /\ t.text # ss[k].text
      BY <1>2, <2>2 DEF WrittenStand
    <3> HIDE DEF ss
    <3>2. \A r \in ToSet(ss) : \E k \in 1..Len(ss) : ss[k] = r
      BY <2>5 DEF ToSet
    <3> QED BY <3>1, <3>2
  <2> HIDE DEF n, b, ss
  <2>7. folder' = [m \in (DOMAIN folder \ {n}) \cup {b} |-> IF m = b THEN folder[n] ELSE folder[m]]
    BY <2>1 DEF WithRenamed
  <2>8. /\ DOMAIN folder' = (DOMAIN folder \ {n}) \cup {b} /\ folder'[b] = folder[n]
        /\ \A m \in DOMAIN folder : m # n /\ m # b => folder'[m] = folder[m]
        /\ folder' = [m \in DOMAIN folder' |-> folder'[m]]
    BY <2>7
  <2>9. FolderOK'
    BY <1>1, <2>3, <2>4, <2>8 DEF FolderOK
  <2>10. \A f \in MegaSource : /\ SourceName(f) # b
                               /\ BackupName(SourceName(f)) = b <=> SourceName(f) = n
                               /\ BackupName(SourceName(f)) # n
    <3> SUFFICES ASSUME NEW f \in MegaSource
                 PROVE  /\ SourceName(f) # b
                        /\ BackupName(SourceName(f)) = b <=> SourceName(f) = n
                        /\ BackupName(SourceName(f)) # n
      OBVIOUS
    <3>1. SourceName(f).suffix = "txt" /\ BackupName(SourceName(f)).suffix = "mega_backup"
      BY NamesApart
    <3>2. SourceName(f) = n => BackupName(SourceName(f)) = b
      BY DEF b, n
    <3>3. ASSUME BackupName(SourceName(f)) = b PROVE SourceName(f) = n
      <4>1. SourceName(f).stem = n.stem
        <5>1. BackupName(SourceName(f)).stem = SourceName(f).stem
          BY DEF BackupName
        <5> QED BY <2>4, <3>3, <5>1
      <4>2. SourceName(f) = [suffix |-> "txt", stem |-> n.stem]
        BY <4>1 DEF SourceName
      <4>3. n = [suffix |-> n.suffix, stem |-> n.stem]
        BY <2>3 DEF FileName
      <4> QED BY <2>2, <4>2, <4>3
    <3> QED BY <2>2, <2>4, <3>1, <3>2, <3>3
  <2>11. EitherName'
    BY <1>1, <2>2, <2>8, <2>10 DEF EitherName
  <2>12. \A f \in MegaSource : /\ SourceName(f) \in DOMAIN folder' <=> SourceName(f) \in DOMAIN folder /\ SourceName(f) # n
                               /\ SessionsOf(f)' = SessionsOf(f)
    <3> SUFFICES ASSUME NEW f \in MegaSource
                 PROVE  /\ SourceName(f) \in DOMAIN folder' <=> SourceName(f) \in DOMAIN folder /\ SourceName(f) # n
                        /\ SessionsOf(f)' = SessionsOf(f)
      OBVIOUS
    <3>1. SourceName(f) \in DOMAIN folder' <=> SourceName(f) \in DOMAIN folder /\ SourceName(f) # n
      BY <2>8, <2>10
    <3>2. CASE SourceName(f) = n
      <4>1. NameNow(f) = n /\ NameNow(f)' = b
        BY <2>2, <2>10, <3>1, <3>2 DEF NameNow
      <4>2. Sessions(b, folder[n]) = Sessions(n, folder[n])
        BY BackupSessions DEF b, n
      <4>3. SessionsOf(f)' = ToSet(Sessions(b, folder[n])) /\ SessionsOf(f) = ToSet(Sessions(n, folder[n]))
        BY <2>8, <4>1 DEF SessionsOf
      <4> QED BY <3>1, <4>2, <4>3
    <3>3. CASE SourceName(f) # n
      <4>1. NameNow(f)' = NameNow(f)
        BY <3>1, <3>3 DEF NameNow
      <4>2. NameNow(f) \in DOMAIN folder
        BY <1>1, MegaNamed
      <4>3. NameNow(f) # n /\ NameNow(f) # b
        BY <2>10, <3>3 DEF NameNow
      <4>4. folder'[NameNow(f)] = folder[NameNow(f)]
        BY <2>8, <4>2, <4>3
      <4> QED BY <3>1, <4>1, <4>4 DEF SessionsOf
    <3> QED BY <3>2, <3>3
  <2>13. \A f \in MegaSource : \A r \in SessionsOf(f) : r.name \in DOMAIN folder /\ folder[r.name] = r.text =>
            r.name \in DOMAIN folder' /\ folder'[r.name] = r.text
    <3> SUFFICES ASSUME NEW f \in MegaSource, NEW r \in SessionsOf(f), r.name \in DOMAIN folder, folder[r.name] = r.text
                 PROVE  r.name \in DOMAIN folder' /\ folder'[r.name] = r.text
      OBVIOUS
    <3>1. r.name.suffix = "txt" /\ Boundaries(r.text) = {1}
      BY <1>1, MegaNamed
    <3>2. r.name # b
      BY <2>4, <3>1
    <3>3. r.name # n
      <4> SUFFICES ASSUME r.name = n PROVE FALSE
        OBVIOUS
      <4>1. Boundaries(folder[n]) = {1}
        BY <3>1
      <4>2. Cardinality({1}) = 1
        BY FS_Singleton
      <4> QED BY <2>2, <4>1, <4>2
    <3> QED BY <2>8, <3>2, <3>3
  <2>14. \A g \in MegaSource : SourceName(g) = n => SessionsOf(g) = ToSet(ss)
    <3> SUFFICES ASSUME NEW g \in MegaSource, SourceName(g) = n PROVE SessionsOf(g) = ToSet(ss)
      OBVIOUS
    <3>1. NameNow(g) = n
      BY <2>2 DEF NameNow
    <3> QED BY <2>2, <3>1 DEF SessionsOf
  <2>15. RenamedIsSplit'
    <3> SUFFICES ASSUME NEW f \in MegaSource, SourceName(f) \notin DOMAIN folder \/ SourceName(f) = n, NEW r \in SessionsOf(f)
                 PROVE  \/ r.name \in DOMAIN folder' /\ folder'[r.name] = r.text
                        \/ \E g \in MegaSource : \E t \in SessionsOf(g) :
                             t.name = r.name /\ (t.text # r.text \/ (SourceName(g) \in DOMAIN folder /\ SourceName(g) # n))
      BY <2>12 DEF RenamedIsSplit
    <3>1. ASSUME NEW g \in MegaSource, SourceName(g) = n, NEW t \in SessionsOf(g), t.name = r.name, t.text = r.text
          PROVE  \/ r.name \in DOMAIN folder' /\ folder'[r.name] = r.text
                 \/ \E h \in MegaSource : \E w \in SessionsOf(h) : w.name = r.name /\ w.text # r.text
      <4>1. t \in ToSet(ss)
        BY <2>14, <3>1
      <4>2. CASE t.name \in DOMAIN folder /\ folder[t.name] = t.text
        BY <2>13, <3>1, <4>2
      <4>3. CASE \E w \in ToSet(ss) : w.name = t.name /\ w.text # t.text
        <5>1. PICK w \in ToSet(ss) : w.name = t.name /\ w.text # t.text
          BY <4>3
        <5>2. w \in SessionsOf(g)
          BY <2>14, <3>1, <5>1
        <5> QED BY <3>1, <5>1, <5>2
      <4> QED BY <2>6, <4>1, <4>2, <4>3
    <3>2. CASE SourceName(f) = n
      BY <3>1, <3>2
    <3>3. CASE SourceName(f) \notin DOMAIN folder
      <4>1. \/ r.name \in DOMAIN folder /\ folder[r.name] = r.text
            \/ \E g \in MegaSource : \E t \in SessionsOf(g) :
                 t.name = r.name /\ (t.text # r.text \/ SourceName(g) \in DOMAIN folder)
        BY <1>1, <3>3 DEF RenamedIsSplit
      <4>2. CASE r.name \in DOMAIN folder /\ folder[r.name] = r.text
        BY <2>13, <4>2
      <4>3. CASE \E g \in MegaSource : \E t \in SessionsOf(g) :
                   t.name = r.name /\ (t.text # r.text \/ SourceName(g) \in DOMAIN folder)
        <5>1. PICK g \in MegaSource : \E t \in SessionsOf(g) :
                     t.name = r.name /\ (t.text # r.text \/ SourceName(g) \in DOMAIN folder)
          BY <4>3
        <5>2. PICK t \in SessionsOf(g) : t.name = r.name /\ (t.text # r.text \/ SourceName(g) \in DOMAIN folder)
          BY <5>1
        <5>3. CASE SourceName(g) = n /\ t.text = r.text
          BY <3>1, <5>2, <5>3
        <5>4. CASE ~(SourceName(g) = n /\ t.text = r.text)
          BY <5>2, <5>4
        <5> QED BY <5>3, <5>4
      <4> QED BY <4>1, <4>2, <4>3
    <3> QED BY <3>2, <3>3
  <2>16. toSplit' \subseteq {m \in DOMAIN folder' : m.suffix = "txt"}
    BY <1>1, <1>2, <2>2, <2>8
  <2> QED BY <1>3, <2>9, <2>11, <2>15, <2>16 DEF MegaInv
<1> QED BY <1>4, <1>5

LEMMA MegaInvStep == MegaInv /\ [MegaNext]_megaVars => MegaInv'
<1> SUFFICES ASSUME MegaInv, [MegaNext]_megaVars PROVE MegaInv'
  OBVIOUS
<1>1. CASE UNCHANGED megaVars
  <2>1. folder' = folder /\ splitting' = splitting /\ toSplit' = toSplit
    BY <1>1 DEF megaVars
  <2>2. FolderOK /\ EitherName /\ RenamedIsSplit /\ SplittingOK /\ toSplit \subseteq {m \in DOMAIN folder : m.suffix = "txt"}
    BY DEF MegaInv
  <2>3. FolderOK' /\ EitherName' /\ RenamedIsSplit'
    BY <2>1, <2>2 DEF FolderOK, EitherName, RenamedIsSplit, SessionsOf, NameNow
  <2>4. SplittingOK'
    BY <2>1, <2>2 DEF SplittingOK, WrittenStand
  <2> QED BY <2>1, <2>2, <2>3, <2>4 DEF MegaInv
<1> QED BY <1>1, FindMegaFilesStep, OpenMegaFileStep, WriteSessionStep, RenameMegaFileStep, StopSplittingStep DEF MegaNext

\* THEOREM.  Of a mega-file that was renamed each session stands whole under its name,
\* wherever runs died before, unless a mega-file, that one included, has another session
\* of the name, or one that is still to be split has the same; the lines of the file stay
\* in its backup; what is written is one session, which is not split again.
THEOREM MegaFilesAreSound == MegaSpec => []MegaSound
BY MegaInvInit, MegaInvStep, MegaInvIsSound, PTL DEF MegaSpec

-----------------------------------------------------------------------------
(* Transcripts: the lines of a message.                                    *)

TextKind == {"none", "noise", "words", "cited", "rule"}
MsgRec == [role : {"user", "assistant"}, text : TextKind]
LineRec == [kind : {"turn", "quote", "line", "rule", "blank"}, of : Nat]

\* The lines of a text.
LEMMA KindsMean ==
  ASSUME NEW x
  PROVE  /\ Kinds(x) \in Seq({"quote", "line", "rule"}) /\ Len(Kinds(x)) \in 1..3
         /\ DOMAIN Kinds(x) = 1..Len(Kinds(x))
         /\ x = "words" => Len(Kinds(x)) = 1
<1>1. CASE x = "cited"
  BY <1>1 DEF Kinds
<1>2. CASE x = "rule"
  BY <1>2 DEF Kinds
<1>3. CASE x # "cited" /\ x # "rule"
  BY <1>3 DEF Kinds
<1> QED BY <1>1, <1>2, <1>3

\* The block of a message: its lines, of which the first is marked if the user
\* wrote it, and a blank one unless the next message answers it.
LEMMA BlockMeans ==
  ASSUME NEW ms \in Seq(MsgRec), NEW k \in 1..Len(ms)
  PROVE  LET b == Block(ms, k)
             n == Len(Kinds(ms[k].text))
         IN /\ b \in Seq(LineRec) /\ DOMAIN b = 1..Len(b) /\ n \in 1..3
            /\ Len(b) = IF Answered(ms, k) THEN n ELSE n + 1
            /\ \A i \in 1..Len(b) : /\ b[i].of = k
                                    /\ b[i].kind = "blank" <=> i > n
                                    /\ b[i].kind = "turn" <=> i = 1 /\ ms[k].role = "user"
<1> DEFINE kinds == Kinds(ms[k].text)
           n == Len(kinds)
           ls == Lines(ms, k)
           rest == IF Answered(ms, k) THEN <<>> ELSE <<[kind |-> "blank", of |-> k]>>
           b == ls \o rest
<1>1. kinds \in Seq({"quote", "line", "rule"}) /\ n \in 1..3 /\ DOMAIN kinds = 1..n
  BY KindsMean
<1>2. k \in Nat
  OBVIOUS
<1>3. ls = [i \in 1..n |-> [kind |-> IF i = 1 /\ ms[k].role = "user" THEN "turn" ELSE kinds[i], of |-> k]]
  BY <1>1 DEF Lines
<1> HIDE DEF kinds, n, ls
<1>4. \A i \in 1..n : kinds[i] \in {"quote", "line", "rule"}
  BY <1>1 DEF n
<1>5. \A i \in 1..n : [kind |-> IF i = 1 /\ ms[k].role = "user" THEN "turn" ELSE kinds[i], of |-> k] \in LineRec
  BY <1>2, <1>4 DEF LineRec
<1>6. /\ ls \in Seq(LineRec) /\ Len(ls) = n
      /\ \A i \in 1..n : /\ ls[i].of = k /\ ls[i].kind # "blank"
                         /\ ls[i].kind = "turn" <=> i = 1 /\ ms[k].role = "user"
  <2>1. ls \in Seq(LineRec) /\ Len(ls) = n
    BY <1>1, <1>3, <1>5
  <2>2. \A i \in 1..n : ls[i].of = k /\ ls[i].kind = IF i = 1 /\ ms[k].role = "user" THEN "turn" ELSE kinds[i]
    BY <1>3
  <2> QED BY <1>4, <2>1, <2>2
<1>7. /\ rest \in Seq(LineRec) /\ Len(rest) = IF Answered(ms, k) THEN 0 ELSE 1
      /\ \A i \in 1..Len(rest) : rest[i].of = k /\ rest[i].kind = "blank"
  <2> DEFINE blank == [kind |-> "blank", of |-> k]
  <2>1. blank \in LineRec /\ blank.of = k /\ blank.kind = "blank"
    BY <1>2 DEF LineRec
  <2> HIDE DEF blank
  <2>2. CASE Answered(ms, k)
    BY <2>2
  <2>3. CASE ~Answered(ms, k)
    <3>1. rest = <<blank>>
      BY <2>3 DEF blank
    <3>2. <<blank>> \in Seq(LineRec) /\ Len(<<blank>>) = 1 /\ <<blank>>[1] = blank
      BY <2>1
    <3> HIDE DEF rest
    <3> QED BY <2>1, <2>3, <3>1, <3>2
  <2> QED BY <2>2, <2>3
<1> HIDE DEF rest
<1>8. /\ ls \o rest \in Seq(LineRec) /\ Len(ls \o rest) = Len(ls) + Len(rest)
      /\ \A i \in 1..Len(ls) : (ls \o rest)[i] = ls[i]
      /\ \A i \in 1..Len(rest) : (ls \o rest)[Len(ls) + i] = rest[i]
  <2>1. ls \in Seq(LineRec) /\ rest \in Seq(LineRec)
    BY <1>6, <1>7
  <2> QED BY ONLY <2>1, JoinedRows
<1>9. Block(ms, k) = b
  BY DEF Block, rest, ls
<1>9b. /\ b \in Seq(LineRec) /\ Len(b) = Len(ls) + Len(rest)
       /\ \A i \in 1..Len(ls) : b[i] = ls[i]
       /\ \A i \in 1..Len(rest) : b[Len(ls) + i] = rest[i]
  BY <1>8
<1> HIDE DEF b
<1>10. Len(b) = IF Answered(ms, k) THEN n ELSE n + 1
  BY <1>1, <1>6, <1>7, <1>9b
<1>11. ASSUME NEW i \in 1..Len(b)
       PROVE  /\ b[i].of = k
              /\ b[i].kind = "blank" <=> i > n
              /\ b[i].kind = "turn" <=> i = 1 /\ ms[k].role = "user"
  <2>1. CASE i <= n
    <3>1. i \in 1..n /\ b[i] = ls[i]
      BY <1>6, <1>9b, <2>1
    <3> QED BY <1>1, <1>6, <2>1, <3>1
  <2>2. CASE i > n
    <3>1. i - n \in 1..Len(rest) /\ Len(ls) + (i - n) = i
      BY <1>1, <1>6, <1>7, <1>9b, <2>2
    <3>2. b[i] = rest[i - n]
      BY <1>9b, <3>1
    <3>3. b[i].of = k /\ b[i].kind = "blank" /\ i # 1
      BY <1>1, <1>7, <2>2, <3>1, <3>2
    <3> QED BY <2>2, <3>3
  <2> QED BY <1>1, <2>1, <2>2
<1>12. DOMAIN b = 1..Len(b)
  BY <1>9b
<1> QED BY <1>1, <1>9b, <1>9, <1>10, <1>11, <1>12 DEF n, kinds

\* A transcript is the blocks one after the other.
Before(p, q) == p[1] < q[1] \/ (p[1] = q[1] /\ p[2] < q[2])
Places(ms) == {p \in (1..Len(ms)) \X (1..4) : p[2] \in 1..Len(Block(ms, p[1]))}

LEMMA TranscriptMeans ==
  ASSUME NEW ms \in Seq(MsgRec)
  PROVE  LET t == TranscriptOf(ms)
         IN /\ t \in Seq(LineRec)
            /\ \E spot \in [1..Len(t) -> Places(ms)] :
                 /\ \A i, j \in 1..Len(t) : i < j => Before(spot[i], spot[j])
                 /\ \A p \in Places(ms) : \E i \in 1..Len(t) : spot[i] = p
                 /\ \A i \in 1..Len(t) : t[i] = Block(ms, spot[i][1])[spot[i][2]]
<1> DEFINE P == Places(ms)
           ps == UNION {{k} \X DOMAIN Block(ms, k) : k \in DOMAIN ms}
           R == {pq \in P \X P : \/ pq[1][1] < pq[2][1]
                                 \/ pq[1][1] = pq[2][1] /\ pq[1][2] < pq[2][2]}
           spot == Ordered(P, R)
           N == Cardinality(P)
<1>1. DOMAIN ms = 1..Len(ms) /\ Len(ms) \in Nat
  OBVIOUS
<1>2. \A k \in 1..Len(ms) : /\ DOMAIN Block(ms, k) = 1..Len(Block(ms, k)) /\ Block(ms, k) \in Seq(LineRec)
                            /\ Len(Block(ms, k)) \in 1..4
  <2> SUFFICES ASSUME NEW k \in 1..Len(ms)
               PROVE  /\ DOMAIN Block(ms, k) = 1..Len(Block(ms, k)) /\ Block(ms, k) \in Seq(LineRec)
                      /\ Len(Block(ms, k)) \in 1..4
    OBVIOUS
  <2> DEFINE b == Block(ms, k)
             n == Len(Kinds(ms[k].text))
  <2>1. b \in Seq(LineRec) /\ DOMAIN b = 1..Len(b) /\ n \in 1..3 /\ Len(b) = IF Answered(ms, k) THEN n ELSE n + 1
    BY BlockMeans
  <2> HIDE DEF b, n
  <2>2. Len(b) \in 1..4
    BY <2>1
  <2> QED BY <2>1, <2>2 DEF b
<1>3. ps = P
  <2>1. ASSUME NEW p \in ps PROVE p \in P
    <3>1. PICK k \in 1..Len(ms) : p \in {k} \X DOMAIN Block(ms, k)
      BY <1>1, <2>1
    <3>2. p = <<k, p[2]>> /\ p[2] \in 1..Len(Block(ms, k)) /\ p[1] = k
      BY <1>2, <3>1
    <3>3. p[2] \in 1..4
      BY <1>2, <3>2
    <3> QED BY <3>2, <3>3 DEF Places
  <2>2. ASSUME NEW p \in P PROVE p \in ps
    <3>1. p = <<p[1], p[2]>> /\ p[1] \in DOMAIN ms /\ p[2] \in DOMAIN Block(ms, p[1])
      BY <1>1, <1>2 DEF Places
    <3>2. p \in {p[1]} \X DOMAIN Block(ms, p[1])
      BY <3>1
    <3> QED BY <3>1, <3>2
  <2>3. ps \subseteq P
    BY ONLY <2>1
  <2>4. P \subseteq ps
    BY ONLY <2>2
  <2> QED BY ONLY <2>3, <2>4
<1>4. TranscriptOf(ms) = [n \in 1..N |-> Block(ms, spot[n][1])[spot[n][2]]]
  <2>1. TranscriptOf(ms) = LET o == Ordered(ps, {pq \in ps \X ps : \/ pq[1][1] < pq[2][1]
                                                                   \/ pq[1][1] = pq[2][1] /\ pq[1][2] < pq[2][2]})
                           IN [n \in 1..Cardinality(ps) |-> Block(ms, o[n][1])[o[n][2]]]
    BY DEF TranscriptOf
  <2> HIDE DEF ps, P
  <2> QED BY <1>3, <2>1
<1>5. IsFiniteSet(P)
  <2>1. Len(ms) \in Int /\ 1 \in Int /\ 4 \in Int
    BY <1>1
  <2>2. IsFiniteSet(1..Len(ms)) /\ IsFiniteSet(1..4)
    BY ONLY <2>1, FS_Interval
  <2>3. IsFiniteSet((1..Len(ms)) \X (1..4))
    BY <2>2, FS_Product
  <2>4. P \in SUBSET ((1..Len(ms)) \X (1..4))
    BY DEF Places
  <2> QED BY ONLY <2>3, <2>4, FS_Subset
<1>6. \A p \in P : p = <<p[1], p[2]>> /\ p[1] \in 1..Len(ms) /\ p[1] \in Nat /\ p[2] \in Nat /\ p[2] \in 1..Len(Block(ms, p[1]))
  BY <1>1 DEF Places
<1> HIDE DEF ps, P
<1>7. \A p, q \in P : <<p, q>> \in R <=> Before(p, q)
  BY DEF Before
<1>8. StrictOrder(P, R)
  <2> HIDE DEF R
  <2>1. \A p \in P : ~Before(p, p)
    BY <1>6 DEF Before
  <2>2. \A p, q, r \in P : Before(p, q) /\ Before(q, r) => Before(p, r)
    BY <1>6 DEF Before
  <2>3. \A p, q \in P : p # q => Before(p, q) \/ Before(q, p)
    <3> SUFFICES ASSUME NEW p \in P, NEW q \in P, p # q PROVE Before(p, q) \/ Before(q, p)
      OBVIOUS
    <3>1. p[1] # q[1] \/ p[2] # q[2]
      BY <1>6
    <3> QED BY <1>6, <3>1 DEF Before
  <2> QED BY <1>7, <2>1, <2>2, <2>3 DEF StrictOrder
<1> HIDE DEF R
<1>9. /\ N \in Nat /\ spot \in [1..N -> P]
      /\ \A i, j \in 1..N : i < j => <<spot[i], spot[j]>> \in R
      /\ \A p \in P : \E i \in 1..N : spot[i] = p
  BY <1>5, <1>8, OrderedRows
<1> HIDE DEF spot, N
<1> DEFINE t == TranscriptOf(ms)
<1>10. \A n \in 1..N : Block(ms, spot[n][1])[spot[n][2]] \in LineRec
  <2> SUFFICES ASSUME NEW n \in 1..N PROVE Block(ms, spot[n][1])[spot[n][2]] \in LineRec
    OBVIOUS
  <2>1. spot[n] \in P
    BY <1>9
  <2>2. spot[n][1] \in 1..Len(ms) /\ spot[n][2] \in 1..Len(Block(ms, spot[n][1]))
    BY <1>6, <2>1
  <2> QED BY <1>2, <2>2
<1>11. t \in Seq(LineRec) /\ Len(t) = N /\ \A i \in 1..N : t[i] = Block(ms, spot[i][1])[spot[i][2]]
  BY <1>4, <1>9, <1>10
<1>12. \A i, j \in 1..N : i < j => Before(spot[i], spot[j])
  <2>1. \A i \in 1..N : spot[i] \in P
    BY <1>9
  <2> QED BY <1>7, <1>9, <2>1
<1> QED BY <1>9, <1>11, <1>12 DEF P

\* What a transcript is: its messages in order, each with as many lines that hold
\* text as its text has, the first of them marked if the user wrote it, and the
\* line before a turn is blank.
LEMMA TranscriptIs ==
  ASSUME NEW ms \in Seq(MsgRec)
  PROVE  LET t == TranscriptOf(ms)
         IN /\ t \in Seq(LineRec) /\ Len(t) \in Nat
            /\ \A i \in 1..Len(t) : t[i].of \in 1..Len(ms)
            /\ \A i, j \in 1..Len(t) : i <= j => t[i].of <= t[j].of
            /\ \A i \in 1..Len(t) : t[i].kind = "turn" /\ i > 1 => t[i - 1].kind = "blank"
            /\ \A k \in 1..Len(ms) :
                 /\ ms[k].role = "user" <=> \E i \in 1..Len(t) : t[i].of = k /\ t[i].kind = "turn"
                 /\ \E i \in 1..Len(t) : t[i].of = k
                 /\ Cardinality({i \in 1..Len(t) : t[i].of = k /\ t[i].kind # "blank"}) = Len(Kinds(ms[k].text))
<1> DEFINE t == TranscriptOf(ms)
           N == Len(t)
           P == Places(ms)
           n(k) == Len(Kinds(ms[k].text))
<1>1. t \in Seq(LineRec) /\ N \in Nat
  BY TranscriptMeans
<1>2. PICK spot \in [1..N -> P] :
        /\ \A i, j \in 1..N : i < j => Before(spot[i], spot[j])
        /\ \A p \in P : \E i \in 1..N : spot[i] = p
        /\ \A i \in 1..N : t[i] = Block(ms, spot[i][1])[spot[i][2]]
  BY TranscriptMeans
<1>3. \A k \in 1..Len(ms) : /\ n(k) \in 1..3
                            /\ Len(Block(ms, k)) = IF Answered(ms, k) THEN n(k) ELSE n(k) + 1
                            /\ \A i \in 1..Len(Block(ms, k)) :
                                 /\ Block(ms, k)[i].of = k
                                 /\ Block(ms, k)[i].kind = "blank" <=> i > n(k)
                                 /\ Block(ms, k)[i].kind = "turn" <=> i = 1 /\ ms[k].role = "user"
  BY BlockMeans
<1>4. \A p \in P : /\ p = <<p[1], p[2]>> /\ p[1] \in 1..Len(ms) /\ p[1] \in Nat /\ p[2] \in Nat
                   /\ p[2] \in 1..Len(Block(ms, p[1]))
  BY DEF Places
<1>5. \A k \in 1..Len(ms) : \A i \in 1..Len(Block(ms, k)) : <<k, i>> \in P
  <2> SUFFICES ASSUME NEW k \in 1..Len(ms), NEW i \in 1..Len(Block(ms, k)) PROVE <<k, i>> \in P
    OBVIOUS
  <2>1. n(k) \in 1..3 /\ Len(Block(ms, k)) = IF Answered(ms, k) THEN n(k) ELSE n(k) + 1
    BY <1>3
  <2> HIDE DEF n
  <2>2. i \in 1..4
    BY <2>1
  <2> QED BY <2>2 DEF Places
<1> HIDE DEF t, N, P, n
<1>6. \A i \in 1..N : /\ spot[i] \in P /\ spot[i][1] \in 1..Len(ms) /\ spot[i][1] \in Nat /\ spot[i][2] \in Nat
                      /\ spot[i][2] \in 1..Len(Block(ms, spot[i][1])) /\ spot[i] = <<spot[i][1], spot[i][2]>>
  BY <1>2, <1>4
<1>7. \A i \in 1..N : /\ t[i].of = spot[i][1]
                      /\ t[i].kind = "blank" <=> spot[i][2] > n(spot[i][1])
                      /\ t[i].kind = "turn" <=> spot[i][2] = 1 /\ ms[spot[i][1]].role = "user"
  BY <1>2, <1>3, <1>6
<1>8. \A i, j \in 1..N : i # j => spot[i] # spot[j]
  <2> SUFFICES ASSUME NEW i \in 1..N, NEW j \in 1..N, i < j PROVE spot[i] # spot[j]
    BY <1>1
  <2>1. Before(spot[i], spot[j])
    BY <1>2
  <2> QED BY <1>6, <2>1 DEF Before
<1>9. \A i, j \in 1..N : Before(spot[i], spot[j]) => i < j
  <2> SUFFICES ASSUME NEW i \in 1..N, NEW j \in 1..N, Before(spot[i], spot[j]), ~(i < j) PROVE FALSE
    OBVIOUS
  <2>1. j < i \/ i = j
    BY <1>1
  <2>2. ~Before(spot[j], spot[i])
    BY <1>6 DEF Before
  <2>3. i # j
    BY <1>6 DEF Before
  <2> QED BY <1>2, <2>1, <2>2, <2>3
<1>10. ASSUME NEW i \in 1..N, NEW j \in 1..N, i <= j PROVE t[i].of <= t[j].of
  <2>1. CASE i = j
    BY <1>6, <1>7, <2>1
  <2>2. CASE i < j
    <3>1. Before(spot[i], spot[j])
      BY <1>2, <2>2
    <3> QED BY <1>6, <1>7, <3>1 DEF Before
  <2> QED BY <1>1, <1>10, <2>1, <2>2
<1>11. ASSUME NEW i \in 1..N, t[i].kind = "turn", i > 1 PROVE t[i - 1].kind = "blank"
  <2> DEFINE k == spot[i][1]
             h == spot[i - 1][1]
             m == spot[i - 1][2]
  <2>1. i - 1 \in 1..N /\ i - 1 < i
    BY <1>1, <1>11
  <2>2. k \in 1..Len(ms) /\ k \in Nat /\ spot[i] = <<k, 1>> /\ ms[k].role = "user"
    BY <1>6, <1>7, <1>11
  <2>3. h \in 1..Len(ms) /\ h \in Nat /\ m \in Nat /\ m \in 1..Len(Block(ms, h)) /\ spot[i - 1] = <<h, m>>
    BY <1>6, <2>1
  <2>4. Before(spot[i - 1], spot[i])
    BY <1>2, <2>1
  <2> HIDE DEF h, m, k
  <2>5. h < k
    BY <2>2, <2>3, <2>4 DEF Before
  <2>6. n(h) \in 1..3 /\ Len(Block(ms, h)) = IF Answered(ms, h) THEN n(h) ELSE n(h) + 1
    BY <1>3, <2>3
  <2>7. ASSUME m < Len(Block(ms, h)) PROVE FALSE
    <3>1. <<h, m + 1>> \in P
      BY <1>5, <2>3, <2>6, <2>7
    <3>2. PICK j \in 1..N : spot[j] = <<h, m + 1>>
      BY <1>2, <3>1
    <3>3. Before(spot[i - 1], spot[j]) /\ Before(spot[j], spot[i])
      BY <2>2, <2>3, <2>5, <3>2 DEF Before
    <3>4. i - 1 < j /\ j < i
      BY <1>9, <2>1, <3>3
    <3> QED BY <1>1, <3>4
  <2>8. ASSUME h + 1 < k PROVE FALSE
    <3>1. h + 1 \in 1..Len(ms)
      BY <2>2, <2>3, <2>8
    <3>2. n(h + 1) \in 1..3 /\ Len(Block(ms, h + 1)) = IF Answered(ms, h + 1) THEN n(h + 1) ELSE n(h + 1) + 1
      BY <1>3, <3>1
    <3>3. <<h + 1, 1>> \in P
      BY <1>5, <3>1, <3>2
    <3>4. PICK j \in 1..N : spot[j] = <<h + 1, 1>>
      BY <1>2, <3>3
    <3>5. Before(spot[i - 1], spot[j]) /\ Before(spot[j], spot[i])
      BY <2>2, <2>3, <2>8, <3>4 DEF Before
    <3>6. i - 1 < j /\ j < i
      BY <1>9, <2>1, <3>5
    <3> QED BY <1>1, <3>6
  <2>9. k = h + 1 /\ m = Len(Block(ms, h))
    BY <2>2, <2>3, <2>5, <2>6, <2>7, <2>8
  <2>10. ~Answered(ms, h)
    BY <2>2, <2>9 DEF Answered
  <2>11. m > n(h)
    BY <2>6, <2>9, <2>10
  <2> QED BY <1>7, <2>1, <2>11 DEF h, m
<1>12. ASSUME NEW k \in 1..Len(ms)
       PROVE  /\ ms[k].role = "user" <=> \E i \in 1..N : t[i].of = k /\ t[i].kind = "turn"
              /\ \E i \in 1..N : t[i].of = k
              /\ Cardinality({i \in 1..N : t[i].of = k /\ t[i].kind # "blank"}) = n(k)
  <2>1. n(k) \in 1..3 /\ Len(Block(ms, k)) = IF Answered(ms, k) THEN n(k) ELSE n(k) + 1
    BY <1>3
  <2>2. \A j \in 1..n(k) : <<k, j>> \in P
    BY <1>5, <2>1
  <2> DEFINE S == {i \in 1..N : t[i].of = k /\ t[i].kind # "blank"}
             f == [j \in 1..n(k) |-> CHOOSE i \in 1..N : spot[i] = <<k, j>>]
  <2>3. \A j \in 1..n(k) : f[j] \in 1..N /\ spot[f[j]] = <<k, j>>
    <3> SUFFICES ASSUME NEW j \in 1..n(k) PROVE f[j] \in 1..N /\ spot[f[j]] = <<k, j>>
      OBVIOUS
    <3>1. \E i \in 1..N : spot[i] = <<k, j>>
      BY <1>2, <2>2
    <3> QED BY <3>1
  <2> HIDE DEF f
  <2>4. \A j \in 1..n(k) : f[j] \in S
    <3> SUFFICES ASSUME NEW j \in 1..n(k) PROVE f[j] \in S
      OBVIOUS
    <3>1. f[j] \in 1..N /\ spot[f[j]][1] = k /\ spot[f[j]][2] = j
      BY <2>3
    <3>2. ~(j > n(k))
      BY <2>1
    <3> QED BY <1>7, <3>1, <3>2
  <2>5. ASSUME NEW i \in S PROVE \E j \in 1..n(k) : f[j] = i
    <3>1. i \in 1..N /\ spot[i][1] = k /\ ~(spot[i][2] > n(k))
      BY <1>7, <2>5
    <3>2. spot[i][2] \in 1..n(k) /\ spot[i] = <<k, spot[i][2]>>
      BY <1>6, <2>1, <3>1
    <3>3. f[spot[i][2]] = i
      BY <1>8, <2>3, <3>1, <3>2
    <3> QED BY <3>2, <3>3
  <2>6. \A i, j \in 1..n(k) : f[i] = f[j] => i = j
    <3> SUFFICES ASSUME NEW i \in 1..n(k), NEW j \in 1..n(k), f[i] = f[j] PROVE i = j
      OBVIOUS
    <3>1. <<k, i>> = <<k, j>>
      BY <2>3
    <3> QED BY <3>1
  <2> HIDE DEF S
  <2>7. S = {f[j] : j \in 1..n(k)}
    BY <2>4, <2>5
  <2>8. n(k) \in Nat
    BY <2>1
  <2>9. Cardinality({f[j] : j \in 1..n(k)}) = n(k)
    <3>1. PICK g, c : g = f /\ c = n(k)
      OBVIOUS
    <3>2. c \in Nat /\ \A i, j \in 1..c : g[i] = g[j] => i = j
      BY <2>6, <2>8, <3>1
    <3>3. Cardinality({g[i] : i \in 1..c}) = c
      BY ONLY <3>2, DistinctCount
    <3> QED BY <3>1, <3>3
  <2>10. Cardinality(S) = n(k)
    BY <2>7, <2>9
  <2>11. f[1] \in 1..N /\ t[f[1]].of = k /\ (ms[k].role = "user" => t[f[1]].kind = "turn")
    <3>1. 1 \in 1..n(k)
      BY <2>1
    <3>2. f[1] \in 1..N /\ spot[f[1]][1] = k /\ spot[f[1]][2] = 1
      BY <2>3, <3>1
    <3> QED BY <1>7, <3>2
  <2>12. \A i \in 1..N : t[i].of = k /\ t[i].kind = "turn" => ms[k].role = "user"
    BY <1>7
  <2> QED BY <2>10, <2>11, <2>12 DEF S
<1>13. \A i \in 1..N : t[i].of \in 1..Len(ms)
  BY <1>6, <1>7
<1> QED BY <1>1, <1>10, <1>11, <1>12, <1>13 DEF t, N, n

-----------------------------------------------------------------------------
(* Transcripts: the entries of an export.                                  *)

LinearForm == {"claude", "codex", "pi", "chats", "slack"}
EntryType ==
  {"user", "assistant", "broken", "session_meta", "user_message", "agent_message", "response_item", "session",
   "message/user", "message/assistant", "message/toolResult", "human", "ai", "tool", "x", "y", "z"}
EntryRec == [type : EntryType, text : TextKind]

\* The types of the entries in which something is said.
SaidType ==
  {"user", "human", "user_message", "message/user", "assistant", "ai", "agent_message",
   "message/assistant", "x", "y", "z"}

LEMMA EntryMeans ==
  ASSUME NEW type \in EntryType, NEW texts \in SUBSET TextKind
  PROVE  Entry(type, texts) \subseteq EntryRec /\ \A e \in Entry(type, texts) : e.type = type /\ e.text \in texts
BY DEF Entry, EntryRec

\* What the entries of each form may be.
LEMMA FormsMean ==
  /\ \A f \in LinearForm : EntryOf[f] \subseteq EntryRec
  /\ \A e \in EntryOf["claude"] : e.type \in {"user", "assistant", "broken"}
  /\ \A e \in EntryOf["codex"] : e.type \in {"session_meta", "user_message", "agent_message", "response_item"}
  /\ \A e \in EntryOf["pi"] : e.type \in {"session", "message/user", "message/assistant", "message/toolResult"}
  /\ \A e \in EntryOf["chats"] : e.type \in {"human", "ai", "tool"} /\ e.text # "noise"
  /\ \A e \in EntryOf["slack"] : e.type \in {"x", "y", "z"} /\ e.text # "noise"
<1>1. /\ {"user", "assistant", "broken", "session_meta", "user_message", "agent_message", "response_item"} \subseteq EntryType
      /\ {"session", "message/user", "message/assistant", "message/toolResult", "human", "ai", "tool", "x", "y", "z"} \subseteq EntryType
      /\ {"none", "noise", "words", "cited", "rule"} = TextKind
  BY DEF EntryType, TextKind
<1>2. /\ EntryOf["claude"] \subseteq EntryRec
      /\ \A e \in EntryOf["claude"] : e.type \in {"user", "assistant", "broken"}
  <2>1. EntryOf["claude"] = Entry("user", {"noise", "words"}) \cup Entry("assistant", {"words", "cited", "rule"})
              \cup Entry("broken", {"none"})
    BY DEF EntryOf
  <2> QED BY <1>1, <2>1, EntryMeans
<1>3. /\ EntryOf["codex"] \subseteq EntryRec
      /\ \A e \in EntryOf["codex"] : e.type \in {"session_meta", "user_message", "agent_message", "response_item"}
  <2>1. EntryOf["codex"] = Entry("session_meta", {"none"}) \cup Entry("user_message", {"words"})
              \cup Entry("agent_message", {"none", "words", "rule"}) \cup Entry("response_item", {"words"})
    BY DEF EntryOf
  <2> QED BY <1>1, <2>1, EntryMeans
<1>4. /\ EntryOf["pi"] \subseteq EntryRec
      /\ \A e \in EntryOf["pi"] : e.type \in {"session", "message/user", "message/assistant", "message/toolResult"}
  <2>1. EntryOf["pi"] = Entry("session", {"none"}) \cup Entry("message/user", {"words", "noise"})
              \cup Entry("message/assistant", {"words", "cited"}) \cup Entry("message/toolResult", {"words"})
    BY DEF EntryOf
  <2> QED BY <1>1, <2>1, EntryMeans
<1>5. /\ EntryOf["chats"] \subseteq EntryRec
      /\ \A e \in EntryOf["chats"] : e.type \in {"human", "ai", "tool"} /\ e.text # "noise"
  <2>1. EntryOf["chats"] = Entry("human", {"words"}) \cup Entry("ai", {"none", "words", "cited"}) \cup Entry("tool", {"words"})
    BY DEF EntryOf
  <2> QED BY <1>1, <2>1, EntryMeans
<1>6. /\ EntryOf["slack"] \subseteq EntryRec
      /\ \A e \in EntryOf["slack"] : e.type \in {"x", "y", "z"} /\ e.text # "noise"
  <2>1. EntryOf["slack"] = Entry("x", {"words", "none"}) \cup Entry("y", {"words"}) \cup Entry("z", {"words"})
    BY DEF EntryOf
  <2> QED BY <1>1, <2>1, EntryMeans
<1> QED BY <1>2, <1>3, <1>4, <1>5, <1>6 DEF LinearForm

\* The entries of some types.
LEMMA EntriesMean ==
  ASSUME export.entries \in Seq(EntryRec), NEW types, NEW nothing
  PROVE  LET s == EntriesOf(types, nothing)
         IN /\ s \in Seq(EntryRec) /\ Len(s) \in Nat /\ DOMAIN s = 1..Len(s)
            /\ \A i \in 1..Len(s) : s[i].type \in types /\ s[i].text \notin nothing
                                    /\ \E k \in DOMAIN export.entries : s[i] = export.entries[k]
<1> DEFINE es == export.entries
           K == {k \in DOMAIN es : es[k].type \in types /\ es[k].text \notin nothing}
           s == Picked(es, K)
<1>1. K \in SUBSET (1..Len(es)) /\ es \in Seq(EntryRec)
  OBVIOUS
<1>2. EntriesOf(types, nothing) = s
  BY DEF EntriesOf
<1> HIDE DEF es, s
<1>3. /\ Cardinality(K) \in Nat
      /\ s \in Seq(EntryRec)
      /\ Len(s) = Cardinality(K)
      /\ Ascending(K) \in [1..Cardinality(K) -> K]
      /\ \A i \in 1..Cardinality(K) : s[i] = es[Ascending(K)[i]]
  <2> HIDE DEF K
  <2> QED BY <1>1, PickedRows DEF s
<1>4. DOMAIN s = 1..Len(s)
  BY <1>3
<1>5. ASSUME NEW i \in 1..Len(s)
      PROVE  s[i].type \in types /\ s[i].text \notin nothing /\ \E k \in DOMAIN es : s[i] = es[k]
  <2>1. Ascending(K)[i] \in K /\ s[i] = es[Ascending(K)[i]]
    BY <1>3
  <2> QED BY <2>1
<1> QED BY <1>2, <1>3, <1>4, <1>5 DEF es

\* What the types and the texts leave out may be said in two ways.
LEMMA SameEntries ==
  ASSUME NEW t1, NEW t2, NEW n1, NEW n2,
         \A k \in DOMAIN export.entries :
           (export.entries[k].type \in t1 /\ export.entries[k].text \notin n1)
             <=> (export.entries[k].type \in t2 /\ export.entries[k].text \notin n2)
  PROVE  EntriesOf(t1, n1) = EntriesOf(t2, n2)
BY DEF EntriesOf

\* The messages of the entries whose type has a role.
LEMMA MessagesMean ==
  ASSUME export.entries \in Seq(EntryRec), NEW role, NEW nothing,
         \A x \in DOMAIN role : role[x] \in {"user", "assistant"}
  PROVE  LET ms == Messages(role, nothing)
             s == EntriesOf(DOMAIN role, nothing)
         IN /\ ms \in Seq(MsgRec) /\ Len(ms) = Len(s)
            /\ \A k \in 1..Len(s) : ms[k].text = s[k].text
<1> DEFINE s == EntriesOf(DOMAIN role, nothing)
           ms == [k \in 1..Len(s) |-> Message(role[s[k].type], s[k].text)]
<1>1. /\ s \in Seq(EntryRec) /\ Len(s) \in Nat /\ DOMAIN s = 1..Len(s)
      /\ \A i \in 1..Len(s) : s[i].type \in DOMAIN role
  BY EntriesMean
<1>2. Messages(role, nothing) = ms
  BY <1>1 DEF Messages
<1> HIDE DEF s
<1>3. ASSUME NEW k \in 1..Len(s)
      PROVE  Message(role[s[k].type], s[k].text) \in MsgRec /\ Message(role[s[k].type], s[k].text).text = s[k].text
  <2>1. s[k] \in EntryRec /\ role[s[k].type] \in {"user", "assistant"}
    BY <1>1
  <2>2. s[k].text \in TextKind
    BY <2>1 DEF EntryRec
  <2> QED BY <2>1, <2>2 DEF Message, MsgRec
<1>4. ms \in Seq(MsgRec) /\ Len(ms) = Len(s)
  BY <1>1, <1>3
<1>5. \A k \in 1..Len(s) : ms[k].text = s[k].text
  BY <1>3
<1> QED BY <1>2, <1>4, <1>5 DEF s

\* What a parser makes of the entries in which something is said.
TakesSaid(ms) ==
  /\ ms \in Seq(MsgRec)
  /\ ms # <<>> => Len(ms) = Len(Said) /\ \A k \in 1..Len(Said) : ms[k].text = Said[k].text

LEMMA FormsTyped ==
  ASSUME NEW f \in LinearForm, export.entries \in Seq(EntryOf[f])
  PROVE  /\ export.entries \in Seq(EntryRec)
         /\ \A k \in DOMAIN export.entries : export.entries[k] \in EntryOf[f]
<1>1. EntryOf[f] \subseteq EntryRec
  BY FormsMean
<1> DEFINE es == export.entries
           T == EntryOf[f]
<1>2. es \in Seq(T) /\ T \subseteq EntryRec
  BY <1>1
<1> HIDE DEF es, T
<1>3. es \in Seq(EntryRec) /\ \A k \in DOMAIN es : es[k] \in T
  BY <1>2
<1> QED BY <1>3 DEF es, T

\* A parser that has roles for just the types in which its form says something.
LEMMA RolesTakeSaid ==
  ASSUME export.entries \in Seq(EntryRec), NEW role, NEW nothing,
         \A x \in DOMAIN role : role[x] \in {"user", "assistant"},
         \A k \in DOMAIN export.entries :
           (export.entries[k].type \in DOMAIN role /\ export.entries[k].text \notin nothing)
             <=> (export.entries[k].type \in SaidType
                    /\ export.entries[k].text \notin (IF export.form = "codex" THEN {"none"} ELSE {"none", "noise"}))
  PROVE  TakesSaid(Messages(role, nothing))
<1> DEFINE gone == IF export.form = "codex" THEN {"none"} ELSE {"none", "noise"}
<1>1. Said = EntriesOf(SaidType, gone)
  BY DEF Said, SaidType
<1>2. EntriesOf(DOMAIN role, nothing) = EntriesOf(SaidType, gone)
  BY SameEntries
<1> HIDE DEF gone
<1>3. LET ms == Messages(role, nothing)
          s == EntriesOf(DOMAIN role, nothing)
      IN ms \in Seq(MsgRec) /\ Len(ms) = Len(s) /\ \A k \in 1..Len(s) : ms[k].text = s[k].text
  BY MessagesMean
<1> QED BY <1>1, <1>2, <1>3 DEF TakesSaid

LEMMA NothingSaid == TakesSaid(<<>>)
BY DEF TakesSaid

\* Parsed holds nothing, or what the parser of the form has taken.
LEMMA ParsedIs ==
  /\ export.form = "claude" => Parsed = IF Len(ClaudeCode) >= 2 THEN ClaudeCode ELSE <<>>
  /\ export.form = "codex" => Parsed = IF Len(Codex) >= 2 THEN Codex ELSE <<>>
  /\ export.form = "pi" => Parsed = IF Len(Pi) >= 2 THEN Pi ELSE <<>>
  /\ export.form = "chats" => Parsed = IF Len(ClaudeAi) >= 2 THEN ClaudeAi ELSE <<>>
  /\ export.form = "tree" => Parsed = IF Len(ChatGpt) >= 2 THEN ChatGpt ELSE <<>>
  /\ export.form = "slack" => Parsed = IF Len(Slack) >= 2 THEN Slack ELSE <<>>
BY DEF Parsed

LEMMA RolesTake ==
  ASSUME NEW f \in LinearForm \ {"slack"}, export.form = f, export.entries \in Seq(EntryOf[f])
  PROVE  TakesSaid(Parsed)
<1> DEFINE es == export.entries
           D == DOMAIN es
           Fits(types, nothing) ==
             \A k \in D :
               (es[k].type \in types /\ es[k].text \notin nothing)
                 <=> (es[k].type \in SaidType
                        /\ es[k].text \notin (IF export.form = "codex" THEN {"none"} ELSE {"none", "noise"}))
<1>1. es \in Seq(EntryRec) /\ \A k \in D : es[k] \in EntryOf[f]
  BY FormsTyped
<1>2. CASE f = "claude"
  <2> DEFINE role == [user |-> "user", assistant |-> "assistant"]
  <2>1. DOMAIN role = {"user", "assistant"} /\ \A x \in DOMAIN role : role[x] \in {"user", "assistant"}
    OBVIOUS
  <2>2. \A k \in D : es[k].type \in {"user", "assistant", "broken"}
    BY <1>1, <1>2, FormsMean
  <2>3. Fits({"user", "assistant"}, {"none", "noise"})
    <3> HIDE DEF es, D
    <3> QED BY <1>2, <2>2 DEF SaidType
  <2> HIDE DEF role
  <2>4. TakesSaid(Messages(role, {"none", "noise"}))
    BY <1>1, <2>1, <2>3, RolesTakeSaid
  <2>5. TakesSaid(ClaudeCode)
    BY <2>4 DEF ClaudeCode, role
  <2> QED BY <1>2, <2>5, ParsedIs, NothingSaid
<1>3. CASE f = "codex"
  <2> DEFINE role == [user_message |-> "user", agent_message |-> "assistant"]
  <2>1. DOMAIN role = {"user_message", "agent_message"} /\ \A x \in DOMAIN role : role[x] \in {"user", "assistant"}
    OBVIOUS
  <2>2. \A k \in D : es[k].type \in {"session_meta", "user_message", "agent_message", "response_item"}
    BY <1>1, <1>3, FormsMean
  <2>3. Fits({"user_message", "agent_message"}, {"none"})
    <3> HIDE DEF es, D
    <3> QED BY <1>3, <2>2 DEF SaidType
  <2> HIDE DEF role
  <2>4. TakesSaid(Messages(role, {"none"}))
    BY <1>1, <2>1, <2>3, RolesTakeSaid
  <2>5. TakesSaid(Codex)
    BY <2>4, NothingSaid DEF Codex, role
  <2> QED BY <1>3, <2>5, ParsedIs, NothingSaid
<1>4. CASE f = "pi"
  <2> DEFINE role == [type \in {"message/user", "message/assistant"} |->
                        IF type = "message/user" THEN "user" ELSE "assistant"]
  <2>1. DOMAIN role = {"message/user", "message/assistant"} /\ \A x \in DOMAIN role : role[x] \in {"user", "assistant"}
    OBVIOUS
  <2>2. \A k \in D : es[k].type \in {"session", "message/user", "message/assistant", "message/toolResult"}
    BY <1>1, <1>4, FormsMean
  <2>3. Fits({"message/user", "message/assistant"}, {"none", "noise"})
    <3> HIDE DEF es, D
    <3> QED BY <1>4, <2>2 DEF SaidType
  <2> HIDE DEF role
  <2>4. TakesSaid(Messages(role, {"none", "noise"}))
    BY <1>1, <2>1, <2>3, RolesTakeSaid
  <2>5. TakesSaid(Pi)
    BY <2>4, NothingSaid DEF Pi, role
  <2> QED BY <1>4, <2>5, ParsedIs, NothingSaid
<1>5. CASE f = "chats"
  <2> DEFINE role == [human |-> "user", ai |-> "assistant"]
  <2>1. DOMAIN role = {"human", "ai"} /\ \A x \in DOMAIN role : role[x] \in {"user", "assistant"}
    OBVIOUS
  <2>2. \A k \in D : es[k].type \in {"human", "ai", "tool"} /\ es[k].text # "noise"
    BY <1>1, <1>5, FormsMean
  <2>3. Fits({"human", "ai"}, {"none"})
    <3> HIDE DEF es, D
    <3> QED BY <1>5, <2>2 DEF SaidType
  <2> HIDE DEF role
  <2>4. TakesSaid(Messages(role, {"none"}))
    BY <1>1, <2>1, <2>3, RolesTakeSaid
  <2>5. TakesSaid(ClaudeAi)
    BY <2>4 DEF ClaudeAi, role
  <2> QED BY <1>5, <2>5, ParsedIs, NothingSaid
<1> QED BY <1>2, <1>3, <1>4, <1>5 DEF LinearForm

-----------------------------------------------------------------------------
(* Transcripts: the speakers of a Slack channel.                           *)

RoleName == {"user", "assistant"}

\* The roles, one speaker after the other.
Prior(s, k) == {j \in 1..k - 1 : s[j].type = s[k].type}
NextRole(s, k, v) ==
  IF Prior(s, k) # {} THEN v[Min(Prior(s, k))]
  ELSE IF k = 1 THEN "user" ELSE IF v[k - 1] = "user" THEN "assistant" ELSE "user"
RolesOf(s, f) == f = [k \in 0..Len(s) |-> IF k = 0 THEN <<>> ELSE Append(f[k - 1], NextRole(s, k, f[k - 1]))]

LEMMA PriorFirst ==
  ASSUME NEW s, NEW k \in Nat, Prior(s, k) # {}
  PROVE  Min(Prior(s, k)) \in 1..k - 1 /\ s[Min(Prior(s, k))].type = s[k].type
<1>1. Prior(s, k) \in SUBSET (1..k - 1) /\ 1 \in Int /\ k - 1 \in Int
  BY DEF Prior
<1>2. Min(Prior(s, k)) \in Prior(s, k)
  <2> DEFINE S == Prior(s, k)
  <2>1. S \in SUBSET (1..k - 1) /\ S # {}
    BY <1>1
  <2> HIDE DEF S
  <2>2. Min(S) \in S
    BY <1>1, <2>1, PlacesFinite
  <2> QED BY <2>2 DEF S
<1> QED BY <1>2 DEF Prior

LEMMA RolesGiven ==
  ASSUME NEW s \in Seq(EntryRec)
  PROVE  LET f == CHOOSE g : RolesOf(s, g)
         IN /\ \A n \in 0..Len(s) : f[n] \in Seq(RoleName) /\ Len(f[n]) = n
            /\ \A n \in 1..Len(s) : f[n] = Append(f[n - 1], NextRole(s, n, f[n - 1]))
<1> DEFINE N == Len(s)
           V == Seq(RoleName)
           step == [kv \in (1..N) \X V |->
                      IF Len(kv[2]) = kv[1] - 1 THEN Append(kv[2], NextRole(s, kv[1], kv[2])) ELSE kv[2]]
           roles == CHOOSE g : RolesOf(s, g)
<1>1. N \in Nat
  OBVIOUS
<1> HIDE DEF N
<1>2. \A k \in 1..N : \A v \in V :
        step[<<k, v>>] = IF Len(v) = k - 1 THEN Append(v, NextRole(s, k, v)) ELSE v
  OBVIOUS
<1>3. ASSUME NEW k \in 1..N, NEW v \in V, Len(v) = k - 1 PROVE NextRole(s, k, v) \in RoleName
  <2>1. CASE Prior(s, k) # {}
    <3>1. Min(Prior(s, k)) \in 1..k - 1
      BY <2>1, PriorFirst
    <3>2. v[Min(Prior(s, k))] \in RoleName
      BY <1>3, <3>1
    <3> QED BY <2>1, <3>2 DEF NextRole
  <2>2. CASE Prior(s, k) = {}
    BY <2>2 DEF NextRole, RoleName
  <2> QED BY <2>1, <2>2
<1>4. \A k \in 1..N : \A v \in V : step[<<k, v>>] \in V
  <2> SUFFICES ASSUME NEW k \in 1..N, NEW v \in V PROVE step[<<k, v>>] \in V
    OBVIOUS
  <2>1. CASE Len(v) = k - 1
    <3>1. NextRole(s, k, v) \in RoleName
      BY <1>3, <2>1
    <3>2. Append(v, NextRole(s, k, v)) \in V
      BY <3>1
    <3> QED BY <1>2, <2>1, <3>2
  <2>2. CASE Len(v) # k - 1
    BY <1>2, <2>2
  <2> QED BY <2>1, <2>2
<1> HIDE DEF step
<1>5. <<>> \in V /\ Len(<<>>) = 0
  OBVIOUS
<1>6. PICK f \in [0..N -> V] : f[0] = <<>> /\ \A n \in 1..N : f[n] = step[<<n, f[n - 1]>>]
  <2> HIDE DEF V
  <2>1. GoesOn(N, V, <<>>, step)
    BY <1>1, <1>4, <1>5 DEF GoesOn
  <2> QED BY ONLY <2>1, StepByStep
<1> DEFINE P == {n \in 0..N : Len(f[n]) = n}
<1>7. \A n \in 1..N : n - 1 \in 0..N /\ f[n - 1] \in V
  BY <1>1, <1>6
<1>8. 0 \in P
  BY <1>1, <1>5, <1>6
<1>9. \A n \in 1..N : n - 1 \in P => n \in P
  <2> SUFFICES ASSUME NEW n \in 1..N, n - 1 \in P PROVE n \in P
    OBVIOUS
  <2>1. f[n] = Append(f[n - 1], NextRole(s, n, f[n - 1])) /\ Len(f[n - 1]) = n - 1 /\ f[n - 1] \in V
    BY <1>2, <1>6, <1>7
  <2>2. Len(f[n]) = n
    BY <2>1
  <2> QED BY <1>1, <2>2
<1> HIDE DEF P
<1>10. 0..N \subseteq P
  BY <1>1, <1>8, <1>9, PlaceByPlace
<1>11. \A n \in 0..N : f[n] = IF n = 0 THEN <<>> ELSE Append(f[n - 1], NextRole(s, n, f[n - 1]))
  <2> SUFFICES ASSUME NEW n \in 0..N, n # 0 PROVE f[n] = Append(f[n - 1], NextRole(s, n, f[n - 1]))
    BY <1>6
  <2>1. n \in 1..N /\ n - 1 \in 0..N
    BY <1>1
  <2>2. Len(f[n - 1]) = n - 1
    BY <1>10, <2>1 DEF P
  <2> QED BY <1>2, <1>6, <1>7, <2>1, <2>2
<1>12. RolesOf(s, f)
  BY <1>11 DEF RolesOf, N
<1>13. RolesOf(s, roles)
  BY <1>12
<1>14. \A n \in 0..N : roles[n] = IF n = 0 THEN <<>> ELSE Append(roles[n - 1], NextRole(s, n, roles[n - 1]))
  <2>1. roles = [k \in 0..N |-> IF k = 0 THEN <<>> ELSE Append(roles[k - 1], NextRole(s, k, roles[k - 1]))]
    BY <1>13 DEF RolesOf, N
  <2> HIDE DEF roles
  <2> QED BY <2>1
<1> HIDE DEF roles
<1> DEFINE Q == {n \in 0..N : roles[n] \in V /\ Len(roles[n]) = n}
<1>15. 0 \in Q
  <2>1. 0 \in 0..N /\ roles[0] = <<>>
    BY <1>1, <1>14
  <2> HIDE DEF V
  <2> QED BY <1>5, <2>1
<1>16. \A n \in 1..N : n - 1 \in Q => n \in Q
  <2> SUFFICES ASSUME NEW n \in 1..N, n - 1 \in Q PROVE n \in Q
    OBVIOUS
  <2>1. n \in 0..N /\ n # 0 /\ roles[n - 1] \in V /\ Len(roles[n - 1]) = n - 1
    <3> HIDE DEF V
    <3> QED BY <1>1
  <2>2. NextRole(s, n, roles[n - 1]) \in RoleName
    BY <1>3, <2>1
  <2>3. roles[n] = Append(roles[n - 1], NextRole(s, n, roles[n - 1]))
    BY <1>14, <2>1
  <2>4. roles[n] \in V /\ Len(roles[n]) = n
    BY <2>1, <2>2, <2>3
  <2> QED BY <2>1, <2>4
<1> HIDE DEF Q
<1>17. 0..N \subseteq Q
  BY <1>1, <1>15, <1>16, PlaceByPlace
<1>18. \A n \in 1..N : roles[n] = Append(roles[n - 1], NextRole(s, n, roles[n - 1]))
  <2>1. \A n \in 1..N : n \in 0..N /\ n # 0
    BY <1>1
  <2> QED BY <1>14, <2>1
<1> QED BY <1>17, <1>18 DEF roles, N, Q

\* Two that differ are two.
LEMMA TwoCount ==
  ASSUME NEW a, NEW b, a # b
  PROVE  IsFiniteSet({a} \cup {b}) /\ Cardinality({a} \cup {b}) = 2
<1>1. IsFiniteSet({a}) /\ Cardinality({a}) = 1
  BY FS_Singleton
<1>2. b \notin {a}
  OBVIOUS
<1>3. IsFiniteSet({a} \cup {b}) /\ Cardinality({a} \cup {b}) = Cardinality({a}) + 1
  BY ONLY <1>1, <1>2, FS_AddElement
<1> QED BY <1>1, <1>3

\* Three that differ are not two.
LEMMA NotThree ==
  ASSUME NEW S, IsFiniteSet(S), Cardinality(S) = 2, NEW a \in S, NEW b \in S, NEW c \in S
  PROVE  a = b \/ b = c \/ a = c
<1> SUFFICES ASSUME a # b, b # c, a # c PROVE FALSE
  OBVIOUS
<1>2. IsFiniteSet({a} \cup {b}) /\ Cardinality({a} \cup {b}) = 2
  BY TwoCount
<1> DEFINE T == {a} \cup {b}
<1>3. IsFiniteSet(T \cup {c}) /\ Cardinality(T \cup {c}) = 3
  <2>1. c \notin T
    OBVIOUS
  <2>2. IsFiniteSet(T) /\ Cardinality(T) = 2
    BY <1>2
  <2> HIDE DEF T
  <2>3. IsFiniteSet(T \cup {c}) /\ Cardinality(T \cup {c}) = Cardinality(T) + 1
    BY ONLY <2>1, <2>2, FS_AddElement
  <2> QED BY <2>2, <2>3
<1>4. ({a} \cup {b}) \cup {c} \in SUBSET S
  OBVIOUS
<1>5. Cardinality(({a} \cup {b}) \cup {c}) <= Cardinality(S)
  BY <1>4, FS_Subset
<1> QED BY <1>3, <1>5

\* Where two speak, the roles tell them apart.
LEMMA TwoSpeakers ==
  ASSUME NEW s \in Seq(EntryRec), Cardinality({s[k].type : k \in 1..Len(s)}) = 2
  PROVE  LET v == (CHOOSE g : RolesOf(s, g))[Len(s)]
         IN \A k, l \in 1..Len(s) : s[k].type = s[l].type <=> (v[k] = "user" <=> v[l] = "user")
<1> DEFINE N == Len(s)
           T == {s[k].type : k \in 1..N}
           ty == [k \in 1..N |-> s[k].type]
           f == CHOOSE g : RolesOf(s, g)
           side == [k \in 1..N |-> IF s[k].type = s[1].type THEN "user" ELSE "assistant"]
<1>1. N \in Nat /\ \A k \in 1..N : s[k].type \in T
  OBVIOUS
<1>2. IsFiniteSet(T) /\ Cardinality(T) = 2
  <2>1. IsFiniteSet({ty[i] : i \in 1..N})
    <3> HIDE DEF ty
    <3> QED BY <1>1, ValuesOfList
  <2>2. {ty[i] : i \in 1..N} = T
    OBVIOUS
  <2> QED BY <2>1, <2>2
<1>3. /\ \A n \in 0..N : f[n] \in Seq(RoleName) /\ Len(f[n]) = n
      /\ \A n \in 1..N : f[n] = Append(f[n - 1], NextRole(s, n, f[n - 1]))
  BY RolesGiven
<1>4. \A k \in 1..N : side[k] = IF s[k].type = s[1].type THEN "user" ELSE "assistant"
  OBVIOUS
<1> HIDE DEF T, f, side
<1>5. ASSUME NEW k \in 1..N, NEW l \in 1..N, NEW m \in 1..N
      PROVE  s[k].type = s[l].type \/ s[l].type = s[m].type \/ s[k].type = s[m].type
  <2>1. s[k].type \in T /\ s[l].type \in T /\ s[m].type \in T
    BY <1>1
  <2> QED BY <1>2, <2>1, NotThree
<1> HIDE DEF N
<1> DEFINE P == {n \in 0..N : \A j \in 1..n : f[n][j] = side[j]}
<1>6. 0 \in P
  BY <1>1
<1>7. ASSUME NEW n \in 1..N, n - 1 \in P PROVE n \in P
  <2> DEFINE v == f[n - 1]
  <2>1. n \in 0..N /\ n - 1 \in 0..N /\ \A j \in 1..n - 1 : j \in 1..N /\ j # n
    BY <1>1
  <2>2. v \in Seq(RoleName) /\ Len(v) = n - 1 /\ f[n] = Append(v, NextRole(s, n, v)) /\ \A j \in 1..n - 1 : v[j] = side[j]
    BY <1>3, <1>7, <2>1
  <2> HIDE DEF P, v
  <2>3. NextRole(s, n, v) = side[n]
    <3>1. CASE Prior(s, n) # {}
      <4> DEFINE m == Min(Prior(s, n))
      <4>1. m \in 1..n - 1 /\ s[m].type = s[n].type
        BY <1>1, <3>1, PriorFirst
      <4>2. NextRole(s, n, v) = v[m]
        BY <3>1 DEF NextRole
      <4> HIDE DEF m
      <4> QED BY <1>4, <2>1, <2>2, <4>1, <4>2
    <3>2. CASE Prior(s, n) = {} /\ n = 1
      BY <1>4, <3>2 DEF NextRole
    <3>3. CASE Prior(s, n) = {} /\ n # 1
      <4>1. 1 \in 1..n - 1 /\ n - 1 \in 1..n - 1
        BY <1>1, <3>3
      <4>2. s[1].type # s[n].type /\ s[n - 1].type # s[n].type
        BY <3>3, <4>1 DEF Prior
      <4>3. s[n - 1].type = s[1].type
        BY <1>5, <2>1, <4>1, <4>2
      <4>4. v[n - 1] = "user"
        BY <1>4, <2>1, <2>2, <4>1, <4>3
      <4>5. NextRole(s, n, v) = "assistant"
        BY <3>3, <4>4 DEF NextRole
      <4> QED BY <1>4, <4>2, <4>5
    <3> QED BY <3>1, <3>2, <3>3
  <2>4. \A j \in 1..n : f[n][j] = side[j]
    <3> SUFFICES ASSUME NEW j \in 1..n PROVE f[n][j] = side[j]
      OBVIOUS
    <3>1. CASE j = n
      BY <2>2, <2>3, <3>1, <1>1
    <3>2. CASE j # n
      <4>1. j \in 1..n - 1
        BY <1>1, <3>2
      <4> QED BY <2>2, <4>1
    <3> QED BY <3>1, <3>2
  <2> QED BY <2>1, <2>4 DEF P
<1> HIDE DEF P
<1>8. 0..N \subseteq P
  BY <1>1, <1>6, <1>7, PlaceByPlace
<1>9. N \in P
  BY <1>1, <1>8
<1>10. \A k \in 1..N : f[N][k] = IF s[k].type = s[1].type THEN "user" ELSE "assistant"
  BY <1>4, <1>9 DEF P
<1>11. ASSUME NEW k \in 1..N, NEW l \in 1..N
       PROVE  s[k].type = s[l].type <=> (f[N][k] = "user" <=> f[N][l] = "user")
  <2>1. 1 \in 1..N
    BY <1>1
  <2>2. s[k].type = s[l].type \/ s[l].type = s[1].type \/ s[k].type = s[1].type
    BY <1>5, <2>1
  <2> QED BY <1>10, <2>2
<1> QED BY <1>11 DEF N, f

\* What the parser of a Slack channel takes.
LEMMA SlackIs ==
  ASSUME export.form = "slack", export.entries \in Seq(EntryOf["slack"])
  PROVE  /\ TakesSaid(Slack) /\ Len(Slack) = Len(Said) /\ Said \in Seq(EntryRec)
         /\ Cardinality({Said[k].type : k \in 1..Len(Said)}) = 2 =>
              \A k, l \in 1..Len(Said) :
                Said[k].type = Said[l].type <=> (Slack[k].role = "user" <=> Slack[l].role = "user")
<1> DEFINE es == export.entries
           s == EntriesOf({"x", "y", "z"}, {"none"})
           v == (CHOOSE g : RolesOf(s, g))[Len(s)]
<1>1. es \in Seq(EntryRec) /\ \A k \in DOMAIN es : es[k] \in EntryOf["slack"]
  <2>1. "slack" \in LinearForm
    BY DEF LinearForm
  <2> QED BY <2>1, FormsTyped
<1>2. \A k \in DOMAIN es : es[k].type \in {"x", "y", "z"} /\ es[k].text # "noise"
  BY <1>1, FormsMean
<1>3. Said = s
  <2>1. Said = EntriesOf(SaidType, {"none", "noise"})
    BY DEF Said, SaidType
  <2>2. \A k \in DOMAIN es :
          (es[k].type \in SaidType /\ es[k].text \notin {"none", "noise"})
            <=> (es[k].type \in {"x", "y", "z"} /\ es[k].text \notin {"none"})
    <3> HIDE DEF es
    <3> QED BY <1>2 DEF SaidType
  <2>3. EntriesOf(SaidType, {"none", "noise"}) = s
    BY <2>2, SameEntries
  <2> QED BY <2>1, <2>3
<1>4. s \in Seq(EntryRec) /\ Len(s) \in Nat /\ DOMAIN s = 1..Len(s)
  BY <1>1, EntriesMean
<1>5. Slack = [k \in DOMAIN s |-> Message(v[k], s[k].text)]
  BY DEF Slack, RolesOf, NextRole, Prior
<1> HIDE DEF s
<1>6. v \in Seq(RoleName) /\ Len(v) = Len(s)
  <2>1. Len(s) \in 0..Len(s)
    BY <1>4
  <2> QED BY <1>4, <2>1, RolesGiven
<1>7. Cardinality({s[k].type : k \in 1..Len(s)}) = 2 =>
        \A k, l \in 1..Len(s) : s[k].type = s[l].type <=> (v[k] = "user" <=> v[l] = "user")
  BY <1>4, TwoSpeakers
<1> HIDE DEF v
<1>8. \A k \in 1..Len(s) : Message(v[k], s[k].text) \in MsgRec
  <2> SUFFICES ASSUME NEW k \in 1..Len(s) PROVE Message(v[k], s[k].text) \in MsgRec
    OBVIOUS
  <2>1. v[k] \in RoleName /\ s[k] \in EntryRec
    BY <1>4, <1>6
  <2>2. s[k].text \in TextKind
    BY <2>1 DEF EntryRec
  <2> QED BY <2>1, <2>2 DEF Message, MsgRec, RoleName
<1>9. /\ Slack \in Seq(MsgRec) /\ Len(Slack) = Len(s)
      /\ \A k \in 1..Len(s) : Slack[k] = Message(v[k], s[k].text)
  BY <1>4, <1>5, <1>8
<1>10. \A k \in 1..Len(s) : Slack[k].role = v[k] /\ Slack[k].text = s[k].text
  <2>1. \A k \in 1..Len(s) : Message(v[k], s[k].text).role = v[k] /\ Message(v[k], s[k].text).text = s[k].text
    BY DEF Message
  <2> QED BY <1>9, <2>1
<1> QED BY <1>3, <1>4, <1>7, <1>9, <1>10 DEF TakesSaid

-----------------------------------------------------------------------------
(* Transcripts: the tree of a ChatGPT export.                              *)

LEMMA AtMostOne ==
  ASSUME NEW S, IsFiniteSet(S), Cardinality(S) <= 1, NEW a \in S, NEW b \in S
  PROVE  a = b
<1> SUFFICES ASSUME a # b PROVE FALSE
  OBVIOUS
<1>2. Cardinality({a} \cup {b}) = 2
  BY TwoCount
<1>3. {a} \cup {b} \in SUBSET S
  OBVIOUS
<1>4. Cardinality({a} \cup {b}) <= Cardinality(S) /\ Cardinality(S) \in Nat
  BY <1>3, FS_Subset, FS_CardinalityType
<1> QED BY <1>2, <1>4

IsTree == export.form = "tree" /\ export.entries \in Seq(TreeNode) /\ export.entries # <<>> /\ IsForest(export.entries)

\* The nodes of an export, and their depths.
LEMMA TreeMeans ==
  ASSUME IsTree
  PROVE  LET es == export.entries
             N == Len(es)
         IN /\ N \in Nat /\ N >= 1 /\ DOMAIN es = 1..N
            /\ \A i \in 1..N : /\ es[i].parent \in 0..N
                               /\ es[i].message # <<>> => es[i].message[1] \in MsgRec /\ es[i].message[1].text = "words"
            /\ \E depth \in [1..N -> 1..N] :
                 \A i \in 1..N : es[i].parent # 0 => depth[i] = depth[es[i].parent] + 1
<1> DEFINE es == export.entries
           N == Len(es)
<1>1. es \in Seq(TreeNode) /\ es # <<>> /\ IsForest(es)
  BY DEF IsTree
<1> HIDE DEF es
<1>2. N \in Nat /\ N >= 1 /\ DOMAIN es = 1..N
  BY <1>1
<1>3. \A i \in 1..N : es[i].parent \in 0..N
  BY <1>1, <1>2 DEF IsForest
<1>4. \E depth \in [1..N -> 1..N] : \A i \in 1..N : es[i].parent # 0 => depth[i] = depth[es[i].parent] + 1
  BY <1>1, <1>2 DEF IsForest
<1>5. ASSUME NEW i \in 1..N, es[i].message # <<>>
      PROVE  es[i].message[1] \in MsgRec /\ es[i].message[1].text = "words"
  <2>1. es[i] \in TreeNode
    BY <1>1, <1>2
  <2>2. es[i].message \in {<<[role |-> r, text |-> "words"]>> : r \in {"user", "assistant"}}
    BY <1>5, <2>1 DEF TreeNode
  <2>3. PICK r \in {"user", "assistant"} : es[i].message = <<[role |-> r, text |-> "words"]>>
    BY <2>2
  <2>4. es[i].message[1] = [role |-> r, text |-> "words"]
    BY <2>3
  <2> QED BY <2>4 DEF MsgRec, TextKind
<1> QED BY <1>2, <1>3, <1>4, <1>5 DEF es

LEMMA ChildrenMean ==
  ASSUME IsTree, NEW p
  PROVE  /\ Children(p) \in SUBSET (1..Len(export.entries)) /\ IsFiniteSet(Children(p))
         /\ \A i \in 1..Len(export.entries) : i \in Children(p) <=> export.entries[i].parent = p
         /\ Children(p) # {} => Min(Children(p)) \in Children(p)
<1> DEFINE N == Len(export.entries)
           S == Children(p)
<1>1. N \in Nat /\ DOMAIN export.entries = 1..N
  BY TreeMeans
<1>2. \A i \in 1..N : i \in S <=> export.entries[i].parent = p
  BY <1>1 DEF Children
<1>3. S \in SUBSET (1..N)
  BY <1>1 DEF Children
<1> HIDE DEF S, N
<1>4. 1 \in Int /\ N \in Int
  BY <1>1
<1>5. IsFiniteSet(S)
  <2>1. IsFiniteSet(1..N)
    BY ONLY <1>4, FS_Interval
  <2> QED BY ONLY <1>3, <2>1, FS_Subset
<1>6. S # {} => Min(S) \in S
  BY ONLY <1>3, <1>4, PlacesFinite
<1> QED BY <1>2, <1>3, <1>5, <1>6 DEF S, N

\* There is a root.
LEMMA RootIs ==
  ASSUME IsTree
  PROVE  Root \in 1..Len(export.entries) /\ Root \in Children(0)
<1> DEFINE es == export.entries
           N == Len(es)
           synthetic == {i \in Children(0) : es[i].message = <<>>}
           S == IF synthetic # {} THEN synthetic ELSE Children(0)
<1>1. N \in Nat /\ N >= 1 /\ \A i \in 1..N : es[i].parent \in 0..N
  BY TreeMeans
<1>2. PICK depth \in [1..N -> 1..N] : \A i \in 1..N : es[i].parent # 0 => depth[i] = depth[es[i].parent] + 1
  BY TreeMeans
<1>3. /\ Children(0) \in SUBSET (1..N)
      /\ \A i \in 1..N : i \in Children(0) <=> es[i].parent = 0
  BY ChildrenMean
<1>4. Root = Min(S)
  BY DEF Root
<1>5. Children(0) # {}
  <2> HIDE DEF es, N
  <2> DEFINE D == {depth[i] : i \in 1..N}
  <2>1. D \in SUBSET (1..N) /\ D # {} /\ 1 \in Int /\ N \in Int
    <3>1. 1 \in 1..N
      BY <1>1
    <3> QED BY <1>1, <1>2, <3>1
  <2>2. Min(D) \in D /\ \A x \in D : Min(D) <= x
    <3> HIDE DEF D
    <3> QED BY ONLY <2>1, PlacesFinite
  <2>3. PICK i \in 1..N : Min(D) = depth[i]
    BY <2>2
  <2>4. ASSUME es[i].parent # 0 PROVE FALSE
    <3>1. es[i].parent \in 1..N /\ depth[i] = depth[es[i].parent] + 1
      BY <1>1, <1>2, <2>4
    <3>2. depth[es[i].parent] \in D
      BY <3>1
    <3>3. depth[i] <= depth[es[i].parent] /\ depth[es[i].parent] \in 1..N
      BY <1>2, <2>2, <2>3, <3>1, <3>2
    <3> QED BY <3>1, <3>3
  <2> QED BY <1>3, <2>4
<1>6. S \in SUBSET (1..N) /\ S # {} /\ S \in SUBSET Children(0)
  <2> HIDE DEF es, N
  <2> QED BY <1>3, <1>5
<1> HIDE DEF S
<1>7. Min(S) \in S
  <2>1. 1 \in Int /\ N \in Int
    BY <1>1
  <2> HIDE DEF N
  <2> QED BY ONLY <1>6, <2>1, PlacesFinite
<1> QED BY <1>4, <1>6, <1>7

\* The way from the root, a node of the export or 0 at each place.
Follows(w, N) ==
  /\ w \in [0..N -> 0..N] /\ w[0] = Root
  /\ \A n \in 1..N : w[n] = IF w[n - 1] = 0 \/ Children(w[n - 1]) = {} THEN 0 ELSE Min(Children(w[n - 1]))

LEMMA BranchIs ==
  ASSUME IsTree
  PROVE  Follows(Branch, Len(export.entries))
<1> DEFINE N == Len(export.entries)
           V == 0..N
           Next(v) == IF v = 0 \/ Children(v) = {} THEN 0 ELSE Min(Children(v))
           step == [kv \in (1..N) \X V |-> Next(kv[2])]
           Way(g) == g = [n \in 0..N |-> IF n = 0 THEN Root ELSE Next(g[n - 1])]
           w == CHOOSE g : Way(g)
<1>1. N \in Nat
  BY TreeMeans
<1>2. \A v \in V : Next(v) \in V
  <2> SUFFICES ASSUME NEW v \in V PROVE Next(v) \in V
    OBVIOUS
  <2>1. Children(v) \in SUBSET (1..N) /\ (Children(v) # {} => Min(Children(v)) \in Children(v))
    BY ChildrenMean
  <2> HIDE DEF N
  <2> QED BY <1>1, <2>1
<1>3. Branch = w
  BY DEF Branch
<1>4. Root \in V
  <2>1. Root \in 1..N
    BY RootIs
  <2> QED BY <1>1, <2>1
<1> HIDE DEF N
<1>5. PICK f \in [0..N -> V] : f[0] = Root /\ \A n \in 1..N : f[n] = Next(f[n - 1])
  <2>1. \A k \in 1..N : \A v \in V : step[<<k, v>>] = Next(v) /\ step[<<k, v>>] \in V
    BY <1>2
  <2>2. GoesOn(N, V, Root, step)
    <3> HIDE DEF V, step, Next
    <3> QED BY <1>1, <1>4, <2>1 DEF GoesOn
  <2>3. PICK f \in [0..N -> V] : f[0] = Root /\ \A n \in 1..N : f[n] = step[<<n, f[n - 1]>>]
    <3> HIDE DEF V, step, Next
    <3> QED BY ONLY <2>2, StepByStep
  <2>4. \A n \in 1..N : f[n] = Next(f[n - 1])
    <3>1. \A n \in 1..N : f[n - 1] \in V
      BY <1>1, <2>3
    <3> HIDE DEF V, step, Next
    <3> QED BY <2>1, <2>3, <3>1
  <2> QED BY <2>3, <2>4
<1>6. Way(f)
  <2>1. \A n \in 0..N : n # 0 => n \in 1..N
    BY <1>1
  <2> HIDE DEF Next, V
  <2> QED BY <1>5, <2>1
<1>7. Way(w)
  BY <1>6
<1> HIDE DEF w
<1>8. w \in [0..N -> V] /\ w[0] = Root /\ \A n \in 1..N : w[n] = Next(w[n - 1])
  <2>1. 0 \in 0..N /\ \A n \in 1..N : n \in 0..N /\ n # 0
    BY <1>1
  <2>2. w[0] = Root /\ \A n \in 1..N : w[n] = Next(w[n - 1])
    <3> HIDE DEF Next
    <3> QED BY <1>7, <2>1
  <2> DEFINE P == {n \in 0..N : w[n] \in V}
  <2>3. 0 \in P
    BY <1>4, <2>1, <2>2
  <2>4. \A n \in 1..N : n - 1 \in P => n \in P
    <3> HIDE DEF Next, V
    <3> QED BY <1>2, <2>1, <2>2
  <2>5. 0..N \subseteq P
    <3> HIDE DEF P
    <3> QED BY <1>1, <2>3, <2>4, PlaceByPlace
  <2>6. \A n \in 0..N : w[n] \in V
    BY <2>5
  <2>7. w \in [0..N -> V]
    <3>1. w = [n \in 0..N |-> w[n]]
      <4> DEFINE e(n) == IF n = 0 THEN Root ELSE Next(w[n - 1])
      <4>1. w = [n \in 0..N |-> e(n)]
        BY <1>7
      <4> HIDE DEF e
      <4> QED BY <4>1
    <3> QED BY <2>6, <3>1
  <2> QED BY <2>2, <2>7
<1> QED BY <1>3, <1>8 DEF Follows, N

\* The messages met on the way.
LEMMA TreeTyped ==
  ASSUME IsTree
  PROVE  LET met == {n \in 0..Len(export.entries) : Branch[n] # 0 /\ export.entries[Branch[n]].message # <<>>}
         IN /\ ChatGpt \in Seq(MsgRec) /\ Len(ChatGpt) = Cardinality(met) /\ IsFiniteSet(met)
            /\ \A k \in 1..Len(ChatGpt) : ChatGpt[k].text = "words"
<1> DEFINE es == export.entries
           N == Len(es)
           met == {n \in 0..N : Branch[n] # 0 /\ es[Branch[n]].message # <<>>}
           places == Ascending(met)
           ms == [k \in 1..Cardinality(met) |-> es[Branch[places[k]]].message[1]]
<1>1. /\ N \in Nat
      /\ \A i \in 1..N : es[i].message # <<>> => es[i].message[1] \in MsgRec /\ es[i].message[1].text = "words"
  BY TreeMeans
<1>2. Branch \in [0..N -> 0..N]
  BY BranchIs DEF Follows
<1>3. ChatGpt = ms
  <2>1. DOMAIN Branch = 0..N
    BY <1>2
  <2> QED BY <2>1 DEF ChatGpt
<1> HIDE DEF N, es
<1>4. met \in SUBSET (0..N) /\ \A n \in met : Branch[n] \in 1..N /\ es[Branch[n]].message # <<>>
  BY <1>1, <1>2
<1> HIDE DEF met
<1>5. IsFiniteSet(met) /\ met \in SUBSET Int
  <2>1. 0 \in Int /\ N \in Int
    BY <1>1
  <2>2. IsFiniteSet(0..N)
    BY ONLY <2>1, FS_Interval
  <2>3. IsFiniteSet(met)
    BY <1>4, <2>2, FS_Subset
  <2> QED BY <1>4, <2>1, <2>3
<1>6. Cardinality(met) \in Nat /\ places \in [1..Cardinality(met) -> met]
  BY <1>5, AscendingNumbers
<1> HIDE DEF places
<1>7. \A k \in 1..Cardinality(met) : /\ es[Branch[places[k]]].message[1] \in MsgRec
                                     /\ es[Branch[places[k]]].message[1].text = "words"
  <2> SUFFICES ASSUME NEW k \in 1..Cardinality(met)
               PROVE  /\ es[Branch[places[k]]].message[1] \in MsgRec
                      /\ es[Branch[places[k]]].message[1].text = "words"
    OBVIOUS
  <2>1. places[k] \in met
    BY <1>6
  <2> QED BY <1>1, <1>4, <2>1
<1>8. ms \in Seq(MsgRec) /\ Len(ms) = Cardinality(met)
  BY <1>6, <1>7
<1>9. \A k \in 1..Cardinality(met) : ms[k].text = "words"
  BY <1>7
<1> QED BY <1>3, <1>5, <1>8, <1>9 DEF met, N, es

\* The nodes that say something.
Telling == {i \in DOMAIN export.entries : export.entries[i].message # <<>>}

\* Where no node has a second child, all of them are on the way, each once.
LEMMA TreeWhole ==
  ASSUME IsTree, Cardinality(Children(0)) = 1, \A i \in DOMAIN export.entries : Cardinality(Children(i)) <= 1
  PROVE  Len(ChatGpt) = Cardinality(Telling)
<1> DEFINE es == export.entries
           N == Len(es)
           met == {n \in 0..N : Branch[n] # 0 /\ es[Branch[n]].message # <<>>}
<1>1. /\ N \in Nat /\ N >= 1 /\ DOMAIN es = 1..N
      /\ \A i \in 1..N : es[i].parent \in 0..N
  BY TreeMeans
<1>2. PICK depth \in [1..N -> 1..N] : \A i \in 1..N : es[i].parent # 0 => depth[i] = depth[es[i].parent] + 1
  BY TreeMeans
<1>3. \A p \in 0..N : /\ Children(p) \in SUBSET (1..N) /\ IsFiniteSet(Children(p))
                      /\ \A i \in 1..N : i \in Children(p) <=> es[i].parent = p
                      /\ Children(p) # {} => Min(Children(p)) \in Children(p)
  BY ChildrenMean
<1>4. Root \in 1..N /\ Root \in Children(0)
  BY RootIs
<1>5. Follows(Branch, N)
  BY BranchIs
<1>6. Len(ChatGpt) = Cardinality(met) /\ IsFiniteSet(met)
  BY TreeTyped
<1>7. \A p \in 0..N : Cardinality(Children(p)) <= 1
  BY <1>1
<1>8. Telling = {i \in 1..N : es[i].message # <<>>}
  BY <1>1 DEF Telling
<1> HIDE DEF N, es
<1>9. \A p \in 0..N : \A i, j \in Children(p) : i = j
  BY <1>3, <1>7, AtMostOne
<1> DEFINE w == Branch
<1>10. /\ w \in [0..N -> 0..N] /\ w[0] = Root
       /\ \A n \in 1..N : w[n] = IF w[n - 1] = 0 \/ Children(w[n - 1]) = {} THEN 0 ELSE Min(Children(w[n - 1]))
  BY <1>5 DEF Follows
<1> HIDE DEF w
\* The depth grows by one at each place.
<1> DEFINE P == {n \in 0..N : w[n] # 0 => depth[w[n]] = depth[Root] + n}
<1>11. 0 \in P
  BY <1>1, <1>2, <1>4, <1>10
<1>12. ASSUME NEW n \in 1..N, n - 1 \in P PROVE n \in P
  <2> SUFFICES ASSUME w[n] # 0 PROVE depth[w[n]] = depth[Root] + n
    BY <1>1
  <2>1. n - 1 \in 0..N /\ w[n - 1] # 0 /\ w[n - 1] \in 0..N /\ Children(w[n - 1]) # {} /\ w[n] = Min(Children(w[n - 1]))
    BY <1>1, <1>10
  <2>2. w[n] \in Children(w[n - 1])
    BY <1>3, <2>1
  <2>3. w[n] \in 1..N /\ es[w[n]].parent = w[n - 1]
    BY <1>3, <2>1, <2>2
  <2>4. depth[w[n]] = depth[w[n - 1]] + 1 /\ depth[w[n - 1]] = depth[Root] + (n - 1)
    BY <1>2, <1>12, <2>1, <2>3
  <2>5. depth[Root] \in Int /\ n \in Int
    BY <1>1, <1>2, <1>4
  <2> QED BY <2>4, <2>5
<1>13. \A n \in 0..N : w[n] # 0 => depth[w[n]] = depth[Root] + n
  <2>1. 0..N \subseteq P
    <3> HIDE DEF P
    <3> QED BY <1>1, <1>11, <1>12, PlaceByPlace
  <2> QED BY <2>1
<1> HIDE DEF P
\* Every node is at a place.
<1> DEFINE Q == {d \in 0..N : \A i \in 1..N : depth[i] = d => \E n \in 0..N : w[n] = i}
<1>14. 0 \in Q
  BY <1>1, <1>2
<1>15. ASSUME NEW d \in 1..N, d - 1 \in Q PROVE d \in Q
  <2> SUFFICES ASSUME NEW i \in 1..N, depth[i] = d PROVE \E n \in 0..N : w[n] = i
    BY <1>1
  <2>1. CASE es[i].parent = 0
    <3>1. 0 \in 0..N /\ i \in Children(0)
      BY <1>1, <1>3, <2>1
    <3>2. i = Root
      BY <1>4, <1>9, <3>1
    <3> QED BY <1>10, <3>1, <3>2
  <2>2. CASE es[i].parent # 0
    <3> DEFINE p == es[i].parent
    <3>1. p \in 1..N /\ p \in 0..N /\ depth[i] = depth[p] + 1 /\ i \in Children(p)
      BY <1>1, <1>2, <1>3, <2>2
    <3>2. depth[p] = d - 1
      BY <1>2, <3>1
    <3>3. PICK n \in 0..N : w[n] = p
      BY <1>15, <3>1, <3>2
    <3>4. depth[p] = depth[Root] + n
      BY <1>13, <3>1, <3>3
    <3>5. n + 1 \in 1..N /\ n + 1 \in 0..N /\ (n + 1) - 1 = n
      BY <1>1, <1>2, <1>4, <3>2, <3>4
    <3> HIDE DEF p
    <3>6. w[n + 1] = IF w[n] = 0 \/ Children(w[n]) = {} THEN 0 ELSE Min(Children(w[n]))
      BY <1>10, <3>5
    <3>7. w[n + 1] = Min(Children(p))
      BY <3>1, <3>3, <3>6
    <3>8. Min(Children(p)) = i
      BY <1>3, <1>9, <3>1
    <3> QED BY <3>5, <3>7, <3>8
  <2> QED BY <2>1, <2>2
<1>16. \A i \in 1..N : \E n \in 0..N : w[n] = i
  <2>1. 0..N \subseteq Q
    <3> HIDE DEF Q
    <3> QED BY <1>1, <1>14, <1>15, PlaceByPlace
  <2>2. \A i \in 1..N : depth[i] \in 0..N
    BY <1>1, <1>2
  <2> QED BY <2>1, <2>2
<1> HIDE DEF Q
\* So the places and the nodes that say something are as many.
<1> DEFINE g == [n \in met |-> w[n]]
<1>17. /\ \A n \in met : n \in 0..N /\ w[n] # 0 /\ w[n] \in Telling
       /\ \A i \in Telling : \E n \in met : w[n] = i
  <2>1. \A n \in met : n \in 0..N /\ w[n] # 0 /\ es[w[n]].message # <<>>
    BY DEF w
  <2>2. \A n \in met : w[n] \in 1..N
    <3> SUFFICES ASSUME NEW n \in met PROVE w[n] \in 1..N
      OBVIOUS
    <3>1. n \in 0..N /\ w[n] # 0
      BY <2>1
    <3> HIDE DEF met
    <3>2. w[n] \in 0..N
      BY <1>10, <3>1
    <3> QED BY <1>1, <3>1, <3>2
  <2>3. ASSUME NEW i \in Telling PROVE \E n \in met : w[n] = i
    <3>1. i \in 1..N /\ es[i].message # <<>>
      BY <1>8
    <3>2. PICK n \in 0..N : w[n] = i
      BY <1>16, <3>1
    <3>3. w[n] # 0
      BY <3>1, <3>2
    <3>4. n \in met
      BY <3>1, <3>2, <3>3 DEF w
    <3> QED BY <3>2, <3>4
  <2> QED BY <1>8, <2>1, <2>2, <2>3
<1>18. \A m, n \in met : w[m] = w[n] => m = n
  <2> SUFFICES ASSUME NEW m \in met, NEW n \in met, w[m] = w[n] PROVE m = n
    OBVIOUS
  <2>1. depth[w[m]] = depth[Root] + m /\ depth[w[n]] = depth[Root] + n /\ m \in 0..N /\ n \in 0..N
    BY <1>13, <1>17
  <2>2. depth[Root] \in Int
    BY <1>2, <1>4
  <2> QED BY <2>1, <2>2
<1> HIDE DEF met
<1>19. g \in Bijection(met, Telling)
  BY <1>17, <1>18 DEF Bijection, Injection, Surjection, IsInjective
<1>20. ExistsBijection(met, Telling)
  <2> HIDE DEF g
  <2> QED BY <1>19 DEF ExistsBijection
<1>21. Cardinality(Telling) = Cardinality(met)
  BY <1>6, <1>20, FS_Bijection
<1> QED BY <1>6, <1>21

-----------------------------------------------------------------------------
(* Transcripts: what a transcript and its units hold.                      *)

\* The lines by message.
LEMMA LinesByMessage ==
  ASSUME NEW ms \in Seq(MsgRec)
  PROVE  LET t == TranscriptOf(ms)
         IN /\ t \in Seq(LineRec) /\ Len(t) \in Nat /\ DOMAIN t = 1..Len(t)
            /\ t # <<>> => ms # <<>>
            /\ {t[i].of : i \in DOMAIN t} = 1..Len(ms)
            /\ \A i \in 1..Len(t) - 1 : t[i].of <= t[i + 1].of
            /\ \A i \in 1..Len(t) : t[i].kind = "turn" /\ i > 1 => t[i - 1].kind = "blank"
            /\ \A k \in 1..Len(ms) :
                 Cardinality({i \in DOMAIN t : t[i].of = k /\ t[i].kind # "blank"}) = Len(Kinds(ms[k].text))
            /\ \A k \in 1..Len(ms) :
                 k \in {t[i].of : i \in {j \in DOMAIN t : t[j].kind = "turn"}} <=> ms[k].role = "user"
<1> DEFINE t == TranscriptOf(ms)
           N == Len(t)
           M == Len(ms)
           turns == {t[i].of : i \in {j \in DOMAIN t : t[j].kind = "turn"}}
           ofs == {t[i].of : i \in DOMAIN t}
<1>1. /\ t \in Seq(LineRec) /\ N \in Nat
      /\ \A i \in 1..N : t[i].of \in 1..M
      /\ \A i, j \in 1..N : i <= j => t[i].of <= t[j].of
      /\ \A i \in 1..N : t[i].kind = "turn" /\ i > 1 => t[i - 1].kind = "blank"
      /\ \A k \in 1..M :
           /\ ms[k].role = "user" <=> \E i \in 1..N : t[i].of = k /\ t[i].kind = "turn"
           /\ \E i \in 1..N : t[i].of = k
           /\ Cardinality({i \in 1..N : t[i].of = k /\ t[i].kind # "blank"}) = Len(Kinds(ms[k].text))
  BY TranscriptIs
<1>2. M \in Nat /\ (ms = <<>> => M = 0)
  OBVIOUS
<1> HIDE DEF t, M
<1>3. DOMAIN t = 1..N
  BY <1>1
<1>4. t # <<>> => 1 \in 1..N
  BY <1>1
<1> HIDE DEF N
<1>5. t # <<>> => ms # <<>>
  <2> SUFFICES ASSUME t # <<>>, ms = <<>> PROVE FALSE
    OBVIOUS
  <2>1. t[1].of \in 1..M
    BY <1>1, <1>4
  <2> QED BY <1>2, <2>1
<1>6. ofs = 1..M
  <2>1. \A k \in ofs : k \in 1..M
    BY <1>1, <1>3
  <2>2. ASSUME NEW k \in 1..M PROVE k \in ofs
    <3>1. PICK i \in 1..N : t[i].of = k
      BY <1>1
    <3> QED BY <1>3, <3>1
  <2> HIDE DEF ofs
  <2>3. ofs \subseteq 1..M
    BY ONLY <2>1
  <2>4. 1..M \subseteq ofs
    BY ONLY <2>2
  <2> QED BY ONLY <2>3, <2>4
<1>7. \A i \in 1..N - 1 : t[i].of <= t[i + 1].of
  <2> SUFFICES ASSUME NEW i \in 1..N - 1 PROVE t[i].of <= t[i + 1].of
    OBVIOUS
  <2>1. i \in 1..N /\ i + 1 \in 1..N /\ i <= i + 1
    BY <1>1
  <2> QED BY <1>1, <2>1
<1>8. \A k \in 1..M : k \in turns <=> ms[k].role = "user"
  <2> SUFFICES ASSUME NEW k \in 1..M PROVE k \in turns <=> ms[k].role = "user"
    OBVIOUS
  <2>1. k \in turns <=> \E i \in 1..N : t[i].of = k /\ t[i].kind = "turn"
    BY <1>3
  <2> HIDE DEF turns
  <2> QED BY <1>1, <2>1
<1>9. \A k \in 1..M : Cardinality({i \in DOMAIN t : t[i].of = k /\ t[i].kind # "blank"}) = Len(Kinds(ms[k].text))
  BY <1>1, <1>3
<1> HIDE DEF ofs, turns
<1> QED BY <1>1, <1>3, <1>5, <1>6, <1>7, <1>8, <1>9 DEF t, N, M, ofs, turns

\* The exports.
ExportOK == IsTree \/ \E f \in LinearForm : export.form = f /\ export.entries \in Seq(EntryOf[f])

\* The transcripts of an export in which all is said once, the two sides of a Slack
\* channel are told apart and a tree without second children is whole.
SaidIn(t) ==
  /\ {t[i].of : i \in DOMAIN t} = DOMAIN Said
  /\ \A k \in DOMAIN Said :
       Cardinality({i \in DOMAIN t : t[i].of = k /\ t[i].kind # "blank"}) = Len(Kinds(Said[k].text))
  /\ \A i \in 1..Len(t) - 1 : t[i].of <= t[i + 1].of

SidesIn(t) ==
  LET turns == {t[i].of : i \in {j \in DOMAIN t : t[j].kind = "turn"}}
  IN Cardinality({Said[k].type : k \in DOMAIN Said}) = 2 =>
       \A k, l \in DOMAIN Said : (Said[k].type = Said[l].type) <=> (k \in turns <=> l \in turns)

WholeIn(t) ==
  Cardinality(Telling) >= 2 =>
    /\ {t[i].of : i \in DOMAIN t} = 1..Cardinality(Telling)
    /\ \A k \in 1..Cardinality(Telling) :
         Cardinality({i \in DOMAIN t : t[i].of = k /\ t[i].kind # "blank"}) = 1

LineByLine(t) ==
  t \in Seq(LineRec) /\ \A i \in 1..Len(t) : t[i].kind = "turn" /\ i > 1 => t[i - 1].kind = "blank"

LEMMA SaidTyped ==
  ASSUME ExportOK, export.form # "tree"
  PROVE  TakesSaid(Parsed) /\ DOMAIN Said = 1..Len(Said) /\ Len(Said) \in Nat
<1>1. PICK f \in LinearForm : export.form = f /\ export.entries \in Seq(EntryOf[f])
  BY DEF ExportOK, IsTree
<1>2. export.entries \in Seq(EntryRec)
  BY <1>1, FormsTyped
<1>3. DOMAIN Said = 1..Len(Said) /\ Len(Said) \in Nat
  <2> DEFINE gone == IF export.form = "codex" THEN {"none"} ELSE {"none", "noise"}
  <2>1. Said = EntriesOf(SaidType, gone)
    BY DEF Said, SaidType
  <2> HIDE DEF gone
  <2> QED BY <1>2, <2>1, EntriesMean
<1>4. CASE f = "slack"
  <2>1. TakesSaid(Slack)
    BY <1>1, <1>4, SlackIs
  <2> QED BY <1>1, <1>3, <1>4, <2>1, ParsedIs, NothingSaid
<1>5. CASE f # "slack"
  BY <1>1, <1>3, <1>5, RolesTake
<1> QED BY <1>4, <1>5

LEMMA NormalizedIs ==
  ASSUME ExportOK
  PROVE  LET t == TranscriptOf(Parsed)
         IN /\ LineByLine(t)
            /\ t # <<>> /\ export.form # "tree" => SaidIn(t)
            /\ t # <<>> /\ export.form = "slack" => SidesIn(t)
            /\ export.form = "tree" /\ Cardinality(Children(0)) = 1
                 /\ (\A i \in DOMAIN export.entries : Cardinality(Children(i)) <= 1) => WholeIn(t)
<1> DEFINE t == TranscriptOf(Parsed)
<1>1. CASE export.form # "tree"
  <2>1. TakesSaid(Parsed) /\ DOMAIN Said = 1..Len(Said) /\ Len(Said) \in Nat
    BY <1>1, SaidTyped
  <2>2. Parsed \in Seq(MsgRec)
    BY <2>1 DEF TakesSaid
  <2> DEFINE ms == Parsed
  <2>3. /\ t \in Seq(LineRec) /\ Len(t) \in Nat /\ DOMAIN t = 1..Len(t)
        /\ t # <<>> => ms # <<>>
        /\ {t[i].of : i \in DOMAIN t} = 1..Len(ms)
        /\ \A i \in 1..Len(t) - 1 : t[i].of <= t[i + 1].of
        /\ \A i \in 1..Len(t) : t[i].kind = "turn" /\ i > 1 => t[i - 1].kind = "blank"
        /\ \A k \in 1..Len(ms) :
             Cardinality({i \in DOMAIN t : t[i].of = k /\ t[i].kind # "blank"}) = Len(Kinds(ms[k].text))
        /\ \A k \in 1..Len(ms) :
             k \in {t[i].of : i \in {j \in DOMAIN t : t[j].kind = "turn"}} <=> ms[k].role = "user"
    BY <2>2, LinesByMessage
  <2> HIDE DEF t, ms
  <2>4. LineByLine(t)
    BY <2>3 DEF LineByLine
  <2>5. t # <<>> => Len(ms) = Len(Said) /\ \A k \in 1..Len(Said) : ms[k].text = Said[k].text
    BY <2>1, <2>3 DEF TakesSaid, ms
  <2>6. t # <<>> => SaidIn(t)
    BY <2>1, <2>3, <2>5 DEF SaidIn
  <2>7. ASSUME t # <<>>, export.form = "slack" PROVE SidesIn(t)
    <3>1. export.entries \in Seq(EntryOf["slack"])
      BY <2>7 DEF ExportOK, IsTree
    <3>2. Cardinality({Said[k].type : k \in 1..Len(Said)}) = 2 =>
            \A k, l \in 1..Len(Said) :
              Said[k].type = Said[l].type <=> (Slack[k].role = "user" <=> Slack[l].role = "user")
      BY <2>7, <3>1, SlackIs
    <3>3. ms = Slack
      BY <2>3, <2>7, ParsedIs DEF ms
    <3> DEFINE turns == {t[i].of : i \in {j \in DOMAIN t : t[j].kind = "turn"}}
    <3>4. \A k \in 1..Len(Said) : k \in turns <=> Slack[k].role = "user"
      BY <2>3, <2>5, <2>7, <3>3
    <3>5. SidesIn(t) <=> (Cardinality({Said[k].type : k \in DOMAIN Said}) = 2 =>
            \A k, l \in DOMAIN Said : (Said[k].type = Said[l].type) <=> (k \in turns <=> l \in turns))
      BY DEF SidesIn
    <3> HIDE DEF turns
    <3> QED BY <2>1, <3>2, <3>4, <3>5
  <2> QED BY <1>1, <2>4, <2>6, <2>7 DEF t
<1>2. CASE export.form = "tree"
  <2>1. IsTree
    BY <1>2 DEF ExportOK, LinearForm
  <2>2. ChatGpt \in Seq(MsgRec) /\ \A k \in 1..Len(ChatGpt) : ChatGpt[k].text = "words"
    BY <2>1, TreeTyped
  <2>3. Parsed = IF Len(ChatGpt) >= 2 THEN ChatGpt ELSE <<>>
    BY <1>2, ParsedIs
  <2> DEFINE ms == Parsed
  <2>4. ms \in Seq(MsgRec)
    BY <2>2, <2>3
  <2>5. /\ t \in Seq(LineRec) /\ Len(t) \in Nat /\ DOMAIN t = 1..Len(t)
        /\ {t[i].of : i \in DOMAIN t} = 1..Len(ms)
        /\ \A i \in 1..Len(t) : t[i].kind = "turn" /\ i > 1 => t[i - 1].kind = "blank"
        /\ \A k \in 1..Len(ms) :
             Cardinality({i \in DOMAIN t : t[i].of = k /\ t[i].kind # "blank"}) = Len(Kinds(ms[k].text))
    BY <2>4, LinesByMessage
  <2> HIDE DEF t, ms
  <2>6. LineByLine(t)
    BY <2>5 DEF LineByLine
  <2>7. ASSUME Cardinality(Children(0)) = 1, \A i \in DOMAIN export.entries : Cardinality(Children(i)) <= 1,
               Cardinality(Telling) >= 2
        PROVE  /\ {t[i].of : i \in DOMAIN t} = 1..Cardinality(Telling)
               /\ \A k \in 1..Cardinality(Telling) :
                    Cardinality({i \in DOMAIN t : t[i].of = k /\ t[i].kind # "blank"}) = 1
    <3>1. Len(ChatGpt) = Cardinality(Telling)
      BY <2>1, <2>7, TreeWhole
    <3>2. ms = ChatGpt
      BY <2>3, <2>7, <3>1 DEF ms
    <3>3. \A k \in 1..Len(ms) : Len(Kinds(ms[k].text)) = 1
      BY <2>2, <3>2, KindsMean
    <3> QED BY <2>5, <3>1, <3>2, <3>3
  <2> QED BY <1>2, <2>6, <2>7 DEF WholeIn, t
<1> QED BY <1>1, <1>2

\* The numbers between two, in either order.
LEMMA SpanOfTwo ==
  ASSUME NEW a \in Nat, NEW b \in Nat, NEW x
  PROVE  x \in Min({a, b})..Max({a, b}) <=> x \in Nat /\ ((a <= x /\ x <= b) \/ (b <= x /\ x <= a))
<1> DEFINE S == {a, b}
<1>1. S \in SUBSET (0..a + b) /\ S # {} /\ 0 \in Int /\ a + b \in Int
  OBVIOUS
<1>2. a \in S /\ b \in S /\ \A y \in S : y = a \/ y = b
  OBVIOUS
<1> HIDE DEF S
<1>3. Min(S) \in S /\ (\A y \in S : Min(S) <= y) /\ Max(S) \in S /\ (\A y \in S : y <= Max(S))
  BY ONLY <1>1, PlacesFinite
<1> DEFINE least == Min(S)
           most == Max(S)
<1>4. least = (IF a <= b THEN a ELSE b) /\ most = (IF a <= b THEN b ELSE a)
  <2>1. (least = a \/ least = b) /\ least <= a /\ least <= b /\ (most = a \/ most = b) /\ a <= most /\ b <= most
    BY <1>2, <1>3
  <2> HIDE DEF least, most
  <2> QED BY <2>1
<1>5. x \in Min(S)..Max(S) <=> x \in Nat /\ ((a <= x /\ x <= b) \/ (b <= x /\ x <= a))
  BY <1>4
<1> QED BY <1>5 DEF S

LEMMA AllEqual ==
  ASSUME NEW S, \A a, b \in S : a = b
  PROVE  Cardinality(S) <= 1
<1>1. CASE S = {}
  BY <1>1, FS_EmptySet
<1>2. CASE S # {}
  <2>1. PICK a \in S : TRUE
    BY <1>2
  <2>2. S = {a}
    BY <2>1
  <2>3. Cardinality({a}) = 1
    BY FS_Singleton
  <2> QED BY <2>2, <2>3
<1> QED BY <1>1, <1>2

\* The units that are cut from a transcript.
ByExchange == Cardinality({i \in DOMAIN transcript : Marked(i)}) >= 3
UnitsOf ==
  IF ByExchange
  THEN {ExchangeAt(i) : i \in {j \in DOMAIN transcript : Marked(j)}}
  ELSE {ParagraphAt(i) : i \in {j \in DOMAIN transcript : transcript[j].kind # "blank"}}

LEMMA UnitsMean ==
  ASSUME LineByLine(transcript)
  PROVE  LET N == Len(transcript)
         IN /\ N \in Nat /\ DOMAIN transcript = 1..N
            /\ \A i \in 1..N : transcript[i] \in LineRec
            /\ \A i \in 1..N : transcript[i].kind = "turn" /\ i > 1 => transcript[i - 1].kind = "blank"
            /\ \A i \in 1..N : \A j : j \in ExchangeAt(i) <=>
                 j \in 1..N /\ i <= j /\ \A k \in i + 1..j : ~Marked(k) /\ transcript[k].kind # "rule"
            /\ \A i \in 1..N : \A j : j \in ParagraphAt(i) <=>
                 j \in 1..N /\ \A k \in 1..N : ((i <= k /\ k <= j) \/ (j <= k /\ k <= i)) => transcript[k].kind # "blank"
<1> DEFINE N == Len(transcript)
<1>1. /\ N \in Nat /\ DOMAIN transcript = 1..N /\ \A i \in 1..N : transcript[i] \in LineRec
  BY DEF LineByLine
<1>2. \A i \in 1..N : transcript[i].kind = "turn" /\ i > 1 => transcript[i - 1].kind = "blank"
  BY DEF LineByLine
<1>3. ASSUME NEW i \in 1..N, NEW j
      PROVE  j \in ExchangeAt(i) <=>
               j \in 1..N /\ i <= j /\ \A k \in i + 1..j : ~Marked(k) /\ transcript[k].kind # "rule"
  <2>1. j \in ExchangeAt(i) <=> j \in i..N /\ \A k \in i + 1..j : ~Marked(k) /\ transcript[k].kind # "rule"
    BY DEF ExchangeAt
  <2> HIDE DEF N
  <2>2. j \in i..N <=> j \in 1..N /\ i <= j
    BY <1>1
  <2> QED BY <2>1, <2>2
<1>4. ASSUME NEW i \in 1..N, NEW j
      PROVE  j \in ParagraphAt(i) <=>
               j \in 1..N /\ \A k \in 1..N : ((i <= k /\ k <= j) \/ (j <= k /\ k <= i)) => transcript[k].kind # "blank"
  <2>1. j \in ParagraphAt(i) <=>
          j \in 1..N /\ \A k \in Min({i, j})..Max({i, j}) : transcript[k].kind # "blank"
    BY <1>1 DEF ParagraphAt
  <2> HIDE DEF N
  <2>2. ASSUME j \in 1..N
        PROVE  \A k : k \in Min({i, j})..Max({i, j})
                        <=> k \in 1..N /\ ((i <= k /\ k <= j) \/ (j <= k /\ k <= i))
    <3> SUFFICES ASSUME NEW k
                 PROVE  k \in Min({i, j})..Max({i, j}) <=> k \in 1..N /\ ((i <= k /\ k <= j) \/ (j <= k /\ k <= i))
      OBVIOUS
    <3>1. i \in Nat /\ j \in Nat
      BY <2>2
    <3>2. k \in Min({i, j})..Max({i, j}) <=> k \in Nat /\ ((i <= k /\ k <= j) \/ (j <= k /\ k <= i))
      BY <3>1, SpanOfTwo
    <3>3. k \in Nat /\ ((i <= k /\ k <= j) \/ (j <= k /\ k <= i)) <=> k \in 1..N /\ ((i <= k /\ k <= j) \/ (j <= k /\ k <= i))
      BY <1>1, <2>2
    <3> QED BY <3>2, <3>3
  <2>3. CASE j \in 1..N
    <3> DEFINE Span == Min({i, j})..Max({i, j})
               In(k) == (i <= k /\ k <= j) \/ (j <= k /\ k <= i)
               Full(k) == transcript[k].kind # "blank"
    <3>1. \A k : k \in Span <=> k \in 1..N /\ In(k)
      BY <2>2, <2>3
    <3> HIDE DEF Span, In, Full
    <3>2. (\A k \in Span : Full(k)) <=> \A k \in 1..N : In(k) => Full(k)
      BY <3>1
    <3> QED BY <2>1, <2>3, <3>2 DEF Span, In, Full
  <2>4. CASE j \notin 1..N
    BY <2>1, <2>4
  <2> QED BY <2>3, <2>4
<1> QED BY <1>1, <1>2, <1>3, <1>4

\* Each turn has its unit, and each line that is filed has one.
LEMMA UnitsSound ==
  ASSUME LineByLine(transcript), units = UnitsOf
  PROVE  TurnsAreUnits /\ LinesFiledOnce
<1> DEFINE t == transcript
           N == Len(transcript)
<1>1. /\ N \in Nat /\ DOMAIN t = 1..N
      /\ \A i \in 1..N : t[i] \in LineRec
      /\ \A i \in 1..N : t[i].kind = "turn" /\ i > 1 => t[i - 1].kind = "blank"
  BY UnitsMean
<1>2. \A i \in 1..N : \A j : j \in ExchangeAt(i) <=>
        j \in 1..N /\ i <= j /\ \A k \in i + 1..j : ~Marked(k) /\ t[k].kind # "rule"
  BY UnitsMean
<1>3. \A i \in 1..N : \A j : j \in ParagraphAt(i) <=>
        j \in 1..N /\ \A k \in 1..N : ((i <= k /\ k <= j) \/ (j <= k /\ k <= i)) => t[k].kind # "blank"
  BY UnitsMean
<1>4. /\ ByExchange => units = {ExchangeAt(i) : i \in {j \in 1..N : Marked(j)}}
      /\ ~ByExchange => units = {ParagraphAt(i) : i \in {j \in 1..N : t[j].kind # "blank"}}
  BY <1>1 DEF UnitsOf
<1>5. \A i \in 1..N : t[i].kind = "turn" => Marked(i)
  BY DEF Marked
<1> HIDE DEF N
<1>6. ASSUME NEW i \in 1..N, t[i].kind = "turn"
      PROVE  \E u \in units : /\ i = Min(u)
                              /\ \A j \in u : t[j].kind = "turn" => j = i
                              /\ i < N /\ t[i + 1].kind = "line" => i + 1 \in u
  <2> DEFINE u == IF ByExchange THEN ExchangeAt(i) ELSE ParagraphAt(i)
  <2>1. /\ u \in units /\ i \in u /\ \A j \in u : j \in 1..N /\ i <= j
        /\ \A j \in u : t[j].kind = "turn" => j = i
        /\ i < N /\ t[i + 1].kind = "line" => i + 1 \in u
    <3>1. CASE ByExchange
      <4>1. ExchangeAt(i) \in units
        BY <1>4, <1>5, <1>6, <3>1
      <4>2. i \in ExchangeAt(i)
        BY <1>1, <1>2
      <4>3. \A j \in ExchangeAt(i) : j \in 1..N /\ i <= j
        BY <1>2
      <4>4. ASSUME NEW j \in ExchangeAt(i), t[j].kind = "turn", j # i PROVE FALSE
        <5>1. j \in i + 1..j
          BY <1>1, <4>3, <4>4
        <5> QED BY <1>2, <1>5, <4>3, <4>4, <5>1
      <4>5. ASSUME i < N, t[i + 1].kind = "line" PROVE i + 1 \in ExchangeAt(i)
        <5>1. i + 1 \in 1..N /\ i <= i + 1 /\ \A k \in i + 1..i + 1 : k = i + 1
          BY <1>1, <4>5
        <5>2. ~Marked(i + 1)
          BY <4>5 DEF Marked
        <5> QED BY <1>2, <4>5, <5>1, <5>2
      <4> QED BY <3>1, <4>1, <4>2, <4>3, <4>4, <4>5
    <3>2. CASE ~ByExchange
      <4>1. ParagraphAt(i) \in units
        BY <1>4, <1>6, <3>2
      <4>2. i \in ParagraphAt(i)
        <5>1. \A k \in 1..N : (i <= k /\ k <= i) \/ (i <= k /\ k <= i) => k = i
          BY <1>1
        <5> QED BY <1>3, <1>6, <5>1
      <4>3. ASSUME NEW j \in ParagraphAt(i), j < i PROVE FALSE
        <5>1. j \in 1..N /\ \A k \in 1..N : ((i <= k /\ k <= j) \/ (j <= k /\ k <= i)) => t[k].kind # "blank"
          BY <1>3
        <5>2. i - 1 \in 1..N /\ j <= i - 1 /\ i - 1 <= i /\ i > 1
          BY <1>1, <4>3, <5>1
        <5> QED BY <1>1, <1>6, <5>1, <5>2
      <4>4. ASSUME NEW j \in ParagraphAt(i), t[j].kind = "turn", i < j PROVE FALSE
        <5>1. j \in 1..N /\ \A k \in 1..N : ((i <= k /\ k <= j) \/ (j <= k /\ k <= i)) => t[k].kind # "blank"
          BY <1>3
        <5>2. j - 1 \in 1..N /\ i <= j - 1 /\ j - 1 <= j /\ j > 1
          BY <1>1, <4>4, <5>1
        <5> QED BY <1>1, <4>4, <5>1, <5>2
      <4>5. \A j \in ParagraphAt(i) : j \in 1..N
        BY <1>3
      <4>6. \A j \in ParagraphAt(i) : i <= j /\ (t[j].kind = "turn" => j = i)
        BY <1>1, <4>3, <4>4, <4>5
      <4>7. ASSUME i < N, t[i + 1].kind = "line" PROVE i + 1 \in ParagraphAt(i)
        <5>1. i + 1 \in 1..N
          BY <1>1, <4>7
        <5>2. \A k \in 1..N : ((i <= k /\ k <= i + 1) \/ (i + 1 <= k /\ k <= i)) => k = i \/ k = i + 1
          BY <1>1
        <5> QED BY <1>3, <1>6, <4>7, <5>1, <5>2
      <4> QED BY <3>2, <4>1, <4>2, <4>5, <4>6, <4>7
    <3> QED BY <3>1, <3>2
  <2> HIDE DEF u
  <2>2. i = Min(u)
    <3>1. u \in SUBSET (1..N) /\ u # {} /\ 1 \in Int /\ N \in Int
      BY <1>1, <2>1
    <3>2. Min(u) \in u /\ \A x \in u : Min(u) <= x
      BY ONLY <3>1, PlacesFinite
    <3>3. Min(u) <= i /\ i <= Min(u) /\ Min(u) \in 1..N
      BY <2>1, <3>2
    <3> QED BY <1>1, <3>3
  <2> QED BY <2>1, <2>2
<1>7. ASSUME NEW i \in 1..N, t[i].kind \in {"turn", "line", "quote"}
      PROVE  /\ Cardinality({u \in units : i \in u}) <= 1
             /\ LET marks == {j \in 1..i : Marked(j)}
                IN marks # {} /\ (\A j \in Max(marks)..i : t[j].kind # "rule") => \E u \in units : i \in u
  <2> DEFINE marks == {j \in 1..i : Marked(j)}
  <2>1. CASE ByExchange
    <3>1. ASSUME NEW u \in units, NEW v \in units, i \in u, i \in v PROVE u = v
      <4>1. PICK a \in 1..N : Marked(a) /\ u = ExchangeAt(a)
        BY <1>4, <2>1
      <4>2. PICK b \in 1..N : Marked(b) /\ v = ExchangeAt(b)
        BY <1>4, <2>1
      <4>3. /\ a <= i /\ \A k \in a + 1..i : ~Marked(k)
            /\ b <= i /\ \A k \in b + 1..i : ~Marked(k)
        BY <1>2, <3>1, <4>1, <4>2
      <4>4. a = b
        <5>1. ~(a < b)
          <6> SUFFICES ASSUME a < b PROVE FALSE
            OBVIOUS
          <6>1. b \in a + 1..i
            BY <1>1, <4>3
          <6> QED BY <4>2, <4>3, <6>1
        <5>2. ~(b < a)
          <6> SUFFICES ASSUME b < a PROVE FALSE
            OBVIOUS
          <6>1. a \in b + 1..i
            BY <1>1, <4>3
          <6> QED BY <4>1, <4>3, <6>1
        <5> QED BY <1>1, <5>1, <5>2
      <4> QED BY <4>1, <4>2, <4>4
    <3>2. ASSUME marks # {}, \A j \in Max(marks)..i : t[j].kind # "rule"
          PROVE  \E u \in units : i \in u
      <4> DEFINE m == Max(marks)
      <4>1. marks \in SUBSET (1..i) /\ 1 \in Int /\ i \in Int
        OBVIOUS
      <4>2. m \in marks /\ \A x \in marks : x <= m
        <5> HIDE DEF marks
        <5> QED BY ONLY <3>2, <4>1, PlacesFinite
      <4> HIDE DEF m
      <4>3. m \in 1..i /\ m \in 1..N /\ Marked(m)
        BY <1>1, <4>2
      <4>4. \A k \in m + 1..i : ~Marked(k) /\ t[k].kind # "rule"
        <5> SUFFICES ASSUME NEW k \in m + 1..i PROVE ~Marked(k) /\ t[k].kind # "rule"
          OBVIOUS
        <5>1. k \in 1..i /\ ~(k <= m) /\ k \in m..i
          BY <4>3
        <5>2. k \notin marks
          <6> HIDE DEF marks
          <6> QED BY <4>2, <5>1
        <5>3. t[k].kind # "rule"
          BY <3>2, <5>1 DEF m
        <5> QED BY <5>1, <5>2, <5>3
      <4>5. i \in ExchangeAt(m)
        BY <1>1, <1>2, <4>3, <4>4
      <4>6. ExchangeAt(m) \in units
        BY <1>4, <2>1, <4>3
      <4> QED BY <4>5, <4>6
    <3>3. Cardinality({u \in units : i \in u}) <= 1
      BY <3>1, AllEqual
    <3> QED BY <3>2, <3>3
  <2>2. CASE ~ByExchange
    <3>1. ASSUME NEW a \in 1..N, i \in ParagraphAt(a) PROVE ParagraphAt(a) = ParagraphAt(i)
      <4>1. \A k \in 1..N : ((a <= k /\ k <= i) \/ (i <= k /\ k <= a)) => t[k].kind # "blank"
        BY <1>3, <3>1
      <4>2. ASSUME NEW j \in ParagraphAt(a) PROVE j \in ParagraphAt(i)
        <5>1. j \in 1..N /\ \A k \in 1..N : ((a <= k /\ k <= j) \/ (j <= k /\ k <= a)) => t[k].kind # "blank"
          BY <1>3
        <5>2. \A k \in 1..N : ((i <= k /\ k <= j) \/ (j <= k /\ k <= i)) => t[k].kind # "blank"
          BY <1>1, <4>1, <5>1
        <5> QED BY <1>3, <5>1, <5>2
      <4>3. ASSUME NEW j \in ParagraphAt(i) PROVE j \in ParagraphAt(a)
        <5>1. j \in 1..N /\ \A k \in 1..N : ((i <= k /\ k <= j) \/ (j <= k /\ k <= i)) => t[k].kind # "blank"
          BY <1>3
        <5>2. \A k \in 1..N : ((a <= k /\ k <= j) \/ (j <= k /\ k <= a)) => t[k].kind # "blank"
          BY <1>1, <4>1, <5>1
        <5> QED BY <1>3, <5>1, <5>2
      <4>4. ParagraphAt(a) \subseteq ParagraphAt(i)
        BY ONLY <4>2
      <4>5. ParagraphAt(i) \subseteq ParagraphAt(a)
        BY ONLY <4>3
      <4> QED BY ONLY <4>4, <4>5
    <3>2. ASSUME NEW u \in units, NEW v \in units, i \in u, i \in v PROVE u = v
      <4>1. PICK a \in 1..N : u = ParagraphAt(a)
        BY <1>4, <2>2
      <4>2. PICK b \in 1..N : v = ParagraphAt(b)
        BY <1>4, <2>2
      <4> QED BY <3>1, <3>2, <4>1, <4>2
    <3>3. ParagraphAt(i) \in units /\ i \in ParagraphAt(i)
      <4>1. t[i].kind # "blank"
        BY <1>7
      <4>2. \A k \in 1..N : (i <= k /\ k <= i) \/ (i <= k /\ k <= i) => k = i
        BY <1>1
      <4> QED BY <1>3, <1>4, <2>2, <4>1, <4>2
    <3>4. Cardinality({u \in units : i \in u}) <= 1
      BY <3>2, AllEqual
    <3> QED BY <3>3, <3>4
  <2> QED BY <2>1, <2>2
<1>8. TurnsAreUnits
  BY <1>1, <1>6 DEF TurnsAreUnits, N
<1>9. LinesFiledOnce
  BY <1>1, <1>7 DEF LinesFiledOnce
<1> QED BY <1>8, <1>9

-----------------------------------------------------------------------------
(* Transcripts: the invariant.                                             *)

TranscriptInv ==
  /\ ExportOK
  /\ stage \in {"export", "transcript", "raw", "units"}
  /\ stage = "export" => transcript = <<>>
  /\ LineByLine(transcript)
  /\ SaidOnce /\ TwoSides /\ BranchWhole
  /\ stage = "units" => units = UnitsOf

LEMMA TranscriptBegins == TranscriptInit => TranscriptInv
<1> SUFFICES ASSUME TranscriptInit PROVE TranscriptInv
  OBVIOUS
<1>1. transcript = <<>> /\ stage = "export"
  BY DEF TranscriptInit
<1>2. \A S : \A n \in Nat : BoundedSeq(S, n) \subseteq Seq(S)
  BY DEF BoundedSeq, SeqOf
<1>3. MaxEntries \in Nat /\ MaxNodes \in Nat
  BY TranscriptAssumption
<1>4. ExportOK
  <2>1. CASE \E form \in DOMAIN EntryOf : \E entries \in BoundedSeq(EntryOf[form], MaxEntries) :
               export = [form |-> form, entries |-> entries]
    <3>0. PICK f \in DOMAIN EntryOf :
                 \E entries \in BoundedSeq(EntryOf[f], MaxEntries) : export = [form |-> f, entries |-> entries]
      BY <2>1
    <3>1. PICK entries \in BoundedSeq(EntryOf[f], MaxEntries) : export = [form |-> f, entries |-> entries]
      BY <3>0
    <3>2. f \in LinearForm
      BY DEF EntryOf, LinearForm
    <3>3. entries \in Seq(EntryOf[f])
      <4> DEFINE S == EntryOf[f]
      <4> HIDE DEF S
      <4>1. entries \in BoundedSeq(S, MaxEntries)
        BY <3>1 DEF S
      <4>2. entries \in Seq(S)
        BY <1>2, <1>3, <4>1
      <4> QED BY <4>2 DEF S
    <3> QED BY <3>1, <3>2, <3>3 DEF ExportOK
  <2>2. CASE \E nodes \in {ns \in BoundedSeq(TreeNode, MaxNodes) : ns # <<>> /\ IsForest(ns)} :
               export = [form |-> "tree", entries |-> nodes]
    <3>1. PICK nodes \in {ns \in BoundedSeq(TreeNode, MaxNodes) : ns # <<>> /\ IsForest(ns)} :
                 export = [form |-> "tree", entries |-> nodes]
      BY <2>2
    <3>2. nodes \in Seq(TreeNode) /\ nodes # <<>> /\ IsForest(nodes)
      BY <1>2, <1>3, <3>1
    <3> QED BY <3>1, <3>2 DEF ExportOK, IsTree
  <2> QED BY <2>1, <2>2 DEF TranscriptInit
<1>5. LineByLine(transcript)
  <2>1. <<>> \in Seq(LineRec) /\ \A i \in 1..Len(<<>>) : FALSE
    OBVIOUS
  <2> QED BY <1>1, <2>1 DEF LineByLine
<1>6. SaidOnce /\ TwoSides /\ BranchWhole
  BY <1>1 DEF SaidOnce, TwoSides, BranchWhole
<1> QED BY <1>1, <1>4, <1>5, <1>6 DEF TranscriptInv

LEMMA TranscriptKept ==
  ASSUME TranscriptInv, UNCHANGED transcriptVars
  PROVE  TranscriptInv'
<1> USE DEF transcriptVars
<1>1. ExportOK'
  BY DEF TranscriptInv, ExportOK, IsTree
<1>2. SaidOnce'
  BY DEF TranscriptInv, SaidOnce, Said, EntriesOf, TextLines
<1>3. TwoSides'
  BY DEF TranscriptInv, TwoSides, Said, EntriesOf
<1>4. BranchWhole'
  BY DEF TranscriptInv, BranchWhole, Children, TextLines
<1>5. UnitsOf' = UnitsOf
  BY DEF UnitsOf, ByExchange, Marked, ExchangeAt, ParagraphAt
<1>6. LineByLine(transcript') /\ (stage' = "units" => units' = UnitsOf)
  BY DEF TranscriptInv
<1>7. stage' \in {"export", "transcript", "raw", "units"} /\ (stage' = "export" => transcript' = <<>>)
  BY DEF TranscriptInv
<1>8. LineByLine(transcript)'
  BY <1>6 DEF LineByLine
<1> QED BY <1>1, <1>2, <1>3, <1>4, <1>5, <1>6, <1>7, <1>8 DEF TranscriptInv

LEMMA TranscriptSteps ==
  ASSUME TranscriptInv, TranscriptNext
  PROVE  TranscriptInv'
<1>1. CASE Normalize
  <2> DEFINE t == TranscriptOf(Parsed)
  <2>1. stage = "export" /\ transcript' = t /\ stage' \in {"raw", "transcript"} /\ export' = export /\ units' = units
    BY <1>1 DEF Normalize
  <2>2. /\ LineByLine(t)
        /\ t # <<>> /\ export.form # "tree" => SaidIn(t)
        /\ t # <<>> /\ export.form = "slack" => SidesIn(t)
        /\ export.form = "tree" /\ Cardinality(Children(0)) = 1
             /\ (\A i \in DOMAIN export.entries : Cardinality(Children(i)) <= 1) => WholeIn(t)
    BY NormalizedIs DEF TranscriptInv
  <2> HIDE DEF t
  <2>3. Said' = Said /\ Telling' = Telling
    BY <2>1 DEF Said, EntriesOf, Telling
  <2>4. \A p : Children(p)' = Children(p)
    BY <2>1 DEF Children
  <2>5. ExportOK'
    BY <2>1 DEF TranscriptInv, ExportOK, IsTree
  <2>6. SaidOnce'
    <3> SUFFICES ASSUME t # <<>>, export.form # "tree"
                 PROVE  /\ {t[i].of : i \in DOMAIN t} = DOMAIN Said
                        /\ \A k \in DOMAIN Said :
                             Cardinality({i \in DOMAIN t : t[i].of = k /\ t[i].kind # "blank"}) = Len(Kinds(Said[k].text))
                        /\ \A i \in 1..Len(t) - 1 : t[i].of <= t[i + 1].of
      BY <2>1, <2>3 DEF SaidOnce, TextLines
    <3> QED BY <2>2 DEF SaidIn
  <2>7. TwoSides'
    <3> SUFFICES ASSUME t # <<>>, export.form = "slack"
                 PROVE  LET turns == {t[i].of : i \in {j \in DOMAIN t : t[j].kind = "turn"}}
                        IN Cardinality({Said[k].type : k \in DOMAIN Said}) = 2 =>
                             \A k, l \in DOMAIN Said : (Said[k].type = Said[l].type) <=> (k \in turns <=> l \in turns)
      BY <2>1, <2>3 DEF TwoSides
    <3> QED BY <2>2 DEF SidesIn
  <2>8. BranchWhole'
    <3> SUFFICES ASSUME export.form = "tree", Cardinality(Children(0)) = 1,
                        \A i \in DOMAIN export.entries : Cardinality(Children(i)) <= 1
                 PROVE  Cardinality(Telling) >= 2 =>
                          /\ {t[i].of : i \in DOMAIN t} = 1..Cardinality(Telling)
                          /\ \A k \in 1..Cardinality(Telling) :
                               Cardinality({i \in DOMAIN t : t[i].of = k /\ t[i].kind # "blank"}) = 1
      BY <2>1, <2>4 DEF BranchWhole, TextLines, Telling
    <3> QED BY <2>2 DEF WholeIn
  <2>9. LineByLine(transcript)'
    BY <2>1, <2>2 DEF LineByLine
  <2> QED BY <2>1, <2>5, <2>6, <2>7, <2>8, <2>9 DEF TranscriptInv
<1>2. CASE ChunkExchanges
  <2>1. stage = "transcript" /\ stage' = "units" /\ export' = export /\ transcript' = transcript
    BY <1>2 DEF ChunkExchanges
  <2>2. units' = UnitsOf
    BY <1>2 DEF ChunkExchanges, UnitsOf, ByExchange
  <2>3. UnitsOf' = UnitsOf
    BY <2>1 DEF UnitsOf, ByExchange, Marked, ExchangeAt, ParagraphAt
  <2>4. ExportOK'
    BY <2>1 DEF TranscriptInv, ExportOK, IsTree
  <2>5. SaidOnce'
    BY <2>1 DEF TranscriptInv, SaidOnce, Said, EntriesOf, TextLines
  <2>6. TwoSides'
    BY <2>1 DEF TranscriptInv, TwoSides, Said, EntriesOf
  <2>7. BranchWhole'
    BY <2>1 DEF TranscriptInv, BranchWhole, Children, TextLines
  <2>8. LineByLine(transcript)'
    BY <2>1 DEF TranscriptInv, LineByLine
  <2> QED BY <2>1, <2>2, <2>3, <2>4, <2>5, <2>6, <2>7, <2>8 DEF TranscriptInv
<1> QED BY <1>1, <1>2 DEF TranscriptNext

LEMMA TranscriptInvSound == TranscriptInv => TranscriptsSound
<1> SUFFICES ASSUME TranscriptInv PROVE TranscriptsSound
  OBVIOUS
<1>1. SaidOnce /\ TwoSides /\ BranchWhole /\ LineByLine(transcript) /\ (stage = "units" => units = UnitsOf)
  BY DEF TranscriptInv
<1>2. TurnsAreUnits /\ LinesFiledOnce
  <2>1. CASE stage = "units"
    BY <1>1, <2>1, UnitsSound
  <2>2. CASE stage # "units"
    BY <2>2 DEF TurnsAreUnits, LinesFiledOnce
  <2> QED BY <2>1, <2>2
<1> QED BY <1>1, <1>2 DEF TranscriptsSound

\* What the entries of an export say is in its transcript once and in order, the two
\* sides of a channel are told apart, a conversation without second answers is whole,
\* and every turn opens a unit of its own, which no line leaves and none enters twice.
THEOREM TranscriptsAreSound == TranscriptSpec => []TranscriptsSound
<1>1. TranscriptInv /\ [TranscriptNext]_transcriptVars => TranscriptInv'
  BY TranscriptKept, TranscriptSteps
<1> QED BY <1>1, TranscriptBegins, TranscriptInvSound, PTL DEF TranscriptSpec
=============================================================================
