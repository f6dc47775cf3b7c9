-------------------------------- MODULE Rows --------------------------------
(***************************************************************************)
(* Finite sets in an order, and parts of a sequence, without recursion:    *)
(* what a query with a filter and an ORDER BY returns of a table, with     *)
(* the facts about it that proofs need.                                    *)
(***************************************************************************)
EXTENDS Integers, FiniteSets, Sequences, SequencesExt, FiniteSetTheorems, TLAPS

\* The elements of S one after the other, R being a strict order of them: at place i
\* is the element that comes after all but i.
Ordered(S, R) ==
  [i \in 1..Cardinality(S) |-> CHOOSE x \in S : Cardinality({y \in S : <<y, x>> \in R \/ y = x}) = i]

\* The numbers in K from the least to the greatest.
Ascending(K) == Ordered(K, {ij \in K \X K : ij[1] < ij[2]})

\* The elements of s at the places in K, in the order of s.
Picked(s, K) == LET places == Ascending(K) IN [n \in 1..Cardinality(K) |-> s[places[n]]]

-----------------------------------------------------------------------------
(* What they return.                                                       *)

StrictOrder(S, R) ==
  /\ \A x \in S : <<x, x>> \notin R
  /\ \A x, y, z \in S : <<x, y>> \in R /\ <<y, z>> \in R => <<x, z>> \in R
  /\ \A x, y \in S : x # y => <<x, y>> \in R \/ <<y, x>> \in R

\* A query's ORDER BY puts every row at one place: a finite set is enumerated in any
\* strict order of it.
LEMMA Enumeration ==
  ASSUME NEW S, IsFiniteSet(S), NEW R, StrictOrder(S, R)
  PROVE  /\ Ordered(S, R) \in [1..Cardinality(S) -> S]
         /\ \A i, j \in 1..Cardinality(S) : i < j => <<Ordered(S, R)[i], Ordered(S, R)[j]>> \in R
<1> DEFINE n == Cardinality(S)
           UpTo(x) == {y \in S : <<y, x>> \in R \/ y = x}
           rank == [x \in S |-> Cardinality(UpTo(x))]
<1>1. n \in Nat
  BY FS_CardinalityType
<1>2. ASSUME NEW x \in S
      PROVE  IsFiniteSet(UpTo(x)) /\ Cardinality(UpTo(x)) \in 1..n
  <2>1. UpTo(x) \in SUBSET S /\ UpTo(x) # {}
    OBVIOUS
  <2>2. IsFiniteSet(UpTo(x)) /\ Cardinality(UpTo(x)) <= n
    BY <2>1, FS_Subset
  <2>3. Cardinality(UpTo(x)) \in Nat /\ Cardinality(UpTo(x)) # 0
    BY <2>1, <2>2, FS_CardinalityType, FS_EmptySet
  <2> QED BY <1>1, <2>2, <2>3
<1>3. ASSUME NEW x \in S, NEW y \in S, <<x, y>> \in R
      PROVE  rank[x] < rank[y]
  <2>1. UpTo(x) \in SUBSET UpTo(y)
    BY <1>3 DEF StrictOrder
  <2>2. y \in UpTo(y) /\ y \notin UpTo(x)
    BY <1>3 DEF StrictOrder
  <2>3. IsFiniteSet(UpTo(y)) /\ Cardinality(UpTo(x)) \in Nat /\ Cardinality(UpTo(y)) \in Nat
    BY <1>2
  <2> HIDE DEF UpTo
  <2>4. Cardinality(UpTo(x)) <= Cardinality(UpTo(y)) /\ Cardinality(UpTo(x)) # Cardinality(UpTo(y))
    BY <2>1, <2>2, <2>3, FS_Subset
  <2> QED BY <2>3, <2>4
<1>4. rank \in [S -> 1..n]
  BY <1>2
<1>5. ASSUME NEW x \in S, NEW y \in S, rank[x] = rank[y], x # y
      PROVE  FALSE
  <2>1. <<x, y>> \in R \/ <<y, x>> \in R
    BY <1>5 DEF StrictOrder
  <2>2. rank[x] < rank[y] \/ rank[y] < rank[x]
    BY <1>3, <2>1
  <2>3. rank[x] \in Int /\ rank[y] \in Int
    BY <1>4
  <2> HIDE DEF rank
  <2> QED BY <1>5, <2>2, <2>3
<1>6. IsFiniteSet(1..n) /\ Cardinality(1..n) = n
  BY <1>1, FS_Interval
<1>13. \A x \in S : rank[x] = Cardinality(UpTo(x))
  OBVIOUS
<1> HIDE DEF rank
<1>7. rank \in Injection(S, 1..n)
  BY <1>4, <1>5 DEF Injection, IsInjective
<1>8. rank \in Surjection(S, 1..n)
  BY <1>6, <1>7, FS_Injection
<1>9. \A k \in 1..n : \E x \in S : rank[x] = k
  BY <1>8 DEF Surjection
<1> DEFINE f == Ordered(S, R)
<1>14. f = [k \in 1..n |-> CHOOSE x \in S : Cardinality(UpTo(x)) = k]
  BY DEF Ordered
<1> HIDE DEF f, UpTo
<1>10. \A k \in 1..n : f[k] \in S /\ rank[f[k]] = k
  <2> SUFFICES ASSUME NEW k \in 1..n PROVE f[k] \in S /\ rank[f[k]] = k
    OBVIOUS
  <2>1. \E x \in S : Cardinality(UpTo(x)) = k
    BY <1>9, <1>13
  <2>2. f[k] = CHOOSE x \in S : Cardinality(UpTo(x)) = k
    BY <1>14
  <2>3. f[k] \in S /\ Cardinality(UpTo(f[k])) = k
    BY <2>1, <2>2
  <2> QED BY <1>13, <2>3
<1>11. ASSUME NEW i \in 1..n, NEW j \in 1..n, i < j
       PROVE  <<f[i], f[j]>> \in R
  <2>1. f[i] # f[j]
    BY <1>10, <1>11, <1>1
  <2>2. CASE <<f[j], f[i]>> \in R
    <3>1. rank[f[j]] < rank[f[i]]
      BY <1>10, <2>2, <1>3
    <3> QED BY <3>1, <1>10, <1>11, <1>1
  <2> QED BY <1>10, <2>1, <2>2 DEF StrictOrder
<1>12. f \in [1..n -> S]
  BY <1>10, <1>14
<1> QED BY <1>11, <1>12 DEF f

\* Ordered is that enumeration: every element comes once, in the order.
LEMMA OrderedRows ==
  ASSUME NEW S, IsFiniteSet(S), NEW R, StrictOrder(S, R)
  PROVE  /\ Cardinality(S) \in Nat
         /\ Ordered(S, R) \in [1..Cardinality(S) -> S]
         /\ \A i, j \in 1..Cardinality(S) : i < j => <<Ordered(S, R)[i], Ordered(S, R)[j]>> \in R
         /\ \A x \in S : \E i \in 1..Cardinality(S) : Ordered(S, R)[i] = x
<1> DEFINE n == Cardinality(S)
           f == Ordered(S, R)
<1>1. n \in Nat
  BY FS_CardinalityType
<1>2. f \in [1..n -> S] /\ \A i, j \in 1..n : i < j => <<f[i], f[j]>> \in R
  BY Enumeration
<1> HIDE DEF f
<1>3. ASSUME NEW i \in 1..n, NEW j \in 1..n, f[i] = f[j], i # j
      PROVE  FALSE
  <2>1. i < j \/ j < i
    BY <1>1, <1>3
  <2>2. <<f[i], f[j]>> \in R \/ <<f[j], f[i]>> \in R
    BY <1>2, <2>1
  <2>3. f[i] \in S
    BY <1>2
  <2> QED BY <1>3, <2>2, <2>3 DEF StrictOrder
<1>4. f \in Injection(1..n, S)
  BY <1>2, <1>3 DEF Injection, IsInjective
<1>5. f \in Surjection(1..n, S)
  <2>1. Cardinality(1..n) = n
    BY <1>1, FS_Interval
  <2> QED BY <1>4, <2>1, FS_Injection
<1>6. \A x \in S : \E i \in 1..n : f[i] = x
  BY <1>5 DEF Surjection
<1> QED BY <1>1, <1>2, <1>6 DEF f

\* The place of a row in a query is the number of rows that do not come after it.
LEMMA OrderedPlaces ==
  ASSUME NEW S, IsFiniteSet(S), NEW R, StrictOrder(S, R), NEW i \in 1..Cardinality(S)
  PROVE  Cardinality({x \in S : <<x, Ordered(S, R)[i]>> \in R \/ x = Ordered(S, R)[i]}) = i
<1> DEFINE n == Cardinality(S)
           f == Ordered(S, R)
           UpTo == {x \in S : <<x, f[i]>> \in R \/ x = f[i]}
           g == [k \in 1..i |-> f[k]]
<1>1. /\ n \in Nat /\ f \in [1..n -> S]
      /\ \A j, k \in 1..n : j < k => <<f[j], f[k]>> \in R
      /\ \A x \in S : \E k \in 1..n : f[k] = x
  BY OrderedRows
<1> HIDE DEF f
<1>2. ASSUME NEW k \in 1..i
      PROVE  k \in 1..n /\ g[k] = f[k] /\ f[k] \in UpTo
  BY <1>1
<1>3. ASSUME NEW x \in UpTo
      PROVE  \E k \in 1..i : g[k] = x
  <2>1. PICK k \in 1..n : f[k] = x
    BY <1>1
  <2>2. CASE k \in 1..i
    BY <2>1, <2>2
  <2>3. CASE i < k
    <3>1. <<f[i], x>> \in R /\ f[i] \in S /\ x \in S
      BY <1>1, <2>1, <2>3
    <3> QED BY <3>1 DEF StrictOrder
  <2> QED BY <1>1, <2>2, <2>3
<1>4. ASSUME NEW j \in 1..i, NEW k \in 1..i, g[j] = g[k], j # k
      PROVE  FALSE
  <2>1. j \in 1..n /\ k \in 1..n /\ f[j] = f[k] /\ f[j] \in S
    BY <1>1, <1>2, <1>4
  <2>2. <<f[j], f[k]>> \in R \/ <<f[k], f[j]>> \in R
    BY <1>1, <1>4, <2>1
  <2> QED BY <2>1, <2>2 DEF StrictOrder
<1>5. DOMAIN g = 1..i /\ g \in [1..i -> UpTo]
  BY <1>2
<1> HIDE DEF g, UpTo
<1>6. g \in Injection(1..i, UpTo) /\ g \in Surjection(1..i, UpTo)
  BY <1>3, <1>4, <1>5 DEF Injection, Surjection, IsInjective
<1>7. i \in Nat /\ IsFiniteSet(1..i) /\ Cardinality(1..i) = i
  BY <1>1, FS_Interval
<1>8. Cardinality(UpTo) = Cardinality(1..i)
  BY <1>6, <1>7, FS_Surjection
<1> QED BY <1>7, <1>8 DEF UpTo, f

\* The numbers of a finite set, ascending.
LEMMA AscendingNumbers ==
  ASSUME NEW K \in SUBSET Int, IsFiniteSet(K)
  PROVE  /\ Cardinality(K) \in Nat
         /\ Ascending(K) \in [1..Cardinality(K) -> K]
         /\ \A i, j \in 1..Cardinality(K) : i < j => Ascending(K)[i] < Ascending(K)[j]
         /\ \A k \in K : \E i \in 1..Cardinality(K) : Ascending(K)[i] = k
<1> DEFINE R == {ij \in K \X K : ij[1] < ij[2]}
<1>1. \A x, y \in K : <<x, y>> \in R <=> x < y
  OBVIOUS
<1>2. StrictOrder(K, R)
  <2> HIDE DEF R
  <2> QED BY <1>1 DEF StrictOrder
<1> HIDE DEF R
<1>3. /\ Cardinality(K) \in Nat
      /\ Ordered(K, R) \in [1..Cardinality(K) -> K]
      /\ \A i, j \in 1..Cardinality(K) : i < j => <<Ordered(K, R)[i], Ordered(K, R)[j]>> \in R
      /\ \A x \in K : \E i \in 1..Cardinality(K) : Ordered(K, R)[i] = x
  BY <1>2, OrderedRows
<1>4. Ascending(K) = Ordered(K, R)
  BY DEF Ascending, R
<1> QED BY <1>1, <1>3, <1>4

\* A part of a sequence is a sequence of the elements picked, each once, in the
\* order in which they stood.
LEMMA PickedRows ==
  ASSUME NEW T, NEW s \in Seq(T), NEW K \in SUBSET (1..Len(s))
  PROVE  /\ Cardinality(K) \in Nat
         /\ Picked(s, K) \in Seq(T)
         /\ Len(Picked(s, K)) = Cardinality(K)
         /\ Ascending(K) \in [1..Cardinality(K) -> K]
         /\ \A i \in 1..Cardinality(K) : Picked(s, K)[i] = s[Ascending(K)[i]]
         /\ \A i, j \in 1..Cardinality(K) : i < j => Ascending(K)[i] < Ascending(K)[j]
         /\ \A k \in K : \E i \in 1..Cardinality(K) : Ascending(K)[i] = k
<1>1. IsFiniteSet(K)
  <2>1. Len(s) \in Int /\ 1 \in Int
    OBVIOUS
  <2> QED BY <2>1, FS_Interval, FS_Subset
<1> DEFINE n == Cardinality(K)
           at == Ascending(K)
<1>2. /\ n \in Nat
      /\ at \in [1..n -> K]
      /\ \A i, j \in 1..n : i < j => at[i] < at[j]
      /\ \A k \in K : \E i \in 1..n : at[i] = k
  <2>1. K \in SUBSET Int
    OBVIOUS
  <2> QED BY <1>1, <2>1, AscendingNumbers
<1>3. Picked(s, K) = [i \in 1..n |-> s[at[i]]]
  BY DEF Picked
<1> HIDE DEF at, n
<1>4. ASSUME NEW i \in 1..n
      PROVE  s[at[i]] \in T
  <2>1. at[i] \in 1..Len(s)
    BY <1>2
  <2> QED BY <2>1
<1>5. [i \in 1..n |-> s[at[i]]] \in Seq(T) /\ Len([i \in 1..n |-> s[at[i]]]) = n
  BY <1>2, <1>4
<1> QED BY <1>2, <1>3, <1>5 DEF n, at

-----------------------------------------------------------------------------
(* Induction over places.                                                  *)

\* The places of which something holds are all, if it holds of the first and of each
\* after the one before it: the least of the others would be neither.
LEMMA PlaceByPlace ==
  ASSUME NEW N \in Nat, NEW P, 0 \in P, \A n \in 1..N : n - 1 \in P => n \in P
  PROVE  0..N \subseteq P
<1> DEFINE S == {n \in 0..N : n \notin P}
<1>1. SUFFICES ASSUME S # {} PROVE FALSE
  OBVIOUS
<1>2. IsFiniteSet(S) /\ S \in SUBSET Int
  <2>1. 0 \in Int /\ N \in Int
    OBVIOUS
  <2>2. IsFiniteSet(0..N)
    BY <2>1, FS_Interval
  <2>3. S \subseteq 0..N
    OBVIOUS
  <2> QED BY <2>2, <2>3, FS_Subset
<1> DEFINE c == Cardinality(S)
           m == Ascending(S)[1]
<1>3. /\ c \in Nat /\ Ascending(S) \in [1..c -> S]
      /\ \A i, j \in 1..c : i < j => Ascending(S)[i] < Ascending(S)[j]
      /\ \A k \in S : \E i \in 1..c : Ascending(S)[i] = k
  BY <1>2, AscendingNumbers
<1>4. \A k \in S : k \in 0..N /\ k \notin P
  OBVIOUS
<1>5. \A k \in 0..N : k \notin P => k \in S
  OBVIOUS
<1> HIDE DEF S, c
<1>6. 1 \in 1..c
  <2>1. PICK k \in S : TRUE
    BY <1>1
  <2> QED BY <1>3, <2>1
<1>7. m \in S
  BY <1>3, <1>6
<1>8. \A k \in S : m <= k
  <2> SUFFICES ASSUME NEW k \in S PROVE m <= k
    OBVIOUS
  <2>1. PICK i \in 1..c : Ascending(S)[i] = k
    BY <1>3
  <2>2. i = 1 \/ 1 < i
    BY <1>3
  <2>3. m \in Int /\ k \in Int
    BY <1>2, <1>7
  <2>4. 1 < i => m < k
    BY <1>3, <1>6, <2>1
  <2> QED BY <2>1, <2>2, <2>3, <2>4
<1> HIDE DEF m
<1>9. m \in 1..N
  BY <1>4, <1>7
<1>10. m - 1 \in 0..N /\ m - 1 \notin S
  BY <1>8, <1>9
<1>11. m - 1 \in P
  BY <1>5, <1>10
<1> QED BY <1>4, <1>7, <1>9, <1>11

\* What a recursion over places computes: there is a function that begins with b and
\* goes from place to place by a step.
GoesOn(N, V, b, step) == N \in Nat /\ b \in V /\ \A n \in 1..N : \A v \in V : step[<<n, v>>] \in V

LEMMA StepByStep ==
  ASSUME NEW N, NEW V, NEW b, NEW step, GoesOn(N, V, b, step)
  PROVE  \E f \in [0..N -> V] : f[0] = b /\ \A n \in 1..N : f[n] = step[<<n, f[n - 1]>>]
<1> USE DEF GoesOn
<1> DEFINE Steps(f, m) == f \in [0..m -> V] /\ f[0] = b /\ \A n \in 1..m : f[n] = step[<<n, f[n - 1]>>]
           P == {m \in 0..N : \E f : Steps(f, m)}
<1>1. 0 \in P
  <2>1. Steps([n \in 0..0 |-> b], 0)
    OBVIOUS
  <2> HIDE DEF Steps
  <2> QED BY <2>1
<1>2. ASSUME NEW m \in 1..N, m - 1 \in P PROVE m \in P
  <2>1. PICK f : Steps(f, m - 1)
    BY <1>2
  <2> DEFINE g == [n \in 0..m |-> IF n = m THEN step[<<m, f[m - 1]>>] ELSE f[n]]
  <2>2. m \in Nat /\ m > 0 /\ m - 1 \in 0..(m - 1)
    OBVIOUS
  <2>3. f[m - 1] \in V /\ step[<<m, f[m - 1]>>] \in V
    <3>1. f[m - 1] \in V
      BY <2>1, <2>2
    <3> QED BY <3>1
  <2>4. \A n \in 0..m : g[n] \in V
    <3> SUFFICES ASSUME NEW n \in 0..m PROVE g[n] \in V
      OBVIOUS
    <3>1. n = m \/ n \in 0..(m - 1)
      BY <2>2
    <3> QED BY <2>1, <2>3, <3>1
  <2>5. g[0] = b
    BY <2>1, <2>2
  <2>6. \A n \in 1..m : g[n] = step[<<n, g[n - 1]>>]
    <3> SUFFICES ASSUME NEW n \in 1..m PROVE g[n] = step[<<n, g[n - 1]>>]
      OBVIOUS
    <3>1. n - 1 \in 0..m /\ n - 1 # m /\ n \in 0..m
      BY <2>2
    <3>2. g[n - 1] = f[n - 1]
      BY <3>1
    <3>3. CASE n = m
      BY <3>1, <3>2, <3>3
    <3>4. CASE n # m
      <4>1. n \in 1..(m - 1) /\ g[n] = f[n]
        BY <2>2, <3>1, <3>4
      <4> QED BY <2>1, <3>2, <4>1
    <3> QED BY <3>3, <3>4
  <2>7. g = [n \in 0..m |-> g[n]]
    OBVIOUS
  <2> HIDE DEF g
  <2>8. g \in [0..m -> V]
    BY <2>4, <2>7
  <2>9. Steps(g, m)
    BY <2>5, <2>6, <2>8
  <2> HIDE DEF Steps
  <2> QED BY <2>2, <2>9
<1>3. N \in P
  <2>1. N \in 0..N
    OBVIOUS
  <2> HIDE DEF P
  <2> QED BY <1>1, <1>2, <2>1, PlaceByPlace
<1> QED BY <1>3

\* The least and the greatest of numbers.
LEMMA LeastAndGreatest ==
  ASSUME NEW S \in SUBSET Int, IsFiniteSet(S), S # {}
  PROVE  /\ Min(S) \in S /\ \A x \in S : Min(S) <= x
         /\ Max(S) \in S /\ \A x \in S : x <= Max(S)
<1> DEFINE n == Cardinality(S)
           at == Ascending(S)
<1>1. /\ n \in Nat /\ at \in [1..n -> S]
      /\ \A i, j \in 1..n : i < j => at[i] < at[j]
      /\ \A k \in S : \E i \in 1..n : at[i] = k
  BY AscendingNumbers
<1> HIDE DEF n, at
<1>2. 1 \in 1..n /\ n \in 1..n
  <2>1. PICK k \in S : TRUE
    OBVIOUS
  <2> QED BY <1>1, <2>1
<1>3. ASSUME NEW x \in S PROVE at[1] <= x /\ x <= at[n]
  <2>1. PICK i \in 1..n : at[i] = x
    BY <1>1
  <2>2. at[1] \in Int /\ at[n] \in Int /\ x \in Int
    BY <1>1, <1>2
  <2>3. (i = 1 \/ at[1] < at[i]) /\ (i = n \/ at[i] < at[n])
    BY <1>1, <1>2
  <2> QED BY <2>1, <2>2, <2>3
<1>4. at[1] \in S /\ at[n] \in S
  BY <1>1, <1>2
<1>5. \E x \in S : \A y \in S : x <= y
  BY <1>3, <1>4
<1>6. \E x \in S : \A y \in S : x >= y
  BY <1>3, <1>4
<1> QED BY <1>5, <1>6 DEF Min, Max

-----------------------------------------------------------------------------
(* Sequences and what they hold.                                           *)

\* A sequence without repetition has as many elements as places.
LEMMA DistinctCount ==
  ASSUME NEW n \in Nat, NEW f, \A i, j \in 1..n : f[i] = f[j] => i = j
  PROVE  Cardinality({f[i] : i \in 1..n}) = n
<1> DEFINE S == {f[i] : i \in 1..n}
           g == [i \in 1..n |-> f[i]]
<1>1. IsFiniteSet(1..n) /\ Cardinality(1..n) = n
  <2>1. 1 \in Int /\ n \in Int
    OBVIOUS
  <2> QED BY <2>1, FS_Interval
<1>2. g \in [1..n -> S] /\ (\A x \in S : \E i \in 1..n : g[i] = x) /\ \A i, j \in 1..n : g[i] = g[j] => i = j
  OBVIOUS
<1> HIDE DEF g, S
<1>3. g \in Injection(1..n, S) /\ g \in Surjection(1..n, S)
  BY <1>2 DEF Injection, Surjection, IsInjective
<1>4. Cardinality(S) = Cardinality(1..n)
  BY <1>1, <1>3, FS_Surjection
<1> QED BY <1>1, <1>4 DEF S

\* The elements of a sequence are its first and those of the rest.
LEMMA HeadAndTail ==
  ASSUME NEW T, NEW s \in Seq(T), s # <<>>
  PROVE  /\ Head(s) \in T /\ Tail(s) \in Seq(T) /\ ToSet(s) = {Head(s)} \cup ToSet(Tail(s))
         /\ Head(s) = s[1] /\ Len(Tail(s)) = Len(s) - 1 /\ \A i \in 1..Len(s) - 1 : Tail(s)[i] = s[i + 1]
<1>1. /\ Len(s) \in Nat /\ Len(s) > 0 /\ Head(s) = s[1] /\ Tail(s) \in Seq(T)
      /\ Len(Tail(s)) = Len(s) - 1 /\ \A i \in 1..Len(s) - 1 : Tail(s)[i] = s[i + 1]
      /\ DOMAIN s = 1..Len(s) /\ DOMAIN Tail(s) = 1..Len(s) - 1
  OBVIOUS
<1>2. ASSUME NEW i \in DOMAIN s
      PROVE  s[i] \in {Head(s)} \cup ToSet(Tail(s))
  <2>1. i = 1 \/ (i - 1 \in DOMAIN Tail(s) /\ Tail(s)[i - 1] = s[i])
    BY <1>1
  <2> QED BY <1>1, <2>1 DEF ToSet
<1>3. ASSUME NEW i \in DOMAIN Tail(s)
      PROVE  Tail(s)[i] \in ToSet(s)
  <2>1. i + 1 \in DOMAIN s /\ Tail(s)[i] = s[i + 1]
    BY <1>1
  <2> QED BY <2>1 DEF ToSet
<1>4. 1 \in DOMAIN s /\ Head(s) = s[1] /\ s[1] \in T
  BY <1>1
<1>5. Head(s) \in ToSet(s)
  BY <1>4 DEF ToSet
<1> QED BY <1>1, <1>2, <1>3, <1>4, <1>5 DEF ToSet

\* Two sequences, one after the other.
LEMMA JoinedRows ==
  ASSUME NEW T, NEW s \in Seq(T), NEW t \in Seq(T)
  PROVE  /\ s \o t \in Seq(T) /\ Len(s \o t) = Len(s) + Len(t)
         /\ \A i \in 1..Len(s) : (s \o t)[i] = s[i]
         /\ \A i \in 1..Len(t) : (s \o t)[Len(s) + i] = t[i]
         /\ ToSet(s \o t) = ToSet(s) \cup ToSet(t)
<1> DEFINE u == s \o t
           n == Len(s)
           m == Len(t)
<1>1. /\ u \in Seq(T) /\ n \in Nat /\ m \in Nat /\ Len(u) = n + m
      /\ DOMAIN u = 1..(n + m) /\ DOMAIN s = 1..n /\ DOMAIN t = 1..m
      /\ \A i \in 1..n : u[i] = s[i]
      /\ \A i \in 1..m : u[n + i] = t[i]
  OBVIOUS
<1> HIDE DEF u, n, m
<1>2. ASSUME NEW i \in 1..(n + m) PROVE u[i] \in ToSet(s) \cup ToSet(t)
  <2>1. i \in 1..n \/ (i - n \in 1..m /\ i = n + (i - n))
    BY <1>1
  <2>2. CASE i \in 1..n
    BY <1>1, <2>2 DEF ToSet
  <2>3. CASE i - n \in 1..m /\ i = n + (i - n)
    <3>1. u[i] = t[i - n]
      BY <1>1, <2>3
    <3> QED BY <1>1, <2>3, <3>1 DEF ToSet
  <2> QED BY <2>1, <2>2, <2>3
<1>3. ASSUME NEW i \in 1..n PROVE s[i] \in ToSet(u)
  <2>1. i \in 1..(n + m)
    BY <1>1
  <2> QED BY <1>1, <2>1 DEF ToSet
<1>4. ASSUME NEW i \in 1..m PROVE t[i] \in ToSet(u)
  <2>1. n + i \in 1..(n + m)
    BY <1>1
  <2> QED BY <1>1, <2>1 DEF ToSet
<1>5. ToSet(u) = ToSet(s) \cup ToSet(t)
  <2>1. ToSet(u) = {u[i] : i \in 1..(n + m)} /\ ToSet(s) = {s[i] : i \in 1..n} /\ ToSet(t) = {t[i] : i \in 1..m}
    BY <1>1 DEF ToSet
  <2> QED BY <1>2, <1>3, <1>4, <2>1
<1> QED BY <1>1, <1>5 DEF u, n, m

\* A sequence that holds each element of a finite set once.
LEMMA EachOnce ==
  ASSUME NEW S, IsFiniteSet(S), NEW order \in SetToSeqs(S)
  PROVE  order \in Seq(S) /\ ToSet(order) = S
<1> DEFINE n == Cardinality(S)
<1>1. n \in Nat /\ order \in [1..n -> S] /\ \A i, j \in 1..n : i # j => order[i] # order[j]
  BY FS_CardinalityType DEF SetToSeqs
<1> HIDE DEF n
<1>2. order \in Injection(1..n, S)
  BY <1>1 DEF Injection, IsInjective
<1>3. Cardinality(1..n) = n
  <2>1. 1 \in Int /\ n \in Int
    BY <1>1
  <2> QED BY <1>1, <2>1, FS_Interval
<1>4. order \in Surjection(1..n, S)
  BY <1>2, <1>3, FS_Injection DEF n
<1>5. \A x \in S : \E i \in 1..n : order[i] = x
  BY <1>4 DEF Surjection
<1>6. order \in Seq(S)
  BY <1>1
<1> QED BY <1>1, <1>5, <1>6 DEF ToSet

\* A page of a sequence, from behind an offset up to a place.
LEMMA PageRows ==
  ASSUME NEW T, NEW s \in Seq(T), NEW o \in Nat, NEW n \in Nat, o <= n, n <= Len(s)
  PROVE  /\ SubSeq(s, o + 1, n) \in Seq(T) /\ Len(SubSeq(s, o + 1, n)) = n - o
         /\ \A i \in 1..(n - o) : SubSeq(s, o + 1, n)[i] = s[o + i]
<1>1. Len(s) \in Nat
  OBVIOUS
<1>2. SubSeq(s, o + 1, n) \in Seq(T) /\ Len(SubSeq(s, o + 1, n)) = n - o
  BY <1>1
<1>3. ASSUME NEW i \in 1..(n - o) PROVE SubSeq(s, o + 1, n)[i] = s[o + i]
  <2>1. o + i = o + 1 + i - 1 /\ o + i \in 1..Len(s)
    BY <1>1
  <2>2. SubSeq(s, o + 1, n) = [k \in 1..(n - (o + 1) + 1) |-> s[k + (o + 1) - 1]]
    BY <1>1
  <2>3. n - (o + 1) + 1 = n - o /\ i + (o + 1) - 1 = o + i
    BY <1>1
  <2> QED BY <2>2, <2>3
<1> QED BY <1>2, <1>3

\* The values of a list are finitely many.
LEMMA ValuesOfList == ASSUME NEW n \in Nat, NEW f PROVE IsFiniteSet({f[i] : i \in 1..n})
<1> DEFINE S == {f[i] : i \in 1..n}
           g == [i \in 1..n |-> f[i]]
<1>1. IsFiniteSet(1..n)
  <2>1. 1 \in Int /\ n \in Int
    OBVIOUS
  <2> QED BY <2>1, FS_Interval
<1>2. g \in [1..n -> S] /\ \A x \in S : \E i \in 1..n : g[i] = x
  OBVIOUS
<1> HIDE DEF g, S
<1>3. g \in Surjection(1..n, S)
  BY <1>2 DEF Surjection
<1> QED BY <1>1, <1>3, FS_Surjection DEF S
=============================================================================
