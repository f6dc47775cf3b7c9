---------------------------- MODULE StorageProofs ----------------------------
(*****************************************************************************)
(* Proofs about the rows of a castle, for any ids, metadata and processes:   *)
(*   RowsAreSound         every id keeps one row, and its document until an  *)
(*                        update asks for ids out of the order of the scan   *)
(*   CollectionImplements a process that is alone has CollectionContract     *)
(*   CandidatesAreSound   what is proposed and reviewed is the graph's       *)
(*   ReforgesAreSound     searches compare like with like                    *)
(* and, with what CastleProofs has of the other parts, about a castle:       *)
(* StorageIsSound, GraphIsSound, ShownIsSound, AnswersAreSound, CastleTyped. *)
(*****************************************************************************)
EXTENDS MCCastle, CastleProofs

-----------------------------------------------------------------------------
(* Collections: the inductive invariant.                                   *)

\* merge_insert fails only where one process is at work.
OneMerges == \A s \in Setting : s.lance /\ s.shared => ~s.failing

\* What a call carries.
Arg == (UNION {[X -> Contract!Record \cup {Absent} \cup Meta] : X \in SUBSET Id}) \cup {<<>>}
CallRecord ==
  [pc : {"idle", "upsert", "drop", "delete", "get"}, op : {"put", "update", NoCall},
   ids : Seq(Id), arg : Arg, batch : Seq(Row), left : SUBSET Id]

OneEach(rs) == \A j, k \in DOMAIN rs : rs[j].id = rs[k].id => j = k
OwnEach(rs) == \A k \in DOMAIN rs : rs[k].doc = rs[k].id

\* An upsert or a delete: the records are those the caller gave.
PutCall(c) ==
  /\ c.op = "put"
  /\ \/ c.pc = "delete" /\ c.batch = <<>> /\ c.arg = [i \in ToSet(c.ids) |-> Absent]
     \/ /\ c.pc \in {"upsert", "drop"}
        /\ \E m \in Meta :
             /\ c.arg = [i \in ToSet(c.ids) |-> [doc |-> i, meta |-> m]]
             /\ c.batch = [k \in DOMAIN c.ids |-> [id |-> c.ids[k], doc |-> c.ids[k], meta |-> m]]

\* An update: once it has read, it has a row for ids it was asked for.
UpdateCall(c) ==
  /\ c.op = "update" /\ c.arg \in [ToSet(c.ids) -> Meta]
  /\ \/ c.pc = "get" /\ c.batch = <<>>
     \/ /\ c.pc \in {"upsert", "drop"}
        /\ \A k \in DOMAIN c.batch : c.batch[k].id \in ToSet(c.ids) /\ c.batch[k].meta = c.arg[c.batch[k].id]

CallSound(c) ==
  c # NotCalling =>
    /\ c.ids \in Batch /\ (PutCall(c) \/ UpdateCall(c))
    /\ OneEach(c.batch) /\ c.left \subseteq IdsOf(c.batch)
    /\ c.pc = "drop" => setting.lance /\ setting.failing

\* A process that is alone: its handle is as the table is, and what it has read
\* is still so.
AloneSound ==
  /\ opened[First] = table
  /\ \A q \in Process \ {First} : call[q] = NotCalling
  /\ LET c == call[First]
     IN /\ c.pc = "upsert" /\ c.op = "update" /\ ~misread => IdsOf(c.batch) = IdsOf(rows) \cap ToSet(c.ids)
        /\ c.pc = "drop" => table /\ IdsOf(rows) \cap IdsOf(c.batch) \subseteq c.left

\* Until an update misreads, documents are with their ids in the table and on
\* their way to it.
DocumentsOwn == misread \/ (OwnEach(rows) /\ \A p \in Process : OwnEach(call[p].batch))

CollectionsInv ==
  /\ misread \in BOOLEAN /\ DocumentsOwn
  /\ setting \in Setting /\ table \in BOOLEAN /\ restarts \in 0..MaxCrashes
  /\ rows \in Seq(Row) /\ OneEach(rows) /\ (~table => rows = <<>>)
  /\ opened \in [Process -> BOOLEAN]
  /\ setting.shared \/ ~setting.lance => table /\ \A p \in Process : opened[p]
  /\ call \in [Process -> CallRecord] /\ \A p \in Process : CallSound(call[p])
  /\ ~setting.shared => AloneSound

-----------------------------------------------------------------------------
(* Collections: rows.                                                      *)

\* The rows found are those at the places picked, and none comes twice.
LEMMA PartOfRows ==
  ASSUME NEW rs \in Seq(Row), NEW K \in SUBSET (1..Len(rs))
  PROVE  /\ Picked(rs, K) \in Seq(Row)
         /\ ToSet(Picked(rs, K)) = {rs[k] : k \in K}
         /\ IdsOf(Picked(rs, K)) = {rs[k].id : k \in K}
         /\ OneEach(rs) => OneEach(Picked(rs, K))
         /\ OwnEach(rs) => OwnEach(Picked(rs, K))
<1> DEFINE n == Cardinality(K)
           ps == Picked(rs, K)
           at == Ascending(K)
<1>1. /\ n \in Nat /\ ps \in Seq(Row) /\ Len(ps) = n
      /\ at \in [1..n -> K]
  BY PickedRows
<1>2. /\ \A i \in 1..n : ps[i] = rs[at[i]]
      /\ \A i, j \in 1..n : i < j => at[i] < at[j]
      /\ \A k \in K : \E i \in 1..n : at[i] = k
  BY PickedRows
<1> HIDE DEF n, ps, at
<1>3. DOMAIN ps = 1..n /\ DOMAIN rs = 1..Len(rs)
  BY <1>1
<1>4. ToSet(ps) = {rs[k] : k \in K}
  <2>1. ToSet(ps) = {ps[i] : i \in 1..n}
    BY <1>3 DEF ToSet
  <2>2. \A k \in K : \E i \in 1..n : rs[k] = ps[i]
    BY <1>1, <1>2
  <2>3. \A i \in 1..n : \E k \in K : ps[i] = rs[k]
    BY <1>1, <1>2
  <2> QED BY <2>1, <2>2, <2>3
<1>5. IdsOf(ps) = {rs[k].id : k \in K}
  <2>1. IdsOf(ps) = {r.id : r \in ToSet(ps)}
    BY DEF IdsOf, ToSet
  <2>2. {r.id : r \in {rs[k] : k \in K}} = {rs[k].id : k \in K}
    OBVIOUS
  <2> QED BY <1>4, <2>1, <2>2
<1>6. ASSUME OneEach(rs), NEW i \in 1..n, NEW j \in 1..n, ps[i].id = ps[j].id
      PROVE  i = j
  <2>1. at[i] \in 1..Len(rs) /\ at[j] \in 1..Len(rs)
    BY <1>1, <1>2
  <2>2. at[i] = at[j]
    BY <1>1, <1>2, <1>3, <1>6, <2>1 DEF OneEach
  <2>3. ~(i < j) /\ ~(j < i)
    BY <1>2, <2>1, <2>2
  <2> QED BY <1>1, <2>3
<1>7. ASSUME OwnEach(rs), NEW i \in 1..n
      PROVE  ps[i].doc = ps[i].id
  <2>1. at[i] \in DOMAIN rs
    BY <1>1, <1>3
  <2> QED BY <1>2, <1>7, <2>1 DEF OwnEach
<1>8. (OneEach(rs) => OneEach(ps)) /\ (OwnEach(rs) => OwnEach(ps))
  BY <1>3, <1>6, <1>7 DEF OneEach, OwnEach
<1> QED BY <1>1, <1>4, <1>5, <1>8 DEF ps

\* get(ids) returns the rows with those ids, each once.
LEMMA ScannedRows ==
  ASSUME NEW rs \in Seq(Row), NEW ids
  PROVE  /\ Scanned(rs, ids) \in Seq(Row)
         /\ ToSet(Scanned(rs, ids)) = {r \in ToSet(rs) : r.id \in ids}
         /\ IdsOf(Scanned(rs, ids)) = IdsOf(rs) \cap ids
         /\ OneEach(rs) => OneEach(Scanned(rs, ids))
         /\ OwnEach(rs) => OwnEach(Scanned(rs, ids))
<1> DEFINE K == {k \in DOMAIN rs : rs[k].id \in ids}
<1>1. K \in SUBSET (1..Len(rs))
  OBVIOUS
<1>2. {rs[k] : k \in K} = {r \in ToSet(rs) : r.id \in ids}
  BY DEF ToSet
<1>3. {rs[k].id : k \in K} = IdsOf(rs) \cap ids
  BY DEF IdsOf
<1>4. Scanned(rs, ids) = Picked(rs, K)
  BY DEF Scanned
<1> HIDE DEF K
<1> QED BY <1>1, <1>2, <1>3, <1>4, PartOfRows

\* What a delete leaves.
LEMMA WithoutRows ==
  ASSUME NEW rs \in Seq(Row), NEW ids
  PROVE  /\ Without(rs, ids) \in Seq(Row)
         /\ ToSet(Without(rs, ids)) = {r \in ToSet(rs) : r.id \notin ids}
         /\ IdsOf(Without(rs, ids)) = IdsOf(rs) \ ids
         /\ OneEach(rs) => OneEach(Without(rs, ids))
         /\ OwnEach(rs) => OwnEach(Without(rs, ids))
<1> DEFINE K == {k \in DOMAIN rs : rs[k].id \notin ids}
<1>1. K \in SUBSET (1..Len(rs))
  OBVIOUS
<1>2. {rs[k] : k \in K} = {r \in ToSet(rs) : r.id \notin ids}
  BY DEF ToSet
<1>3. {rs[k].id : k \in K} = IdsOf(rs) \ ids
  BY DEF IdsOf
<1>4. Without(rs, ids) = Picked(rs, K)
  BY DEF Without
<1> HIDE DEF K
<1> QED BY <1>1, <1>2, <1>3, <1>4, PartOfRows

\* Rows added to rows with other ids.
LEMMA AddedRows ==
  ASSUME NEW rs \in Seq(Row), NEW ts \in Seq(Row), IdsOf(rs) \cap IdsOf(ts) = {}
  PROVE  /\ rs \o ts \in Seq(Row)
         /\ ToSet(rs \o ts) = ToSet(rs) \cup ToSet(ts)
         /\ IdsOf(rs \o ts) = IdsOf(rs) \cup IdsOf(ts)
         /\ OneEach(rs) /\ OneEach(ts) => OneEach(rs \o ts)
         /\ OwnEach(rs) /\ OwnEach(ts) => OwnEach(rs \o ts)
<1> DEFINE n == Len(rs)
           m == Len(ts)
           us == rs \o ts
<1>1. /\ n \in Nat /\ m \in Nat /\ us \in Seq(Row) /\ DOMAIN us = 1..(n + m)
      /\ DOMAIN rs = 1..n /\ DOMAIN ts = 1..m
  OBVIOUS
<1>2. \A k \in 1..n : us[k] = rs[k]
  OBVIOUS
<1>3. \A k \in 1..m : us[n + k] = ts[k]
  OBVIOUS
<1> HIDE DEF us, n, m
<1>4. \A k \in 1..(n + m) : k \in 1..n \/ (k - n \in 1..m /\ k = n + (k - n))
  BY <1>1
<1>5. \A k \in 1..n : k \in 1..(n + m)
  BY <1>1
<1>6. \A k \in 1..m : n + k \in 1..(n + m)
  BY <1>1
<1>7. ToSet(us) = ToSet(rs) \cup ToSet(ts)
  <2>1. /\ ToSet(us) = {us[k] : k \in 1..(n + m)}
        /\ ToSet(rs) = {rs[k] : k \in 1..n} /\ ToSet(ts) = {ts[k] : k \in 1..m}
    BY <1>1 DEF ToSet
  <2>2. ASSUME NEW k \in 1..(n + m)
        PROVE  us[k] \in {rs[i] : i \in 1..n} \cup {ts[i] : i \in 1..m}
    <3>1. CASE k \in 1..n
      BY <1>2, <3>1
    <3>2. CASE k - n \in 1..m /\ k = n + (k - n)
      BY <1>3, <3>2
    <3> QED BY <1>4, <3>1, <3>2
  <2>3. ASSUME NEW k \in 1..n
        PROVE  rs[k] \in {us[i] : i \in 1..(n + m)}
    BY <1>2, <1>5
  <2>4. ASSUME NEW k \in 1..m
        PROVE  ts[k] \in {us[i] : i \in 1..(n + m)}
    BY <1>3, <1>6
  <2> QED BY <2>1, <2>2, <2>3, <2>4
<1>8. IdsOf(us) = IdsOf(rs) \cup IdsOf(ts)
  <2>1. \A rest : rest \in Seq(Row) => IdsOf(rest) = {r.id : r \in ToSet(rest)}
    BY DEF IdsOf, ToSet
  <2>2. {r.id : r \in ToSet(us)} = {r.id : r \in ToSet(rs)} \cup {r.id : r \in ToSet(ts)}
    BY <1>7
  <2> QED BY <1>1, <2>1, <2>2
<1>9. ASSUME OneEach(rs), OneEach(ts), NEW j \in 1..(n + m), NEW k \in 1..(n + m), us[j].id = us[k].id
      PROVE  j = k
  <2>1. CASE j \in 1..n /\ k \in 1..n
    BY <1>1, <1>2, <1>9, <2>1 DEF OneEach
  <2>2. CASE j - n \in 1..m /\ k - n \in 1..m
    <3>1. us[j] = ts[j - n] /\ us[k] = ts[k - n]
      BY <1>3, <1>4, <2>2, <1>1
    <3>2. j - n = k - n
      BY <1>1, <1>9, <2>2, <3>1 DEF OneEach
    <3> QED BY <3>2, <1>1
  <2>3. ASSUME NEW a \in 1..n, NEW b \in 1..m
        PROVE  us[a].id # us[n + b].id
    BY <1>1, <1>2, <1>3 DEF IdsOf
  <2> QED BY <1>4, <1>9, <2>1, <2>2, <2>3
<1>10. ASSUME OwnEach(rs), OwnEach(ts), NEW k \in 1..(n + m)
       PROVE  us[k].doc = us[k].id
  <2>1. CASE k \in 1..n
    BY <1>1, <1>2, <1>10, <2>1 DEF OwnEach
  <2>2. CASE k - n \in 1..m
    <3>1. us[k] = ts[k - n]
      BY <1>3, <1>4, <2>2, <1>1
    <3> QED BY <1>1, <1>10, <2>2, <3>1 DEF OwnEach
  <2> QED BY <1>4, <2>1, <2>2
<1>11. (OneEach(rs) /\ OneEach(ts) => OneEach(us)) /\ (OwnEach(rs) /\ OwnEach(ts) => OwnEach(us))
  BY <1>1, <1>9, <1>10 DEF OneEach, OwnEach
<1> QED BY <1>1, <1>7, <1>8, <1>11 DEF us

\* upsert leaves one row of each id, that of the batch where it has one.
LEMMA MergedRows ==
  ASSUME NEW batch \in Seq(Row), rows \in Seq(Row), OneEach(rows), OneEach(batch)
  PROVE  /\ Merged(batch) \in Seq(Row) /\ OneEach(Merged(batch))
         /\ ToSet(Merged(batch)) = {r \in ToSet(rows) : r.id \notin IdsOf(batch)} \cup ToSet(batch)
         /\ IdsOf(Merged(batch)) = IdsOf(rows) \cup IdsOf(batch)
         /\ OwnEach(rows) /\ OwnEach(batch) => OwnEach(Merged(batch))
<1> DEFINE others == Without(rows, IdsOf(batch))
<1>1. /\ others \in Seq(Row) /\ OneEach(others)
      /\ ToSet(others) = {r \in ToSet(rows) : r.id \notin IdsOf(batch)}
      /\ IdsOf(others) = IdsOf(rows) \ IdsOf(batch)
      /\ OwnEach(rows) => OwnEach(others)
  BY WithoutRows
<1>2. Merged(batch) = others \o batch
  BY DEF Merged
<1> HIDE DEF others
<1> QED BY <1>1, <1>2, AddedRows

\* The primary key, as the length of the table states it.
LEMMA OneRowEach ==
  ASSUME NEW rs \in Seq(Row), OneEach(rs)
  PROVE  Len(rs) = Cardinality(IdsOf(rs))
<1> DEFINE n == Len(rs)
           f == [k \in 1..n |-> rs[k].id]
<1>1. n \in Nat /\ DOMAIN rs = 1..n
  OBVIOUS
<1>2. IsFiniteSet(1..n) /\ Cardinality(1..n) = n
  BY <1>1, FS_Interval
<1>3. f \in [1..n -> IdsOf(rs)] /\ (\A t \in IdsOf(rs) : \E k \in 1..n : f[k] = t)
  BY <1>1 DEF IdsOf
<1>4. \A j, k \in 1..n : f[j] = f[k] => j = k
  BY <1>1 DEF OneEach
<1>5. DOMAIN f = 1..n
  OBVIOUS
<1> HIDE DEF f, n
<1>6. f \in Surjection(1..n, IdsOf(rs)) /\ f \in Injection(1..n, IdsOf(rs))
  BY <1>3, <1>4, <1>5 DEF Surjection, Injection, IsInjective
<1>7. Cardinality(IdsOf(rs)) = Cardinality(1..n)
  BY <1>2, <1>6, FS_Surjection
<1> QED BY <1>2, <1>7 DEF n

\* A table has finitely many ids, and the rows of it are at most as many.
LEMMA FinitelyMany ==
  ASSUME NEW T, NEW s \in Seq(T)
  PROVE  IsFiniteSet(ToSet(s)) /\ Cardinality(ToSet(s)) \in Nat /\ Cardinality(ToSet(s)) <= Len(s)
<1> DEFINE n == Len(s)
<1>1. n \in Nat /\ DOMAIN s = 1..n
  OBVIOUS
<1>2. IsFiniteSet(1..n) /\ Cardinality(1..n) = n
  BY <1>1, FS_Interval
<1>3. s \in [1..n -> ToSet(s)] /\ \A t \in ToSet(s) : \E k \in 1..n : s[k] = t
  BY <1>1 DEF ToSet
<1> HIDE DEF n
<1>4. s \in Surjection(1..n, ToSet(s))
  BY <1>3 DEF Surjection
<1>5. IsFiniteSet(ToSet(s)) /\ Cardinality(ToSet(s)) <= n
  BY <1>2, <1>4, FS_Surjection
<1> QED BY <1>5, FS_CardinalityType DEF n

LEMMA FiniteIds ==
  ASSUME NEW rs \in Seq(Row)
  PROVE  IsFiniteSet(IdsOf(rs)) /\ IdsOf(rs) \in SUBSET Id /\ IdsOf(rs) \in SUBSET Int
<1> DEFINE ids == [k \in 1..Len(rs) |-> rs[k].id]
<1>1. ids \in Seq(Id) /\ ToSet(ids) = IdsOf(rs)
  <2>1. ASSUME NEW k \in 1..Len(rs)
        PROVE  rs[k].id \in Id
    <3>1. rs[k] \in Row
      OBVIOUS
    <3> QED BY <3>1 DEF Row
  <2>2. DOMAIN ids = 1..Len(rs) /\ DOMAIN rs = 1..Len(rs)
    OBVIOUS
  <2>3. ids \in Seq(Id)
    BY <2>1
  <2>4. ToSet(ids) = {rs[k].id : k \in 1..Len(rs)}
    BY <2>2 DEF ToSet
  <2> QED BY <2>2, <2>3, <2>4 DEF IdsOf
<1>2. IdsOf(rs) \in SUBSET Id
  BY <1>1 DEF ToSet
<1>3. Id \in SUBSET Int
  BY CollectionsAssumption
<1> HIDE DEF ids
<1> QED BY <1>1, <1>2, <1>3, FinitelyMany

\* An id has one row.
LEMMA RowOfId ==
  ASSUME NEW rs \in Seq(Row), OneEach(rs), NEW i \in IdsOf(rs)
  PROVE  LET r == CHOOSE r \in ToSet(rs) : r.id = i
         IN  r \in ToSet(rs) /\ r \in Row /\ r.id = i /\ \A u \in ToSet(rs) : u.id = i => u = r
<1> DEFINE r == CHOOSE u \in ToSet(rs) : u.id = i
<1>1. \E u \in ToSet(rs) : u.id = i
  BY DEF IdsOf, ToSet
<1>2. r \in ToSet(rs) /\ r.id = i
  BY <1>1
<1> HIDE DEF r
<1>3. ASSUME NEW u \in ToSet(rs), u.id = i
      PROVE  u = r
  <2>1. PICK j \in DOMAIN rs : rs[j] = u
    BY DEF ToSet
  <2>2. PICK k \in DOMAIN rs : rs[k] = r
    BY <1>2 DEF ToSet
  <2> QED BY <1>2, <1>3, <2>1, <2>2 DEF OneEach
<1>4. r \in Row
  BY <1>2 DEF ToSet
<1> QED BY <1>2, <1>3, <1>4 DEF r

\* get returns each row asked for once, in either order.
LEMMA FoundRows ==
  ASSUME rows \in Seq(Row), OneEach(rows), NEW p \in Process, opened[p]
  PROVE  /\ Found(p) \in Seq(Row) /\ OneEach(Found(p))
         /\ ToSet(Found(p)) = {r \in ToSet(rows) : r.id \in ToSet(call[p].ids)}
         /\ IdsOf(Found(p)) = IdsOf(rows) \cap ToSet(call[p].ids)
         /\ OwnEach(rows) => OwnEach(Found(p))
<1> DEFINE found == Scanned(rows, ToSet(call[p].ids))
           ids == Ascending(IdsOf(found))
           n == Cardinality(IdsOf(found))
           sorted == [k \in DOMAIN ids |-> CHOOSE r \in ToSet(found) : r.id = ids[k]]
<1>1. /\ found \in Seq(Row) /\ OneEach(found)
      /\ ToSet(found) = {r \in ToSet(rows) : r.id \in ToSet(call[p].ids)}
      /\ IdsOf(found) = IdsOf(rows) \cap ToSet(call[p].ids)
      /\ OwnEach(rows) => OwnEach(found)
  BY ScannedRows
<1>2. Found(p) = IF setting.lance THEN found ELSE sorted
  BY DEF Found
<1> HIDE DEF found
<1>3. /\ n \in Nat /\ ids \in [1..n -> IdsOf(found)]
      /\ \A i, j \in 1..n : i < j => ids[i] < ids[j]
      /\ \A k \in IdsOf(found) : \E i \in 1..n : ids[i] = k
  BY <1>1, FiniteIds, AscendingNumbers
<1>4. DOMAIN sorted = 1..n
  BY <1>3
<1>5. \A i \in 1..n : ids[i] \in IdsOf(found)
  BY <1>3
<1> HIDE DEF ids, n
<1>6. ASSUME NEW i \in 1..n
      PROVE  /\ sorted[i] \in ToSet(found) /\ sorted[i] \in Row /\ sorted[i].id = ids[i]
             /\ \A u \in ToSet(found) : u.id = ids[i] => u = sorted[i]
  <2>1. sorted[i] = CHOOSE r \in ToSet(found) : r.id = ids[i]
    BY <1>4
  <2> HIDE DEF sorted
  <2> QED BY <1>1, <1>5, <2>1, RowOfId
<1> HIDE DEF sorted
<1>7. sorted \in Seq(Row)
  <2>1. sorted = [i \in 1..n |-> sorted[i]]
    BY <1>4 DEF sorted
  <2> QED BY <1>3, <1>6, <2>1
<1>8. ToSet(sorted) = ToSet(found)
  <2>1. \A u \in ToSet(found) : u.id \in IdsOf(found)
    BY DEF ToSet, IdsOf
  <2>2. \A u \in ToSet(found) : \E i \in 1..n : sorted[i] = u
    BY <1>3, <1>6, <2>1
  <2>3. ToSet(sorted) = {sorted[i] : i \in 1..n}
    BY <1>4 DEF ToSet
  <2> QED BY <1>6, <2>2, <2>3
<1>9. IdsOf(sorted) = IdsOf(found)
  <2>1. IdsOf(sorted) = {r.id : r \in ToSet(sorted)} /\ IdsOf(found) = {r.id : r \in ToSet(found)}
    BY DEF ToSet, IdsOf
  <2> QED BY <1>8, <2>1
<1>10. OneEach(sorted)
  <2>1. ASSUME NEW i \in 1..n, NEW j \in 1..n, sorted[i].id = sorted[j].id
        PROVE  i = j
    <3>1. ids[i] = ids[j] /\ ids[i] \in Int
      BY <1>1, <1>5, <1>6, <2>1, FiniteIds
    <3>2. ~(i < j) /\ ~(j < i)
      BY <1>3, <3>1
    <3> QED BY <1>3, <3>2
  <2> QED BY <1>4, <2>1 DEF OneEach
<1>11. OwnEach(found) => OwnEach(sorted)
  <2>1. OwnEach(found) => \A u \in ToSet(found) : u.doc = u.id
    BY DEF OwnEach, ToSet
  <2> QED BY <1>4, <1>6, <2>1 DEF OwnEach
<1> QED BY <1>1, <1>2, <1>7, <1>8, <1>9, <1>10, <1>11

-----------------------------------------------------------------------------
(* Collections: every step keeps the invariant.                            *)

Acting(p) == p \in Process /\ (setting.shared \/ p = First)

LEMMA SettingType ==
  ASSUME CollectionsInv
  PROVE  setting \in [lance : BOOLEAN, shared : BOOLEAN, failing : BOOLEAN]
BY CollectionsAssumption DEF CollectionsInv

LEMMA NotCallingSound ==
  /\ NotCalling \in CallRecord /\ CallSound(NotCalling)
  /\ NotCalling.pc = "idle" /\ NotCalling.op = NoCall /\ NotCalling.ids = <<>>
<1>1. <<>> \in Arg
  <2>1. \A A, e : e \in A \cup {e}
    OBVIOUS
  <2> QED BY <2>1, Zenon DEF Arg
<1> QED BY <1>1 DEF NotCalling, CallRecord, CallSound

\* The ids of a call.
LEMMA BatchIds ==
  ASSUME NEW ids \in Batch
  PROVE  /\ ids \in Seq(Id) /\ ids # <<>> /\ IsInjective(ids)
         /\ ToSet(ids) \in SUBSET Id /\ ToSet(ids) # {} /\ DOMAIN ids = 1..Len(ids)
<1>1. PICK n \in 1..2 : ids \in [1..n -> Id]
  BY DEF Batch
<1>2. ids \in Seq(Id) /\ Len(ids) = n /\ IsInjective(ids)
  BY <1>1 DEF Batch
<1>3. ids[1] \in ToSet(ids)
  BY <1>1 DEF ToSet
<1> QED BY <1>1, <1>2, <1>3 DEF ToSet

\* A call in progress is not idle.
LEMMA CallingSound ==
  ASSUME NEW c \in CallRecord, CallSound(c), c # NotCalling
  PROVE  c.pc # "idle" /\ c.op \in {"put", "update"} /\ c.ids \in Batch
BY DEF CallSound, PutCall, UpdateCall

\* What one process does leaves the calls of the others as they are.
LEMMA CallsKept ==
  ASSUME CollectionsInv, NEW p \in Process, NEW c \in CallRecord, CallSound(c),
         call' = [call EXCEPT ![p] = c], UNCHANGED setting
  PROVE  /\ (call \in [Process -> CallRecord] /\ \A q \in Process : CallSound(call[q]))'
         /\ call'[p] = c
         /\ \A q \in Process : q # p => call'[q] = call[q]
<1>1. call \in [Process -> CallRecord] /\ \A q \in Process : CallSound(call[q])
  BY DEF CollectionsInv
<1>2. call' \in [Process -> CallRecord] /\ call'[p] = c /\ \A q \in Process : q # p => call'[q] = call[q]
  BY <1>1
<1>3. ASSUME NEW q \in Process
      PROVE  CallSound(call[q])'
  <2>1. CASE q = p
    BY <1>2, <2>1 DEF CallSound
  <2>2. CASE q # p
    BY <1>1, <1>2, <2>2 DEF CallSound
  <2> QED BY <2>1, <2>2
<1> QED BY <1>2, <1>3

\* While one process is at work, it is First.
LEMMA AloneKept ==
  ASSUME CollectionsInv, NEW p \in Process, Acting(p), NEW c \in CallRecord, CallSound(c),
         call' = [call EXCEPT ![p] = c], UNCHANGED setting,
         ~setting.shared =>
           /\ opened'[First] = table'
           /\ c.pc = "upsert" /\ c.op = "update" /\ ~misread' => IdsOf(c.batch) = IdsOf(rows') \cap ToSet(c.ids)
           /\ c.pc = "drop" => table' /\ IdsOf(rows') \cap IdsOf(c.batch) \subseteq c.left
  PROVE  (~setting.shared => AloneSound)'
<1>1. CASE setting.shared
  BY <1>1
<1>2. CASE ~setting.shared
  <2>1. p = First
    BY <1>2 DEF Acting
  <2>2. call'[First] = c /\ \A q \in Process : q # First => call'[q] = call[q]
    BY <2>1, CallsKept
  <2>3. \A q \in Process \ {First} : call'[q] = NotCalling
    BY <1>2, <2>2 DEF CollectionsInv, AloneSound
  <2> QED BY <1>2, <2>2, <2>3 DEF AloneSound
<1> QED BY <1>1, <1>2

\* A step that brings no document to another id leaves all with their own.
LEMMA OwnKept ==
  ASSUME CollectionsInv, NEW p \in Process, NEW c \in CallRecord, call' = [call EXCEPT ![p] = c],
         misread' \in BOOLEAN, misread => misread',
         DocumentsOwn /\ ~misread' => OwnEach(rows') /\ OwnEach(c.batch)
  PROVE  (misread \in BOOLEAN /\ DocumentsOwn)'
<1>1. CASE misread'
  BY <1>1 DEF DocumentsOwn
<1>2. CASE ~misread'
  <2>1. OwnEach(rows') /\ OwnEach(c.batch) /\ \A q \in Process : OwnEach(call[q].batch)
    BY <1>2 DEF CollectionsInv, DocumentsOwn
  <2>2. call'[p] = c /\ \A q \in Process : q # p => call'[q] = call[q]
    BY DEF CollectionsInv
  <2>3. ASSUME NEW q \in Process
        PROVE  OwnEach(call[q].batch)'
    <3>1. CASE q = p
      BY <2>1, <2>2, <3>1 DEF OwnEach
    <3>2. CASE q # p
      BY <2>1, <2>2, <3>2 DEF OwnEach
    <3> QED BY <3>1, <3>2
  <2>4. OwnEach(rows)'
    BY <2>1 DEF OwnEach
  <2> QED BY <2>3, <2>4 DEF DocumentsOwn
<1> QED BY <1>1, <1>2

\* A call begins.
LEMMA BeginKeeps ==
  ASSUME CollectionsInv, NEW p \in Process, Acting(p), NEW pc, NEW op, NEW ids, NEW arg, NEW batch,
         Begin(p, pc, op, ids, arg, batch),
         NEW c \in CallRecord, CallSound(c),
         c = [pc |-> pc, op |-> op, ids |-> ids, arg |-> arg, batch |-> batch, left |-> {}],
         c.pc = "upsert" => c.op = "put",
         c.pc # "drop", OwnEach(batch)
  PROVE  CollectionsInv'
<1>1. call' = [call EXCEPT ![p] = c]
  BY DEF Begin
<1>2. UNCHANGED <<setting, table, rows, opened, restarts, misread>>
  BY DEF Begin
<1>3. (call \in [Process -> CallRecord] /\ \A q \in Process : CallSound(call[q]))'
  BY <1>1, <1>2, CallsKept
<1>4. (misread \in BOOLEAN /\ DocumentsOwn)'
  <2>1. misread \in BOOLEAN /\ (DocumentsOwn /\ ~misread' => OwnEach(rows'))
    BY <1>2 DEF CollectionsInv, DocumentsOwn, OwnEach
  <2> QED BY <1>1, <1>2, <2>1, OwnKept
<1>5. (~setting.shared => AloneSound)'
  <2>1. ~setting.shared => opened[First] = table
    BY DEF CollectionsInv, AloneSound
  <2> QED BY <1>1, <1>2, <2>1, AloneKept
<1> QED BY <1>2, <1>3, <1>4, <1>5 DEF CollectionsInv

LEMMA CallUpsertKeeps ==
  ASSUME CollectionsInv, NEW p \in Process, Acting(p), NEW ids \in Batch, NEW m \in Meta, CallUpsert(p, ids, m)
  PROVE  CollectionsInv'
<1> DEFINE arg == [i \in ToSet(ids) |-> [doc |-> i, meta |-> m]]
           batch == [k \in DOMAIN ids |-> [id |-> ids[k], doc |-> ids[k], meta |-> m]]
           c == [pc |-> "upsert", op |-> "put", ids |-> ids, arg |-> arg, batch |-> batch, left |-> {}]
<1>1. /\ ids \in Seq(Id) /\ ToSet(ids) \in SUBSET Id /\ DOMAIN ids = 1..Len(ids) /\ IsInjective(ids)
  BY BatchIds
<1>2. arg \in Arg
  <2>1. arg \in [ToSet(ids) -> Contract!Record \cup {Absent} \cup Meta]
    BY <1>1 DEF Contract!Record, Doc
  <2> QED BY <1>1, <2>1 DEF Arg
<1>3. batch \in Seq(Row)
  <2>1. \A k \in 1..Len(ids) : ids[k] \in Id
    BY <1>1
  <2>2. \A k \in 1..Len(ids) : [id |-> ids[k], doc |-> ids[k], meta |-> m] \in Row
    BY <2>1 DEF Row, Doc
  <2> QED BY <1>1, <2>2
<1>4. OneEach(batch) /\ OwnEach(batch)
  BY <1>1 DEF OneEach, OwnEach, IsInjective
<1>5. c \in CallRecord
  BY <1>1, <1>2, <1>3 DEF CallRecord
<1>6. CallSound(c)
  <2>1. PutCall(c)
    BY DEF PutCall
  <2> QED BY <1>4, <2>1 DEF CallSound
<1>7. Begin(p, "upsert", "put", ids, arg, batch)
  BY DEF CallUpsert
<1> HIDE DEF arg, batch
<1> QED BY <1>4, <1>5, <1>6, <1>7, BeginKeeps

LEMMA CallDeleteKeeps ==
  ASSUME CollectionsInv, NEW p \in Process, Acting(p), NEW ids \in Batch, CallDelete(p, ids)
  PROVE  CollectionsInv'
<1> DEFINE arg == [i \in ToSet(ids) |-> Absent]
           c == [pc |-> "delete", op |-> "put", ids |-> ids, arg |-> arg, batch |-> <<>>, left |-> {}]
<1>1. ids \in Seq(Id) /\ ToSet(ids) \in SUBSET Id
  BY BatchIds
<1>2. arg \in Arg
  <2>1. arg \in [ToSet(ids) -> Contract!Record \cup {Absent} \cup Meta]
    OBVIOUS
  <2> QED BY <1>1, <2>1 DEF Arg
<1>3. c \in CallRecord
  BY <1>1, <1>2 DEF CallRecord
<1>4. CallSound(c)
  <2>1. PutCall(c)
    BY DEF PutCall
  <2> QED BY <2>1 DEF CallSound, OneEach
<1>5. Begin(p, "delete", "put", ids, arg, <<>>)
  BY DEF CallDelete
<1>6. OwnEach(<<>>)
  BY DEF OwnEach
<1> HIDE DEF arg
<1> QED BY <1>3, <1>4, <1>5, <1>6, BeginKeeps

LEMMA CallUpdateKeeps ==
  ASSUME CollectionsInv, NEW p \in Process, Acting(p), NEW ids \in Batch, NEW m \in Meta, CallUpdate(p, ids, m)
  PROVE  CollectionsInv'
<1> DEFINE arg == [i \in ToSet(ids) |-> m]
           c == [pc |-> "get", op |-> "update", ids |-> ids, arg |-> arg, batch |-> <<>>, left |-> {}]
<1>1. ids \in Seq(Id) /\ ToSet(ids) \in SUBSET Id
  BY BatchIds
<1>2. arg \in [ToSet(ids) -> Meta]
  OBVIOUS
<1>3. arg \in Arg
  <2>1. arg \in [ToSet(ids) -> Contract!Record \cup {Absent} \cup Meta]
    OBVIOUS
  <2> QED BY <1>1, <2>1 DEF Arg
<1> HIDE DEF arg
<1>4. c \in CallRecord
  BY <1>1, <1>3 DEF CallRecord
<1>5. CallSound(c)
  <2>1. UpdateCall(c)
    BY <1>2 DEF UpdateCall
  <2> QED BY <2>1 DEF CallSound, OneEach
<1>6. Begin(p, "get", "update", ids, arg, <<>>) /\ OwnEach(<<>>)
  BY DEF CallUpdate, arg, OwnEach
<1> QED BY <1>4, <1>5, <1>6, BeginKeeps

\* What every step needs of the call it is a step of.
LEMMA CallOf ==
  ASSUME CollectionsInv, NEW p \in Process, call[p].pc # "idle"
  PROVE  /\ call[p] \in CallRecord /\ CallSound(call[p]) /\ call[p] # NotCalling
         /\ call[p].ids \in Batch /\ call[p].ids \in Seq(Id) /\ call[p].batch \in Seq(Row)
         /\ PutCall(call[p]) \/ UpdateCall(call[p])
         /\ OneEach(call[p].batch) /\ call[p].left \subseteq IdsOf(call[p].batch)
         /\ call[p].pc = "drop" => setting.lance /\ setting.failing
         /\ DocumentsOwn /\ ~misread => OwnEach(call[p].batch)
<1>1. call[p] \in CallRecord /\ CallSound(call[p]) /\ call[p] # NotCalling
  BY NotCallingSound DEF CollectionsInv
<1> QED BY <1>1 DEF CallSound, CallRecord, DocumentsOwn

\* A call that returns leaves nothing to say of its process.
LEMMA ReturnKeeps ==
  ASSUME CollectionsInv, NEW p \in Process, Acting(p), Return(p), UNCHANGED setting,
         opened' \in [Process -> BOOLEAN], ~setting.shared => opened'[First] = table',
         misread' \in BOOLEAN, misread => misread', DocumentsOwn /\ ~misread' => OwnEach(rows')
  PROVE  /\ (misread \in BOOLEAN /\ DocumentsOwn)'
         /\ (call \in [Process -> CallRecord] /\ \A q \in Process : CallSound(call[q]))'
         /\ (~setting.shared => AloneSound)'
<1>1. call' = [call EXCEPT ![p] = NotCalling]
  BY DEF Return
<1>2. OwnEach(NotCalling.batch)
  BY DEF OwnEach, NotCalling
<1> QED BY <1>1, <1>2, NotCallingSound, CallsKept, AloneKept, OwnKept

LEMMA UpsertKeeps ==
  ASSUME CollectionsInv, NEW p \in Process, Acting(p), Upsert(p)
  PROVE  CollectionsInv'
<1> DEFINE c == call[p]
<1>1. c.pc = "upsert" /\ opened[p] /\ rows' = Merged(c.batch) /\ Return(p)
      /\ UNCHANGED <<setting, table, opened, restarts, misread>>
  BY DEF Upsert
<1>2. c.batch \in Seq(Row) /\ OneEach(c.batch) /\ (DocumentsOwn /\ ~misread => OwnEach(c.batch))
  BY <1>1, CallOf
<1> HIDE DEF c
<1>3. rows \in Seq(Row) /\ OneEach(rows) /\ (DocumentsOwn /\ ~misread => OwnEach(rows))
  BY DEF CollectionsInv, DocumentsOwn
<1>4. rows' \in Seq(Row) /\ OneEach(rows') /\ (DocumentsOwn /\ ~misread => OwnEach(rows'))
  BY <1>1, <1>2, <1>3, MergedRows
<1>5. table
  BY <1>1 DEF CollectionsInv, AloneSound, Acting
<1>6. opened' \in [Process -> BOOLEAN] /\ (~setting.shared => opened'[First] = table') /\ misread \in BOOLEAN
  BY <1>1 DEF CollectionsInv, AloneSound
<1> QED BY <1>1, <1>4, <1>5, <1>6, ReturnKeeps DEF CollectionsInv, OneEach

LEMMA CreateTableKeeps ==
  ASSUME CollectionsInv, NEW p \in Process, Acting(p), CreateTable(p)
  PROVE  CollectionsInv'
<1> DEFINE c == call[p]
<1>1. /\ c.pc = "upsert" /\ ~opened[p] /\ rows' = rows \o c.batch /\ table' = TRUE
      /\ opened' = [opened EXCEPT ![p] = TRUE] /\ Return(p) /\ UNCHANGED <<setting, restarts, misread>>
  BY DEF CreateTable
<1>2. c.batch \in Seq(Row) /\ OneEach(c.batch) /\ (DocumentsOwn /\ ~misread => OwnEach(c.batch))
  BY <1>1, CallOf
<1> HIDE DEF c
<1>3. setting.lance /\ ~setting.shared /\ p = First /\ rows = <<>>
  BY <1>1, SettingType DEF CollectionsInv, AloneSound, Acting
<1>4. rows' = c.batch
  BY <1>1, <1>2, <1>3
<1>5. opened' \in [Process -> BOOLEAN] /\ (~setting.shared => opened'[First] = table') /\ misread \in BOOLEAN
  BY <1>1, <1>3 DEF CollectionsInv
<1> QED BY <1>1, <1>2, <1>3, <1>4, <1>5, ReturnKeeps DEF CollectionsInv, OneEach

LEMMA MergeFailsKeeps ==
  ASSUME CollectionsInv, OneMerges, NEW p \in Process, Acting(p), MergeFails(p)
  PROVE  CollectionsInv'
<1> DEFINE c == call[p]
           d == [c EXCEPT !.pc = "drop", !.left = IdsOf(c.batch)]
<1>1. /\ c.pc = "upsert" /\ opened[p] /\ setting.lance /\ setting.failing
      /\ call' = [call EXCEPT ![p].pc = "drop", ![p].left = IdsOf(c.batch)]
      /\ UNCHANGED <<setting, table, rows, opened, restarts, misread>>
  BY DEF MergeFails
<1>2. c \in CallRecord /\ CallSound(c) /\ c # NotCalling /\ c.batch \in Seq(Row) /\ c.ids \in Batch
      /\ (PutCall(c) \/ UpdateCall(c)) /\ OneEach(c.batch)
      /\ (DocumentsOwn /\ ~misread => OwnEach(c.batch))
  BY <1>1, CallOf
<1>3. call' = [call EXCEPT ![p] = d]
  BY <1>1 DEF CollectionsInv
<1>4. IdsOf(c.batch) \in SUBSET Id
  BY <1>2, FiniteIds
<1> HIDE DEF c
<1>5. /\ d \in CallRecord /\ d.pc = "drop" /\ d.left = IdsOf(c.batch)
      /\ d.op = c.op /\ d.ids = c.ids /\ d.arg = c.arg /\ d.batch = c.batch
  BY <1>2, <1>4 DEF CallRecord
<1> HIDE DEF d
<1>6. PutCall(d) \/ UpdateCall(d)
  <2>1. CASE PutCall(c)
    BY <1>1, <1>5, <2>1 DEF PutCall
  <2>2. CASE UpdateCall(c)
    BY <1>1, <1>5, <2>2 DEF UpdateCall
  <2> QED BY <1>2, <2>1, <2>2
<1>7. CallSound(d)
  BY <1>1, <1>2, <1>5, <1>6 DEF CallSound
<1>8. ~setting.shared /\ p = First
  BY <1>1 DEF OneMerges, CollectionsInv, Acting
<1>9. (call \in [Process -> CallRecord] /\ \A q \in Process : CallSound(call[q]))'
  BY <1>1, <1>3, <1>5, <1>7, CallsKept
<1>10. (~setting.shared => AloneSound)'
  <2>1. opened'[First] = table'
    BY <1>1, <1>8 DEF CollectionsInv, AloneSound
  <2>2. table' /\ IdsOf(rows') \cap IdsOf(d.batch) \subseteq d.left
    BY <1>1, <1>5, <1>8 DEF CollectionsInv, AloneSound
  <2>3. d.pc # "get" /\ d.pc # "upsert"
    BY <1>5
  <2> QED BY <1>1, <1>3, <1>5, <1>7, <2>1, <2>2, <2>3, AloneKept
<1>11. (misread \in BOOLEAN /\ DocumentsOwn)'
  <2>1. misread' = misread /\ misread \in BOOLEAN /\ (DocumentsOwn /\ ~misread => OwnEach(rows'))
    BY <1>1 DEF CollectionsInv, DocumentsOwn, OwnEach
  <2> QED BY <1>2, <1>3, <1>5, <2>1, OwnKept
<1> QED BY <1>1, <1>9, <1>10, <1>11 DEF CollectionsInv

LEMMA DropRowKeeps ==
  ASSUME CollectionsInv, OneMerges, NEW p \in Process, Acting(p), DropRow(p)
  PROVE  CollectionsInv'
<1> DEFINE c == call[p]
<1>1. PICK i \in c.left : rows' = Dropped(i) /\ call' = [call EXCEPT ![p].left = @ \ {i}]
  BY DEF DropRow
<1>2. c.pc = "drop" /\ UNCHANGED <<setting, table, opened, restarts, misread>>
  BY DEF DropRow
<1> DEFINE d == [c EXCEPT !.left = c.left \ {i}]
<1>3. c \in CallRecord /\ CallSound(c) /\ c # NotCalling /\ c.batch \in Seq(Row) /\ c.ids \in Batch
      /\ (PutCall(c) \/ UpdateCall(c)) /\ OneEach(c.batch) /\ c.left \subseteq IdsOf(c.batch)
      /\ setting.lance /\ setting.failing
      /\ (DocumentsOwn /\ ~misread => OwnEach(c.batch))
  BY <1>2, CallOf
<1>4. call' = [call EXCEPT ![p] = d]
  BY <1>1 DEF CollectionsInv
<1>5. ~setting.shared /\ p = First
  BY <1>3 DEF OneMerges, CollectionsInv, Acting
<1>6. table /\ IdsOf(rows) \cap IdsOf(c.batch) \subseteq c.left
  BY <1>2, <1>5 DEF CollectionsInv, AloneSound
<1> HIDE DEF c
<1>7. /\ d \in CallRecord /\ d.pc = "drop" /\ d.left = c.left \ {i}
      /\ d.op = c.op /\ d.ids = c.ids /\ d.arg = c.arg /\ d.batch = c.batch
  BY <1>2, <1>3 DEF CallRecord
<1> HIDE DEF d
<1>8. PutCall(d) \/ UpdateCall(d)
  <2>1. CASE PutCall(c)
    BY <1>2, <1>7, <2>1 DEF PutCall
  <2>2. CASE UpdateCall(c)
    BY <1>2, <1>7, <2>2 DEF UpdateCall
  <2> QED BY <1>3, <2>1, <2>2
<1>9. CallSound(d)
  BY <1>3, <1>7, <1>8 DEF CallSound
<1>10. (call \in [Process -> CallRecord] /\ \A q \in Process : CallSound(call[q]))'
  BY <1>2, <1>4, <1>7, <1>9, CallsKept
<1>11. rows \in Seq(Row) /\ OneEach(rows) /\ (DocumentsOwn /\ ~misread => OwnEach(rows))
  BY DEF CollectionsInv, DocumentsOwn
<1>12. /\ rows' \in Seq(Row) /\ OneEach(rows') /\ IdsOf(rows') = IdsOf(rows) \ {i}
       /\ DocumentsOwn /\ ~misread => OwnEach(rows')
  BY <1>1, <1>11, WithoutRows DEF Dropped
<1>13. table
  BY <1>6
<1>14. (~setting.shared => AloneSound)'
  <2>1. opened'[First] = table'
    BY <1>2, <1>5 DEF CollectionsInv, AloneSound
  <2>2. table' /\ IdsOf(rows') \cap IdsOf(d.batch) \subseteq d.left
    BY <1>2, <1>6, <1>7, <1>12
  <2>3. d.pc # "get" /\ d.pc # "upsert"
    BY <1>7
  <2> QED BY <1>2, <1>4, <1>7, <1>9, <2>1, <2>2, <2>3, AloneKept
<1>15. (misread \in BOOLEAN /\ DocumentsOwn)'
  <2>1. misread' = misread /\ misread \in BOOLEAN
    BY <1>2 DEF CollectionsInv
  <2> QED BY <1>3, <1>4, <1>7, <1>12, <2>1, OwnKept
<1> QED BY <1>2, <1>10, <1>12, <1>13, <1>14, <1>15 DEF CollectionsInv

LEMMA AddRowsKeeps ==
  ASSUME CollectionsInv, OneMerges, NEW p \in Process, Acting(p), AddRows(p)
  PROVE  CollectionsInv'
<1> DEFINE c == call[p]
<1>1. /\ c.pc = "drop" /\ c.left = {} /\ rows' \in {rows, rows \o c.batch} /\ Return(p)
      /\ UNCHANGED <<setting, table, opened, restarts, misread>>
  BY DEF AddRows
<1>2. /\ c.batch \in Seq(Row) /\ OneEach(c.batch) /\ setting.lance /\ setting.failing
      /\ DocumentsOwn /\ ~misread => OwnEach(c.batch)
  BY <1>1, CallOf
<1>3. ~setting.shared /\ p = First
  BY <1>2 DEF OneMerges, CollectionsInv, Acting
<1>4. table /\ IdsOf(rows) \cap IdsOf(c.batch) = {}
  BY <1>1, <1>3 DEF CollectionsInv, AloneSound
<1>5. rows \in Seq(Row) /\ OneEach(rows) /\ (DocumentsOwn /\ ~misread => OwnEach(rows))
  BY DEF CollectionsInv, DocumentsOwn
<1> HIDE DEF c
<1>6. rows' \in Seq(Row) /\ OneEach(rows') /\ (DocumentsOwn /\ ~misread => OwnEach(rows'))
  BY <1>1, <1>2, <1>4, <1>5, AddedRows
<1>7. opened' \in [Process -> BOOLEAN] /\ (~setting.shared => opened'[First] = table') /\ misread \in BOOLEAN
  BY <1>1 DEF CollectionsInv, AloneSound
<1> QED BY <1>1, <1>4, <1>6, <1>7, ReturnKeeps DEF CollectionsInv, OneEach

LEMMA DeleteKeeps ==
  ASSUME CollectionsInv, NEW p \in Process, Acting(p), Delete(p)
  PROVE  CollectionsInv'
<1>1. /\ rows' = (IF opened[p] THEN Without(rows, ToSet(call[p].ids)) ELSE rows) /\ Return(p)
      /\ UNCHANGED <<setting, table, opened, restarts, misread>>
  BY DEF Delete
<1>2. rows \in Seq(Row) /\ OneEach(rows) /\ (DocumentsOwn /\ ~misread => OwnEach(rows))
  BY DEF CollectionsInv, DocumentsOwn
<1>3. rows' \in Seq(Row) /\ OneEach(rows') /\ (DocumentsOwn /\ ~misread => OwnEach(rows'))
  BY <1>1, <1>2, WithoutRows
<1>4. opened' \in [Process -> BOOLEAN] /\ (~setting.shared => opened'[First] = table') /\ misread \in BOOLEAN
  BY <1>1 DEF CollectionsInv, AloneSound
<1>5. ~table => rows' = rows
  BY <1>1 DEF CollectionsInv, AloneSound, Acting
<1> QED BY <1>1, <1>3, <1>4, <1>5, ReturnKeeps DEF CollectionsInv, OneEach

LEMMA RestartKeeps ==
  ASSUME CollectionsInv, NEW p \in Process, Acting(p), Restart(p)
  PROVE  CollectionsInv'
<1>1. /\ restarts < MaxCrashes /\ restarts' = restarts + 1 /\ opened' = [opened EXCEPT ![p] = table]
      /\ Return(p) /\ UNCHANGED <<setting, table, rows, misread>>
  BY DEF Restart
<1>2. restarts' \in 0..MaxCrashes
  BY <1>1, CollectionsAssumption DEF CollectionsInv
<1>3. opened' \in [Process -> BOOLEAN] /\ (~setting.shared => opened'[First] = table')
  BY <1>1 DEF CollectionsInv, AloneSound, Acting
<1>4. setting.shared \/ ~setting.lance => table' /\ \A q \in Process : opened'[q]
  BY <1>1 DEF CollectionsInv
<1>5. misread \in BOOLEAN /\ (DocumentsOwn /\ ~misread' => OwnEach(rows'))
  BY <1>1 DEF CollectionsInv, DocumentsOwn, OwnEach
<1> QED BY <1>1, <1>2, <1>3, <1>4, <1>5, ReturnKeeps DEF CollectionsInv, OneEach

\* update in LanceDB: found rows are at most as many as the ids asked for; each
\* takes the id at its place, which is its own if none is misplaced.
LEMMA PairedByPlaceSound ==
  ASSUME CollectionsInv, NEW p \in Process, Acting(p), call[p].pc = "get", opened[p], setting.lance
  PROVE  LET batch == PairedByPlace(call[p], Found(p))
         IN  /\ batch \in Seq(Row) /\ OneEach(batch)
             /\ \A k \in DOMAIN batch :
                  batch[k].id \in ToSet(call[p].ids) /\ batch[k].meta = call[p].arg[batch[k].id]
             /\ ~Misplaced(call[p], Found(p)) =>
                  /\ OwnEach(rows) => OwnEach(batch)
                  /\ IdsOf(batch) = IdsOf(rows) \cap ToSet(call[p].ids)
<1> DEFINE c == call[p]
           found == Found(p)
           n == Len(found)
           batch == PairedByPlace(c, found)
<1>1. c \in CallRecord /\ c.ids \in Batch /\ c.ids \in Seq(Id) /\ UpdateCall(c)
  BY CallOf DEF PutCall
<1>2. rows \in Seq(Row) /\ OneEach(rows)
  BY DEF CollectionsInv
<1>3. /\ found \in Seq(Row) /\ OneEach(found)
      /\ IdsOf(found) = IdsOf(rows) \cap ToSet(c.ids)
      /\ OwnEach(rows) => OwnEach(found)
  BY <1>2, FoundRows
<1>4. n <= Len(c.ids)
  <2>1. n = Cardinality(IdsOf(found))
    BY <1>3, OneRowEach
  <2>2. IsFiniteSet(ToSet(c.ids)) /\ Cardinality(ToSet(c.ids)) <= Len(c.ids) /\ Cardinality(ToSet(c.ids)) \in Nat
    BY <1>1, FinitelyMany
  <2>3. Cardinality(IdsOf(found)) <= Cardinality(ToSet(c.ids))
    BY <1>3, <2>2, FS_Subset
  <2>4. Len(c.ids) \in Nat /\ n \in Nat
    BY <1>1, <1>3
  <2> QED BY <2>1, <2>2, <2>3, <2>4
<1>5. n \in Nat /\ DOMAIN found = 1..n /\ Len(c.ids) \in Nat /\ DOMAIN c.ids = 1..Len(c.ids)
  BY <1>1, <1>3
<1>6. batch = [k \in 1..n |-> [id |-> c.ids[k], doc |-> found[k].doc, meta |-> c.arg[c.ids[k]]]]
  BY <1>5 DEF PairedByPlace
<1>7. ASSUME NEW k \in 1..n
      PROVE  /\ k \in DOMAIN c.ids /\ c.ids[k] \in ToSet(c.ids) /\ c.ids[k] \in Id
             /\ found[k].doc \in Doc /\ c.arg[c.ids[k]] \in Meta
  <2>1. k \in DOMAIN c.ids
    BY <1>4, <1>5
  <2>2. c.ids[k] \in ToSet(c.ids) /\ c.ids[k] \in Id
    BY <1>1, <2>1 DEF ToSet
  <2>3. found[k] \in Row
    BY <1>3, <1>5
  <2>4. c.arg[c.ids[k]] \in Meta
    BY <1>1, <2>2 DEF UpdateCall
  <2> QED BY <2>1, <2>2, <2>3, <2>4 DEF Row
<1>8. ~Misplaced(c, found) => \A k \in 1..n : found[k].id = c.ids[k]
  BY <1>5 DEF Misplaced
<1> HIDE DEF c, found, batch, n
<1>10. batch \in Seq(Row)
  <2>1. \A k \in 1..n : [id |-> c.ids[k], doc |-> found[k].doc, meta |-> c.arg[c.ids[k]]] \in Row
    BY <1>7 DEF Row
  <2> QED BY <1>5, <1>6, <2>1
<1>11. OneEach(batch)
  <2>1. IsInjective(c.ids)
    BY <1>1, BatchIds
  <2> QED BY <1>6, <1>7, <2>1 DEF OneEach, IsInjective
<1>12. \A k \in DOMAIN batch : batch[k].id \in ToSet(c.ids) /\ batch[k].meta = c.arg[batch[k].id]
  BY <1>6, <1>7
<1>13. ASSUME ~Misplaced(c, found)
       PROVE  (OwnEach(rows) => OwnEach(batch)) /\ IdsOf(batch) = IdsOf(rows) \cap ToSet(c.ids)
  <2>1. \A k \in 1..n : c.ids[k] = found[k].id
    BY <1>8, <1>13
  <2>2. OwnEach(rows) => OwnEach(batch)
    BY <1>3, <1>5, <1>6, <2>1 DEF OwnEach
  <2>3. IdsOf(batch) = {c.ids[k] : k \in 1..n}
    BY <1>6 DEF IdsOf
  <2>4. IdsOf(found) = {c.ids[k] : k \in 1..n}
    BY <1>5, <2>1 DEF IdsOf
  <2> QED BY <1>3, <2>2, <2>3, <2>4
<1> QED BY <1>10, <1>11, <1>12, <1>13 DEF batch, c, found

\* update in PostgreSQL: every id asked for is there, and takes its own document.
LEMMA PairedByIdSound ==
  ASSUME CollectionsInv, NEW p \in Process, Acting(p), call[p].pc = "get", opened[p], ~setting.lance,
         ~NothingToUpdate(call[p], Found(p))
  PROVE  LET batch == PairedById(call[p], Found(p))
         IN  /\ batch \in Seq(Row) /\ OneEach(batch) /\ (OwnEach(rows) => OwnEach(batch))
             /\ \A k \in DOMAIN batch :
                  batch[k].id \in ToSet(call[p].ids) /\ batch[k].meta = call[p].arg[batch[k].id]
             /\ IdsOf(batch) = IdsOf(rows) \cap ToSet(call[p].ids)
<1> DEFINE c == call[p]
           found == Found(p)
           n == Len(c.ids)
           docOf(k) == (CHOOSE r \in ToSet(found) : r.id = c.ids[k]).doc
           batch == PairedById(c, found)
<1>1. c \in CallRecord /\ c.ids \in Batch /\ c.ids \in Seq(Id) /\ UpdateCall(c)
  BY CallOf DEF PutCall
<1>2. rows \in Seq(Row) /\ OneEach(rows)
  BY DEF CollectionsInv
<1>3. /\ found \in Seq(Row) /\ OneEach(found) /\ (OwnEach(rows) => OwnEach(found))
      /\ IdsOf(found) = IdsOf(rows) \cap ToSet(c.ids)
  BY <1>2, FoundRows
<1>4. IdsOf(found) = ToSet(c.ids)
  BY DEF NothingToUpdate
<1>5. n \in Nat /\ DOMAIN c.ids = 1..n /\ IsInjective(c.ids)
  BY <1>1, BatchIds
<1>6. batch = [k \in 1..n |-> [id |-> c.ids[k], doc |-> docOf(k), meta |-> c.arg[c.ids[k]]]]
  BY <1>5 DEF PairedById
<1> HIDE DEF c, found
<1>7. ASSUME NEW k \in 1..n
      PROVE  /\ c.ids[k] \in ToSet(c.ids) /\ c.ids[k] \in Id
             /\ docOf(k) \in Doc /\ c.arg[c.ids[k]] \in Meta
             /\ OwnEach(rows) => docOf(k) = c.ids[k]
  <2>1. c.ids[k] \in ToSet(c.ids) /\ c.ids[k] \in Id
    BY <1>1, <1>5 DEF ToSet
  <2> DEFINE r == CHOOSE r \in ToSet(found) : r.id = c.ids[k]
  <2>2. r \in ToSet(found) /\ r \in Row /\ r.id = c.ids[k]
    BY <1>3, <1>4, <2>1, RowOfId
  <2> HIDE DEF r
  <2>3. r.doc \in Doc /\ (OwnEach(rows) => r.doc = r.id)
    BY <1>3, <2>2 DEF OwnEach, ToSet, Row
  <2>4. c.arg[c.ids[k]] \in Meta
    BY <1>1, <2>1 DEF UpdateCall
  <2> QED BY <2>1, <2>2, <2>3, <2>4 DEF r
<1> HIDE DEF batch, n, docOf
<1>8. batch \in Seq(Row)
  <2>1. \A k \in 1..n : [id |-> c.ids[k], doc |-> docOf(k), meta |-> c.arg[c.ids[k]]] \in Row
    BY <1>7 DEF Row, Doc
  <2> QED BY <1>5, <1>6, <2>1
<1>9. OneEach(batch) /\ (OwnEach(rows) => OwnEach(batch))
  BY <1>5, <1>6, <1>7 DEF OneEach, OwnEach, IsInjective
<1>10. \A k \in DOMAIN batch : batch[k].id \in ToSet(c.ids) /\ batch[k].meta = c.arg[batch[k].id]
  BY <1>6, <1>7
<1>11. IdsOf(batch) = ToSet(c.ids)
  <2>1. IdsOf(batch) = {c.ids[k] : k \in 1..n}
    BY <1>6 DEF IdsOf
  <2>2. ToSet(c.ids) = {c.ids[k] : k \in 1..n}
    BY <1>5 DEF ToSet
  <2> QED BY <2>1, <2>2
<1> QED BY <1>3, <1>4, <1>8, <1>9, <1>10, <1>11 DEF batch, c, found

\* The call after a get that found something.
LEMMA GetSound ==
  ASSUME CollectionsInv, NEW p \in Process, Acting(p), Get(p), ~NothingToUpdate(call[p], Found(p))
  PROVE  \E d \in CallRecord :
           /\ call' = [call EXCEPT ![p] = d]
           /\ CallSound(d) /\ d.pc = "upsert" /\ d.op = "update"
           /\ d.arg = call[p].arg /\ call[p].op = "update"
           /\ ~misread' => IdsOf(d.batch) = IdsOf(rows) \cap ToSet(d.ids)
           /\ ~misread' /\ OwnEach(rows) => OwnEach(d.batch)
<1> DEFINE c == call[p]
           found == Found(p)
           batch == IF setting.lance THEN PairedByPlace(c, found) ELSE PairedById(c, found)
           d == [c EXCEPT !.pc = "upsert", !.batch = batch]
<1>1. c.pc = "get" /\ call' = [call EXCEPT ![p] = d] /\ UNCHANGED <<setting, table, rows, opened, restarts>>
  BY DEF Get
<1>2. opened[p]
  BY DEF NothingToUpdate, Found
<1>3. c \in CallRecord /\ c.ids \in Batch /\ UpdateCall(c) /\ c.left \subseteq IdsOf(c.batch)
  BY <1>1, CallOf DEF PutCall
<1>4. /\ batch \in Seq(Row) /\ OneEach(batch)
      /\ \A k \in DOMAIN batch : batch[k].id \in ToSet(c.ids) /\ batch[k].meta = c.arg[batch[k].id]
      /\ ~misread' => IdsOf(batch) = IdsOf(rows) \cap ToSet(c.ids) /\ (OwnEach(rows) => OwnEach(batch))
  <2>1. CASE setting.lance
    <3>1. ~misread' => ~Misplaced(c, found)
      BY <2>1 DEF Get
    <3> QED BY <1>1, <1>2, <2>1, <3>1, PairedByPlaceSound
  <2>2. CASE ~setting.lance
    BY <1>1, <1>2, <2>2, PairedByIdSound
  <2> QED BY <2>1, <2>2
<1>5. c.left = {}
  BY <1>1, <1>3 DEF UpdateCall, IdsOf
<1> HIDE DEF c, batch
<1>6. /\ d \in CallRecord /\ d.pc = "upsert" /\ d.op = c.op /\ d.ids = c.ids /\ d.arg = c.arg
      /\ d.batch = batch /\ d.left = {}
  BY <1>3, <1>4, <1>5 DEF CallRecord
<1> HIDE DEF d
<1>7. UpdateCall(d)
  BY <1>3, <1>4, <1>6 DEF UpdateCall
<1>8. CallSound(d)
  BY <1>3, <1>4, <1>6, <1>7 DEF CallSound
<1>9. c.op = "update"
  BY <1>3 DEF UpdateCall
<1> QED BY <1>1, <1>4, <1>6, <1>8, <1>9 DEF c

LEMMA GetKeeps ==
  ASSUME CollectionsInv, NEW p \in Process, Acting(p), Get(p)
  PROVE  CollectionsInv'
<1>1. UNCHANGED <<setting, table, rows, opened, restarts>>
  BY DEF Get
<1>2. opened' \in [Process -> BOOLEAN] /\ (~setting.shared => opened'[First] = table')
  BY <1>1 DEF CollectionsInv, AloneSound
<1>3. misread \in BOOLEAN /\ misread' \in BOOLEAN /\ (misread => misread')
      /\ (DocumentsOwn /\ ~misread' => OwnEach(rows) /\ OwnEach(rows'))
  BY <1>1 DEF Get, CollectionsInv, DocumentsOwn, OwnEach
<1>4. CASE NothingToUpdate(call[p], Found(p))
  <2>1. Return(p)
    BY <1>4 DEF Get, Return
  <2> QED BY <1>1, <1>2, <1>3, <2>1, ReturnKeeps DEF CollectionsInv
<1>5. CASE ~NothingToUpdate(call[p], Found(p))
  <2>1. PICK d \in CallRecord :
          /\ call' = [call EXCEPT ![p] = d]
          /\ CallSound(d) /\ d.pc = "upsert" /\ d.op = "update"
          /\ ~misread' => IdsOf(d.batch) = IdsOf(rows) \cap ToSet(d.ids)
          /\ ~misread' /\ OwnEach(rows) => OwnEach(d.batch)
    BY <1>5, GetSound
  <2>2. (call \in [Process -> CallRecord] /\ \A q \in Process : CallSound(call[q]))'
    BY <1>1, <2>1, CallsKept
  <2>3. (~setting.shared => AloneSound)'
    BY <1>1, <1>2, <2>1, AloneKept
  <2>4. (misread \in BOOLEAN /\ DocumentsOwn)'
    BY <1>1, <1>3, <2>1, OwnKept
  <2> QED BY <1>1, <2>2, <2>3, <2>4 DEF CollectionsInv
<1> QED BY <1>4, <1>5

LEMMA CollectionsInitially == CollectionsInit => CollectionsInv
<1> SUFFICES ASSUME CollectionsInit PROVE CollectionsInv
  OBVIOUS
<1>1. /\ setting \in Setting /\ table \in (IF setting.lance /\ ~setting.shared THEN BOOLEAN ELSE {TRUE})
      /\ rows = <<>> /\ opened = [p \in Process |-> table]
      /\ call = [p \in Process |-> NotCalling] /\ restarts = 0 /\ misread = FALSE
  BY DEF CollectionsInit
<1>2. setting \in [lance : BOOLEAN, shared : BOOLEAN, failing : BOOLEAN] /\ First \in Process /\ MaxCrashes \in Nat
  BY <1>1, CollectionsAssumption
<1>3. table \in BOOLEAN /\ opened \in [Process -> BOOLEAN] /\ opened[First] = table
  BY <1>1, <1>2
<1>4. setting.shared \/ ~setting.lance => table /\ \A p \in Process : opened[p]
  BY <1>1, <1>2
<1>5. rows \in Seq(Row) /\ OneEach(rows) /\ OwnEach(rows)
  BY <1>1 DEF OneEach, OwnEach
<1>6. call \in [Process -> CallRecord] /\ \A p \in Process : CallSound(call[p])
  BY <1>1, NotCallingSound
<1>7. AloneSound
  BY <1>1, <1>2, <1>3, NotCallingSound DEF AloneSound
<1>8. restarts \in 0..MaxCrashes
  BY <1>1, <1>2
<1>9. DocumentsOwn
  BY <1>1, <1>5 DEF DocumentsOwn, NotCalling, OwnEach
<1> QED BY <1>1, <1>3, <1>4, <1>5, <1>6, <1>7, <1>8, <1>9 DEF CollectionsInv

LEMMA CollectionsStutter ==
  ASSUME CollectionsInv, UNCHANGED collectionsVars
  PROVE  CollectionsInv'
BY DEF CollectionsInv, collectionsVars, CallSound, AloneSound, DocumentsOwn, OwnEach

\* One step of one process.
LEMMA CollectionsStep ==
  ASSUME CollectionsInv, OneMerges, CollectionsNext
  PROVE  CollectionsInv'
<1>1. PICK p \in Process :
        /\ Acting(p)
        /\ \/ \E ids \in Batch : CallDelete(p, ids) \/ \E m \in Meta : CallUpsert(p, ids, m) \/ CallUpdate(p, ids, m)
           \/ Upsert(p) \/ CreateTable(p) \/ MergeFails(p) \/ DropRow(p) \/ AddRows(p)
           \/ Delete(p) \/ Get(p)
           \/ Restart(p)
  BY DEF CollectionsNext, Acting
<1>2. ASSUME NEW ids \in Batch, CallDelete(p, ids)
      PROVE  CollectionsInv'
  BY <1>1, <1>2, CallDeleteKeeps
<1>3. ASSUME NEW ids \in Batch, NEW m \in Meta, CallUpsert(p, ids, m)
      PROVE  CollectionsInv'
  BY <1>1, <1>3, CallUpsertKeeps
<1>4. ASSUME NEW ids \in Batch, NEW m \in Meta, CallUpdate(p, ids, m)
      PROVE  CollectionsInv'
  BY <1>1, <1>4, CallUpdateKeeps
<1>5. CASE Upsert(p) \/ CreateTable(p)
  BY <1>1, <1>5, UpsertKeeps, CreateTableKeeps
<1>6. CASE MergeFails(p) \/ DropRow(p) \/ AddRows(p)
  BY <1>1, <1>6, MergeFailsKeeps, DropRowKeeps, AddRowsKeeps
<1>7. CASE Delete(p) \/ Get(p) \/ Restart(p)
  BY <1>1, <1>7, DeleteKeeps, GetKeeps, RestartKeeps
<1> QED BY <1>1, <1>2, <1>3, <1>4, <1>5, <1>6, <1>7

-----------------------------------------------------------------------------
(* Collections: what follows.                                              *)

\* The invariant behind the rows of a collection: what each call has read or has
\* to write fits the table it finds, whatever merges, fallbacks and restarts come
\* in between.
THEOREM CollectionsInvariant ==
  ASSUME OneMerges
  PROVE  CollectionsSpec => []CollectionsInv
<1>1. CollectionsInv /\ [CollectionsNext]_collectionsVars => CollectionsInv'
  BY CollectionsStep, CollectionsStutter
<1> QED BY CollectionsInitially, <1>1, PTL DEF CollectionsSpec

LEMMA BatchOfCall ==
  ASSUME NEW c \in CallRecord, CallSound(c)
  PROVE  IdsOf(c.batch) \subseteq ToSet(c.ids) /\ c.left \subseteq IdsOf(c.batch)
<1>1. CASE c = NotCalling
  BY <1>1 DEF NotCalling, IdsOf
<1>2. CASE c # NotCalling /\ PutCall(c)
  <2>1. CASE c.batch = <<>>
    BY <1>2, <2>1 DEF CallSound, IdsOf
  <2>2. ASSUME NEW m \in Meta, c.batch = [k \in DOMAIN c.ids |-> [id |-> c.ids[k], doc |-> c.ids[k], meta |-> m]]
        PROVE  IdsOf(c.batch) \subseteq ToSet(c.ids)
    <3>1. DOMAIN c.batch = DOMAIN c.ids /\ \A k \in DOMAIN c.ids : c.batch[k].id = c.ids[k]
      BY <2>2
    <3> QED BY <3>1 DEF IdsOf, ToSet
  <2> QED BY <1>2, <2>1, <2>2 DEF CallSound, PutCall
<1>3. CASE c # NotCalling /\ UpdateCall(c)
  BY <1>3 DEF CallSound, UpdateCall, IdsOf
<1> QED BY <1>1, <1>2, <1>3 DEF CallSound

\* Every variable keeps its type, as long as an update finds no id twice.
THEOREM CollectionsTypes ==
  ASSUME OneMerges
  PROVE  CollectionsSpec => []CollectionsTypeOK
<1>1. CollectionsInv => CollectionsTypeOK
  <2> SUFFICES ASSUME CollectionsInv PROVE CollectionsTypeOK
    OBVIOUS
  <2>1. \A p \in Process : call[p] \in CallRecord /\ CallSound(call[p])
    BY DEF CollectionsInv
  <2>2. \A p \in Process :
          /\ call[p].pc \in {"idle", "upsert", "drop", "delete", "get"}
          /\ call[p].batch \in Seq(Row)
    BY <2>1 DEF CallRecord
  <2> QED BY <2>1, <2>2, BatchOfCall DEF CollectionsInv, CollectionsTypeOK
<1> QED BY <1>1, CollectionsInvariant, PTL

\* An id leaves the table only in a call for it.
LEMMA LossStep ==
  ASSUME CollectionsInv, OneMerges, CollectionsNext, NEW i \in IdsOf(rows) \ IdsOf(rows')
  PROVE  \E p \in Process : i \in ToSet(call[p].ids)
<1>1. PICK p \in Process :
        /\ Acting(p)
        /\ \/ \E ids \in Batch : CallDelete(p, ids) \/ \E m \in Meta : CallUpsert(p, ids, m) \/ CallUpdate(p, ids, m)
           \/ Upsert(p) \/ CreateTable(p) \/ MergeFails(p) \/ DropRow(p) \/ AddRows(p)
           \/ Delete(p) \/ Get(p)
           \/ Restart(p)
  BY DEF CollectionsNext, Acting
<1>2. rows \in Seq(Row) /\ OneEach(rows)
  BY DEF CollectionsInv
<1>3. rows' # rows
  OBVIOUS
<1>4. CASE Upsert(p)
  <2>1. call[p].batch \in Seq(Row) /\ OneEach(call[p].batch) /\ rows' = Merged(call[p].batch)
    BY <1>4, CallOf DEF Upsert
  <2>2. IdsOf(rows) \subseteq IdsOf(rows')
    BY <1>2, <2>1, MergedRows
  <2> QED BY <2>2
<1>5. CASE CreateTable(p)
  <2>1. rows = <<>>
    BY <1>1, <1>5, SettingType DEF CreateTable, CollectionsInv, AloneSound, Acting
  <2> QED BY <2>1 DEF IdsOf
<1>6. CASE DropRow(p)
  <2>1. PICK d \in call[p].left : rows' = Dropped(d)
    BY <1>6 DEF DropRow
  <2>2. i = d
    BY <1>2, <2>1, WithoutRows DEF Dropped
  <2>3. call[p] \in CallRecord /\ CallSound(call[p])
    BY <1>6, CallOf DEF DropRow
  <2> QED BY <2>2, <2>3, BatchOfCall
<1>7. CASE AddRows(p)
  <2>1. call[p].pc = "drop" /\ rows' = rows \o call[p].batch /\ call[p].left = {}
    BY <1>3, <1>7 DEF AddRows
  <2>2. call[p].batch \in Seq(Row) /\ setting.lance /\ setting.failing
    BY <2>1, CallOf
  <2>3. IdsOf(rows) \cap IdsOf(call[p].batch) = {}
    BY <1>1, <2>1, <2>2 DEF OneMerges, CollectionsInv, AloneSound, Acting
  <2>4. IdsOf(rows) \subseteq IdsOf(rows')
    BY <1>2, <2>1, <2>2, <2>3, AddedRows
  <2> QED BY <2>4
<1>8. CASE Delete(p)
  <2>1. rows' = Without(rows, ToSet(call[p].ids))
    BY <1>3, <1>8 DEF Delete
  <2>2. IdsOf(rows') = IdsOf(rows) \ ToSet(call[p].ids)
    BY <1>2, <2>1, WithoutRows
  <2> QED BY <2>2
<1>9. CASE MergeFails(p) \/ Get(p) \/ Restart(p)
  BY <1>3, <1>9 DEF MergeFails, Get, Restart
<1>10. ASSUME NEW ids \in Batch,
              CallDelete(p, ids) \/ \E m \in Meta : CallUpsert(p, ids, m) \/ CallUpdate(p, ids, m)
       PROVE  FALSE
  BY <1>3, <1>10 DEF CallDelete, CallUpsert, CallUpdate, Begin
<1> QED BY <1>1, <1>4, <1>5, <1>6, <1>7, <1>8, <1>9, <1>10

\* An id has one row, and no call loses the row of an id it is not for, also with
\* several processes on one LanceDB table, as long as merge_insert does not fail
\* there.
THEOREM KeysAreUnique ==
  ASSUME OneMerges
  PROVE  CollectionsSpec => []OneRowPerId /\ LossConfined
<1>1. CollectionsInv => OneRowPerId
  BY OneRowEach DEF CollectionsInv, OneRowPerId
<1> DEFINE Confined == \A i \in IdsOf(rows) \ IdsOf(rows') : \E p \in Process : i \in ToSet(call[p].ids)
<1>2. CollectionsInv /\ [CollectionsNext]_collectionsVars => [Confined]_collectionsVars
  BY LossStep
<1>3. CollectionsSpec => [][Confined]_collectionsVars
  <2> HIDE DEF Confined
  <2> QED BY <1>2, CollectionsInvariant, PTL DEF CollectionsSpec
<1>4. CollectionsSpec => []OneRowPerId
  BY <1>1, CollectionsInvariant, PTL
<1> QED BY <1>3, <1>4 DEF LossConfined

\* With any number of processes on a table: every id has one row, only the calls
\* for an id can lose it, and no row carries the document of another id as long as
\* every LanceDB update has asked for its ids in the order of the scan, whatever
\* merges, fallbacks and restarts come in between.
THEOREM RowsAreSound ==
  ASSUME OneMerges
  PROVE  CollectionsSpec => RowsSound
<1>1. CollectionsInv => OneRowPerId /\ DocumentsKept
  BY OneRowEach DEF CollectionsInv, OneRowPerId, DocumentsKept, DocumentsOwn, OwnDocument, OwnEach
<1>2. CollectionsSpec => [](OneRowPerId /\ DocumentsKept)
  BY <1>1, CollectionsInvariant, PTL
<1> QED BY <1>2, KeysAreUnique DEF RowsSound

-----------------------------------------------------------------------------
(* Collections implement CollectionContract.                               *)

\* The record that the contract sees for an id.
LEMMA HeldOf ==
  ASSUME NEW rs \in Seq(Row), OneEach(rs), NEW u \in ToSet(rs)
  PROVE  LET r == CHOOSE r \in ToSet(rs) : r.id = u.id IN r = u
<1>1. u.id \in IdsOf(rs)
  BY DEF ToSet, IdsOf
<1> QED BY <1>1, RowOfId

LEMMA HeldRecords ==
  ASSUME rows \in Seq(Row), OneEach(rows), OwnEach(rows)
  PROVE  /\ Held \in [Id -> Contract!Record \cup {Absent}]
         /\ \A i \in Id : i \notin IdsOf(rows) => Held[i] = Absent
         /\ \A u \in ToSet(rows) : Held[u.id] = [doc |-> u.id, meta |-> u.meta]
         /\ \A i \in IdsOf(rows) : i \in Id /\ Held[i] # Absent /\ Held[i] \in Contract!Record /\ Held[i].doc = i
<1> DEFINE rowOf(i) == CHOOSE r \in ToSet(rows) : r.id = i
<1>1. \A i \in Id : Held[i] = IF i \in IdsOf(rows) THEN [doc |-> rowOf(i).doc, meta |-> rowOf(i).meta] ELSE Absent
  BY DEF Held
<1>2. ASSUME NEW i \in IdsOf(rows)
      PROVE  i \in Id /\ rowOf(i) \in Row /\ rowOf(i).id = i /\ rowOf(i).doc = i
  <2>1. rowOf(i) \in ToSet(rows) /\ rowOf(i) \in Row /\ rowOf(i).id = i
    BY RowOfId
  <2> HIDE DEF rowOf
  <2>2. rowOf(i).doc = rowOf(i).id
    BY <2>1 DEF OwnEach, ToSet
  <2> QED BY <2>1, <2>2, FiniteIds
<1>3. ASSUME NEW u \in ToSet(rows)
      PROVE  u.id \in IdsOf(rows) /\ rowOf(u.id) = u
  BY HeldOf DEF ToSet, IdsOf
<1> HIDE DEF rowOf
<1>4. ASSUME NEW i \in IdsOf(rows)
      PROVE  i \in Id /\ Held[i] \in Contract!Record /\ Held[i].doc = i /\ Held[i] # Absent
  <2>1. Held[i] = [doc |-> rowOf(i).doc, meta |-> rowOf(i).meta]
    BY <1>1, <1>2
  <2>2. [doc |-> rowOf(i).doc, meta |-> rowOf(i).meta] \in [doc : Doc, meta : Meta]
    BY <1>2 DEF Row, Doc
  <2> QED BY <1>2, <2>1, <2>2, ContractAssumption DEF Contract!Record
<1>5. Held = [i \in Id |-> Held[i]]
  BY DEF Held
<1>6. \A i \in Id : Held[i] \in Contract!Record \cup {Absent}
  BY <1>1, <1>4
<1>7. Held \in [Id -> Contract!Record \cup {Absent}]
  BY <1>5, <1>6
<1>8. \A u \in ToSet(rows) : Held[u.id] = [doc |-> u.id, meta |-> u.meta]
  BY <1>1, <1>2, <1>3
<1> QED BY <1>1, <1>4, <1>7, <1>8

\* What is asked, call by call.
LEMMA AskedOf ==
  ASSUME NEW p \in Process
  PROVE  /\ Asked[p] = IF call[p] = NotCalling THEN NoCall ELSE [op |-> call[p].op, arg |-> call[p].arg]
         /\ Asked \in [Process -> {Asked[q] : q \in Process}]
BY DEF Asked

\* A step of one process's call is seen by the contract at that process alone.
LEMMA AskedKept ==
  ASSUME CollectionsInv, NEW p \in Process, NEW c \in CallRecord, call' = [call EXCEPT ![p] = c]
  PROVE  Asked' = [Asked EXCEPT ![p] = IF c = NotCalling THEN NoCall ELSE [op |-> c.op, arg |-> c.arg]]
<1>1. call'[p] = c /\ \A q \in Process : q # p => call'[q] = call[q]
  BY DEF CollectionsInv
<1> QED BY <1>1 DEF Asked

\* An argument of a call, as the contract has it.
LEMMA CallAsked ==
  ASSUME NEW c \in CallRecord, CallSound(c), c # NotCalling
  PROVE  [op |-> c.op, arg |-> c.arg] \in Contract!Call /\ [op |-> c.op, arg |-> c.arg] # NoCall
         /\ DOMAIN c.arg = ToSet(c.ids)
<1>1. c.ids \in Batch /\ (PutCall(c) \/ UpdateCall(c)) /\ ToSet(c.ids) \in SUBSET Id
  BY BatchIds DEF CallSound
<1>2. CASE PutCall(c)
  <2>1. c.arg \in [ToSet(c.ids) -> Contract!Record \cup {Absent}]
    <3>1. CASE c.arg = [i \in ToSet(c.ids) |-> Absent]
      BY <3>1
    <3>2. ASSUME NEW m \in Meta, c.arg = [i \in ToSet(c.ids) |-> [doc |-> i, meta |-> m]]
          PROVE  c.arg \in [ToSet(c.ids) -> Contract!Record \cup {Absent}]
      BY <1>1, <3>2 DEF Contract!Record, Doc
    <3> QED BY <1>2, <3>1, <3>2 DEF PutCall
  <2>2. c.arg \in Contract!Partial(Id, Contract!Record \cup {Absent})
    BY <1>1, <2>1 DEF Contract!Partial
  <2>3. c.op = "put"
    BY <1>2 DEF PutCall
  <2> QED BY <2>1, <2>2, <2>3, ContractAssumption DEF Contract!Call
<1>3. CASE UpdateCall(c)
  <2>1. c.arg \in [ToSet(c.ids) -> Meta] /\ c.op = "update"
    BY <1>3 DEF UpdateCall
  <2>2. c.arg \in Contract!Partial(Id, Meta)
    BY <1>1, <2>1 DEF Contract!Partial
  <2> QED BY <2>1, <2>2, ContractAssumption DEF Contract!Call
<1> QED BY <1>1, <1>2, <1>3

\* What the contract sees of rows taken away and rows put in their place.
LEMMA HeldAfter ==
  ASSUME rows \in Seq(Row), OneEach(rows), OwnEach(rows),
         rows' \in Seq(Row), OneEach(rows'), OwnEach(rows'),
         NEW X \in SUBSET Id, NEW batch \in Seq(Row), IdsOf(batch) \subseteq X,
         ToSet(rows') = {r \in ToSet(rows) : r.id \notin X} \cup ToSet(batch)
  PROVE  /\ \A i \in Id \ X : Held'[i] = Held[i]
         /\ \A i \in X \ IdsOf(batch) : Held'[i] = Absent
         /\ \A u \in ToSet(batch) : Held'[u.id] = [doc |-> u.id, meta |-> u.meta]
<1>1. /\ \A i \in Id : i \notin IdsOf(rows) => Held[i] = Absent
      /\ \A u \in ToSet(rows) : Held[u.id] = [doc |-> u.id, meta |-> u.meta]
  BY HeldRecords
<1>2. /\ \A i \in Id : i \notin IdsOf(rows') => Held'[i] = Absent
      /\ \A u \in ToSet(rows') : Held'[u.id] = [doc |-> u.id, meta |-> u.meta]
  <2>1. (rows \in Seq(Row) /\ OneEach(rows) /\ OwnEach(rows))'
    OBVIOUS
  <2>2. (rows \in Seq(Row) /\ OneEach(rows) /\ OwnEach(rows) =>
          /\ \A i \in Id : i \notin IdsOf(rows) => Held[i] = Absent
          /\ \A u \in ToSet(rows) : Held[u.id] = [doc |-> u.id, meta |-> u.meta])'
    BY HeldRecords, PTL
  <2> QED BY <2>1, <2>2
<1>3. \A rs : rs \in Seq(Row) => IdsOf(rs) = {r.id : r \in ToSet(rs)}
  BY DEF IdsOf, ToSet
<1>4. ASSUME NEW i \in Id \ X
      PROVE  Held'[i] = Held[i]
  <2>1. ASSUME NEW u \in ToSet(rows), u.id = i
        PROVE  Held'[i] = Held[i]
    <3>1. u \in ToSet(rows')
      BY <2>1
    <3>2. Held[u.id] = [doc |-> u.id, meta |-> u.meta]
      BY <1>1
    <3>3. Held'[u.id] = [doc |-> u.id, meta |-> u.meta]
      BY <1>2, <3>1
    <3> QED BY <2>1, <3>2, <3>3
  <2>2. CASE i \notin IdsOf(rows)
    <3>1. i \notin IdsOf(rows')
      BY <1>3, <2>2
    <3> QED BY <1>1, <1>2, <2>2, <3>1
  <2> QED BY <1>3, <2>1, <2>2
<1>5. ASSUME NEW i \in X \ IdsOf(batch)
      PROVE  Held'[i] = Absent
  <2>1. i \notin IdsOf(rows')
    BY <1>3
  <2> QED BY <1>2, <2>1
<1> QED BY <1>2, <1>4, <1>5

LEMMA RecordWith ==
  ASSUME NEW r \in Contract!Record, NEW m
  PROVE  [r EXCEPT !.meta = m] = [doc |-> r.doc, meta |-> m]
BY DEF Contract!Record

\* An upsert is the call taking effect.
LEMMA UpsertEffect ==
  ASSUME CollectionsInv, (CollectionsInv)', NEW p \in Process, Acting(p), ~setting.shared, UNCHANGED <<setting, misread>>, ~misread,
         call[p].pc = "upsert", Return(p),
         ToSet(rows') = {r \in ToSet(rows) : r.id \notin IdsOf(call[p].batch)} \cup ToSet(call[p].batch)
  PROVE  Contract!TakeEffect(p)
<1> DEFINE c == call[p]
           a == [op |-> c.op, arg |-> c.arg]
           batch == c.batch
<1>1. /\ c \in CallRecord /\ CallSound(c) /\ c # NotCalling /\ c.ids \in Batch /\ batch \in Seq(Row)
      /\ (PutCall(c) \/ UpdateCall(c)) /\ OneEach(batch) /\ OwnEach(batch)
  BY CallOf DEF CollectionsInv
<1>2. p = First /\ (c.op = "update" => IdsOf(batch) = IdsOf(rows) \cap ToSet(c.ids))
  BY DEF CollectionsInv, AloneSound, Acting
<1>3. rows \in Seq(Row) /\ OneEach(rows) /\ OwnEach(rows) /\ rows' \in Seq(Row) /\ OneEach(rows') /\ OwnEach(rows')
  BY DEF CollectionsInv, DocumentsOwn, OneEach, OwnEach
<1>4. Asked[p] = a /\ a # NoCall /\ DOMAIN c.arg = ToSet(c.ids)
  BY <1>1, CallAsked, AskedOf
<1>5. Asked' = [Asked EXCEPT ![p] = NoCall]
  BY AskedKept, NotCallingSound DEF Return
<1>6. c.pc = "upsert" /\ ToSet(rows') = {r \in ToSet(rows) : r.id \notin IdsOf(batch)} \cup ToSet(batch)
  OBVIOUS
<1> HIDE DEF c, batch
<1>7. IdsOf(batch) \in SUBSET Id
  BY <1>1, FiniteIds
<1>8. /\ \A i \in Id \ IdsOf(batch) : Held'[i] = Held[i]
      /\ \A u \in ToSet(batch) : Held'[u.id] = [doc |-> u.id, meta |-> u.meta]
  BY <1>3, <1>1, <1>6, <1>7, HeldAfter
<1>9. /\ \A i \in IdsOf(rows) : Held[i] # Absent /\ Held[i] \in Contract!Record /\ Held[i].doc = i
      /\ \A i \in Id : i \notin IdsOf(rows) => Held[i] = Absent
  BY <1>3, HeldRecords
<1>10. Held' = [i \in Id |-> Held'[i]]
  BY DEF Held
<1>11. CASE PutCall(c)
  <2>1. PICK m \in Meta :
          /\ c.arg = [i \in ToSet(c.ids) |-> [doc |-> i, meta |-> m]]
          /\ batch = [k \in DOMAIN c.ids |-> [id |-> c.ids[k], doc |-> c.ids[k], meta |-> m]]
    BY <1>6, <1>11 DEF PutCall, batch
  <2>2. c.op = "put"
    BY <1>11 DEF PutCall
  <2>3. DOMAIN batch = DOMAIN c.ids /\ \A k \in DOMAIN c.ids : batch[k].id = c.ids[k] /\ batch[k].meta = m
    BY <2>1
  <2>4. IdsOf(batch) = ToSet(c.ids) /\ \A u \in ToSet(batch) : u.meta = m
    BY <2>3 DEF IdsOf, ToSet
  <2>5. \A i \in IdsOf(batch) : \E u \in ToSet(batch) : u.id = i
    BY DEF IdsOf, ToSet
  <2>6. \A i \in IdsOf(batch) : Held'[i] = c.arg[i]
    BY <1>8, <2>1, <2>4, <2>5
  <2>7. \A i \in Id : Held'[i] = IF i \notin DOMAIN c.arg THEN Held[i] ELSE c.arg[i]
    BY <1>4, <1>8, <2>4, <2>6
  <2> QED BY <1>4, <1>5, <1>10, <2>2, <2>7 DEF Contract!TakeEffect, Contract!Applied
<1>12. CASE UpdateCall(c)
  <2>1. c.op = "update" /\ \A k \in DOMAIN batch : batch[k].meta = c.arg[batch[k].id]
    BY <1>6, <1>12 DEF UpdateCall, batch
  <2>2. IdsOf(batch) = IdsOf(rows) \cap ToSet(c.ids)
    BY <1>2, <2>1
  <2>3. \A i \in IdsOf(batch) : \E u \in ToSet(batch) : u.id = i /\ u.meta = c.arg[i]
    BY <2>1 DEF IdsOf, ToSet
  <2>4. \A i \in IdsOf(batch) : Held'[i] = [doc |-> i, meta |-> c.arg[i]]
    BY <1>8, <2>3
  <2>5. \A i \in IdsOf(batch) : [Held[i] EXCEPT !.meta = c.arg[i]] = [doc |-> i, meta |-> c.arg[i]]
    BY <1>9, <2>2, RecordWith
  <2>6. ASSUME NEW i \in Id
        PROVE  Held'[i] = IF i \notin DOMAIN c.arg \/ Held[i] = Absent THEN Held[i]
                          ELSE [Held[i] EXCEPT !.meta = c.arg[i]]
    <3>1. CASE i \notin IdsOf(batch)
      <4>1. i \notin DOMAIN c.arg \/ Held[i] = Absent
        BY <1>4, <1>9, <2>2, <3>1
      <4> QED BY <1>8, <3>1, <4>1
    <3>2. CASE i \in IdsOf(batch)
      <4>1. i \in DOMAIN c.arg /\ Held[i] # Absent
        BY <1>4, <1>9, <2>2, <3>2
      <4>2. Held'[i] = [Held[i] EXCEPT !.meta = c.arg[i]]
        BY <2>4, <2>5, <3>2
      <4> QED BY <4>1, <4>2
    <3> QED BY <3>1, <3>2
  <2> QED BY <1>4, <1>5, <1>10, <2>1, <2>6 DEF Contract!TakeEffect, Contract!Applied
<1> QED BY <1>1, <1>11, <1>12

\* So is a delete.
LEMMA DeleteEffect ==
  ASSUME CollectionsInv, (CollectionsInv)', NEW p \in Process, Acting(p), ~setting.shared, UNCHANGED <<setting, misread>>, ~misread, Delete(p)
  PROVE  Contract!TakeEffect(p)
<1> DEFINE c == call[p]
           X == ToSet(c.ids)
<1>1. c.pc = "delete" /\ rows' = (IF opened[p] THEN Without(rows, X) ELSE rows) /\ Return(p)
  BY DEF Delete
<1>2. c \in CallRecord /\ CallSound(c) /\ c # NotCalling /\ c.ids \in Batch /\ PutCall(c)
  BY <1>1, CallOf DEF UpdateCall
<1>3. c.op = "put" /\ c.arg = [i \in X |-> Absent]
  BY <1>1, <1>2 DEF PutCall
<1>4. rows \in Seq(Row) /\ OneEach(rows) /\ OwnEach(rows) /\ rows' \in Seq(Row) /\ OneEach(rows') /\ OwnEach(rows')
  BY DEF CollectionsInv, DocumentsOwn, OneEach, OwnEach
<1>5. ToSet(rows') = {r \in ToSet(rows) : r.id \notin X} \cup ToSet(<<>>)
  <2>1. ToSet(<<>>) = {}
    BY DEF ToSet
  <2>2. CASE opened[p]
    BY <1>1, <1>4, <2>1, <2>2, WithoutRows
  <2>3. CASE ~opened[p]
    <3>1. rows = <<>>
      BY <2>3 DEF CollectionsInv, AloneSound, Acting
    <3> QED BY <1>1, <2>1, <2>3, <3>1
  <2> QED BY <2>2, <2>3
<1>6. Asked[p] = [op |-> c.op, arg |-> c.arg] /\ [op |-> c.op, arg |-> c.arg] # NoCall
  BY <1>2, CallAsked, AskedOf
<1>7. Asked' = [Asked EXCEPT ![p] = NoCall]
  BY <1>1, AskedKept, NotCallingSound DEF Return
<1>8. X \in SUBSET Id
  BY <1>2, BatchIds
<1> HIDE DEF c
<1>9. (\A i \in Id \ X : Held'[i] = Held[i]) /\ \A i \in X : Held'[i] = Absent
  <2> DEFINE none == <<>>
  <2>1. none \in Seq(Row) /\ IdsOf(none) = {}
    BY DEF IdsOf
  <2>2. ToSet(rows') = {r \in ToSet(rows) : r.id \notin X} \cup ToSet(none)
    BY <1>5
  <2> HIDE DEF X, none
  <2>3. IdsOf(none) \subseteq X
    BY <2>1
  <2>4. (\A i \in Id \ X : Held'[i] = Held[i]) /\ \A i \in X \ IdsOf(none) : Held'[i] = Absent
    BY <1>4, <1>8, <2>1, <2>2, <2>3, HeldAfter
  <2> QED BY <2>1, <2>4
<1>10. Held' = [i \in Id |-> Held'[i]]
  BY DEF Held
<1>11. \A i \in Id : Held'[i] = IF i \notin DOMAIN c.arg THEN Held[i] ELSE c.arg[i]
  BY <1>3, <1>9
<1> QED BY <1>3, <1>6, <1>7, <1>10, <1>11 DEF Contract!TakeEffect, Contract!Applied

\* A call begins: the contract is asked.
LEMMA BeginAsks ==
  ASSUME CollectionsInv, (CollectionsInv)', NEW p \in Process, NEW pc, NEW op, NEW ids, NEW arg, NEW batch,
         Begin(p, pc, op, ids, arg, batch), pc # "idle"
  PROVE  Contract!Next
<1> DEFINE c == [pc |-> pc, op |-> op, ids |-> ids, arg |-> arg, batch |-> batch, left |-> {}]
<1>1. call[p] = NotCalling /\ call' = [call EXCEPT ![p] = c] /\ UNCHANGED <<setting, rows>>
  BY DEF Begin
<1>2. call'[p] = c
  BY <1>1 DEF CollectionsInv
<1>3. c \in CallRecord /\ c # NotCalling
  BY <1>2 DEF CollectionsInv, NotCalling
<1>4. (CallSound(call[p]))'
  BY DEF CollectionsInv
<1>5. [op |-> c.op, arg |-> c.arg] \in Contract!Call
  <2>1. CallSound(c)
    BY <1>1, <1>2, <1>4 DEF CallSound
  <2> HIDE DEF c
  <2> QED BY <1>3, <2>1, CallAsked
<1>6. Asked[p] = NoCall /\ Asked' = [Asked EXCEPT ![p] = [op |-> c.op, arg |-> c.arg]]
  BY <1>1, <1>3, AskedOf, AskedKept
<1>7. Held' = Held
  BY <1>1 DEF Held
<1>8. Contract!Ask(p, [op |-> c.op, arg |-> c.arg])
  BY <1>6, <1>7 DEF Contract!Ask
<1> QED BY <1>5, <1>8 DEF Contract!Next

\* A process that is alone takes the steps of the contract.
LEMMA ContractStep ==
  ASSUME CollectionsInv, (CollectionsInv)', CollectionsNext, ~setting.shared, ~setting.failing, ~misread
  PROVE  Contract!Next \/ UNCHANGED <<Held, Asked>>
<1>1. PICK p \in Process :
        /\ Acting(p)
        /\ \/ \E ids \in Batch : CallDelete(p, ids) \/ \E m \in Meta : CallUpsert(p, ids, m) \/ CallUpdate(p, ids, m)
           \/ Upsert(p) \/ CreateTable(p) \/ MergeFails(p) \/ DropRow(p) \/ AddRows(p)
           \/ Delete(p) \/ Get(p)
           \/ Restart(p)
  BY DEF CollectionsNext, Acting
<1>2. ASSUME NEW ids \in Batch,
             CallDelete(p, ids) \/ \E m \in Meta : CallUpsert(p, ids, m) \/ CallUpdate(p, ids, m)
      PROVE  Contract!Next
  BY <1>2, BeginAsks DEF CallDelete, CallUpsert, CallUpdate
<1>3. CASE Upsert(p)
  <2>1. /\ call[p].pc = "upsert" /\ Return(p) /\ UNCHANGED <<setting, misread>>
        /\ rows' = Merged(call[p].batch) /\ call[p].batch \in Seq(Row) /\ OneEach(call[p].batch)
    BY <1>3, CallOf DEF Upsert
  <2>2. ToSet(rows') = {r \in ToSet(rows) : r.id \notin IdsOf(call[p].batch)} \cup ToSet(call[p].batch)
    BY <2>1, MergedRows DEF CollectionsInv
  <2> QED BY <1>1, <2>1, <2>2, UpsertEffect DEF Contract!Next
<1>4. CASE CreateTable(p)
  <2>1. /\ call[p].pc = "upsert" /\ Return(p) /\ UNCHANGED <<setting, misread>>
        /\ rows' = rows \o call[p].batch /\ call[p].batch \in Seq(Row)
    BY <1>4, CallOf DEF CreateTable
  <2>2. rows = <<>>
    BY <1>1, <1>4 DEF CreateTable, CollectionsInv, AloneSound, Acting
  <2>3. rows' = call[p].batch /\ ToSet(rows) = {}
    BY <2>1, <2>2 DEF ToSet
  <2>4. ToSet(rows') = {r \in ToSet(rows) : r.id \notin IdsOf(call[p].batch)} \cup ToSet(call[p].batch)
    BY <2>3
  <2> QED BY <1>1, <2>1, <2>4, UpsertEffect DEF Contract!Next
<1>5. CASE Delete(p)
  <2>1. UNCHANGED <<setting, misread>>
    BY <1>5 DEF Delete
  <2> QED BY <1>1, <1>5, <2>1, DeleteEffect DEF Contract!Next
<1>6. CASE Get(p)
  <2>1. Held' = Held
    BY <1>6 DEF Get, Held
  <2>2. CASE NothingToUpdate(call[p], Found(p))
    <3>1. call' = [call EXCEPT ![p] = NotCalling]
      BY <1>6, <2>2 DEF Get
    <3>2. Asked' = [Asked EXCEPT ![p] = NoCall]
      BY <3>1, AskedKept, NotCallingSound
    <3> QED BY <2>1, <3>2 DEF Contract!Next, Contract!Abandon
  <2>3. CASE ~NothingToUpdate(call[p], Found(p))
    <3>1. PICK d \in CallRecord :
            /\ call' = [call EXCEPT ![p] = d] /\ d.pc = "upsert" /\ d.op = "update"
            /\ d.arg = call[p].arg /\ call[p].op = "update"
      BY <1>1, <1>6, <2>3, GetSound
    <3>2. d # NotCalling /\ call[p] # NotCalling
      BY <1>6, <3>1, NotCallingSound DEF Get
    <3>3. Asked[p] = [op |-> d.op, arg |-> d.arg] /\ Asked' = [Asked EXCEPT ![p] = [op |-> d.op, arg |-> d.arg]]
      BY <3>1, <3>2, AskedOf, AskedKept
    <3>4. Asked' = Asked
      BY <3>3, AskedOf
    <3> QED BY <2>1, <3>4
  <2> QED BY <2>2, <2>3
<1>7. CASE Restart(p)
  <2>1. Held' = Held /\ call' = [call EXCEPT ![p] = NotCalling]
    BY <1>7 DEF Restart, Held, Return
  <2>2. Asked' = [Asked EXCEPT ![p] = NoCall]
    BY <2>1, AskedKept, NotCallingSound
  <2> QED BY <2>1, <2>2 DEF Contract!Next, Contract!Abandon
<1>8. CASE MergeFails(p) \/ DropRow(p) \/ AddRows(p)
  <2>1. setting.failing
    BY <1>8, CallOf DEF MergeFails, DropRow, AddRows
  <2> QED BY <2>1
<1> QED BY <1>1, <1>2, <1>3, <1>4, <1>5, <1>6, <1>7, <1>8

\* A process that is alone finds in LanceDB as in PostgreSQL the collection that
\* storage/base.py promises, as long as merge_insert does not fail and until
\* a LanceDB update asks for its ids in another order than that of the scan: an
\* upsert, delete or update takes effect whole, once and while it is under way, or,
\* with its process, not at all.
THEOREM CollectionImplements ==
  ASSUME OneMerges
  PROVE  CollectionsSpec => ImplementsContract
<1> DEFINE Advance == ~setting.shared /\ ~setting.failing /\ ~misread => Contract!Next \/ UNCHANGED <<Held, Asked>>
<1>1. CollectionsInit => Contract!Init
  <2> SUFFICES ASSUME CollectionsInit PROVE Contract!Init
    OBVIOUS
  <2>1. CollectionsInv
    BY CollectionsInitially
  <2>2. Held \in [Id -> Contract!Record \cup {Absent}]
    <3>1. rows = <<>> /\ IdsOf(rows) = {}
      BY DEF CollectionsInit, IdsOf
    <3> QED BY <3>1 DEF Held
  <2>3. Asked = [p \in Process |-> NoCall]
    BY DEF CollectionsInit, Asked
  <2> QED BY <2>2, <2>3 DEF Contract!Init
<1>2. CollectionsInv /\ CollectionsInv' /\ [CollectionsNext]_collectionsVars => [Advance]_collectionsVars
  BY ContractStep
<1>3. CollectionsSpec => [][Advance]_collectionsVars
  <2> HIDE DEF Advance
  <2> QED BY <1>2, CollectionsInvariant, PTL DEF CollectionsSpec
<1> QED BY <1>1, <1>3 DEF ImplementsContract, CollectionsSpec

-----------------------------------------------------------------------------
(* Candidates: the inductive invariant.                                    *)

Proposal == [id : CandidateId, status : {"proposed", "accepted", "rejected"}, at : Nat]
ExtractRecord ==
  [pc : {"off", "read", "propose"}, apply : BOOLEAN, limit : Nat, offset : Nat, rest : Seq(CandidateId),
   alone : BOOLEAN]
ListingRecord ==
  [pc : {"off", "on", "done"}, status : {"any", "proposed"}, due : SUBSET CandidateId,
   seen : SUBSET CandidateId, offset : Nat, calm : BOOLEAN]

CandidatesTypes ==
  /\ proposals \in Seq(Proposal)
  /\ extract \in ExtractRecord /\ listing \in ListingRecord /\ second \in Nat

\* An id has one row.
OneCandidateEach == \A i, j \in DOMAIN proposals : proposals[i].id = proposals[j].id => i = j

\* A drawer stands once in the scan.
EvidenceSound ==
  /\ evidence \in Seq(EvidenceRow)
  /\ \A i, j \in DOMAIN evidence : evidence[i].drawer = evidence[j].drawer => i = j

\* The drawers read, and no others, have been proposed or are still to be.
ExtractSound ==
  extract.pc # "off" /\ extract.alone =>
    /\ extract.offset <= Len(evidence)
    /\ extract.limit # 0 => extract.offset <= extract.limit
    /\ extract.apply =>
         \A k \in 1..extract.offset : ToSet(FoundIn(evidence[k])) \subseteq CandidateIds \cup ToSet(extract.rest)
    /\ extract.pc = "read" => extract.rest = <<>>

\* A row's place in the list: the rows that do not come after it.
PlaceOf(status, i) == Cardinality({j \in AskedFor(status) : ListedFirst(j, i) \/ j = i})

\* A candidate that is due and not seen yet stands after the pages that were read.
ListingSound ==
  \A status \in {"any", "proposed"} :
    listing.status = status /\ (status = "any" \/ listing.calm) =>
      /\ listing.pc = "on" =>
           \A d \in listing.due \ listing.seen :
             \E i \in AskedFor(status) : proposals[i].id = d /\ PlaceOf(status, i) > listing.offset
      /\ listing.pc = "done" => listing.due \subseteq listing.seen

CandidatesInv == CandidatesTypes /\ OneCandidateEach /\ EvidenceSound /\ ExtractSound /\ ListingSound

-----------------------------------------------------------------------------
(* Candidates: lists.                                                      *)

ListOrder(status) == {ij \in AskedFor(status) \X AskedFor(status) : ListedFirst(ij[1], ij[2])}

LEMMA ProposalType ==
  ASSUME CandidatesTypes, NEW i \in DOMAIN proposals
  PROVE  /\ i \in 1..Len(proposals) /\ i \in Nat /\ proposals[i] \in Proposal
         /\ proposals[i].id \in CandidateId /\ proposals[i].id \in Nat /\ proposals[i].at \in Nat
<1>1. i \in 1..Len(proposals) /\ Len(proposals) \in Nat /\ proposals[i] \in Proposal
  BY DEF CandidatesTypes
<1>2. proposals[i].id \in CandidateId /\ proposals[i].at \in Nat
  <2> HIDE DEF CandidatesTypes
  <2> QED BY <1>1 DEF Proposal
<1>3. proposals[i].id \in Nat
  BY <1>2, CandidateAssumption, Zenon
<1>4. i \in Nat
  BY <1>1
<1> QED BY <1>1, <1>2, <1>3, <1>4

\* Each backend lists the rows in a strict order, whatever is asked for.
LEMMA ListOrdered ==
  ASSUME CandidatesTypes, OneCandidateEach, NEW status
  PROVE  /\ IsFiniteSet(AskedFor(status)) /\ AskedFor(status) \in SUBSET DOMAIN proposals
         /\ StrictOrder(AskedFor(status), ListOrder(status))
         /\ \A i, j \in AskedFor(status) : <<i, j>> \in ListOrder(status) <=> ListedFirst(i, j)
<1> DEFINE A == AskedFor(status)
           R == ListOrder(status)
<1>1. A \in SUBSET DOMAIN proposals /\ DOMAIN proposals = 1..Len(proposals) /\ Len(proposals) \in Nat
  BY DEF AskedFor, CandidatesTypes
<1>2. IsFiniteSet(A)
  <2>1. 1 \in Int /\ Len(proposals) \in Int
    BY <1>1
  <2>2. IsFiniteSet(DOMAIN proposals)
    BY <1>1, <2>1, FS_Interval
  <2> QED BY <1>1, <2>2, FS_Subset
<1>3. \A i, j \in A : <<i, j>> \in R <=> ListedFirst(i, j)
  BY DEF ListOrder
<1>4. \A i \in A : i \in Nat /\ proposals[i].id \in Nat /\ proposals[i].at \in Nat
  BY <1>1, ProposalType
<1>5. \A i, j \in A : i # j => proposals[i].id # proposals[j].id
  BY <1>1 DEF OneCandidateEach
<1> HIDE DEF A, R
<1>6. ASSUME NEW i \in A
      PROVE  ~ListedFirst(i, i)
  BY <1>4 DEF ListedFirst, Oldest
<1>7. ASSUME NEW i \in A, NEW j \in A, NEW k \in A, ListedFirst(i, j), ListedFirst(j, k)
      PROVE  ListedFirst(i, k)
  BY <1>4, <1>7 DEF ListedFirst, Oldest
<1>8. ASSUME NEW i \in A, NEW j \in A, i # j
      PROVE  ListedFirst(i, j) \/ ListedFirst(j, i)
  BY <1>4, <1>5, <1>8 DEF ListedFirst, Oldest
<1>9. StrictOrder(A, R)
  BY <1>3, <1>6, <1>7, <1>8 DEF StrictOrder
<1> QED BY <1>1, <1>2, <1>3, <1>9 DEF A, R

\* A list has each row asked for at its place.
LEMMA ListedRows ==
  ASSUME CandidatesTypes, OneCandidateEach, NEW status
  PROVE  LET n == Cardinality(AskedFor(status)) IN
         /\ n \in Nat /\ Listed(status) \in Seq(Proposal) /\ Len(Listed(status)) = n
         /\ \A i \in AskedFor(status) :
              PlaceOf(status, i) \in 1..n /\ Listed(status)[PlaceOf(status, i)] = proposals[i]
         /\ \A k \in 1..n : \E i \in AskedFor(status) : Listed(status)[k] = proposals[i]
<1> DEFINE A == AskedFor(status)
           R == ListOrder(status)
           n == Cardinality(A)
           f == Ordered(A, R)
<1>1. IsFiniteSet(A) /\ StrictOrder(A, R) /\ A \in SUBSET DOMAIN proposals
  BY ListOrdered
<1>2. \A i, j \in A : <<i, j>> \in R <=> ListedFirst(i, j)
  BY ListOrdered
<1>3. Listed(status) = [k \in 1..n |-> proposals[f[k]]]
  BY DEF Listed, ListOrder
<1> HIDE DEF A, R
<1>4. n \in Nat /\ f \in [1..n -> A] /\ \A x \in A : \E k \in 1..n : f[k] = x
  BY <1>1, OrderedRows
<1>5. ASSUME NEW k \in 1..n
      PROVE  PlaceOf(status, f[k]) = k
  <2>1. Cardinality({x \in A : <<x, f[k]>> \in R \/ x = f[k]}) = k
    BY <1>1, OrderedPlaces
  <2>2. f[k] \in A
    BY <1>4
  <2>3. {x \in A : <<x, f[k]>> \in R \/ x = f[k]} = {j \in A : ListedFirst(j, f[k]) \/ j = f[k]}
    BY <1>2, <2>2
  <2> QED BY <2>1, <2>3 DEF PlaceOf, A
<1> HIDE DEF n, f
<1>6. \A k \in 1..n : f[k] \in A /\ proposals[f[k]] \in Proposal
  BY <1>1, <1>4, ProposalType
<1>7. Listed(status) \in Seq(Proposal) /\ Len(Listed(status)) = n
  BY <1>3, <1>4, <1>6
<1>8. ASSUME NEW i \in A
      PROVE  PlaceOf(status, i) \in 1..n /\ Listed(status)[PlaceOf(status, i)] = proposals[i]
  <2>1. PICK k \in 1..n : f[k] = i
    BY <1>4
  <2> QED BY <1>3, <1>5, <2>1
<1>9. \A k \in 1..n : \E i \in A : Listed(status)[k] = proposals[i]
  BY <1>3, <1>6
<1> QED BY <1>4, <1>7, <1>8, <1>9 DEF A, n

\* Rows that are added can only put off those that were there.
LEMMA PlacesGrow ==
  ASSUME CandidatesTypes, OneCandidateEach, CandidatesTypes', OneCandidateEach', UNCHANGED kind, NEW status,
         DOMAIN proposals \subseteq DOMAIN proposals',
         \A i \in DOMAIN proposals : proposals'[i].id = proposals[i].id /\ proposals'[i].at = proposals[i].at,
         AskedFor(status) \subseteq AskedFor(status)', NEW i \in AskedFor(status)
  PROVE  PlaceOf(status, i) \in Nat /\ PlaceOf(status, i)' \in Nat /\ PlaceOf(status, i) <= PlaceOf(status, i)'
<1> DEFINE A == AskedFor(status)
           B == {j \in A : ListedFirst(j, i) \/ j = i}
           C == {j \in AskedFor(status)' : (ListedFirst(j, i))' \/ j = i}
<1>1. IsFiniteSet(A) /\ A \in SUBSET DOMAIN proposals
  BY ListOrdered
<1>2. IsFiniteSet(AskedFor(status)')
  <2>1. AskedFor(status)' \in SUBSET (1..Len(proposals')) /\ 1 \in Int /\ Len(proposals') \in Int
    BY DEF AskedFor, CandidatesTypes
  <2>2. IsFiniteSet(1..Len(proposals'))
    BY <2>1, FS_Interval
  <2> QED BY <2>1, <2>2, FS_Subset
<1>3. IsFiniteSet(B) /\ IsFiniteSet(C)
  BY <1>1, <1>2, FS_Subset
<1>4. B \in SUBSET C
  BY <1>1 DEF ListedFirst, Oldest
<1>5. PlaceOf(status, i) = Cardinality(B) /\ PlaceOf(status, i)' = Cardinality(C)
  BY DEF PlaceOf
<1> HIDE DEF B, C
<1> QED BY <1>3, <1>4, <1>5, FS_Subset, FS_CardinalityType

-----------------------------------------------------------------------------
(* Candidates: the pages of the extraction.                                *)

LEMMA EvidenceTexts ==
  ASSUME NEW e \in EvidenceRow
  PROVE  FoundIn(e) \in Seq(CandidateId) /\ e.drawer \in DOMAIN Extracted
<1>1. PICK d \in DOMAIN Extracted : e \in [drawer : {d}, text : DOMAIN Extracted[d]]
  BY DEF EvidenceRow
<1>2. e.drawer = d /\ e.text \in DOMAIN Extracted[d]
  BY <1>1
<1> QED BY <1>2, CandidateAssumption DEF FoundIn

\* What is proposed of a page is all that the rules find in its drawers.
LEMMA MentionedWhole ==
  ASSUME NEW page \in Seq(EvidenceRow)
  PROVE  Mentioned(page) \in Seq(CandidateId) /\ \A k \in DOMAIN page : ToSet(FoundIn(page[k])) \subseteq ToSet(Mentioned(page))
<1> DEFINE F == UNION {{k} \X (DOMAIN FoundIn(page[k])) : k \in DOMAIN page}
           R == {uv \in F \X F : InTurn(uv[1], uv[2])}
           n == Cardinality(F)
           f == Ordered(F, R)
<1>1. DOMAIN page = 1..Len(page) /\ Len(page) \in Nat
  OBVIOUS
<1>2. \A k \in DOMAIN page : FoundIn(page[k]) \in Seq(CandidateId)
  BY EvidenceTexts
<1>3. \A x \in F : \E k \in DOMAIN page : \E m \in DOMAIN FoundIn(page[k]) : x = <<k, m>>
  OBVIOUS
<1>4. \A k \in DOMAIN page : \A m \in DOMAIN FoundIn(page[k]) : <<k, m>> \in F
  OBVIOUS
<1>5. IsFiniteSet(F)
  <2> DEFINE E == {{k} \X (DOMAIN FoundIn(page[k])) : k \in 1..Len(page)}
             h == [k \in 1..Len(page) |-> {k} \X (DOMAIN FoundIn(page[k]))]
  <2>1. IsFiniteSet(1..Len(page))
    <3>1. 1 \in Int /\ Len(page) \in Int
      OBVIOUS
    <3> QED BY <3>1, FS_Interval
  <2>2. IsFiniteSet(E)
    <3>1. h \in Surjection(1..Len(page), E)
      BY DEF Surjection
    <3> HIDE DEF h, E
    <3> QED BY <2>1, <3>1, FS_Surjection
  <2>3. ASSUME NEW X \in E
        PROVE  IsFiniteSet(X)
    <3>1. PICK k \in 1..Len(page) : X = {k} \X (DOMAIN FoundIn(page[k]))
      OBVIOUS
    <3>2. IsFiniteSet({k})
      BY FS_Singleton
    <3>3. DOMAIN FoundIn(page[k]) = 1..Len(FoundIn(page[k])) /\ Len(FoundIn(page[k])) \in Int /\ 1 \in Int
      BY <1>1, <1>2
    <3>4. IsFiniteSet(DOMAIN FoundIn(page[k]))
      BY <3>3, FS_Interval
    <3> QED BY <3>1, <3>2, <3>4, FS_Product
  <2>4. IsFiniteSet(UNION E)
    <3> HIDE DEF E
    <3> QED BY <2>2, <2>3, FS_UNION
  <2> QED BY <1>1, <2>4
<1>6. \A x, y \in F : <<x, y>> \in R <=> InTurn(x, y)
  BY Zenon
<1>7. \A x \in F : x = <<x[1], x[2]>> /\ x[1] \in Int /\ x[2] \in Int
  <2> SUFFICES ASSUME NEW x \in F
               PROVE  x = <<x[1], x[2]>> /\ x[1] \in Int /\ x[2] \in Int
    OBVIOUS
  <2>1. PICK k \in DOMAIN page : \E m \in DOMAIN FoundIn(page[k]) : x = <<k, m>>
    BY <1>3
  <2>2. PICK m \in DOMAIN FoundIn(page[k]) : x = <<k, m>>
    BY <2>1
  <2>3. k \in Int /\ m \in Int
    BY <1>1, <1>2
  <2> QED BY <2>2, <2>3
<1>8. Mentioned(page) = [j \in 1..n |-> FoundIn(page[f[j][1]])[f[j][2]]]
  BY DEF Mentioned
<1> HIDE DEF F, R
<1>9. StrictOrder(F, R)
  <2>1. \A x \in F : <<x, x>> \notin R
    BY <1>6, <1>7 DEF InTurn
  <2>2. ASSUME NEW x \in F, NEW y \in F, NEW z \in F, <<x, y>> \in R, <<y, z>> \in R
        PROVE  <<x, z>> \in R
    <3>1. InTurn(x, y) /\ InTurn(y, z)
      BY <1>6, <2>2
    <3>2. InTurn(x, z)
      BY <1>7, <3>1 DEF InTurn
    <3> QED BY <1>6, <3>2
  <2>3. ASSUME NEW x \in F, NEW y \in F, x # y
        PROVE  <<x, y>> \in R \/ <<y, x>> \in R
    <3>1. x[1] # y[1] \/ x[2] # y[2]
      BY <1>7, <2>3, Zenon
    <3>2. InTurn(x, y) \/ InTurn(y, x)
      BY <1>7, <3>1 DEF InTurn
    <3> QED BY <1>6, <3>2
  <2> QED BY <2>1, <2>2, <2>3 DEF StrictOrder
<1>10. n \in Nat /\ f \in [1..n -> F] /\ \A x \in F : \E i \in 1..n : f[i] = x
  BY <1>5, <1>9, OrderedRows
<1> HIDE DEF f, n
<1>11. ASSUME NEW j \in 1..n
       PROVE  FoundIn(page[f[j][1]])[f[j][2]] \in CandidateId
  <2>1. PICK k \in DOMAIN page : \E m \in DOMAIN FoundIn(page[k]) : f[j] = <<k, m>>
    BY <1>3, <1>10
  <2>2. PICK m \in DOMAIN FoundIn(page[k]) : f[j] = <<k, m>>
    BY <2>1
  <2> QED BY <1>2, <2>2
<1>12. Mentioned(page) \in Seq(CandidateId)
  BY <1>8, <1>10, <1>11
<1>13. ASSUME NEW k \in DOMAIN page, NEW c \in ToSet(FoundIn(page[k]))
       PROVE  c \in ToSet(Mentioned(page))
  <2>1. PICK m \in DOMAIN FoundIn(page[k]) : c = FoundIn(page[k])[m]
    BY DEF ToSet
  <2>2. PICK j \in 1..n : f[j] = <<k, m>>
    BY <1>4, <1>10
  <2>3. Mentioned(page)[j] = c /\ j \in DOMAIN Mentioned(page)
    BY <1>8, <2>1, <2>2
  <2> QED BY <2>3 DEF ToSet
<1> QED BY <1>12, <1>13

-----------------------------------------------------------------------------
(* Candidates: the steps.                                                  *)

LEMMA CandidatesStart ==
  CandidatesInit => CandidatesInv
<1> SUFFICES ASSUME CandidatesInit
             PROVE  CandidatesInv
  OBVIOUS
<1> USE DEF CandidatesInit
<1>1. CandidatesTypes
  BY DEF CandidatesTypes, ExtractRecord, ListingRecord, NoExtract, NoListing
<1>2. OneCandidateEach
  BY DEF OneCandidateEach
<1>3. EvidenceSound
  BY CandidateAssumption DEF EvidenceSound
<1>4. ExtractSound /\ ListingSound
  BY DEF ExtractSound, ListingSound, NoExtract, NoListing
<1> QED BY <1>1, <1>2, <1>3, <1>4 DEF CandidatesInv

\* While rows are only added and none leaves the list, a candidate that is due
\* keeps its place or moves further from the pages that were read.
LEMMA ListingKept ==
  ASSUME CandidatesInv, CandidatesTypes', OneCandidateEach', UNCHANGED kind,
         DOMAIN proposals \subseteq DOMAIN proposals',
         \A i \in DOMAIN proposals : proposals'[i].id = proposals[i].id /\ proposals'[i].at = proposals[i].at,
         listing' = [listing EXCEPT !.calm = listing'.calm], listing'.calm => listing.calm,
         \A status \in {"any", "proposed"} :
           status = "any" \/ listing'.calm => AskedFor(status) \subseteq AskedFor(status)'
  PROVE  ListingSound'
<1>1. /\ listing \in ListingRecord /\ listing'.status = listing.status /\ listing'.due = listing.due
      /\ listing'.seen = listing.seen /\ listing'.pc = listing.pc /\ listing'.offset = listing.offset
      /\ listing.offset \in Nat
  BY DEF CandidatesInv, CandidatesTypes, ListingRecord
<1>2. ASSUME NEW status \in {"any", "proposed"}, listing.status = status, status = "any" \/ listing'.calm,
             listing.pc = "on", NEW d \in listing.due \ listing.seen
      PROVE  \E i \in AskedFor(status)' : proposals'[i].id = d /\ PlaceOf(status, i)' > listing.offset
  <2>1. PICK i \in AskedFor(status) : proposals[i].id = d /\ PlaceOf(status, i) > listing.offset
    BY <1>2 DEF CandidatesInv, ListingSound
  <2>2. i \in DOMAIN proposals
    BY <2>1 DEF AskedFor
  <2>3. AskedFor(status) \subseteq AskedFor(status)'
    BY <1>2
  <2>4. PlaceOf(status, i) \in Nat /\ PlaceOf(status, i)' \in Nat /\ PlaceOf(status, i) <= PlaceOf(status, i)'
    BY <2>1, <2>3, PlacesGrow DEF CandidatesInv
  <2>5. i \in AskedFor(status)' /\ proposals'[i].id = d /\ PlaceOf(status, i)' > listing.offset
    BY <1>1, <2>1, <2>2, <2>3, <2>4
  <2> QED BY <2>5
<1>3. ASSUME NEW status \in {"any", "proposed"}, listing.status = status, status = "any" \/ listing'.calm,
             listing.pc = "done"
      PROVE  listing.due \subseteq listing.seen
  BY <1>3 DEF CandidatesInv, ListingSound
<1> QED BY <1>1, <1>2, <1>3 DEF ListingSound

LEMMA SetStatusKeeps ==
  CandidatesInv /\ SetStatus => CandidatesInv'
<1> SUFFICES ASSUME CandidatesInv, SetStatus
             PROVE  CandidatesInv'
  OBVIOUS
<1>1. PICK i \in DOMAIN proposals, status \in {"accepted", "rejected"} :
        proposals' = [proposals EXCEPT ![i].status = status]
  BY DEF SetStatus
<1>2. /\ UNCHANGED <<kind, evidence, extract, second, extracts>>
      /\ listing' = [listing EXCEPT !.calm = FALSE] /\ listing \in ListingRecord
      /\ proposals \in Seq(Proposal) /\ extract \in ExtractRecord /\ second \in Nat
  BY DEF SetStatus, CandidatesInv, CandidatesTypes
<1>3. /\ proposals' \in Seq(Proposal) /\ DOMAIN proposals' = DOMAIN proposals
      /\ \A j \in DOMAIN proposals : proposals'[j].id = proposals[j].id /\ proposals'[j].at = proposals[j].at
  <2> DEFINE r == [proposals[i] EXCEPT !.status = status]
  <2>1. proposals[i] \in Proposal /\ proposals' = [proposals EXCEPT ![i] = r]
    BY <1>1, <1>2
  <2>2. r \in Proposal /\ r.id = proposals[i].id /\ r.at = proposals[i].at
    BY <2>1 DEF Proposal
  <2> HIDE DEF r
  <2> QED BY <1>2, <2>1, <2>2
<1>4. CandidatesTypes'
  BY <1>2, <1>3 DEF CandidatesTypes, ListingRecord
<1>5. OneCandidateEach'
  BY <1>3 DEF CandidatesInv, OneCandidateEach
<1>6. EvidenceSound'
  BY <1>2 DEF CandidatesInv, EvidenceSound
<1>7. ExtractSound'
  <2>1. CandidateIds' = CandidateIds
    BY <1>3 DEF CandidateIds
  <2> QED BY <1>2, <2>1 DEF CandidatesInv, ExtractSound
<1>8. listing' = [listing EXCEPT !.calm = listing'.calm] /\ ~listing'.calm
  BY <1>2 DEF ListingRecord
<1>9. AskedFor("any") \subseteq AskedFor("any")'
  BY <1>3 DEF AskedFor
<1>10. ListingSound'
  BY <1>2, <1>3, <1>4, <1>5, <1>8, <1>9, ListingKept
<1> QED BY <1>4, <1>5, <1>6, <1>7, <1>10 DEF CandidatesInv

LEMMA StartExtractKeeps ==
  CandidatesInv /\ (StartExtract \/ ExtractDies) => CandidatesInv'
<1> SUFFICES ASSUME CandidatesInv, StartExtract \/ ExtractDies
             PROVE  CandidatesInv'
  OBVIOUS
<1>1. UNCHANGED <<kind, evidence, proposals, listing, second>>
  BY DEF StartExtract, ExtractDies
<1>2. extract' \in ExtractRecord /\ extract'.pc \in {"off", "read"} /\ extract'.offset = 0 /\ extract'.rest = <<>>
  <2>1. CASE StartExtract
    <3>1. PICK apply \in BOOLEAN, limit \in ExtractLimits :
            extract' = [NoExtract EXCEPT !.pc = "read", !.apply = apply, !.limit = limit]
      BY <2>1 DEF StartExtract
    <3>2. limit \in Nat /\ <<>> \in Seq(CandidateId)
      BY CandidateAssumption
    <3>3. extract' = [pc |-> "read", apply |-> apply, limit |-> limit, offset |-> 0, rest |-> <<>>, alone |-> TRUE]
      BY <3>1 DEF NoExtract
    <3> QED BY <3>2, <3>3 DEF ExtractRecord
  <2>2. CASE ExtractDies
    BY <2>2 DEF ExtractDies, NoExtract, ExtractRecord
  <2> QED BY <2>1, <2>2
<1>3. CandidatesTypes' /\ OneCandidateEach' /\ EvidenceSound'
  BY <1>1, <1>2 DEF CandidatesInv, CandidatesTypes, OneCandidateEach, EvidenceSound
<1>4. ExtractSound'
  <2>1. Len(evidence) \in Nat /\ extract'.limit \in Nat
    BY <1>2 DEF ExtractRecord, CandidatesInv, EvidenceSound
  <2>2. 1..extract'.offset = {}
    BY <1>2
  <2> QED BY <1>1, <1>2, <2>1, <2>2 DEF ExtractSound
<1>5. ListingSound'
  BY <1>1 DEF CandidatesInv, ListingSound, PlaceOf, AskedFor, ListedFirst, Oldest
<1> QED BY <1>3, <1>4, <1>5 DEF CandidatesInv

LEMMA SecondPassesKeeps ==
  CandidatesInv /\ (SecondPasses \/ UNCHANGED candidateVars) => CandidatesInv'
<1> SUFFICES ASSUME CandidatesInv, SecondPasses \/ UNCHANGED candidateVars
             PROVE  CandidatesInv'
  OBVIOUS
<1>1. UNCHANGED <<kind, evidence, proposals, extract, listing>> /\ second' \in Nat
  BY DEF SecondPasses, candidateVars, CandidatesInv, CandidatesTypes
<1>2. CandidatesTypes' /\ OneCandidateEach' /\ EvidenceSound' /\ ExtractSound'
  BY <1>1 DEF CandidatesInv, CandidatesTypes, OneCandidateEach, EvidenceSound, ExtractSound, CandidateIds
<1>3. ListingSound'
  BY <1>1 DEF CandidatesInv, ListingSound, PlaceOf, AskedFor, ListedFirst, Oldest
<1> QED BY <1>2, <1>3 DEF CandidatesInv

\* What a page holds: the drawers from the offset on, within the room.
LEMMA PageOfEvidence ==
  ASSUME CandidatesInv
  PROVE  /\ EvidencePage \in Seq(EvidenceRow) /\ Len(EvidencePage) \in Nat
         /\ \A k \in DOMAIN EvidencePage : EvidencePage[k] = evidence[extract.offset + k]
         /\ extract.offset <= Len(evidence) => extract.offset + Len(EvidencePage) <= Len(evidence)
         /\ extract.limit # 0 /\ extract.offset <= extract.limit =>
              extract.offset + Len(EvidencePage) <= extract.limit
         /\ extract.offset < Len(evidence) /\ (extract.limit = 0 \/ extract.offset < extract.limit) => EvidencePage # <<>>
<1> DEFINE off == extract.offset
           last == off + PageRoom
           upTo == IF last < Len(evidence) THEN last ELSE Len(evidence)
<1>1. evidence \in Seq(EvidenceRow) /\ off \in Nat /\ extract.limit \in Nat /\ Len(evidence) \in Nat
  BY DEF CandidatesInv, CandidatesTypes, EvidenceSound, ExtractRecord
<1>2. ExtractBatch \in Nat /\ ExtractBatch > 0
  BY CandidateAssumption
<1>3. /\ PageRoom \in Int
      /\ extract.limit # 0 => PageRoom <= extract.limit - off
      /\ extract.limit = 0 \/ off < extract.limit => PageRoom > 0
  BY <1>1, <1>2 DEF PageRoom
<1>4. EvidencePage = SubSeq(evidence, off + 1, upTo)
  BY DEF EvidencePage
<1>5. upTo \in Int /\ upTo <= Len(evidence) /\ upTo <= off + PageRoom /\ (upTo = off + PageRoom \/ upTo = Len(evidence))
  BY <1>1, <1>3
<1> HIDE DEF off, upTo
<1> DEFINE page == SubSeq(evidence, off + 1, upTo)
<1>6. page \in Seq(EvidenceRow)
  BY <1>1, <1>5
<1>7. Len(page) = (IF off < upTo THEN upTo - off ELSE 0) /\ \A k \in 1..Len(page) : page[k] = evidence[off + k]
  BY <1>1, <1>5
<1> HIDE DEF page
<1>8. /\ Len(page) \in Nat /\ DOMAIN page = 1..Len(page)
      /\ \A k \in DOMAIN page : page[k] = evidence[off + k]
  BY <1>1, <1>5, <1>6, <1>7
<1>9. off <= Len(evidence) => off + Len(page) <= Len(evidence)
  BY <1>1, <1>5, <1>7
<1>10. extract.limit # 0 /\ off <= extract.limit => off + Len(page) <= extract.limit
  BY <1>1, <1>3, <1>5, <1>7
<1>11. off < Len(evidence) /\ (extract.limit = 0 \/ off < extract.limit) => Len(page) > 0
  BY <1>1, <1>3, <1>5, <1>7
<1>12. EvidencePage = page
  BY <1>4 DEF page
<1>13. page = <<>> => Len(page) = 0
  OBVIOUS
<1>14. off = extract.offset
  BY DEF off
<1> QED BY <1>6, <1>8, <1>9, <1>10, <1>11, <1>12, <1>13, <1>14

LEMMA ReadEvidenceKeeps ==
  CandidatesInv /\ ReadEvidence => CandidatesInv'
<1> SUFFICES ASSUME CandidatesInv, ReadEvidence
             PROVE  CandidatesInv'
  OBVIOUS
<1> DEFINE page == EvidencePage
<1>1. UNCHANGED <<kind, evidence, proposals, listing, second>>
  BY DEF ReadEvidence
<1>2. extract \in ExtractRecord /\ extract.pc = "read" /\ Len(evidence) \in Nat
  BY DEF CandidatesInv, CandidatesTypes, EvidenceSound, ReadEvidence
<1>3. /\ page \in Seq(EvidenceRow) /\ Len(page) \in Nat
      /\ \A k \in DOMAIN page : page[k] = evidence[extract.offset + k]
      /\ extract.offset <= Len(evidence) => extract.offset + Len(page) <= Len(evidence)
      /\ extract.limit # 0 /\ extract.offset <= extract.limit => extract.offset + Len(page) <= extract.limit
  BY PageOfEvidence
<1>4. Mentioned(page) \in Seq(CandidateId) /\ \A k \in DOMAIN page : ToSet(FoundIn(page[k])) \subseteq ToSet(Mentioned(page))
  BY <1>3, MentionedWhole
<1>5. extract' = IF page = <<>> THEN NoExtract
                 ELSE [extract EXCEPT !.pc = "propose", !.offset = extract.offset + Len(page),
                         !.rest = IF extract.apply THEN Mentioned(page) ELSE <<>>]
  BY DEF ReadEvidence
<1> HIDE DEF page
<1>6. CASE page = <<>>
  <2>1. extract' = NoExtract
    BY <1>5, <1>6
  <2>2. extract' \in ExtractRecord /\ extract'.pc = "off"
    BY <2>1 DEF NoExtract, ExtractRecord
  <2>3. CandidatesTypes' /\ OneCandidateEach' /\ EvidenceSound'
    BY <1>1, <2>2 DEF CandidatesInv, CandidatesTypes, OneCandidateEach, EvidenceSound
  <2>4. ExtractSound'
    BY <2>2 DEF ExtractSound
  <2>5. ListingSound'
    BY <1>1 DEF CandidatesInv, ListingSound, PlaceOf, AskedFor, ListedFirst, Oldest
  <2> QED BY <2>3, <2>4, <2>5 DEF CandidatesInv
<1>7. CASE page # <<>>
  <2>1. /\ extract' \in ExtractRecord /\ extract'.pc = "propose" /\ extract'.offset = extract.offset + Len(page)
        /\ extract'.limit = extract.limit /\ extract'.apply = extract.apply /\ extract'.alone = extract.alone
        /\ extract'.apply => extract'.rest = Mentioned(page)
    <3> DEFINE m == extract.offset + Len(page)
               rest == IF extract.apply THEN Mentioned(page) ELSE <<>>
    <3>1. extract.offset \in Nat
      BY <1>2 DEF ExtractRecord
    <3>2. m \in Nat /\ rest \in Seq(CandidateId) /\ (extract.apply => rest = Mentioned(page))
      BY <1>3, <1>4, <3>1
    <3>3. extract' = [extract EXCEPT !.pc = "propose", !.offset = m, !.rest = rest]
      BY <1>5, <1>7
    <3> HIDE DEF rest
    <3> QED BY <1>2, <3>2, <3>3 DEF ExtractRecord
  <2>2. CandidatesTypes' /\ OneCandidateEach' /\ EvidenceSound'
    BY <1>1, <2>1 DEF CandidatesInv, CandidatesTypes, OneCandidateEach, EvidenceSound
  <2>3. ASSUME extract.alone
        PROVE  /\ extract'.offset <= Len(evidence)
               /\ extract'.limit # 0 => extract'.offset <= extract'.limit
    BY <1>2, <1>3, <2>1, <2>3 DEF CandidatesInv, ExtractSound
  <2>4. ASSUME extract.alone, extract.apply, NEW k \in 1..extract'.offset
        PROVE  ToSet(FoundIn(evidence[k])) \subseteq CandidateIds \cup ToSet(extract'.rest)
    <3>1. CASE k \in 1..extract.offset
      <4>1. extract.rest = <<>> /\ ToSet(FoundIn(evidence[k])) \subseteq CandidateIds \cup ToSet(extract.rest)
        BY <1>2, <2>4, <3>1 DEF CandidatesInv, ExtractSound
      <4>2. ToSet(extract.rest) = {}
        BY <4>1 DEF ToSet
      <4> QED BY <4>1, <4>2
    <3>2. CASE k \notin 1..extract.offset
      <4>1. extract.offset \in Nat
        BY <1>2 DEF ExtractRecord
      <4>2. k - extract.offset \in DOMAIN page /\ extract.offset + (k - extract.offset) = k
        BY <1>3, <2>1, <3>2, <4>1
      <4>3. page[k - extract.offset] = evidence[k]
        BY <1>3, <4>2
      <4>4. ToSet(FoundIn(evidence[k])) \subseteq ToSet(Mentioned(page))
        BY <1>4, <4>2, <4>3
      <4> QED BY <2>1, <2>4, <4>4
    <3> QED BY <3>1, <3>2
  <2>5. ExtractSound'
    <3>1. CandidateIds' = CandidateIds /\ \A k : FoundIn(evidence[k])' = FoundIn(evidence[k])
      BY <1>1 DEF CandidateIds, FoundIn
    <3> QED BY <1>1, <2>1, <2>3, <2>4, <3>1 DEF ExtractSound
  <2>6. ListingSound'
    BY <1>1 DEF CandidatesInv, ListingSound, PlaceOf, AskedFor, ListedFirst, Oldest
  <2> QED BY <2>2, <2>5, <2>6 DEF CandidatesInv
<1> QED BY <1>6, <1>7

LEMMA ProposeNextKeeps ==
  CandidatesInv /\ ProposeNext => CandidatesInv'
<1> SUFFICES ASSUME CandidatesInv, ProposeNext
             PROVE  CandidatesInv'
  OBVIOUS
<1>1. UNCHANGED <<kind, evidence, listing, second>>
  BY DEF ProposeNext
<1>2. /\ extract \in ExtractRecord /\ extract.pc = "propose" /\ Len(evidence) \in Nat /\ second \in Nat
      /\ proposals \in Seq(Proposal) /\ listing \in ListingRecord
      /\ extract.rest \in Seq(CandidateId)
  BY DEF CandidatesInv, CandidatesTypes, EvidenceSound, ProposeNext, ExtractRecord
<1>3. CASE UNCHANGED proposals
  <2>1. /\ extract' \in ExtractRecord
        /\ \/ extract'.pc = "off"
           \/ /\ extract'.offset = extract.offset /\ extract'.limit = extract.limit /\ extract'.apply = extract.apply
              /\ extract'.alone = extract.alone
              /\ ToSet(extract'.rest) \cup CandidateIds = ToSet(extract.rest) \cup CandidateIds
              /\ extract'.pc = "read" => extract'.rest = <<>>
    <3>1. CASE extract.rest = <<>>
      <4>1. extract' = [extract EXCEPT !.pc = "read"]
        BY <3>1 DEF ProposeNext
      <4> QED BY <1>2, <3>1, <4>1 DEF ExtractRecord
    <3>2. CASE extract' = NoExtract
      BY <3>2 DEF NoExtract, ExtractRecord
    <3>3. CASE extract.rest # <<>> /\ extract' # NoExtract
      <4>1. extract' = [extract EXCEPT !.rest = Tail(extract.rest)] /\ proposals' = Proposed(Head(extract.rest))
        BY <3>3 DEF ProposeNext
      <4>2. Head(extract.rest) \in CandidateIds
        <5> DEFINE c == Head(extract.rest)
        <5>1. Len(proposals') = Len(proposals)
          BY <1>3
        <5> SUFFICES ASSUME c \notin CandidateIds
                     PROVE  FALSE
          OBVIOUS
        <5>2. proposals' = Append(proposals, [id |-> c, status |-> "proposed", at |-> second])
          BY <4>1 DEF Proposed
        <5> HIDE DEF c
        <5>3. Len(proposals') = Len(proposals) + 1
          BY <1>2, <5>2
        <5> QED BY <1>2, <5>1, <5>3
      <4>3. Tail(extract.rest) \in Seq(CandidateId) /\ ToSet(extract.rest) = {Head(extract.rest)} \cup ToSet(Tail(extract.rest))
        BY <1>2, <3>3, HeadAndTail
      <4> QED BY <1>2, <4>1, <4>2, <4>3 DEF ExtractRecord
    <3> QED BY <3>1, <3>2, <3>3
  <2>2. CandidatesTypes' /\ OneCandidateEach' /\ EvidenceSound'
    BY <1>1, <1>3, <2>1 DEF CandidatesInv, CandidatesTypes, OneCandidateEach, EvidenceSound
  <2>3. ExtractSound'
    <3>1. CandidateIds' = CandidateIds /\ \A k : FoundIn(evidence[k])' = FoundIn(evidence[k])
      BY <1>1, <1>3 DEF CandidateIds, FoundIn
    <3> QED BY <1>1, <1>2, <2>1, <3>1 DEF CandidatesInv, ExtractSound
  <2>4. ListingSound'
    BY <1>1, <1>3 DEF CandidatesInv, ListingSound, PlaceOf, AskedFor, ListedFirst, Oldest
  <2> QED BY <2>2, <2>3, <2>4 DEF CandidatesInv
<1>4. CASE proposals' # proposals
  <2> DEFINE c == Head(extract.rest)
             row == [id |-> c, status |-> "proposed", at |-> second]
  <2>1. extract.rest # <<>> /\ extract' = [extract EXCEPT !.rest = Tail(extract.rest)] /\ proposals' = Proposed(c)
    BY <1>4 DEF ProposeNext
  <2>2. c \notin CandidateIds /\ proposals' = Append(proposals, row)
    BY <1>4, <2>1 DEF Proposed, ProposedAgain
  <2>3. c \in CandidateId /\ Tail(extract.rest) \in Seq(CandidateId) /\ ToSet(extract.rest) = {c} \cup ToSet(Tail(extract.rest))
    BY <1>2, <2>1, HeadAndTail
  <2> HIDE DEF c
  <2>4. row \in Proposal /\ row.id = c
    BY <1>2, <2>3 DEF Proposal
  <2> HIDE DEF row
  <2>5. /\ proposals' \in Seq(Proposal) /\ Len(proposals') = Len(proposals) + 1 /\ Len(proposals) \in Nat
        /\ DOMAIN proposals = 1..Len(proposals) /\ DOMAIN proposals' = 1..Len(proposals')
        /\ \A i \in DOMAIN proposals : proposals'[i] = proposals[i]
        /\ proposals'[Len(proposals) + 1] = row
    BY <1>2, <2>2, <2>4
  <2>6. DOMAIN proposals \subseteq DOMAIN proposals' /\ \A i \in DOMAIN proposals' : i \in DOMAIN proposals \/ i = Len(proposals) + 1
    BY <2>5
  <2>7. CandidateIds' = CandidateIds \cup {c}
    <3>1. \A i \in DOMAIN proposals : proposals'[i].id = proposals[i].id
      BY <2>5
    <3>2. Len(proposals) + 1 \in DOMAIN proposals' /\ proposals'[Len(proposals) + 1].id = c
      BY <2>4, <2>5
    <3> QED BY <2>6, <3>1, <3>2 DEF CandidateIds
  <2>8. /\ extract' \in ExtractRecord /\ extract'.pc = extract.pc /\ extract'.offset = extract.offset
        /\ extract'.limit = extract.limit /\ extract'.apply = extract.apply /\ extract'.alone = extract.alone
        /\ extract'.rest = Tail(extract.rest)
    BY <1>2, <2>1, <2>3 DEF ExtractRecord
  <2>9. CandidatesTypes' /\ EvidenceSound'
    BY <1>1, <2>5, <2>8 DEF CandidatesInv, CandidatesTypes, EvidenceSound
  <2>10. OneCandidateEach'
    <3>1. \A i \in DOMAIN proposals : proposals[i].id # c
      BY <2>2 DEF CandidateIds
    <3> QED BY <2>4, <2>5, <2>6, <3>1 DEF CandidatesInv, OneCandidateEach
  <2>11. ExtractSound'
    <3>1. \A k : FoundIn(evidence[k])' = FoundIn(evidence[k])
      BY <1>1 DEF FoundIn
    <3> QED BY <1>1, <1>2, <2>3, <2>7, <2>8, <3>1 DEF CandidatesInv, ExtractSound
  <2>12. listing' = [listing EXCEPT !.calm = listing'.calm]
    BY <1>1, <1>2 DEF ListingRecord
  <2>13. \A status : AskedFor(status) \subseteq AskedFor(status)'
    BY <2>5, <2>6 DEF AskedFor
  <2>14. ListingSound'
    BY <1>1, <2>5, <2>6, <2>9, <2>10, <2>12, <2>13, ListingKept
  <2> QED BY <2>9, <2>10, <2>11, <2>14 DEF CandidatesInv
<1> QED BY <1>3, <1>4

\* A drawer that is filed again leaves its place in the scan and takes the last one.
LEMMA RewriteEvidenceKeeps ==
  CandidatesInv /\ RewriteEvidence => CandidatesInv'
<1> SUFFICES ASSUME CandidatesInv, RewriteEvidence
             PROVE  CandidatesInv'
  OBVIOUS
<1>1. UNCHANGED <<kind, proposals, listing, second>> /\ extract' = [extract EXCEPT !.alone = FALSE]
  BY DEF RewriteEvidence
<1>2. extract \in ExtractRecord /\ evidence \in Seq(EvidenceRow) /\ Len(evidence) \in Nat /\ DOMAIN evidence = 1..Len(evidence)
  BY DEF CandidatesInv, CandidatesTypes, EvidenceSound
<1>3. extract' \in ExtractRecord /\ ~extract'.alone
  BY <1>1, <1>2 DEF ExtractRecord
<1>4. CandidatesTypes' /\ OneCandidateEach'
  BY <1>1, <1>3 DEF CandidatesInv, CandidatesTypes, OneCandidateEach
<1>5. ExtractSound'
  BY <1>3 DEF ExtractSound
<1>6. ListingSound'
  BY <1>1 DEF CandidatesInv, ListingSound, PlaceOf, AskedFor, ListedFirst, Oldest
<1>7. EvidenceSound'
  <2>1. PICK i \in DOMAIN evidence : \E text \in DOMAIN Extracted[evidence[i].drawer] :
          evidence' = Append(RemoveAt(evidence, i), [drawer |-> evidence[i].drawer, text |-> text])
    BY DEF RewriteEvidence
  <2>2. PICK text \in DOMAIN Extracted[evidence[i].drawer] :
          evidence' = Append(RemoveAt(evidence, i), [drawer |-> evidence[i].drawer, text |-> text])
    BY <2>1
  <2> DEFINE e == [drawer |-> evidence[i].drawer, text |-> text]
             others == RemoveAt(evidence, i)
             n == Len(evidence)
             Stood(j) == IF j = n THEN i ELSE IF j < i THEN j ELSE j + 1
  <2>3. i \in 1..n /\ n \in Nat /\ evidence[i] \in EvidenceRow
    BY <1>2
  <2>4. e \in EvidenceRow /\ e.drawer = evidence[i].drawer
    <3>1. evidence[i].drawer \in DOMAIN Extracted
      BY <2>3, EvidenceTexts
    <3> QED BY <3>1 DEF EvidenceRow
  <2>5. others \in Seq(EvidenceRow) /\ Len(others) = n - 1 /\ \A j \in 1..n - 1 : others[j] = evidence[Stood(j)]
    <3> DEFINE a == SubSeq(evidence, 1, i - 1)
               b == SubSeq(evidence, i + 1, n)
    <3>1. a \in Seq(EvidenceRow) /\ Len(a) = i - 1 /\ \A j \in 1..i - 1 : a[j] = evidence[j]
      BY <1>2, <2>3
    <3>2. b \in Seq(EvidenceRow) /\ Len(b) = n - i /\ \A j \in 1..n - i : b[j] = evidence[j + i]
      BY <1>2, <2>3
    <3>3. others = a \o b
      BY DEF RemoveAt
    <3> HIDE DEF a, b, others
    <3> QED BY <2>3, <3>1, <3>2, <3>3
  <2>6. evidence' = Append(others, e)
    BY <2>2
  <2> HIDE DEF e, others
  <2>7. /\ evidence' \in Seq(EvidenceRow) /\ Len(evidence') = n /\ DOMAIN evidence' = 1..n
        /\ \A j \in 1..n : evidence'[j].drawer = evidence[Stood(j)].drawer
    BY <2>3, <2>4, <2>5, <2>6
  <2>8. ASSUME NEW j \in 1..n, NEW k \in 1..n, evidence'[j].drawer = evidence'[k].drawer
        PROVE  j = k
    <3>1. Stood(j) \in 1..n /\ Stood(k) \in 1..n
      BY <2>3
    <3>2. evidence[Stood(j)].drawer = evidence[Stood(k)].drawer
      BY <2>7, <2>8
    <3> HIDE DEF Stood
    <3>3. Stood(j) = Stood(k)
      BY <1>2, <3>1, <3>2 DEF CandidatesInv, EvidenceSound
    <3> QED BY <2>3, <3>3 DEF Stood
  <2> QED BY <2>7, <2>8 DEF EvidenceSound
<1> QED BY <1>4, <1>5, <1>6, <1>7 DEF CandidatesInv

LEMMA StartListingKeeps ==
  CandidatesInv /\ StartListing => CandidatesInv'
<1> SUFFICES ASSUME CandidatesInv, StartListing
             PROVE  CandidatesInv'
  OBVIOUS
<1>1. UNCHANGED <<kind, evidence, proposals, extract, second>>
  BY DEF StartListing
<1>2. PICK status \in {"any", "proposed"} :
        listing' = [NoListing EXCEPT !.pc = "on", !.status = status, !.due = {r.id : r \in ToSet(Listed(status))}]
  BY DEF StartListing
<1> DEFINE due == {r.id : r \in ToSet(Listed(status))}
           n == Cardinality(AskedFor(status))
<1>3. /\ n \in Nat /\ Listed(status) \in Seq(Proposal) /\ Len(Listed(status)) = n
      /\ \A i \in AskedFor(status) : PlaceOf(status, i) \in 1..n
      /\ \A k \in 1..n : \E i \in AskedFor(status) : Listed(status)[k] = proposals[i]
  BY ListedRows DEF CandidatesInv
<1>4. \A d \in due : \E k \in 1..n : d = Listed(status)[k].id
  BY <1>3 DEF ToSet
<1> HIDE DEF due, n
<1>5. \A d \in due : \E i \in AskedFor(status) : d = proposals[i].id /\ PlaceOf(status, i) > 0
  BY <1>3, <1>4
<1>6. due \subseteq CandidateId
  <2>1. \A i \in AskedFor(status) : proposals[i].id \in CandidateId
    BY ProposalType DEF AskedFor, CandidatesInv
  <2> QED BY <1>5, <2>1
<1>7. listing' = [pc |-> "on", status |-> status, due |-> due, seen |-> {}, offset |-> 0, calm |-> TRUE]
  BY <1>2 DEF NoListing, due
<1>8. CandidatesTypes'
  BY <1>1, <1>6, <1>7 DEF CandidatesInv, CandidatesTypes, ListingRecord
<1>9. OneCandidateEach' /\ EvidenceSound' /\ ExtractSound'
  BY <1>1 DEF CandidatesInv, OneCandidateEach, EvidenceSound, ExtractSound, CandidateIds
<1>10. ListingSound'
  <2>1. /\ listing'.pc = "on" /\ listing'.status = status /\ listing'.due = due /\ listing'.seen = {}
        /\ listing'.offset = 0
    BY <1>7
  <2> QED BY <1>1, <1>5, <2>1 DEF ListingSound, PlaceOf, AskedFor, ListedFirst, Oldest
<1> QED BY <1>8, <1>9, <1>10 DEF CandidatesInv

LEMMA ListPageKeeps ==
  CandidatesInv /\ ListPage => CandidatesInv'
<1> SUFFICES ASSUME CandidatesInv, ListPage
             PROVE  CandidatesInv'
  OBVIOUS
<1>1. UNCHANGED <<kind, evidence, proposals, extract, second>> /\ listing.pc = "on"
  BY DEF ListPage
<1>2. listing \in ListingRecord /\ listing.offset \in Nat /\ PageSize \in Nat /\ PageSize > 0
  BY CandidateAssumption DEF CandidatesInv, CandidatesTypes, ListingRecord
<1>3. PICK status : status = listing.status
  OBVIOUS
<1>4. status \in {"any", "proposed"}
  BY <1>2, <1>3 DEF ListingRecord
<1> DEFINE entries == Listed(status)
           off == listing.offset
           last == IF off + PageSize < Len(entries) THEN off + PageSize ELSE Len(entries)
           page == SubSeq(entries, off + 1, last)
           read == {r.id : r \in ToSet(page)}
           n == Cardinality(AskedFor(status))
<1>5. /\ n \in Nat /\ entries \in Seq(Proposal) /\ Len(entries) = n
      /\ \A i \in AskedFor(status) : PlaceOf(status, i) \in 1..n /\ entries[PlaceOf(status, i)] = proposals[i]
  BY ListedRows DEF CandidatesInv
<1>6. listing' = [listing EXCEPT !.pc = IF page = <<>> THEN "done" ELSE "on", !.offset = off + PageSize,
                    !.seen = listing.seen \cup read]
  BY <1>3 DEF ListPage
<1> HIDE DEF n, entries
<1>7. page \in Seq(Proposal) /\ Len(page) = (IF off < last THEN last - off ELSE 0) /\ DOMAIN page = 1..Len(page)
      /\ (page = <<>> => Len(page) = 0) /\ \A k \in 1..Len(page) : page[k] = entries[off + k]
  <2>1. last \in Nat /\ last <= Len(entries) /\ off \in Nat /\ entries \in Seq(Proposal)
    BY <1>2, <1>5
  <2> HIDE DEF last, off
  <2>2. page \in Seq(Proposal)
    BY <2>1
  <2>3. Len(page) = (IF off < last THEN last - off ELSE 0) /\ \A k \in 1..Len(page) : page[k] = entries[off + k]
    BY <2>1
  <2>4. DOMAIN page = 1..Len(page)
    BY <2>2
  <2> HIDE DEF page
  <2>5. page = <<>> => Len(page) = 0
    OBVIOUS
  <2>6. Len(page) = (IF off < last THEN last - off ELSE 0)
    BY <2>3
  <2>7. \A k \in 1..Len(page) : page[k] = entries[off + k]
    BY <2>3
  <2>8. page \in Seq(Proposal)
    BY <2>2
  <2> QED BY <2>4, <2>5, <2>6, <2>7, <2>8, Zenon DEF last, off
<1>8. ASSUME NEW i \in AskedFor(status), PlaceOf(status, i) > off
      PROVE  page # <<>> /\ (proposals[i].id \in read \/ PlaceOf(status, i) > off + PageSize)
  <2>1. PlaceOf(status, i) \in 1..n /\ off < last /\ last \in Nat
    BY <1>2, <1>5, <1>8
  <2>2. page # <<>>
    BY <1>2, <1>7, <2>1
  <2>3. ASSUME PlaceOf(status, i) <= off + PageSize
        PROVE  proposals[i].id \in read
    <3>1. PlaceOf(status, i) - off \in 1..Len(page) /\ off + (PlaceOf(status, i) - off) = PlaceOf(status, i)
      <4>1. Len(page) = last - off /\ last \in Nat /\ PlaceOf(status, i) <= last
        BY <1>2, <1>5, <1>7, <1>8, <2>1, <2>3
      <4>2. PlaceOf(status, i) \in Nat /\ PlaceOf(status, i) > off
        BY <1>5, <1>8
      <4> QED BY <1>2, <4>1, <4>2
    <3>2. page[PlaceOf(status, i) - off] = proposals[i]
      BY <1>5, <1>7, <3>1
    <3>3. proposals[i] \in ToSet(page)
      BY <1>7, <3>1, <3>2 DEF ToSet
    <3> QED BY <3>3
  <2> QED BY <1>2, <1>5, <2>2, <2>3
<1>9. read \subseteq CandidateId
  <2>1. \A k \in DOMAIN page : page[k] \in Proposal
    BY <1>7
  <2>2. \A r \in ToSet(page) : r \in Proposal
    BY <2>1 DEF ToSet
  <2> QED BY <2>2 DEF Proposal
<1> HIDE DEF page, read
<1>10. /\ listing' \in ListingRecord /\ listing'.status = status /\ listing'.due = listing.due
       /\ listing'.seen = listing.seen \cup read /\ listing'.offset = off + PageSize /\ listing'.calm = listing.calm
       /\ listing'.pc = (IF page = <<>> THEN "done" ELSE "on")
  <2> DEFINE pc == IF page = <<>> THEN "done" ELSE "on"
             seen == listing.seen \cup read
             m == off + PageSize
  <2>1. pc \in {"on", "done"} /\ m \in Nat /\ seen \in SUBSET CandidateId
    BY <1>2, <1>9 DEF ListingRecord
  <2>2. listing' = [listing EXCEPT !.pc = pc, !.offset = m, !.seen = seen]
    BY <1>6
  <2> HIDE DEF pc, seen, m
  <2>3. /\ listing' \in ListingRecord /\ listing'.status = status /\ listing'.due = listing.due
        /\ listing'.seen = seen /\ listing'.offset = m /\ listing'.calm = listing.calm /\ listing'.pc = pc
    BY <1>2, <1>3, <2>1, <2>2 DEF ListingRecord
  <2> QED BY <2>3 DEF pc, seen, m
<1>11. CandidatesTypes' /\ OneCandidateEach' /\ EvidenceSound' /\ ExtractSound'
  BY <1>1, <1>10 DEF CandidatesInv, CandidatesTypes, OneCandidateEach, EvidenceSound, ExtractSound, CandidateIds
<1>12. ASSUME status = "any" \/ listing.calm, NEW d \in listing.due \ listing'.seen
       PROVE  page # <<>> /\ \E i \in AskedFor(status) : proposals[i].id = d /\ PlaceOf(status, i) > off + PageSize
  <2>1. PICK i \in AskedFor(status) : proposals[i].id = d /\ PlaceOf(status, i) > off
    BY <1>1, <1>3, <1>4, <1>10, <1>12 DEF CandidatesInv, ListingSound
  <2> QED BY <1>8, <1>10, <1>12, <2>1
<1>13. \A i : PlaceOf(status, i)' = PlaceOf(status, i)
  BY <1>1 DEF PlaceOf, AskedFor, ListedFirst, Oldest
<1>14. AskedFor(status)' = AskedFor(status)
  BY <1>1 DEF AskedFor
<1>15. ListingSound'
  BY <1>1, <1>10, <1>12, <1>13, <1>14 DEF ListingSound
<1> QED BY <1>11, <1>15 DEF CandidatesInv

-----------------------------------------------------------------------------
(* Candidates: what the store promises.                                    *)

THEOREM CandidatesInvariant ==
  CandidatesSpec => []CandidatesInv
<1>1. CandidatesInv /\ [CandidatesNext]_candidateVars => CandidatesInv'
  BY SetStatusKeeps, SecondPassesKeeps, StartExtractKeeps, ReadEvidenceKeeps, ProposeNextKeeps, RewriteEvidenceKeeps,
     StartListingKeeps, ListPageKeeps DEF CandidatesNext
<1> QED BY <1>1, CandidatesStart, PTL DEF CandidatesSpec

\* A row is inserted once, and a review, only a review, changes its status.
LEMMA ReviewStandsStep ==
  ASSUME CandidatesInv, CandidatesInv', CandidatesNext
  PROVE  /\ Len(proposals') = Cardinality({proposals'[i].id : i \in DOMAIN proposals'})
         /\ \A i \in DOMAIN proposals :
              \E j \in DOMAIN proposals' :
                /\ proposals'[j].id = proposals[i].id
                /\ proposals'[j].status = proposals[i].status \/ SetStatus
<1>1. Len(proposals') = Cardinality({proposals'[i].id : i \in DOMAIN proposals'})
  <2> DEFINE ids == [i \in 1..Len(proposals') |-> proposals'[i].id]
  <2>1. Len(proposals') \in Nat /\ DOMAIN proposals' = 1..Len(proposals')
    BY DEF CandidatesInv, CandidatesTypes
  <2> DEFINE m == Len(proposals')
  <2>2. \A i, j \in 1..m : ids[i] = ids[j] => i = j
    BY <2>1 DEF CandidatesInv, OneCandidateEach
  <2>3. {proposals'[i].id : i \in DOMAIN proposals'} = {ids[i] : i \in 1..m}
    BY <2>1
  <2>4. m \in Nat
    BY <2>1
  <2> HIDE DEF ids, m
  <2>5. Cardinality({ids[i] : i \in 1..m}) = m
    BY <2>2, <2>4, DistinctCount
  <2> QED BY <2>3, <2>5 DEF m
<1>2. ASSUME NEW i \in DOMAIN proposals
      PROVE  \E j \in DOMAIN proposals' :
               /\ proposals'[j].id = proposals[i].id
               /\ proposals'[j].status = proposals[i].status \/ SetStatus
  <2>0. proposals \in Seq(Proposal) /\ proposals[i] \in Proposal
    BY DEF CandidatesInv, CandidatesTypes
  <2>1. CASE SetStatus
    <3>1. PICK k \in DOMAIN proposals, status \in {"accepted", "rejected"} :
            proposals' = [proposals EXCEPT ![k].status = status]
      BY <2>1 DEF SetStatus
    <3>2. i \in DOMAIN proposals'
      BY <3>1
    <3>3. proposals'[i].id = proposals[i].id
      <4> DEFINE r == [proposals[k] EXCEPT !.status = status]
      <4>1. proposals[k] \in Proposal /\ proposals' = [proposals EXCEPT ![k] = r]
        BY <2>0, <3>1
      <4>2. r.id = proposals[k].id
        BY <4>1 DEF Proposal
      <4> HIDE DEF r
      <4> QED BY <2>0, <4>1, <4>2
    <3> QED BY <2>1, <3>2, <3>3
  <2>2. CASE UNCHANGED proposals
    BY <2>2
  <2>3. CASE ProposeNext /\ proposals' # proposals
    <3>1. PICK row : proposals' = Append(proposals, row)
      BY <2>3 DEF ProposeNext, Proposed, ProposedAgain
    <3>2. i \in DOMAIN proposals' /\ proposals'[i] = proposals[i]
      BY <2>0, <3>1
    <3> QED BY <3>2
  <2> QED BY <2>1, <2>2, <2>3 DEF CandidatesNext, SecondPasses, StartExtract, ReadEvidence, ExtractDies, RewriteEvidence,
          StartListing, ListPage
<1> QED BY <1>1, <1>2

\* The run ends at the end of its scope.
LEMMA ExtractWholeStep ==
  ASSUME CandidatesInv, ReadEvidence, extract'.pc = "off", extract.alone
  PROVE  /\ extract.offset = Cardinality(Scope)
         /\ extract.apply => \A e \in Scope : ToSet(FoundIn(e)) \subseteq CandidateIds
<1>1. extract \in ExtractRecord /\ extract.offset \in Nat /\ extract.limit \in Nat /\ extract.pc = "read"
  BY DEF CandidatesInv, CandidatesTypes, ReadEvidence, ExtractRecord
<1>2. evidence \in Seq(EvidenceRow) /\ Len(evidence) \in Nat /\ DOMAIN evidence = 1..Len(evidence)
  BY DEF CandidatesInv, EvidenceSound
<1>3. EvidencePage = <<>>
  <2> SUFFICES ASSUME EvidencePage # <<>>
               PROVE  FALSE
    OBVIOUS
  <2>1. extract'.pc = "propose"
    BY <1>1 DEF ReadEvidence, ExtractRecord
  <2> QED BY <2>1
<1>4. extract.offset <= Len(evidence) /\ (extract.limit # 0 => extract.offset <= extract.limit)
  BY <1>1 DEF CandidatesInv, ExtractSound
<1>5. extract.offset = Len(evidence) \/ (extract.limit # 0 /\ extract.offset = extract.limit)
  BY <1>1, <1>2, <1>3, <1>4, PageOfEvidence
<1> DEFINE n == extract.offset
           f == [k \in 1..n |-> evidence[k]]
<1>6. Scope = {f[k] : k \in 1..n}
  <2>1. CASE n = Len(evidence)
    <3>1. ToSet(evidence) = {f[k] : k \in 1..n}
      BY <1>2, <2>1 DEF ToSet
    <3>2. CASE extract.limit = 0 \/ extract.limit > Len(evidence)
      BY <3>1, <3>2 DEF Scope
    <3>3. CASE extract.limit # 0 /\ extract.limit <= Len(evidence)
      <4>1. extract.limit = Len(evidence) /\ SubSeq(evidence, 1, extract.limit) = evidence
        BY <1>1, <1>2, <1>4, <2>1, <3>3
      <4> QED BY <3>1, <4>1 DEF Scope
    <3> QED BY <1>1, <1>2, <3>2, <3>3
  <2>2. CASE extract.limit # 0 /\ n = extract.limit /\ n # Len(evidence)
    <3> DEFINE s == SubSeq(evidence, 1, n)
    <3>1. DOMAIN s = 1..n /\ \A k \in 1..n : s[k] = f[k]
      BY <1>1, <1>2, <1>4
    <3>2. Scope = ToSet(s)
      BY <1>1, <1>2, <1>4, <2>2 DEF Scope
    <3> HIDE DEF s, f
    <3> QED BY <3>1, <3>2 DEF ToSet
  <2> QED BY <1>5, <2>1, <2>2
<1>7. \A j, k \in 1..n : f[j] = f[k] => j = k
  <2>1. \A j \in 1..n : j \in DOMAIN evidence /\ f[j] = evidence[j]
    BY <1>1, <1>2, <1>4
  <2> HIDE DEF f
  <2> QED BY <2>1 DEF CandidatesInv, EvidenceSound
<1>8. n = Cardinality(Scope)
  <2> HIDE DEF f
  <2> QED BY <1>1, <1>6, <1>7, DistinctCount
<1>9. ASSUME extract.apply, NEW e \in Scope
      PROVE  ToSet(FoundIn(e)) \subseteq CandidateIds
  <2>1. PICK k \in 1..n : e = evidence[k]
    BY <1>6
  <2>2. ToSet(FoundIn(e)) \subseteq CandidateIds \cup ToSet(extract.rest) /\ extract.rest = <<>>
    BY <1>1, <1>9, <2>1 DEF CandidatesInv, ExtractSound
  <2>3. ToSet(extract.rest) = {}
    BY <2>2 DEF ToSet
  <2> QED BY <2>2, <2>3
<1> QED BY <1>8, <1>9

\* What the store of candidates promises, for any backend and any interleaving of
\* extraction, reviews, rewritten drawers and clients that page through it.
THEOREM CandidatesAreSound ==
  CandidatesSpec => CandidatesSound
<1>1. CandidatesInv => ListingWhole
  <2> SUFFICES ASSUME CandidatesInv
               PROVE  ListingWhole
    OBVIOUS
  <2>1. listing.status \in {"any", "proposed"}
    BY DEF CandidatesInv, CandidatesTypes, ListingRecord
  <2> QED BY <2>1 DEF CandidatesInv, ListingSound, ListingWhole
<1>2. CandidatesInv /\ CandidatesInv' /\ [CandidatesNext]_candidateVars =>
        [/\ Len(proposals') = Cardinality({proposals'[i].id : i \in DOMAIN proposals'})
         /\ \A i \in DOMAIN proposals :
              \E j \in DOMAIN proposals' :
                /\ proposals'[j].id = proposals[i].id
                /\ proposals'[j].status = proposals[i].status \/ SetStatus]_candidateVars
  BY ReviewStandsStep
<1>3. CandidatesInv /\ [CandidatesNext]_candidateVars =>
        [ReadEvidence /\ extract'.pc = "off" /\ extract.alone =>
           /\ extract.offset = Cardinality(Scope)
           /\ extract.apply => \A e \in Scope : ToSet(FoundIn(e)) \subseteq CandidateIds]_candidateVars
  BY ExtractWholeStep
<1>4. CandidatesSpec => ReviewStands
  BY <1>2, CandidatesInvariant, PTL DEF CandidatesSpec, ReviewStands
<1>5. CandidatesSpec => ExtractWhole
  BY <1>3, CandidatesInvariant, PTL DEF CandidatesSpec, ExtractWhole
<1>6. CandidatesSpec => []ListingWhole
  BY <1>1, CandidatesInvariant, PTL
<1> QED BY <1>4, <1>5, <1>6 DEF CandidatesSound

-----------------------------------------------------------------------------
(* Reforge: the inductive invariant.                                       *)

VectorRow == [id : ReforgeId, model : Model]
ServerRecord == [pc : {"off", "idle", "contract"}, model : Model \cup {"none"}]
JobRecord ==
  [pc : {"off", "read", "write", "contract"}, model : Model \cup {"none"}, scope : SUBSET {"even", "odd"},
   batch : Nat, offset : Nat, page : Seq(VectorRow), whole : BOOLEAN, alone : BOOLEAN]

ReforgeTypes ==
  /\ vectors \in Seq(VectorRow) /\ contract \in Model \cup {"none"} /\ mixed \in BOOLEAN
  /\ server \in ServerRecord /\ (server.pc # "off" => server.model \in Model)
  /\ job \in JobRecord /\ (job.pc # "off" => job.model \in Model /\ job.batch > 0 /\ vectors # <<>>)

Distinct(entries) == \A k, l \in DOMAIN entries : entries[k].id = entries[l].id => k = l

\* A record has one row, and PostgreSQL returns the rows in the order of their ids.
RowsApart ==
  /\ Distinct(vectors) /\ Distinct(job.page)
  /\ backend # "lance" => \A k, l \in DOMAIN vectors : k < l => vectors[k].id < vectors[l].id

\* No vector is of another model.
AllOf(m) == \A k \in DOMAIN vectors : vectors[k].model = m

\* Without a reforge to another model, the rows, the contract file, the server and
\* the run of reforge agree on the model.
OneModel ==
  backend = "lance" /\ ~mixed =>
    /\ contract # "none" => AllOf(contract) /\ vectors # <<>>
    /\ \A k \in DOMAIN vectors : AllOf(vectors[k].model)
    /\ server.pc # "off" => AllOf(server.model) /\ contract \in {"none", server.model}
    /\ server.pc = "contract" => vectors # <<>>
    /\ job.pc # "off" => AllOf(job.model)

\* A record's place in the pages of a run, in the order of the ids.
PlaceInPages(id) == Cardinality({i \in Ids(vectors) : WingOf(i) \in job.scope /\ i <= id})

\* What a run that has the collection to itself has done: the rows of the pages
\* before its own are of its model, in PostgreSQL by their places; in LanceDB,
\* where a page's rows move behind the others, if one page is all.
PagesDone ==
  job.pc # "off" /\ job.alone =>
    /\ server.pc = "off"
    /\ job.pc = "write" => Ids(job.page) \subseteq Ids(vectors)
    /\ backend = "lance" /\ job.whole =>
         /\ job.scope = {"even", "odd"}
         /\ job.pc = "read" /\ job.offset = 0 => Len(vectors) <= job.batch
         /\ job.pc = "write" /\ job.offset = 0 => Ids(job.page) = Ids(vectors)
         /\ job.pc = "contract" \/ job.offset > 0 => AllOf(job.model)
         /\ job.offset > 0 => contract = job.model
    /\ backend # "lance" =>
         \A k \in DOMAIN vectors :
           LET place == PlaceInPages(vectors[k].id) IN
           InScope(vectors[k]) =>
             /\ place <= job.offset => vectors[k].model = job.model
             /\ job.pc = "write" /\ place > job.offset /\ place <= job.offset + job.batch =>
                  vectors[k].id \in Ids(job.page)
             /\ job.pc = "contract" /\ place <= job.offset + job.batch => vectors[k].model = job.model
             /\ job.pc \in {"write", "contract"} /\ Len(job.page) < job.batch => place < job.offset + job.batch

ReforgeInv == ReforgeTypes /\ RowsApart /\ OneModel /\ PagesDone

-----------------------------------------------------------------------------
(* Reforge: rewritten rows and pages.                                      *)

LEMMA RowParts ==
  ASSUME NEW entries \in Seq(VectorRow), NEW k \in DOMAIN entries
  PROVE  /\ k \in 1..Len(entries) /\ k \in Int /\ entries[k] \in VectorRow
         /\ entries[k].id \in ReforgeId /\ entries[k].id \in Int /\ entries[k].model \in Model
<1>1. k \in 1..Len(entries) /\ Len(entries) \in Nat /\ entries[k] \in VectorRow
  OBVIOUS
<1>2. entries[k].id \in ReforgeId /\ entries[k].model \in Model
  BY <1>1 DEF VectorRow
<1>3. entries[k].id \in Nat
  BY <1>2, ReforgeAssumption, Zenon
<1>4. entries[k].id \in Int
  BY <1>3
<1>5. k \in Int
  BY <1>1
<1> QED BY <1>1, <1>2, <1>4, <1>5

\* The ids of rows that are apart, in PostgreSQL's order.
IdOrder(entries) == {kl \in (DOMAIN entries) \X (DOMAIN entries) : entries[kl[1]].id < entries[kl[2]].id}

LEMMA ByIdRows ==
  ASSUME NEW entries \in Seq(VectorRow), Distinct(entries)
  PROVE  /\ ById(entries) \in Seq(VectorRow) /\ DOMAIN ById(entries) = DOMAIN entries
         /\ \A k \in DOMAIN entries : \E l \in DOMAIN entries : ById(entries)[k] = entries[l]
         /\ \A l \in DOMAIN entries : \E k \in DOMAIN entries : ById(entries)[k] = entries[l]
         /\ \A k, l \in DOMAIN entries : k < l => ById(entries)[k].id < ById(entries)[l].id
<1> DEFINE D == DOMAIN entries
           R == IdOrder(entries)
           f == Ordered(D, R)
<1>1. D = 1..Len(entries) /\ Len(entries) \in Nat
  OBVIOUS
<1>2. IsFiniteSet(D) /\ Cardinality(D) = Len(entries)
  <2>1. 1 \in Int /\ Len(entries) \in Int
    BY <1>1
  <2> QED BY <1>1, <2>1, FS_Interval
<1>3. \A k \in D : entries[k] \in VectorRow /\ entries[k].id \in Int
  BY RowParts
<1>4. \A k, l \in D : <<k, l>> \in R <=> entries[k].id < entries[l].id
  BY DEF IdOrder
<1>5. ById(entries) = [n \in D |-> entries[f[n]]]
  BY DEF ById, IdOrder
<1>6. \A k, l \in D : k # l => entries[k].id # entries[l].id
  BY DEF Distinct
<1> HIDE DEF D, R
<1>7. StrictOrder(D, R)
  BY <1>3, <1>4, <1>6 DEF StrictOrder
<1>8. /\ f \in [D -> D] /\ \A x \in D : \E k \in D : f[k] = x
      /\ \A k, l \in D : k < l => <<f[k], f[l]>> \in R
  BY <1>1, <1>2, <1>7, OrderedRows
<1> HIDE DEF f
<1>9. ById(entries) \in Seq(VectorRow) /\ DOMAIN ById(entries) = D
  <2>1. \A k \in D : entries[f[k]] \in VectorRow
    BY <1>3, <1>8
  <2> QED BY <1>1, <1>5, <2>1
<1>10. ASSUME NEW k \in D, NEW l \in D, k < l
       PROVE  ById(entries)[k].id < ById(entries)[l].id
  <2>1. f[k] \in D /\ f[l] \in D /\ <<f[k], f[l]>> \in R
    BY <1>8, <1>10
  <2>2. entries[f[k]].id < entries[f[l]].id
    BY <1>4, <2>1
  <2> QED BY <1>5, <2>2
<1> QED BY <1>5, <1>8, <1>9, <1>10 DEF D

\* An upsert with a model: the rows of the batch are of the model, the others are
\* as they were, and no record has two rows.
LEMMA RewrittenRows ==
  ASSUME ReforgeTypes, RowsApart, NEW batch \in Seq(VectorRow), Distinct(batch), NEW m \in Model
  PROVE  LET entries == Rewritten(batch, m) IN
         /\ entries \in Seq(VectorRow) /\ Distinct(entries) /\ Ids(entries) = Ids(vectors) \cup Ids(batch)
         /\ \A k \in DOMAIN entries : entries[k].id \in Ids(batch) => entries[k].model = m
         /\ \A k \in DOMAIN entries : entries[k].id \notin Ids(batch) => \E l \in DOMAIN vectors : entries[k] = vectors[l]
         /\ backend # "lance" => \A k, l \in DOMAIN entries : k < l => entries[k].id < entries[l].id
<1> DEFINE K == {k \in DOMAIN vectors : vectors[k].id \notin Ids(batch)}
           others == Picked(vectors, K)
           new == [k \in DOMAIN batch |-> Vector(batch[k].id, m)]
           all == others \o new
           n == Cardinality(K)
           at == Ascending(K)
<1>1. vectors \in Seq(VectorRow) /\ Distinct(vectors)
  BY DEF ReforgeTypes, RowsApart
<1>2. K \in SUBSET (1..Len(vectors)) /\ \A k \in K : k \in DOMAIN vectors /\ vectors[k].id \notin Ids(batch)
  BY <1>1
<1>3. \A k \in DOMAIN vectors : vectors[k].id \notin Ids(batch) => k \in K
  OBVIOUS
<1> HIDE DEF K
<1>4. /\ n \in Nat /\ others \in Seq(VectorRow) /\ Len(others) = n /\ at \in [1..n -> K]
      /\ \A i \in 1..n : others[i] = vectors[at[i]]
      /\ \A i, j \in 1..n : i < j => at[i] < at[j]
      /\ \A k \in K : \E i \in 1..n : at[i] = k
  BY <1>1, <1>2, PickedRows
<1> HIDE DEF others, at, n
<1>5. \A k \in DOMAIN batch : batch[k] \in VectorRow /\ batch[k].id \in ReforgeId
  BY RowParts
<1>6. new \in Seq(VectorRow) /\ Len(new) = Len(batch) /\ \A k \in 1..Len(batch) : new[k].id = batch[k].id /\ new[k].model = m
  <2>1. \A k \in DOMAIN batch : Vector(batch[k].id, m) \in VectorRow
    BY <1>5 DEF Vector, VectorRow
  <2> QED BY <2>1 DEF Vector
<1>7. \A k \in 1..n : at[k] \in DOMAIN vectors /\ others[k] = vectors[at[k]] /\ others[k].id \notin Ids(batch)
  BY <1>2, <1>4
<1>8. \A k \in 1..n : \A l \in 1..n : others[k].id = others[l].id => k = l
  <2> SUFFICES ASSUME NEW k \in 1..n, NEW l \in 1..n, others[k].id = others[l].id
               PROVE  k = l
    OBVIOUS
  <2>1. at[k] = at[l]
    BY <1>1, <1>7 DEF Distinct
  <2>2. at[k] \in Int
    BY <1>1, <1>7
  <2>3. k \in Int /\ l \in Int /\ (k < l => at[k] < at[l]) /\ (l < k => at[l] < at[k])
    BY <1>4
  <2> QED BY <2>1, <2>2, <2>3
<1> HIDE DEF new
<1>9. /\ all \in Seq(VectorRow) /\ Len(all) = n + Len(batch) /\ DOMAIN all = 1..n + Len(batch) /\ Len(batch) \in Nat
      /\ \A k \in 1..n : all[k] = others[k]
      /\ \A k \in 1..Len(batch) : all[n + k] = new[k]
      /\ \A k \in n + 1..n + Len(batch) : k - n \in 1..Len(batch) /\ all[k] = new[k - n]
  <2>0. Len(batch) \in Nat /\ all \in Seq(VectorRow)
    BY <1>4, <1>6
  <2>1. Len(batch) \in Nat /\ DOMAIN all = 1..n + Len(batch) /\ all \in Seq(VectorRow) /\ Len(all) = n + Len(batch)
    <3>0. others \in Seq(VectorRow) /\ new \in Seq(VectorRow) /\ Len(others) = n /\ Len(new) = Len(batch)
      BY <1>4, <1>6
    <3>1. Len(all) = Len(others) + Len(new)
      BY <3>0
    <3>2. Len(all) = n + Len(batch)
      BY <3>0, <3>1
    <3> HIDE DEF all
    <3> QED BY <2>0, <3>2
  <2>2. \A k \in 1..n : all[k] = others[k]
    BY <1>4, <1>6
  <2>3. \A k \in n + 1..n + Len(batch) : k - n \in 1..Len(batch) /\ all[k] = new[k - n]
    BY <1>4, <1>6, <2>1
  <2>4. \A k \in 1..Len(batch) : all[n + k] = new[k]
    BY <1>4, <1>6, <2>1
  <2> QED BY <2>1, <2>2, <2>3, <2>4
<1> HIDE DEF all
<1>10. \A k \in DOMAIN all : k \in 1..n \/ k \in n + 1..n + Len(batch)
  BY <1>4, <1>9
<1>11. \A k \in n + 1..n + Len(batch) : all[k].id = batch[k - n].id /\ all[k].model = m /\ all[k].id \in Ids(batch)
  BY <1>6, <1>9 DEF Ids
<1>12. \A k \in 1..n : all[k] = vectors[at[k]] /\ at[k] \in DOMAIN vectors /\ all[k].id \notin Ids(batch)
  BY <1>7, <1>9
<1>13. Distinct(all)
  <2> SUFFICES ASSUME NEW k \in DOMAIN all, NEW l \in DOMAIN all, all[k].id = all[l].id
               PROVE  k = l
    BY DEF Distinct
  <2>1. CASE k \in 1..n /\ l \in 1..n
    BY <1>8, <1>9, <2>1
  <2>2. CASE k \in n + 1..n + Len(batch) /\ l \in n + 1..n + Len(batch)
    <3>1. k - n \in DOMAIN batch /\ l - n \in DOMAIN batch /\ batch[k - n].id = batch[l - n].id
      BY <1>9, <1>11, <2>2
    <3>2. k - n = l - n
      BY <3>1 DEF Distinct
    <3> QED BY <1>4, <2>2, <3>2
  <2> QED BY <1>10, <1>11, <1>12, <2>1, <2>2
<1>14. Ids(all) = Ids(vectors) \cup Ids(batch)
  <2>1. ASSUME NEW k \in DOMAIN all
        PROVE  all[k].id \in Ids(vectors) \cup Ids(batch)
    BY <1>10, <1>11, <1>12 DEF Ids
  <2>2. ASSUME NEW l \in DOMAIN vectors
        PROVE  \E k \in DOMAIN all : all[k].id = vectors[l].id
    <3>1. CASE vectors[l].id \in Ids(batch)
      <4>1. PICK j \in DOMAIN batch : batch[j].id = vectors[l].id
        BY <3>1 DEF Ids
      <4>2. j \in 1..Len(batch) /\ n + j \in DOMAIN all /\ all[n + j] = new[j]
        BY <1>4, <1>9
      <4> QED BY <1>6, <4>1, <4>2
    <3>2. CASE vectors[l].id \notin Ids(batch)
      <4>1. PICK i \in 1..n : at[i] = l
        BY <1>3, <1>4, <3>2
      <4>2. i \in DOMAIN all
        BY <1>4, <1>9
      <4> QED BY <1>12, <4>1, <4>2
    <3> QED BY <3>1, <3>2
  <2>3. ASSUME NEW j \in DOMAIN batch
        PROVE  \E k \in DOMAIN all : all[k].id = batch[j].id
    <3>1. j \in 1..Len(batch) /\ n + j \in DOMAIN all /\ all[n + j] = new[j]
      BY <1>4, <1>9
    <3> QED BY <1>6, <3>1
  <2> QED BY <2>1, <2>2, <2>3 DEF Ids
<1>15. \A k \in DOMAIN all : all[k].id \in Ids(batch) => all[k].model = m
  BY <1>10, <1>11, <1>12
<1>16. \A k \in DOMAIN all : all[k].id \notin Ids(batch) => \E l \in DOMAIN vectors : all[k] = vectors[l]
  BY <1>10, <1>11, <1>12
<1>17. Rewritten(batch, m) = IF backend = "lance" THEN all ELSE ById(all)
  BY DEF Rewritten, all, others, new, K
<1>18. CASE backend = "lance"
  BY <1>9, <1>13, <1>14, <1>15, <1>16, <1>17, <1>18
<1>19. CASE backend # "lance"
  <2> DEFINE entries == ById(all)
  <2>1. /\ entries \in Seq(VectorRow) /\ DOMAIN entries = DOMAIN all
        /\ \A k \in DOMAIN all : \E l \in DOMAIN all : entries[k] = all[l]
        /\ \A l \in DOMAIN all : \E k \in DOMAIN all : entries[k] = all[l]
        /\ \A k, l \in DOMAIN all : k < l => entries[k].id < entries[l].id
    BY <1>9, <1>13, ByIdRows
  <2>2. Rewritten(batch, m) = entries
    BY <1>17, <1>19
  <2> HIDE DEF entries
  <2>3. Ids(entries) = Ids(all)
    <3>1. \A k \in DOMAIN entries : \E l \in DOMAIN all : entries[k].id = all[l].id
      BY <2>1
    <3>2. \A l \in DOMAIN all : \E k \in DOMAIN entries : entries[k].id = all[l].id
      BY <2>1
    <3> QED BY <3>1, <3>2 DEF Ids
  <2>4. Distinct(entries)
    <3> SUFFICES ASSUME NEW k \in DOMAIN entries, NEW l \in DOMAIN entries, entries[k].id = entries[l].id
                 PROVE  k = l
      BY DEF Distinct
    <3>1. k \in Int /\ l \in Int /\ entries[k].id \in Int /\ entries[l].id \in Int
      BY <2>1, RowParts
    <3>2. (k < l => entries[k].id < entries[l].id) /\ (l < k => entries[l].id < entries[k].id)
      BY <2>1
    <3> QED BY <3>1, <3>2
  <2>5. ASSUME NEW k \in DOMAIN entries, entries[k].id \in Ids(batch)
        PROVE  entries[k].model = m
    <3>1. PICK l \in DOMAIN all : entries[k] = all[l]
      BY <2>1
    <3> QED BY <1>15, <2>5, <3>1
  <2>6. \A k \in DOMAIN entries : entries[k].id \notin Ids(batch) => \E l \in DOMAIN vectors : entries[k] = vectors[l]
    BY <1>16, <2>1
  <2> QED BY <1>14, <2>1, <2>2, <2>3, <2>4, <2>5, <2>6
<1> QED BY <1>18, <1>19

\* The filtered rows: all that are in scope, in the order of the scan.
LEMMA ScopedRows ==
  ASSUME ReforgeTypes
  PROVE  LET K == {k \in DOMAIN vectors : InScope(vectors[k])} IN
         /\ Scoped \in Seq(VectorRow) /\ Len(Scoped) = Cardinality(K) /\ Len(Scoped) \in Nat
         /\ \A p \in 1..Len(Scoped) :
              Ascending(K)[p] \in K /\ Ascending(K)[p] \in Int /\ Scoped[p] = vectors[Ascending(K)[p]]
         /\ \A p, q \in 1..Len(Scoped) : p < q => Ascending(K)[p] < Ascending(K)[q]
         /\ \A k \in K : \E p \in 1..Len(Scoped) : Ascending(K)[p] = k
<1> DEFINE K == {k \in DOMAIN vectors : InScope(vectors[k])}
<1>1. vectors \in Seq(VectorRow) /\ DOMAIN vectors = 1..Len(vectors)
  BY DEF ReforgeTypes
<1>2. K \in SUBSET (1..Len(vectors)) /\ K \in SUBSET Int
  BY <1>1
<1>3. Scoped = Picked(vectors, K)
  BY DEF Scoped
<1> HIDE DEF K
<1>4. /\ Cardinality(K) \in Nat /\ Scoped \in Seq(VectorRow) /\ Len(Scoped) = Cardinality(K)
      /\ Ascending(K) \in [1..Cardinality(K) -> K]
      /\ \A i \in 1..Cardinality(K) : Scoped[i] = vectors[Ascending(K)[i]]
      /\ \A i, j \in 1..Cardinality(K) : i < j => Ascending(K)[i] < Ascending(K)[j]
      /\ \A k \in K : \E i \in 1..Cardinality(K) : Ascending(K)[i] = k
  BY <1>1, <1>2, <1>3, PickedRows
<1>5. \A p \in 1..Len(Scoped) : Ascending(K)[p] \in K /\ Ascending(K)[p] \in Int
  BY <1>2, <1>4
<1> QED BY <1>4, <1>5 DEF K

\* In PostgreSQL a row's place is that of its id: the pages go through the ids.
LEMMA PlacesInPages ==
  ASSUME ReforgeTypes, RowsApart, backend # "lance"
  PROVE  /\ \A p \in 1..Len(Scoped) : PlaceInPages(Scoped[p].id) = p
         /\ \A k \in DOMAIN vectors :
              InScope(vectors[k]) =>
                \E p \in 1..Len(Scoped) : Scoped[p] = vectors[k] /\ PlaceInPages(vectors[k].id) = p
<1> DEFINE K == {k \in DOMAIN vectors : InScope(vectors[k])}
           n == Len(Scoped)
           at == Ascending(K)
<1>1. /\ Scoped \in Seq(VectorRow) /\ n \in Nat
      /\ \A p \in 1..n : at[p] \in K /\ at[p] \in Int /\ Scoped[p] = vectors[at[p]]
      /\ \A p, q \in 1..n : p < q => at[p] < at[q]
      /\ \A k \in K : \E p \in 1..n : at[p] = k
  BY ScopedRows
<1>2. /\ \A k \in K : k \in DOMAIN vectors /\ InScope(vectors[k])
      /\ \A k \in DOMAIN vectors : InScope(vectors[k]) => k \in K
  OBVIOUS
<1>3. \A k \in DOMAIN vectors : vectors[k].id \in Int
  BY RowParts DEF ReforgeTypes
<1> HIDE DEF K, at
<1>4. \A p, q \in 1..n : p < q => Scoped[p].id < Scoped[q].id
  <2>1. \A k, l \in DOMAIN vectors : k < l => vectors[k].id < vectors[l].id
    BY DEF RowsApart
  <2> QED BY <1>1, <1>2, <2>1
<1>5. \A p \in 1..n : Scoped[p].id \in Int
  BY <1>1, <1>2, <1>3
<1>6. ASSUME NEW p \in 1..n
      PROVE  PlaceInPages(Scoped[p].id) = p
  <2> DEFINE f == [q \in 1..p |-> Scoped[q].id]
             upTo == {i \in Ids(vectors) : WingOf(i) \in job.scope /\ i <= Scoped[p].id}
  <2>1. p \in Nat /\ \A q \in 1..p : q \in 1..n
    BY <1>1
  <2>2. \A q \in 1..p : f[q] \in upTo
    <3> SUFFICES ASSUME NEW q \in 1..p
                 PROVE  Scoped[q].id \in upTo
      OBVIOUS
    <3>1. Scoped[q].id \in Ids(vectors) /\ WingOf(Scoped[q].id) \in job.scope
      BY <1>1, <1>2, <2>1 DEF Ids, InScope
    <3>2. Scoped[q].id <= Scoped[p].id
      <4>1. q < p \/ q = p
        BY <2>1
      <4>2. Scoped[q].id \in Int /\ Scoped[p].id \in Int
        BY <1>5, <2>1
      <4> QED BY <1>4, <2>1, <4>1, <4>2
    <3> QED BY <3>1, <3>2
  <2>3. ASSUME NEW i \in upTo
        PROVE  \E q \in 1..p : f[q] = i
    <3>1. PICK k \in DOMAIN vectors : vectors[k].id = i
      BY DEF Ids
    <3>2. k \in K
      BY <1>2, <3>1 DEF InScope
    <3>3. PICK q \in 1..n : Scoped[q].id = i
      BY <1>1, <3>1, <3>2
    <3>4. ~(p < q)
      BY <1>4, <1>5, <3>3
    <3>5. q \in 1..p
      BY <1>1, <3>4
    <3> QED BY <3>3, <3>5
  <2>4. \A q, r \in 1..p : f[q] = f[r] => q = r
    <3> SUFFICES ASSUME NEW q \in 1..p, NEW r \in 1..p, Scoped[q].id = Scoped[r].id
                 PROVE  q = r
      OBVIOUS
    <3>1. ~(q < r) /\ ~(r < q)
      BY <1>4, <1>5, <2>1
    <3> QED BY <2>1, <3>1
  <2> HIDE DEF f
  <2>5. upTo = {f[q] : q \in 1..p}
    <3> HIDE DEF upTo
    <3> QED BY <2>2, <2>3
  <2>6. Cardinality({f[q] : q \in 1..p}) = p
    <3> HIDE DEF upTo
    <3>1. p \in Nat
      BY <2>1
    <3> QED BY <2>4, <3>1, DistinctCount
  <2> QED BY <2>5, <2>6 DEF PlaceInPages
<1>7. ASSUME NEW k \in DOMAIN vectors, InScope(vectors[k])
      PROVE  \E p \in 1..n : Scoped[p] = vectors[k] /\ PlaceInPages(vectors[k].id) = p
  <2>1. PICK p \in 1..n : at[p] = k
    BY <1>1, <1>2, <1>7
  <2>2. Scoped[p] = vectors[k]
    BY <1>1, <2>1
  <2> QED BY <1>6, <2>2
<1> QED BY <1>6, <1>7

LEMMA PositivePlaces ==
  ReforgeTypes /\ RowsApart =>
    (backend # "lance" => \A k \in DOMAIN vectors : InScope(vectors[k]) => PlaceInPages(vectors[k].id) \in Nat \ {0})
<1> SUFFICES ASSUME ReforgeTypes, RowsApart, backend # "lance", NEW k \in DOMAIN vectors, InScope(vectors[k])
             PROVE  PlaceInPages(vectors[k].id) \in Nat \ {0}
  OBVIOUS
<1>1. PICK p \in 1..Len(Scoped) : PlaceInPages(vectors[k].id) = p
  BY PlacesInPages
<1> QED BY <1>1, ScopedRows

\* A page: the filtered rows from the offset on.
LEMMA ScopePages ==
  ASSUME ReforgeTypes, job.pc # "off"
  PROVE  /\ Page \in Seq(VectorRow)
         /\ \A p \in 1..Len(Scoped) :
              p > job.offset /\ p <= job.offset + job.batch => \E k \in DOMAIN Page : Page[k] = Scoped[p]
         /\ \A k \in DOMAIN Page : k + job.offset \in 1..Len(Scoped) /\ Page[k] = Scoped[k + job.offset]
         /\ Len(Page) < job.batch => Len(Scoped) < job.offset + job.batch
         /\ Page = <<>> => Len(Scoped) <= job.offset
<1> DEFINE off == job.offset
           n == Len(Scoped)
           last == IF off + job.batch < n THEN off + job.batch ELSE n
           page == SubSeq(Scoped, off + 1, last)
<1>1. off \in Nat /\ job.batch \in Nat /\ job.batch > 0 /\ Scoped \in Seq(VectorRow) /\ n \in Nat
  BY ScopedRows DEF ReforgeTypes, JobRecord
<1>2. Page = page
  BY DEF Page
<1>3. last \in Nat /\ last <= n /\ last <= off + job.batch /\ (last = n \/ last = off + job.batch)
  BY <1>1
<1> HIDE DEF last
<1>4. page \in Seq(VectorRow)
  BY <1>1, <1>3
<1>5. Len(page) = (IF off < last THEN last - off ELSE 0) /\ \A k \in 1..Len(page) : page[k] = Scoped[off + k]
  BY <1>1, <1>3
<1> HIDE DEF page, off, n
<1>6. DOMAIN page = 1..Len(page) /\ Len(page) \in Nat /\ (page = <<>> => Len(page) = 0)
  BY <1>4
<1>7. ASSUME NEW p \in 1..n, p > off, p <= off + job.batch
      PROVE  \E k \in DOMAIN page : page[k] = Scoped[p]
  <2>1. off < last /\ p <= last /\ p \in Nat
    BY <1>1, <1>3, <1>7
  <2>2. p - off \in 1..Len(page) /\ off + (p - off) = p
    BY <1>1, <1>3, <1>5, <1>7, <2>1
  <2> QED BY <1>5, <1>6, <2>2
<1>8. ASSUME NEW k \in DOMAIN page
      PROVE  k + off \in 1..n /\ page[k] = Scoped[k + off]
  <2>1. k \in 1..Len(page) /\ k + off = off + k
    BY <1>1, <1>6
  <2>2. k + off \in 1..n
    BY <1>1, <1>3, <1>5, <2>1
  <2> QED BY <1>5, <2>1, <2>2
<1>9. Len(page) < job.batch => n < off + job.batch
  BY <1>1, <1>3, <1>5
<1>10. page = <<>> => n <= off
  BY <1>1, <1>3, <1>5, <1>6
<1> QED BY <1>2, <1>4, <1>7, <1>8, <1>9, <1>10 DEF off, n

-----------------------------------------------------------------------------
(* Reforge: the steps.                                                     *)

LEMMA ReforgeStarts ==
  ReforgeInit => ReforgeInv
<1> SUFFICES ASSUME ReforgeInit
             PROVE  ReforgeInv
  OBVIOUS
<1> USE DEF ReforgeInit, NoServer, NoJob
<1>1. ReforgeTypes
  <2>1. <<>> \in Seq(VectorRow) /\ {} \in SUBSET {"even", "odd"} /\ "none" \in Model \cup {"none"}
    OBVIOUS
  <2>2. NoJob \in JobRecord
    BY <2>1 DEF JobRecord
  <2>3. NoServer \in ServerRecord
    BY <2>1 DEF ServerRecord
  <2>4. server = NoServer /\ job = NoJob /\ vectors = <<>> /\ contract = "none" /\ mixed = FALSE
    OBVIOUS
  <2>5. NoServer.pc = "off" /\ NoJob.pc = "off"
    OBVIOUS
  <2> QED BY <2>1, <2>2, <2>3, <2>4, <2>5, Zenon DEF ReforgeTypes
<1>2. RowsApart
  BY DEF RowsApart, Distinct
<1>3. OneModel /\ PagesDone
  BY DEF OneModel, PagesDone, AllOf
<1> QED BY <1>1, <1>2, <1>3 DEF ReforgeInv

\* A server that opens, files, writes the contract file or stops.
LEMMA OpenServerKeeps ==
  ASSUME ReforgeInv, NEW m \in Model, OpenServer(m)
  PROVE  ReforgeInv'
<1>1. /\ UNCHANGED <<backend, vectors>> /\ server.pc = "off" /\ ContractAllows(m)
      /\ server' = [pc |-> "idle", model |-> m] /\ job' = [job EXCEPT !.alone = FALSE]
      /\ contract' = IF backend = "lance" /\ vectors # <<>> THEN m ELSE contract
      /\ mixed' = (mixed \/ (backend = "postgres" /\ \E v \in ToSet(vectors) : v.model # m))
  BY DEF OpenServer
<1>2. vectors \in Seq(VectorRow) /\ job \in JobRecord /\ contract \in Model \cup {"none"} /\ mixed \in BOOLEAN
  BY DEF ReforgeInv, ReforgeTypes
<1>3. /\ job' \in JobRecord /\ job'.pc = job.pc /\ job'.model = job.model /\ job'.batch = job.batch
      /\ job'.page = job.page /\ ~job'.alone
  BY <1>1, <1>2 DEF JobRecord
<1>4. ReforgeTypes'
  BY <1>1, <1>2, <1>3 DEF ReforgeInv, ReforgeTypes, ServerRecord
<1>5. RowsApart'
  BY <1>1, <1>3 DEF ReforgeInv, RowsApart, Distinct
<1>6. OneModel'
  <2> SUFFICES ASSUME backend = "lance", ~mixed
               PROVE  OneModel'
    BY <1>1, <1>2 DEF OneModel
  <2>1. OneModel
    BY DEF ReforgeInv
  <2>2. AllOf(m)
    <3>1. CASE contract = m
      <4>1. contract # "none"
        BY <3>1, ReforgeAssumption
      <4> QED BY <2>1, <3>1, <4>1 DEF OneModel
    <3>2. CASE contract = "none" /\ \A k \in DOMAIN vectors : k = 1 => vectors[k].model = m
      <4>1. CASE vectors = <<>>
        BY <4>1 DEF AllOf
      <4>2. CASE vectors # <<>>
        <5>1. 1 \in DOMAIN vectors
          BY <1>2, <4>2
        <5>2. vectors[1].model = m /\ AllOf(vectors[1].model)
          BY <2>1, <3>2, <5>1 DEF OneModel
        <5> QED BY <5>2
      <4> QED BY <4>1, <4>2
    <3> QED BY <1>1, <3>1, <3>2 DEF ContractAllows
  <2>3. \A x : AllOf(x)' <=> AllOf(x)
    BY <1>1 DEF AllOf
  <2>4. AllOf(m)' /\ contract' \in {"none", m} /\ (contract' # "none" => AllOf(contract)' /\ vectors # <<>>)
    <3>1. CASE vectors = <<>>
      BY <1>1, <2>1, <2>2, <2>3, <3>1 DEF OneModel
    <3>2. CASE vectors # <<>>
      BY <1>1, <2>2, <2>3, <3>2 DEF AllOf
    <3> QED BY <3>1, <3>2
  <2> QED BY <1>1, <1>3, <2>1, <2>3, <2>4 DEF OneModel, AllOf
<1>7. PagesDone'
  BY <1>3 DEF PagesDone
<1> QED BY <1>4, <1>5, <1>6, <1>7 DEF ReforgeInv

LEMMA FileKeeps ==
  ASSUME ReforgeInv, NEW id \in ReforgeId, File(id)
  PROVE  ReforgeInv'
<1> DEFINE row == Vector(id, server.model)
           batch == <<row>>
<1>1. /\ UNCHANGED <<backend, contract, job, mixed>> /\ server.pc = "idle"
      /\ server' = [server EXCEPT !.pc = "contract"] /\ vectors' = Rewritten(batch, server.model)
  BY DEF File
<1>2. /\ server \in ServerRecord /\ server.model \in Model /\ vectors \in Seq(VectorRow) /\ contract \in Model \cup {"none"}
      /\ ReforgeTypes /\ RowsApart
  BY <1>1 DEF ReforgeInv, ReforgeTypes
<1>3. row \in VectorRow /\ row.id = id
  BY <1>2 DEF Vector, VectorRow
<1> HIDE DEF row
<1>4. batch \in Seq(VectorRow) /\ Distinct(batch) /\ Ids(batch) = {id}
  BY <1>3 DEF Distinct, Ids
<1> HIDE DEF batch
<1>5. /\ vectors' \in Seq(VectorRow) /\ Distinct(vectors') /\ Ids(vectors') = Ids(vectors) \cup {id}
      /\ \A k \in DOMAIN vectors' : vectors'[k].id = id => vectors'[k].model = server.model
      /\ \A k \in DOMAIN vectors' : vectors'[k].id # id => \E l \in DOMAIN vectors : vectors'[k] = vectors[l]
      /\ backend # "lance" => \A k, l \in DOMAIN vectors' : k < l => vectors'[k].id < vectors'[l].id
  BY <1>1, <1>2, <1>4, RewrittenRows
<1>6. vectors' # <<>>
  <2>1. id \in Ids(vectors')
    BY <1>5
  <2> QED BY <2>1 DEF Ids
<1>7. server' \in ServerRecord /\ server'.pc = "contract" /\ server'.model = server.model
  BY <1>1, <1>2 DEF ServerRecord
<1>8. ReforgeTypes'
  BY <1>1, <1>2, <1>5, <1>6, <1>7 DEF ReforgeTypes
<1>9. RowsApart'
  BY <1>1, <1>2, <1>5 DEF RowsApart, Distinct
<1>10. OneModel'
  <2> SUFFICES ASSUME backend = "lance", ~mixed
               PROVE  OneModel'
    BY <1>1 DEF OneModel
  <2>1. OneModel
    BY DEF ReforgeInv
  <2>2. AllOf(server.model) /\ contract \in {"none", server.model}
    BY <1>1, <2>1 DEF OneModel
  <2>3. \A k \in DOMAIN vectors' : vectors'[k].model = server.model
    BY <1>5, <2>2 DEF AllOf
  <2>4. job.pc # "off" => job.model = server.model
    <3> SUFFICES ASSUME job.pc # "off"
                 PROVE  job.model = server.model
      OBVIOUS
    <3>1. vectors # <<>> /\ AllOf(job.model)
      BY <1>2, <2>1 DEF ReforgeTypes, OneModel
    <3>2. 1 \in DOMAIN vectors
      BY <1>2, <3>1
    <3> QED BY <2>2, <3>1, <3>2 DEF AllOf
  <2> QED BY <1>1, <1>6, <1>7, <2>2, <2>3, <2>4 DEF OneModel, AllOf
<1>11. PagesDone'
  <2>1. ~(job.pc # "off" /\ job.alone)
    BY <1>1 DEF ReforgeInv, PagesDone
  <2> QED BY <1>1, <2>1 DEF PagesDone
<1> QED BY <1>8, <1>9, <1>10, <1>11 DEF ReforgeInv

LEMMA ServerRestKeeps ==
  ASSUME ReforgeInv, ServerContract \/ StopServer
  PROVE  ReforgeInv'
<1>1. UNCHANGED <<backend, vectors, job, mixed>> /\ server.pc # "off"
  BY DEF ServerContract, StopServer
<1>2. /\ server \in ServerRecord /\ server.model \in Model /\ vectors \in Seq(VectorRow) /\ contract \in Model \cup {"none"}
      /\ ReforgeTypes /\ RowsApart
  BY <1>1 DEF ReforgeInv, ReforgeTypes
<1>3. /\ server' \in ServerRecord /\ (server'.pc # "off" => server'.model = server.model) /\ server'.pc # "contract"
      /\ \/ contract' = contract
         \/ server.pc = "contract" /\ contract' = server.model /\ server'.pc # "off"
  <2>1. CASE ServerContract
    BY <1>2, <2>1 DEF ServerContract, ServerRecord
  <2>2. CASE StopServer
    BY <2>2 DEF StopServer, NoServer, ServerRecord
  <2> QED BY <2>1, <2>2
<1>4. ReforgeTypes' /\ RowsApart'
  BY <1>1, <1>2, <1>3 DEF ReforgeTypes, RowsApart, Distinct
<1>5. OneModel'
  BY <1>1, <1>3 DEF ReforgeInv, OneModel, AllOf
<1>6. PagesDone'
  <2>1. ~(job.pc # "off" /\ job.alone)
    BY <1>1 DEF ReforgeInv, PagesDone
  <2> QED BY <1>1, <2>1 DEF PagesDone
<1> QED BY <1>4, <1>5, <1>6 DEF ReforgeInv

\* A run of reforge that begins.
LEMMA StartJobKeeps ==
  ASSUME ReforgeInv, NEW m \in Model, NEW scope \in {{"even"}, {"even", "odd"}}, NEW batch, StartJob(m, scope, batch)
  PROVE  ReforgeInv'
<1> DEFINE K == {k \in DOMAIN vectors : WingOf(vectors[k].id) \in scope}
           total == Cardinality(K)
           whole == scope = {"even", "odd"} /\ batch >= total
           alone == server.pc = "off"
<1>1. /\ UNCHANGED <<backend, vectors, contract, server>> /\ total > 0 /\ batch \in BatchSize \cup {total}
      /\ job' = [NoJob EXCEPT !.pc = "read", !.model = m, !.scope = scope, !.batch = batch,
                   !.whole = whole, !.alone = alone]
      /\ mixed' = (mixed \/ \E v \in ToSet(vectors) : v.model # m)
  BY DEF StartJob
<1>2. /\ server \in ServerRecord /\ vectors \in Seq(VectorRow) /\ contract \in Model \cup {"none"}
      /\ ReforgeTypes /\ RowsApart /\ Len(vectors) \in Nat
  BY DEF ReforgeInv, ReforgeTypes
<1>3. IsFiniteSet(1..Len(vectors)) /\ Cardinality(1..Len(vectors)) = Len(vectors)
  <2>1. 1 \in Int /\ Len(vectors) \in Int
    BY <1>2
  <2> QED BY <1>2, <2>1, FS_Interval
<1>4. K \in SUBSET (1..Len(vectors))
  BY <1>2
<1>5. total \in Nat /\ total <= Len(vectors)
  <2> HIDE DEF K
  <2> QED BY <1>3, <1>4, FS_Subset, FS_CardinalityType
<1>6. vectors # <<>>
  BY <1>1, <1>2, <1>5
<1>7. batch \in Nat /\ batch > 0
  <2>1. CASE batch \in BatchSize
    BY <2>1, ReforgeAssumption
  <2>2. CASE batch = total
    BY <1>1, <1>5, <2>2
  <2> QED BY <1>1, <2>1, <2>2
<1>8. whole => total = Len(vectors) /\ Len(vectors) <= batch
  <2> SUFFICES ASSUME scope = {"even", "odd"}, batch >= total
               PROVE  total = Len(vectors) /\ Len(vectors) <= batch
    OBVIOUS
  <2>1. K = 1..Len(vectors)
    BY <1>2 DEF WingOf
  <2> QED BY <1>3, <2>1
<1>9. job' = [pc |-> "read", model |-> m, scope |-> scope, batch |-> batch, offset |-> 0, page |-> <<>>,
              whole |-> whole, alone |-> alone]
  BY <1>1 DEF NoJob
<1> HIDE DEF K, total
<1>10. /\ job' \in JobRecord /\ job'.pc = "read" /\ job'.model = m /\ job'.scope = scope /\ job'.batch = batch
       /\ job'.offset = 0 /\ job'.page = <<>> /\ (job'.whole <=> whole) /\ (job'.alone <=> alone)
  <2>1. whole \in BOOLEAN /\ alone \in BOOLEAN /\ <<>> \in Seq(VectorRow) /\ scope \in SUBSET {"even", "odd"}
    OBVIOUS
  <2> HIDE DEF whole, alone
  <2> QED BY <1>7, <1>9, <2>1 DEF JobRecord
<1>11. ReforgeTypes'
  BY <1>1, <1>2, <1>6, <1>7, <1>10 DEF ReforgeTypes
<1>12. RowsApart'
  BY <1>1, <1>2, <1>10 DEF RowsApart, Distinct
<1>13. OneModel'
  <2> SUFFICES ASSUME backend = "lance", ~mixed'
               PROVE  OneModel'
    BY <1>1 DEF OneModel
  <2>1. OneModel /\ ~mixed
    BY <1>1 DEF ReforgeInv
  <2>2. \A k \in DOMAIN vectors : vectors[k].model = m
    BY <1>1 DEF ToSet
  <2> QED BY <1>1, <1>10, <2>1, <2>2 DEF OneModel, AllOf
<1>14. PagesDone'
  <2>1. ReforgeTypes' /\ RowsApart'
    BY <1>11, <1>12
  <2>2. (backend # "lance" =>
           \A k \in DOMAIN vectors : InScope(vectors[k]) => PlaceInPages(vectors[k].id) \in Nat \ {0})'
    BY <2>1, PositivePlaces, PTL
  <2>3. \A k \in DOMAIN vectors' :
          /\ InScope(vectors[k])' /\ backend # "lance" => PlaceInPages(vectors[k].id)' \in Nat \ {0}
    BY <1>1, <2>2
  <2> QED BY <1>1, <1>6, <1>8, <1>10, <2>3 DEF PagesDone, AllOf
<1> QED BY <1>11, <1>12, <1>13, <1>14 DEF ReforgeInv

LEMMA PageOfVectors ==
  ASSUME ReforgeTypes, RowsApart, job.pc # "off"
  PROVE  /\ Page \in Seq(VectorRow) /\ Distinct(Page) /\ Ids(Page) \subseteq Ids(vectors)
         /\ Len(Scoped) <= Len(vectors)
         /\ \A k \in DOMAIN vectors : InScope(vectors[k]) => \E p \in 1..Len(Scoped) : Scoped[p] = vectors[k]
<1> DEFINE K == {k \in DOMAIN vectors : InScope(vectors[k])}
           n == Len(Scoped)
           at == Ascending(K)
<1>1. /\ n \in Nat /\ n = Cardinality(K)
      /\ \A p \in 1..n : at[p] \in K /\ at[p] \in Int /\ Scoped[p] = vectors[at[p]]
      /\ \A p, q \in 1..n : p < q => at[p] < at[q]
      /\ \A k \in K : \E p \in 1..n : at[p] = k
  BY ScopedRows
<1>2. /\ \A k \in K : k \in DOMAIN vectors /\ InScope(vectors[k])
      /\ \A k \in DOMAIN vectors : InScope(vectors[k]) => k \in K
      /\ K \in SUBSET (DOMAIN vectors)
  OBVIOUS
<1> HIDE DEF K, at
<1>3. vectors \in Seq(VectorRow) /\ DOMAIN vectors = 1..Len(vectors) /\ Len(vectors) \in Nat
  BY DEF ReforgeTypes
<1>4. n <= Len(vectors)
  <2>1. 1 \in Int /\ Len(vectors) \in Int
    BY <1>3
  <2>2. IsFiniteSet(1..Len(vectors)) /\ Cardinality(1..Len(vectors)) = Len(vectors)
    BY <1>3, <2>1, FS_Interval
  <2> QED BY <1>1, <1>2, <1>3, <2>2, FS_Subset
<1>5. /\ Page \in Seq(VectorRow) /\ job.offset \in Nat
      /\ \A k \in DOMAIN Page : k + job.offset \in 1..n /\ Page[k] = Scoped[k + job.offset]
  BY ScopePages DEF ReforgeTypes, JobRecord
<1>6. \A k \in DOMAIN Page : k \in Int
  BY RowParts, <1>5
<1>7. ASSUME NEW k \in DOMAIN Page, NEW l \in DOMAIN Page, Page[k].id = Page[l].id
      PROVE  k = l
  <2> DEFINE p == k + job.offset
             q == l + job.offset
  <2>1. p \in 1..n /\ q \in 1..n /\ Page[k] = Scoped[p] /\ Page[l] = Scoped[q]
    BY <1>5
  <2>2. k \in Int /\ l \in Int /\ (p = q => k = l) /\ p \in Int /\ q \in Int
    BY <1>5, <1>6
  <2> HIDE DEF p, q
  <2>3. vectors[at[p]].id = vectors[at[q]].id /\ at[p] \in DOMAIN vectors /\ at[q] \in DOMAIN vectors
    BY <1>1, <1>2, <1>7, <2>1
  <2>4. at[p] = at[q]
    BY <2>3 DEF RowsApart, Distinct
  <2>5. at[p] \in Int /\ at[q] \in Int /\ (p < q => at[p] < at[q]) /\ (q < p => at[q] < at[p])
    BY <1>1, <2>1
  <2>6. p = q
    BY <2>2, <2>4, <2>5
  <2> QED BY <2>2, <2>6
<1>8. ASSUME NEW k \in DOMAIN Page
      PROVE  Page[k].id \in Ids(vectors)
  <2>1. PICK p \in 1..n : Page[k] = Scoped[p]
    BY <1>5
  <2> QED BY <1>1, <1>2, <2>1 DEF Ids
<1>9. ASSUME NEW k \in DOMAIN vectors, InScope(vectors[k])
      PROVE  \E p \in 1..n : Scoped[p] = vectors[k]
  BY <1>1, <1>2, <1>9
<1> QED BY <1>4, <1>5, <1>7, <1>8, <1>9 DEF Distinct, Ids

\* What a run leaves when it ends: the models agree if they did, or if it was alone
\* and has written all vectors.
LEMMA EndJobKeeps ==
  ASSUME ReforgeInv, job.pc # "off", EndJob, UNCHANGED <<backend, vectors, server>>,
         contract' \in {contract, job.model},
         backend = "lance" /\ job.whole /\ job.alone => AllOf(job.model) /\ contract' = job.model
  PROVE  ReforgeInv'
<1>1. job' = NoJob /\ mixed' = (mixed /\ ~(job.whole /\ job.alone))
  BY DEF EndJob
<1>2. ReforgeTypes /\ RowsApart /\ OneModel /\ PagesDone /\ job \in JobRecord /\ job.model \in Model /\ vectors # <<>>
  BY DEF ReforgeInv, ReforgeTypes
<1>3. job' \in JobRecord /\ job'.pc = "off" /\ job'.page = <<>>
  BY <1>1 DEF NoJob, JobRecord
<1>4. ReforgeTypes'
  BY <1>1, <1>2, <1>3 DEF ReforgeTypes
<1>5. RowsApart'
  BY <1>2, <1>3 DEF RowsApart, Distinct
<1>6. OneModel'
  <2> SUFFICES ASSUME backend = "lance", ~mixed'
               PROVE  OneModel'
    BY DEF OneModel
  <2>1. CASE ~mixed
    <3>1. server.pc # "off" => server.model = job.model
      <4> SUFFICES ASSUME server.pc # "off"
                   PROVE  server.model = job.model
        OBVIOUS
      <4>1. 1 \in DOMAIN vectors
        BY <1>2 DEF ReforgeTypes
      <4> QED BY <1>2, <2>1, <4>1 DEF OneModel, AllOf
    <3> QED BY <1>2, <1>3, <2>1, <3>1 DEF OneModel, AllOf
  <2>2. CASE mixed
    <3>1. job.whole /\ job.alone /\ server.pc = "off" /\ AllOf(job.model) /\ contract' = job.model
      BY <1>1, <1>2, <2>2 DEF PagesDone
    <3> QED BY <1>2, <1>3, <3>1 DEF OneModel, AllOf
  <2> QED BY <2>1, <2>2
<1>7. PagesDone'
  BY <1>3 DEF PagesDone
<1> QED BY <1>4, <1>5, <1>6, <1>7 DEF ReforgeInv

\* The last page of a run that is alone ends with all rows in scope rewritten, if
\* they were read by id or at once.
LEMMA ReadEnds ==
  ASSUME ReforgeInv, ReadPage, Page = <<>>, job.alone
  PROVE  /\ backend = "lance" /\ job.whole => AllOf(job.model) /\ contract = job.model
         /\ backend # "lance" \/ job.whole =>
              \A k \in DOMAIN vectors : InScope(vectors[k]) => vectors[k].model = job.model
<1>1. job.pc = "read" /\ Len(Scoped) <= job.offset /\ ReforgeTypes /\ RowsApart /\ PagesDone
  BY ScopePages DEF ReadPage, ReforgeInv
<1>2. job.offset \in Nat /\ job \in JobRecord
  BY <1>1 DEF ReforgeTypes, JobRecord
<1>3. ASSUME backend = "lance", job.whole
      PROVE  AllOf(job.model) /\ contract = job.model
  <2>1. job.scope = {"even", "odd"} /\ (job.offset > 0 => AllOf(job.model) /\ contract = job.model)
    BY <1>1, <1>3 DEF PagesDone
  <2>2. 1 \in DOMAIN vectors /\ InScope(vectors[1])
    BY <1>1, <2>1 DEF ReforgeTypes, InScope, WingOf
  <2>3. Len(Scoped) \in Nat /\ Len(Scoped) > 0
    <3>1. \E p \in 1..Len(Scoped) : Scoped[p] = vectors[1]
      BY <1>1, <2>2, PageOfVectors
    <3> QED BY <1>1, <3>1, ScopedRows
  <2> QED BY <1>1, <1>2, <2>1, <2>3
<1>4. ASSUME backend # "lance", NEW k \in DOMAIN vectors, InScope(vectors[k])
      PROVE  vectors[k].model = job.model
  <2>1. PICK p \in 1..Len(Scoped) : PlaceInPages(vectors[k].id) = p
    BY <1>1, <1>4, PlacesInPages
  <2>2. p <= job.offset
    BY <1>1, <1>2, <2>1, ScopedRows
  <2> QED BY <1>1, <1>4, <2>1, <2>2 DEF PagesDone
<1> QED BY <1>3, <1>4 DEF AllOf

LEMMA ReadPageKeeps ==
  ReforgeInv /\ ReadPage => ReforgeInv'
<1> SUFFICES ASSUME ReforgeInv, ReadPage
             PROVE  ReforgeInv'
  OBVIOUS
<1>1. UNCHANGED <<backend, vectors, contract, server>> /\ job.pc = "read"
  BY DEF ReadPage
<1>2. ReforgeTypes /\ RowsApart /\ OneModel /\ PagesDone /\ job \in JobRecord /\ job.model \in Model
  BY <1>1 DEF ReforgeInv, ReforgeTypes
<1>3. CASE Page = <<>>
  <2>1. EndJob
    BY <1>3 DEF ReadPage
  <2> QED BY <1>1, <1>3, <2>1, EndJobKeeps, ReadEnds
<1>4. CASE Page # <<>>
  <2>1. job' = [job EXCEPT !.pc = "write", !.page = Page] /\ mixed' = mixed
    BY <1>4 DEF ReadPage
  <2>2. /\ Page \in Seq(VectorRow) /\ Distinct(Page) /\ Ids(Page) \subseteq Ids(vectors) /\ Len(Scoped) <= Len(vectors)
        /\ \A k \in DOMAIN vectors : InScope(vectors[k]) => \E p \in 1..Len(Scoped) : Scoped[p] = vectors[k]
    BY <1>1, <1>2, PageOfVectors
  <2>3. /\ \A p \in 1..Len(Scoped) :
             p > job.offset /\ p <= job.offset + job.batch => \E k \in DOMAIN Page : Page[k] = Scoped[p]
        /\ Len(Page) < job.batch => Len(Scoped) < job.offset + job.batch
        /\ Len(Scoped) \in Nat
    BY <1>1, <1>2, ScopePages, ScopedRows
  <2>4. /\ job' \in JobRecord /\ job'.pc = "write" /\ job'.page = Page /\ job'.model = job.model /\ job'.scope = job.scope
        /\ job'.batch = job.batch /\ job'.offset = job.offset /\ job'.whole = job.whole /\ job'.alone = job.alone
    BY <1>2, <2>1, <2>2 DEF JobRecord
  <2>5. ReforgeTypes' /\ RowsApart'
    BY <1>1, <1>2, <2>1, <2>2, <2>4 DEF ReforgeTypes, RowsApart, Distinct
  <2>6. OneModel'
    BY <1>1, <1>2, <2>1, <2>4 DEF OneModel, AllOf
  <2>7. job.batch \in Nat /\ job.offset \in Nat /\ Len(vectors) \in Nat
    BY <1>2 DEF ReforgeTypes, JobRecord
  <2>8. ASSUME job.alone, backend = "lance", job.whole, job.offset = 0
        PROVE  Ids(Page) = Ids(vectors)
    <3>1. job.scope = {"even", "odd"} /\ Len(vectors) <= job.batch
      BY <1>1, <1>2, <2>8 DEF PagesDone
    <3>2. ASSUME NEW k \in DOMAIN vectors
          PROVE  vectors[k].id \in Ids(Page)
      <4>1. InScope(vectors[k])
        BY <3>1 DEF InScope, WingOf
      <4>2. PICK p \in 1..Len(Scoped) : Scoped[p] = vectors[k]
        BY <2>2, <4>1
      <4>3. p > job.offset /\ p <= job.offset + job.batch
        BY <2>2, <2>3, <2>7, <2>8, <3>1
      <4>4. PICK j \in DOMAIN Page : Page[j] = vectors[k]
        BY <2>3, <4>2, <4>3
      <4> QED BY <4>4 DEF Ids
    <3> QED BY <2>2, <3>2 DEF Ids
  <2>9. ASSUME backend # "lance", NEW k \in DOMAIN vectors, InScope(vectors[k])
        PROVE  LET place == PlaceInPages(vectors[k].id) IN
               /\ place > job.offset /\ place <= job.offset + job.batch => vectors[k].id \in Ids(Page)
               /\ Len(Page) < job.batch => place < job.offset + job.batch
    <3>1. PICK p \in 1..Len(Scoped) : Scoped[p] = vectors[k] /\ PlaceInPages(vectors[k].id) = p
      BY <1>2, <2>9, PlacesInPages
    <3>2. p > job.offset /\ p <= job.offset + job.batch => vectors[k].id \in Ids(Page)
      BY <2>3, <3>1 DEF Ids
    <3>3. Len(Page) < job.batch => p < job.offset + job.batch
      BY <2>3, <2>7
    <3> QED BY <3>1, <3>2, <3>3
  <2>10. \A i : PlaceInPages(i)' = PlaceInPages(i)
    BY <1>1, <2>4 DEF PlaceInPages, Ids
  <2>11. \A k : InScope(vectors[k])' <=> InScope(vectors[k])
    BY <1>1, <2>4 DEF InScope
  <2>12. Ids(job.page)' = Ids(Page) /\ Ids(vectors)' = Ids(vectors)
    BY <1>1, <2>4 DEF Ids
  <2>13. PagesDone'
    <3> SUFFICES ASSUME job.alone
                 PROVE  PagesDone'
      BY <2>4 DEF PagesDone
    <3>1. /\ server.pc = "off"
          /\ backend = "lance" /\ job.whole =>
               job.scope = {"even", "odd"} /\ (job.offset > 0 => AllOf(job.model) /\ contract = job.model)
          /\ backend # "lance" =>
               \A k \in DOMAIN vectors :
                 InScope(vectors[k]) /\ PlaceInPages(vectors[k].id) <= job.offset => vectors[k].model = job.model
      BY <1>1, <1>2 DEF PagesDone
    <3>2. AllOf(job.model)' <=> AllOf(job.model)
      BY <1>1, <2>4 DEF AllOf
    <3> HIDE DEF ReforgeInv, ReadPage
    <3> QED BY <1>1, <2>2, <2>4, <2>8, <2>9, <2>10, <2>11, <2>12, <3>1, <3>2 DEF PagesDone
  <2> QED BY <2>5, <2>6, <2>13 DEF ReforgeInv
<1> QED BY <1>3, <1>4

LEMMA WritePageKeeps ==
  ReforgeInv /\ WritePage => ReforgeInv'
<1> SUFFICES ASSUME ReforgeInv, WritePage
             PROVE  ReforgeInv'
  OBVIOUS
<1>1. /\ UNCHANGED <<backend, contract, server, mixed>> /\ job.pc = "write"
      /\ vectors' = Rewritten(job.page, job.model) /\ job' = [job EXCEPT !.pc = "contract"]
  BY DEF WritePage
<1>2. /\ ReforgeTypes /\ RowsApart /\ OneModel /\ PagesDone /\ job \in JobRecord /\ job.model \in Model
      /\ job.page \in Seq(VectorRow) /\ Distinct(job.page) /\ vectors \in Seq(VectorRow) /\ vectors # <<>>
  BY <1>1 DEF ReforgeInv, ReforgeTypes, RowsApart, JobRecord
<1> DEFINE page == job.page
           m == job.model
<1>3. /\ vectors' \in Seq(VectorRow) /\ Distinct(vectors') /\ Ids(vectors') = Ids(vectors) \cup Ids(page)
      /\ \A k \in DOMAIN vectors' : vectors'[k].id \in Ids(page) => vectors'[k].model = m
      /\ \A k \in DOMAIN vectors' : vectors'[k].id \notin Ids(page) => \E l \in DOMAIN vectors : vectors'[k] = vectors[l]
      /\ backend # "lance" => \A k, l \in DOMAIN vectors' : k < l => vectors'[k].id < vectors'[l].id
  BY <1>1, <1>2, RewrittenRows
<1>4. /\ job' \in JobRecord /\ job'.pc = "contract" /\ job'.page = page /\ job'.model = m /\ job'.scope = job.scope
      /\ job'.batch = job.batch /\ job'.offset = job.offset /\ job'.whole = job.whole /\ job'.alone = job.alone
  BY <1>1, <1>2 DEF JobRecord
<1>5. vectors' # <<>>
  <2>1. 1 \in DOMAIN vectors
    BY <1>2
  <2>2. vectors[1].id \in Ids(vectors')
    BY <1>3, <2>1 DEF Ids
  <2> QED BY <2>2 DEF Ids
<1>6. ReforgeTypes' /\ RowsApart'
  BY <1>1, <1>2, <1>3, <1>4, <1>5 DEF ReforgeTypes, RowsApart, Distinct
<1>7. AllOf(m) => \A k \in DOMAIN vectors' : vectors'[k].model = m
  BY <1>3 DEF AllOf
<1>8. OneModel'
  <2> SUFFICES ASSUME backend = "lance", ~mixed
               PROVE  OneModel'
    BY <1>1 DEF OneModel
  <2>1. AllOf(m) /\ 1 \in DOMAIN vectors
    BY <1>1, <1>2 DEF OneModel
  <2>2. (server.pc # "off" => server.model = m /\ contract \in {"none", m}) /\ contract \in {"none", m}
    BY <1>2, <2>1 DEF OneModel, AllOf
  <2> QED BY <1>1, <1>4, <1>5, <1>7, <2>1, <2>2 DEF OneModel, AllOf
<1>9. PagesDone'
  <2> SUFFICES ASSUME job.alone
               PROVE  PagesDone'
    BY <1>4 DEF PagesDone
  <2>1. server.pc = "off" /\ Ids(page) \subseteq Ids(vectors)
    BY <1>1, <1>2 DEF PagesDone
  <2>2. Ids(vectors') = Ids(vectors)
    BY <1>3, <2>1
  <2>3. ASSUME backend = "lance", job.whole
        PROVE  /\ job.scope = {"even", "odd"} /\ \A k \in DOMAIN vectors' : vectors'[k].model = m
               /\ job.offset > 0 => contract = m
    <3>1. job.scope = {"even", "odd"} /\ (job.offset = 0 => Ids(page) = Ids(vectors)) /\ (job.offset > 0 => AllOf(m) /\ contract = m)
      BY <1>1, <1>2, <2>3 DEF PagesDone
    <3>2. CASE job.offset = 0
      <4>1. \A k \in DOMAIN vectors' : vectors'[k].id \in Ids(page)
        BY <2>2, <3>1, <3>2 DEF Ids
      <4> QED BY <1>3, <3>1, <3>2, <4>1
    <3>3. CASE job.offset > 0
      BY <1>7, <3>1, <3>3
    <3> QED BY <1>2, <3>2, <3>3 DEF JobRecord
  <2>4. \A i : PlaceInPages(i)' = PlaceInPages(i)
    BY <1>4, <2>2 DEF PlaceInPages
  <2>5. ASSUME backend # "lance", NEW k \in DOMAIN vectors', WingOf(vectors'[k].id) \in job.scope
        PROVE  LET place == PlaceInPages(vectors'[k].id) IN
               /\ place <= job.offset + job.batch => vectors'[k].model = m
               /\ place <= job.offset => vectors'[k].model = m
               /\ Len(page) < job.batch => place < job.offset + job.batch
    <3>1. vectors'[k].id \in Ids(vectors)
      BY <2>2 DEF Ids
    <3>2. PICK l \in DOMAIN vectors : vectors[l].id = vectors'[k].id
      BY <3>1 DEF Ids
    <3> DEFINE place == PlaceInPages(vectors[l].id)
    <3>3. /\ InScope(vectors[l])
          /\ place <= job.offset => vectors[l].model = m
          /\ place > job.offset /\ place <= job.offset + job.batch => vectors[l].id \in Ids(page)
          /\ Len(page) < job.batch => place < job.offset + job.batch
      BY <1>1, <1>2, <2>5, <3>2 DEF PagesDone, InScope
    <3>4. place \in Nat /\ job.offset \in Nat /\ job.batch \in Nat
      BY <1>2, <2>5, <3>3, PositivePlaces DEF JobRecord
    <3>5. CASE vectors'[k].id \in Ids(page)
      BY <1>3, <3>2, <3>3, <3>5
    <3>6. CASE vectors'[k].id \notin Ids(page)
      <4>1. PICK j \in DOMAIN vectors : vectors'[k] = vectors[j]
        BY <1>3, <3>6
      <4>2. j = l
        BY <1>2, <3>2, <4>1 DEF RowsApart, Distinct
      <4>3. vectors'[k] = vectors[l] /\ ~(place > job.offset /\ place <= job.offset + job.batch)
        BY <3>2, <3>3, <3>6, <4>1, <4>2
      <4> HIDE DEF place
      <4>4. place <= job.offset + job.batch => vectors[l].model = m
        BY <3>3, <3>4, <4>3
      <4> QED BY <3>3, <4>3, <4>4 DEF place
    <3> QED BY <3>5, <3>6
  <2>6. \A k : InScope(vectors[k])' <=> WingOf(vectors'[k].id) \in job.scope
    BY <1>4 DEF InScope
  <2>7. AllOf(job.model)' <=> \A k \in DOMAIN vectors' : vectors'[k].model = m
    BY <1>4 DEF AllOf
  <2> HIDE DEF page, m
  <2>8. page = job.page /\ m = job.model
    BY DEF page, m
  <2> HIDE DEF ReforgeInv, WritePage
  <2> QED BY <1>1, <1>4, <2>1, <2>3, <2>4, <2>5, <2>6, <2>7, <2>8 DEF PagesDone
<1> QED BY <1>6, <1>8, <1>9 DEF ReforgeInv

\* A page that is written: if it was the last, the rows in scope are rewritten.
LEMMA ContractEnds ==
  ASSUME ReforgeInv, JobContract, job.alone
  PROVE  /\ backend = "lance" /\ job.whole => AllOf(job.model)
         /\ (backend # "lance" \/ job.whole) /\ LastPage =>
              \A k \in DOMAIN vectors : InScope(vectors[k]) => vectors[k].model = job.model
<1>1. job.pc = "contract" /\ ReforgeTypes /\ RowsApart /\ PagesDone /\ job.offset \in Nat /\ job.batch \in Nat
  BY DEF JobContract, ReforgeInv, ReforgeTypes, JobRecord
<1>2. backend = "lance" /\ job.whole => AllOf(job.model)
  BY <1>1 DEF PagesDone
<1>3. ASSUME backend # "lance", LastPage, NEW k \in DOMAIN vectors, InScope(vectors[k])
      PROVE  vectors[k].model = job.model
  <2>1. PlaceInPages(vectors[k].id) \in Nat
    BY <1>1, <1>3, PositivePlaces
  <2>2. PlaceInPages(vectors[k].id) < job.offset + job.batch
    BY <1>1, <1>3 DEF PagesDone, LastPage
  <2>3. PlaceInPages(vectors[k].id) <= job.offset + job.batch
    BY <1>1, <2>1, <2>2
  <2> QED BY <1>1, <1>3, <2>3 DEF PagesDone
<1> QED BY <1>2, <1>3 DEF AllOf

LEMMA JobContractKeeps ==
  ReforgeInv /\ JobContract => ReforgeInv'
<1> SUFFICES ASSUME ReforgeInv, JobContract
             PROVE  ReforgeInv'
  OBVIOUS
<1>1. UNCHANGED <<backend, vectors, server>> /\ job.pc = "contract" /\ contract' = job.model
  BY DEF JobContract
<1>2. /\ ReforgeTypes /\ RowsApart /\ OneModel /\ PagesDone /\ job \in JobRecord /\ job.model \in Model /\ vectors # <<>>
      /\ job.offset \in Nat /\ job.batch \in Nat /\ job.batch > 0
  BY <1>1 DEF ReforgeInv, ReforgeTypes, JobRecord
<1>3. CASE LastPage
  <2>1. EndJob
    BY <1>3 DEF JobContract
  <2> QED BY <1>1, <2>1, EndJobKeeps, ContractEnds
<1>4. CASE ~LastPage
  <2> DEFINE following == job.offset + job.batch
  <2>1. job' = [job EXCEPT !.pc = "read", !.offset = following, !.page = <<>>] /\ mixed' = mixed
    BY <1>4 DEF JobContract
  <2>2. following \in Nat /\ following > 0 /\ <<>> \in Seq(VectorRow)
    BY <1>2
  <2> HIDE DEF following
  <2>3. /\ job' \in JobRecord /\ job'.pc = "read" /\ job'.page = <<>> /\ job'.model = job.model /\ job'.scope = job.scope
        /\ job'.batch = job.batch /\ job'.offset = following /\ job'.whole = job.whole /\ job'.alone = job.alone
    BY <1>2, <2>1, <2>2 DEF JobRecord
  <2>4. ReforgeTypes' /\ RowsApart'
    BY <1>1, <1>2, <2>1, <2>3 DEF ReforgeTypes, RowsApart, Distinct
  <2>5. OneModel'
    <3> SUFFICES ASSUME backend = "lance", ~mixed
                 PROVE  OneModel'
      BY <1>1, <2>1 DEF OneModel
    <3>1. AllOf(job.model) /\ 1 \in DOMAIN vectors
      BY <1>1, <1>2 DEF OneModel, ReforgeTypes
    <3>2. server.pc # "off" => server.model = job.model
      BY <1>2, <3>1 DEF OneModel, AllOf
    <3> QED BY <1>1, <1>2, <2>3, <3>1, <3>2 DEF OneModel, AllOf
  <2>6. PagesDone'
    <3> SUFFICES ASSUME job.alone
                 PROVE  PagesDone'
      BY <2>3 DEF PagesDone
    <3>1. server.pc = "off" /\ (backend = "lance" /\ job.whole => job.scope = {"even", "odd"} /\ AllOf(job.model))
      BY <1>1, <1>2 DEF PagesDone
    <3>2. backend # "lance" =>
            \A k \in DOMAIN vectors :
              InScope(vectors[k]) /\ PlaceInPages(vectors[k].id) <= following => vectors[k].model = job.model
      BY <1>1, <1>2 DEF PagesDone, following
    <3>3. \A i : PlaceInPages(i)' = PlaceInPages(i)
      BY <1>1, <2>3 DEF PlaceInPages, Ids
    <3>4. \A k : InScope(vectors[k])' <=> InScope(vectors[k])
      BY <1>1, <2>3 DEF InScope
    <3>5. AllOf(job.model)' <=> AllOf(job.model)
      BY <1>1, <2>3 DEF AllOf
    <3> HIDE DEF ReforgeInv, JobContract
    <3> QED BY <1>1, <2>2, <2>3, <3>1, <3>2, <3>3, <3>4, <3>5 DEF PagesDone
  <2> QED BY <2>4, <2>5, <2>6 DEF ReforgeInv
<1> QED BY <1>3, <1>4

LEMMA JobDiesKeeps ==
  ReforgeInv /\ (JobDies \/ UNCHANGED reforgeVars) => ReforgeInv'
<1> SUFFICES ASSUME ReforgeInv, JobDies \/ UNCHANGED reforgeVars
             PROVE  ReforgeInv'
  OBVIOUS
<1>1. CASE JobDies
  <2>1. job' = NoJob /\ UNCHANGED <<backend, vectors, contract, server, mixed>>
    BY <1>1 DEF JobDies
  <2>2. job' \in JobRecord /\ job'.pc = "off" /\ job'.page = <<>>
    BY <2>1 DEF NoJob, JobRecord
  <2>3. ReforgeTypes' /\ RowsApart'
    BY <2>1, <2>2 DEF ReforgeInv, ReforgeTypes, RowsApart, Distinct
  <2>4. OneModel' /\ PagesDone'
    BY <2>1, <2>2 DEF ReforgeInv, OneModel, PagesDone, AllOf
  <2> QED BY <2>3, <2>4 DEF ReforgeInv
<1>2. CASE UNCHANGED reforgeVars
  <2>1. UNCHANGED <<backend, vectors, contract, server, job, mixed>>
    BY <1>2 DEF reforgeVars
  <2>2. ReforgeTypes' /\ RowsApart' /\ OneModel'
    BY <2>1 DEF ReforgeInv, ReforgeTypes, RowsApart, Distinct, OneModel, AllOf
  <2>3. PagesDone'
    <3>1. (\A i : PlaceInPages(i)' = PlaceInPages(i)) /\ (\A k : InScope(vectors[k])' <=> InScope(vectors[k]))
      BY <2>1 DEF PlaceInPages, Ids, InScope
    <3>2. (AllOf(job.model)' <=> AllOf(job.model)) /\ Ids(job.page)' = Ids(job.page) /\ Ids(vectors)' = Ids(vectors)
      BY <2>1 DEF AllOf, Ids
    <3>3. PagesDone
      BY DEF ReforgeInv
    <3> QED BY <2>1, <3>1, <3>2, <3>3 DEF PagesDone
  <2> QED BY <2>2, <2>3 DEF ReforgeInv
<1> QED BY <1>1, <1>2

-----------------------------------------------------------------------------
(* Reforge: what its runs and the servers leave.                           *)

THEOREM ReforgeInvariant ==
  ReforgeSpec => []ReforgeInv
<1>1. ReforgeInv /\ [ReforgeNext]_reforgeVars => ReforgeInv'
  BY OpenServerKeeps, StartJobKeeps, FileKeeps, ServerRestKeeps, ReadPageKeeps, WritePageKeeps, JobContractKeeps,
     JobDiesKeeps DEF ReforgeNext
<1> QED BY <1>1, ReforgeStarts, PTL DEF ReforgeSpec

\* The end of a run that was alone.
LEMMA RunCovers ==
  ASSUME ReforgeInv, JobEndsAlone, backend = "postgres" \/ job.whole
  PROVE  \A v \in ToSet(vectors') : InScope(v) => v.model = job.model
<1>1. UNCHANGED vectors /\ job.alone /\ (backend # "lance" \/ job.whole)
  BY DEF JobEndsAlone, ReadPage, JobContract
<1>2. \A k \in DOMAIN vectors : InScope(vectors[k]) => vectors[k].model = job.model
  <2>0. job \in JobRecord
    BY DEF ReforgeInv, ReforgeTypes
  <2>1. CASE ReadPage
    <3>1. Page = <<>>
      <4> SUFFICES ASSUME Page # <<>>
                   PROVE  FALSE
        OBVIOUS
      <4>1. job' = [job EXCEPT !.pc = "write", !.page = Page]
        BY <2>1 DEF ReadPage
      <4>2. job'.pc = "write"
        BY <2>0, <4>1 DEF JobRecord
      <4> QED BY <4>2 DEF JobEndsAlone
    <3> QED BY <1>1, <2>1, <3>1, ReadEnds
  <2>2. CASE JobContract
    <3>1. LastPage
      <4> SUFFICES ASSUME ~LastPage
                   PROVE  FALSE
        OBVIOUS
      <4>1. job' = [job EXCEPT !.pc = "read", !.offset = @ + job.batch, !.page = <<>>]
        BY <2>2 DEF JobContract
      <4>2. job'.pc = "read"
        BY <2>0, <4>1 DEF JobRecord
      <4> QED BY <4>2 DEF JobEndsAlone
    <3> QED BY <1>1, <2>2, <3>1, ContractEnds
  <2> QED BY <2>1, <2>2 DEF JobEndsAlone
<1> QED BY <1>1, <1>2 DEF ToSet

\* Searches compare like with like, for any batch sizes, scopes, interleavings with a
\* server and deaths of the run: in LanceDB an open server finds vectors of its own model
\* unless a reforge was partial, cut off or beside a server; and in both backends a run
\* that was alone has rewritten its scope, if it read by id or in one batch.
THEOREM ReforgesAreSound ==
  ReforgeSpec => ReforgeSound
<1>1. ReforgeInv => ModelsAgree
  BY DEF ReforgeInv, OneModel, AllOf, ModelsAgree, ToSet
<1>2. ReforgeInv /\ [ReforgeNext]_reforgeVars =>
        [JobEndsAlone /\ (backend = "postgres" \/ job.whole) =>
           \A v \in ToSet(vectors') : InScope(v) => v.model = job.model]_reforgeVars
  BY RunCovers
<1>3. ReforgeSpec => ReforgeCovers
  BY <1>2, ReforgeInvariant, PTL DEF ReforgeSpec, ReforgeCovers
<1>4. ReforgeSpec => []ModelsAgree
  BY <1>1, ReforgeInvariant, PTL
<1> QED BY <1>3, <1>4 DEF ReforgeSound

\* The type invariant: a record has one row.
THEOREM ReforgeTyped ==
  ReforgeSpec => []ReforgeTypeOK
<1>1. ReforgeInv => ReforgeTypeOK
  <2> SUFFICES ASSUME ReforgeInv
               PROVE  ReforgeTypeOK
    OBVIOUS
  <2>1. ReforgeTypes /\ Distinct(vectors) /\ vectors \in Seq(VectorRow) /\ Len(vectors) \in Nat /\ DOMAIN vectors = 1..Len(vectors)
    BY DEF ReforgeInv, RowsApart, ReforgeTypes
  <2> DEFINE n == Len(vectors)
             ids == [k \in 1..n |-> vectors[k].id]
  <2>2. \A k, l \in 1..n : ids[k] = ids[l] => k = l
    BY <2>1 DEF Distinct
  <2>3. Ids(vectors) = {ids[k] : k \in 1..n}
    BY <2>1 DEF Ids
  <2>4. n \in Nat
    BY <2>1
  <2> HIDE DEF ids, n
  <2>5. Cardinality({ids[k] : k \in 1..n}) = n
    BY <2>2, <2>4, DistinctCount
  <2> QED BY <2>1, <2>3, <2>5 DEF ReforgeTypeOK, ReforgeTypes, ServerRecord, JobRecord, VectorRow, n
<1> QED BY <1>1, ReforgeInvariant, PTL

-----------------------------------------------------------------------------
(* The castle: what holds of a part holds of the castle.                   *)

\* The castle begins where each of its parts does.
LEMMA CastleBegins ==
  CastleInit => /\ CollectionsInit /\ DistillInit /\ ReforgeInit /\ ViewsInit /\ DedupInit /\ FactsInit
                /\ RequestsInit /\ FiltersInit /\ RetrievalInit /\ CandidatesInit /\ PgInit /\ DigestInit
                /\ SanitizerInv
<1> SUFFICES ASSUME CastleInit
             PROVE  SanitizerInv
  BY DEF CastleInit
<1>1. SanitizerInit \/ (raw = <<>> /\ how = "no")
  BY DEF CastleInit, OthersRest
<1>2. CASE raw = <<>> /\ how = "no"
  BY <1>2 DEF SanitizerInv
<1> QED BY <1>1, <1>2, SanitizerInvInit

\* One part moves, the others stay as they are.
LEMMA CastleSteps ==
  [CastleNext]_castleVars =>
    /\ [CollectionsNext]_collectionsVars /\ [DistillNext]_distillVars /\ [ReforgeNext]_reforgeVars
    /\ [ViewsNext]_viewsVars /\ [DedupNext]_dedupVars /\ [FactsNext]_factVars
    /\ [RequestsNext]_requestVars /\ [AskBackends]_filterVars /\ [RetrievalNext]_retrievalVars
    /\ [CandidatesNext]_candidateVars /\ [PgNext]_pgVars /\ [DigestNext]_digestVars
    /\ [SanitizerNext]_sanitizerVars
<1> DEFINE Each ==
             /\ [CollectionsNext]_collectionsVars /\ [DistillNext]_distillVars /\ [ReforgeNext]_reforgeVars
             /\ [ViewsNext]_viewsVars /\ [DedupNext]_dedupVars /\ [FactsNext]_factVars
             /\ [RequestsNext]_requestVars /\ [AskBackends]_filterVars /\ [RetrievalNext]_retrievalVars
             /\ [CandidatesNext]_candidateVars /\ [PgNext]_pgVars /\ [DigestNext]_digestVars
             /\ [SanitizerNext]_sanitizerVars
           Stay ==
             /\ UNCHANGED collectionsVars /\ UNCHANGED distillVars /\ UNCHANGED reforgeVars
             /\ UNCHANGED viewsVars /\ UNCHANGED dedupVars /\ UNCHANGED factVars
             /\ UNCHANGED requestVars /\ UNCHANGED filterVars /\ UNCHANGED retrievalVars
           Serve ==
             /\ UNCHANGED candidateVars /\ UNCHANGED pgVars /\ UNCHANGED identityVars
             /\ UNCHANGED digestVars /\ UNCHANGED sanitizerVars
<1>1. UNCHANGED mostVars => Stay
  BY DEF mostVars
<1>2. UNCHANGED servedVars => Serve
  BY DEF servedVars
<1>3. UNCHANGED castleVars => Stay /\ Serve
  BY <1>1, <1>2 DEF castleVars
<1>4. CollectionsMoves => Each
  BY <1>2 DEF CollectionsMoves
<1>5. DistillMoves => Each
  BY <1>2 DEF DistillMoves
<1>6. ReforgeMoves => Each
  BY <1>2 DEF ReforgeMoves
<1>7. ViewsMoves => Each
  BY <1>2 DEF ViewsMoves
<1>8. DedupMoves => Each
  BY <1>2 DEF DedupMoves
<1>9. FactsMoves => Each
  BY <1>2 DEF FactsMoves
<1>10. RequestsMoves => Each
  BY <1>2 DEF RequestsMoves
<1>11. FiltersMoves => Each
  BY <1>2 DEF FiltersMoves
<1>12. RetrievalMoves => Each
  BY <1>2 DEF RetrievalMoves
<1>13. CandidatesMoves => Each
  BY <1>1 DEF CandidatesMoves
<1>14. PgMoves => Each
  BY <1>1 DEF PgMoves
<1>15. IdentityMoves => Each
  BY <1>1 DEF IdentityMoves
<1>16. DigestMoves => Each
  BY <1>1 DEF DigestMoves
<1>17. SanitizerMoves => Each
  BY <1>1 DEF SanitizerMoves
<1>18. Stay /\ Serve => Each
  OBVIOUS
<1> HIDE DEF Each, Stay, Serve
<1>19. [CastleNext]_castleVars => Each
  BY <1>3, <1>4, <1>5, <1>6, <1>7, <1>8, <1>9, <1>10, <1>11, <1>12, <1>13, <1>14, <1>15, <1>16, <1>17, <1>18 DEF CastleNext
<1> QED BY <1>19 DEF Each

\* LanceDB and PostgreSQL: every id keeps one row, with its own document until a
\* LanceDB update asks for ids in another order than that of the scan, and a table
\* keeps one width, as long as merge_insert fails only where one process is at work.
THEOREM StorageIsSound ==
  ASSUME OneMerges
  PROVE  CastleSpec => StorageSound
<1>1. CastleSpec => CollectionsSpec /\ PgSpec
  BY CastleBegins, CastleSteps, PTL DEF CastleSpec, CollectionsSpec, PgSpec
<1> QED BY <1>1, RowsAreSound, PgIsSound, PTL DEF StorageSound

\* The graph of a castle: one current row of a fact, its history, and the candidates
\* for it, in both stores and whoever adds, ends, proposes and reviews.
THEOREM GraphIsSound == CastleSpec => GraphSound
<1>1. CastleSpec => FactsSpec /\ CandidatesSpec
  BY CastleBegins, CastleSteps, PTL DEF CastleSpec, FactsSpec, CandidatesSpec
<1> QED BY <1>1, FactsAreKept, CandidatesAreSound, PTL DEF GraphSound

\* What is shown of a castle, as ViewsSound and DigestSound have it: catalog and tunnels
\* until others write, walks, the cards of an undisturbed rebuild, digests.
THEOREM ShownIsSound == CastleSpec => ShownSound
<1>1. CastleSpec => ViewsSpec /\ DigestSpec
  BY CastleBegins, CastleSteps, PTL DEF CastleSpec, ViewsSpec, DigestSpec
<1> QED BY <1>1, ViewsAreSound, DigestsAreSound, PTL DEF ShownSound

\* Searches: what is asked is cut to its question, the backends agree on portable
\* filters, and the best drawers are answered in order.
THEOREM AnswersAreSound == CastleSpec => []AnswersSound
<1>1. CastleSpec => FiltersSpec /\ RetrievalSpec
  BY CastleBegins, CastleSteps, PTL DEF CastleSpec, FiltersSpec, RetrievalSpec
<1>2. SanitizerInv => SanitizerSound
  BY CleanParts, QuestionsFound, MarkedFound, TailFound DEF SanitizerSound
<1>3. CastleSpec => []SanitizerInv
  BY CastleBegins, CastleSteps, SanitizerInvStep, PTL DEF CastleSpec
<1> QED BY <1>1, <1>2, <1>3, FiltersAreSound, SearchesAreSound, PTL DEF AnswersSound

\* The types of all parts of a castle.
THEOREM CastleTyped ==
  ASSUME OneMerges
  PROVE  CastleSpec => []CastleTypeOK
<1>1. CastleSpec => /\ CollectionsSpec /\ ReforgeSpec /\ ViewsSpec /\ DedupSpec /\ FactsSpec /\ RequestsSpec
                    /\ FiltersSpec /\ RetrievalSpec /\ DistillInit /\ [][DistillNext]_distillVars
  BY CastleBegins, CastleSteps, PTL
     DEF CastleSpec, CollectionsSpec, ReforgeSpec, ViewsSpec, DedupSpec, FactsSpec, RequestsSpec, FiltersSpec,
         RetrievalSpec
<1> QED BY <1>1, CollectionsTypes, DistillTyped, ReforgeTyped, ViewsTyped, DedupIsSafe, FactsTyped,
           RequestsAreSound, FiltersAreSound, SearchesAreSound, PTL DEF CastleTypeOK
=============================================================================
