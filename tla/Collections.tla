---------------------------- MODULE Collections ----------------------------
(***************************************************************************)
(* The drawer collections of storage/lance.py and storage/postgres.py: a   *)
(* table of rows that processes write by upsert, delete and update.        *)
(*                                                                         *)
(* In LanceDB a process works through a table handle it opened at its      *)
(* start, or not at all while there is no table; merge_insert is one       *)
(* commit that puts the rows it rewrites last, and update is a read        *)
(* followed by an upsert.  PostgreSQL makes every upsert a transaction and *)
(* reads in the order of the ids.  A step is one call on the database.     *)
(***************************************************************************)
EXTENDS Integers, FiniteSets, Sequences, SequencesExt, Rows

CONSTANTS
  Process,    \* processes with the collection open
  First,      \* the one at work when only one is
  Id,         \* numbers, for PostgreSQL's ORDER BY id
  Meta,
  Absent,     \* no record
  NoCall,     \* no call under way
  Setting,    \* [lance, shared, failing] : the settings to consider
  MaxCrashes  \* bound on restarts

ASSUME CollectionsAssumption ==
  /\ First \in Process
  /\ Id \subseteq Nat
  /\ Setting \subseteq [lance : BOOLEAN, shared : BOOLEAN, failing : BOOLEAN]
  /\ MaxCrashes \in Nat

\* A document is known by the id it was written for.
Doc == Id
Row == [id : Id, doc : Doc, meta : Meta]

VARIABLES
  setting,   \* LanceDB or PostgreSQL; one or several processes; whether
             \* merge_insert may fail
  table,     \* whether the table exists
  rows,      \* its rows, in the order LanceDB scans them
  opened,    \* whether each process has a handle of the table
  call,      \* the call each process is in
  restarts,
  misread    \* history: whether an update has found documents in another
             \* order than that of its ids

collectionsVars == <<setting, table, rows, opened, call, restarts, misread>>

NotCalling == [pc |-> "idle", op |-> NoCall, ids |-> <<>>, arg |-> <<>>, batch |-> <<>>, left |-> {}]

\* PostgreSQL creates the table before any call on it (_ensure_schema).  While
\* several processes are at work it is there from the start.
CollectionsInit ==
  /\ setting \in Setting
  /\ table \in (IF setting.lance /\ ~setting.shared THEN BOOLEAN ELSE {TRUE})
  /\ rows = <<>>
  /\ opened = [p \in Process |-> table]
  /\ call = [p \in Process |-> NotCalling]
  /\ restarts = 0
  /\ misread = FALSE

IdsOf(rs) == {rs[k].id : k \in DOMAIN rs}
Scanned(rs, ids) == Picked(rs, {k \in DOMAIN rs : rs[k].id \in ids})
Without(rs, ids) == Picked(rs, {k \in DOMAIN rs : rs[k].id \notin ids})
Return(p) == call' = [call EXCEPT ![p] = NotCalling]

-----------------------------------------------------------------------------
(* The calls: of one or two ids, in any order.                             *)

Batch == {s \in UNION {[1..n -> Id] : n \in 1..2} : IsInjective(s)}

Begin(p, pc, op, ids, arg, batch) ==
  /\ call[p] = NotCalling
  /\ call' = [call EXCEPT ![p] =
       [pc |-> pc, op |-> op, ids |-> ids, arg |-> arg, batch |-> batch, left |-> {}]]
  /\ UNCHANGED <<setting, table, rows, opened, restarts, misread>>

CallUpsert(p, ids, m) ==
  Begin(p, "upsert", "put", ids, [i \in ToSet(ids) |-> [doc |-> i, meta |-> m]],
        [k \in DOMAIN ids |-> [id |-> ids[k], doc |-> ids[k], meta |-> m]])

CallDelete(p, ids) ==
  Begin(p, "delete", "put", ids, [i \in ToSet(ids) |-> Absent], <<>>)

CallUpdate(p, ids, m) ==
  Begin(p, "get", "update", ids, [i \in ToSet(ids) |-> m], <<>>)

-----------------------------------------------------------------------------
(* upsert.                                                                 *)

\* Mutant: merge_insert without when_matched_update_all.
MergedBeside(batch) == rows \o batch

\* merge_insert("id"): matched rows are rewritten, and come last in a scan.
Merged(batch) == Without(rows, IdsOf(batch)) \o batch

Upsert(p) ==
  /\ call[p].pc = "upsert" /\ opened[p]
  /\ rows' = Merged(call[p].batch)
  /\ Return(p)
  /\ UNCHANGED <<setting, table, opened, restarts, misread>>

\* _create_table: a process without a handle creates the table, or opens the
\* one that another process has created and adds its records.
CreateTable(p) ==
  /\ call[p].pc = "upsert" /\ ~opened[p]
  /\ rows' = rows \o call[p].batch
  /\ table' = TRUE
  /\ opened' = [opened EXCEPT ![p] = TRUE]
  /\ Return(p)
  /\ UNCHANGED <<setting, restarts, misread>>

\* The fallback when merge_insert fails: the rows are deleted one by one and
\* then added again, which may fail as the merge did.
MergeFails(p) ==
  /\ setting.lance /\ setting.failing
  /\ call[p].pc = "upsert" /\ opened[p]
  /\ call' = [call EXCEPT ![p].pc = "drop", ![p].left = IdsOf(call[p].batch)]
  /\ UNCHANGED <<setting, table, rows, opened, restarts, misread>>

\* Mutant: the whole table is deleted.
DroppedAll(i) == <<>>

Dropped(i) == Without(rows, {i})

DropRow(p) ==
  /\ call[p].pc = "drop"
  /\ \E i \in call[p].left :
       /\ rows' = Dropped(i)
       /\ call' = [call EXCEPT ![p].left = @ \ {i}]
  /\ UNCHANGED <<setting, table, opened, restarts, misread>>

AddRows(p) ==
  /\ call[p].pc = "drop" /\ call[p].left = {}
  /\ rows' \in {rows, rows \o call[p].batch}
  /\ Return(p)
  /\ UNCHANGED <<setting, table, opened, restarts, misread>>

-----------------------------------------------------------------------------
(* delete and update.                                                      *)

Delete(p) ==
  /\ call[p].pc = "delete"
  /\ rows' = IF opened[p] THEN Without(rows, ToSet(call[p].ids)) ELSE rows
  /\ Return(p)
  /\ UNCHANGED <<setting, table, opened, restarts, misread>>

\* get(ids): in the order of the scan, or ORDER BY id.
Found(p) ==
  LET found == Scanned(rows, ToSet(call[p].ids))
      ids == Ascending(IdsOf(found))
  IN IF ~opened[p] THEN <<>>
     ELSE IF setting.lance THEN found
     ELSE [k \in DOMAIN ids |-> CHOOSE r \in ToSet(found) : r.id = ids[k]]

\* LanceCollection.update: the documents found are zipped with the ids asked
\* for, in the order of each.
PairedByPlace(c, found) ==
  [k \in DOMAIN found |-> [id |-> c.ids[k], doc |-> found[k].doc, meta |-> c.arg[c.ids[k]]]]

\* Mutant: PostgresCollectionStore.update pairs them as LanceCollection does.
PairedAsListed(c, found) == PairedByPlace(c, found)

\* PostgresCollectionStore.update: existing_map looks them up by id.
PairedById(c, found) ==
  [k \in DOMAIN c.ids |->
     [id |-> c.ids[k], doc |-> (CHOOSE r \in ToSet(found) : r.id = c.ids[k]).doc, meta |-> c.arg[c.ids[k]]]]

\* Nothing found is nothing to do; PostgreSQL raises KeyError when any id is
\* missing.
NothingToUpdate(c, found) ==
  found = <<>> \/ (~setting.lance /\ IdsOf(found) # ToSet(c.ids))

\* A document is found at the place of another id than its own.
Misplaced(c, found) == \E k \in DOMAIN found : found[k].id # c.ids[k]

Get(p) ==
  /\ call[p].pc = "get"
  /\ LET c == call[p]
         found == Found(p)
     IN /\ call' = [call EXCEPT ![p] =
             IF NothingToUpdate(c, found) THEN NotCalling
             ELSE [c EXCEPT !.pc = "upsert",
                    !.batch = IF setting.lance THEN PairedByPlace(c, found) ELSE PairedById(c, found)]]
        /\ misread' = (misread \/ (setting.lance /\ Misplaced(c, found)))
  /\ UNCHANGED <<setting, table, rows, opened, restarts>>

-----------------------------------------------------------------------------

\* A process dies; its successor opens the table if there is one.
Restart(p) ==
  /\ restarts < MaxCrashes
  /\ restarts' = restarts + 1
  /\ opened' = [opened EXCEPT ![p] = table]
  /\ Return(p)
  /\ UNCHANGED <<setting, table, rows, misread>>

CollectionsNext ==
  \E p \in Process :
    /\ setting.shared \/ p = First
    /\ \/ \E ids \in Batch : CallDelete(p, ids) \/ \E m \in Meta : CallUpsert(p, ids, m) \/ CallUpdate(p, ids, m)
       \/ Upsert(p) \/ CreateTable(p) \/ MergeFails(p) \/ DropRow(p) \/ AddRows(p)
       \/ Delete(p) \/ Get(p)
       \/ Restart(p)

CollectionsSpec == CollectionsInit /\ [][CollectionsNext]_collectionsVars

-----------------------------------------------------------------------------
(* Properties.                                                             *)

\* The type invariant.
CollectionsTypeOK ==
  /\ setting \in Setting /\ table \in BOOLEAN /\ restarts \in 0..MaxCrashes /\ misread \in BOOLEAN
  /\ rows \in Seq(Row) /\ (rows # <<>> => table)
  /\ opened \in [Process -> BOOLEAN]
  /\ \A p \in Process :
       /\ call[p].pc \in {"idle", "upsert", "drop", "delete", "get"}
       /\ call[p].batch \in Seq(Row) /\ call[p].left \subseteq IdsOf(call[p].batch)
       /\ IdsOf(call[p].batch) \subseteq ToSet(call[p].ids)

\* An id is the primary key of the table (lance.py:78): no id has two rows,
\* whatever order merges, fallbacks and restarts come in.
OneRowPerId == Len(rows) = Cardinality(IdsOf(rows))

\* No record carries the document of another: update, which reads documents in
\* one order and writes them in another, keeps each with its id ("Update
\* existing records by ID", lance.py:470).  LanceDB does not keep it.
OwnDocument == \A k \in DOMAIN rows : rows[k].doc = rows[k].id

\* It is kept as long as every update has asked for its ids in the order in which
\* LanceDB scans their rows, as distill does, which pages through the table and
\* updates what it read.
DocumentsKept == misread \/ OwnDocument

\* What a failing merge, its fallback or a crash may lose is confined to the
\* ids of the call itself.
LossConfined ==
  [][\A i \in IdsOf(rows) \ IdsOf(rows') : \E p \in Process : i \in ToSet(call[p].ids)]_collectionsVars

\* The three together: rows keep their ids and documents, whoever writes.
RowsSound == [](OneRowPerId /\ DocumentsKept) /\ LossConfined

\* The record of each id, and the call of each process that has not taken
\* effect, as the contract sees them.
Held ==
  [i \in Id |->
     IF i \in IdsOf(rows)
     THEN LET r == CHOOSE r \in ToSet(rows) : r.id = i IN [doc |-> r.doc, meta |-> r.meta]
     ELSE Absent]

Asked ==
  [p \in Process |-> IF call[p] = NotCalling THEN NoCall ELSE [op |-> call[p].op, arg |-> call[p].arg]]

Contract == INSTANCE CollectionContract WITH held <- Held, asked <- Asked

\* No record is Absent, and no call is none.
ASSUME ContractAssumption == Absent \notin [doc : Doc, meta : Meta] /\ NoCall \notin Contract!Call

\* A process that is alone sees what CollectionStore promises, in LanceDB as in
\* PostgreSQL, as long as merge_insert does not fail and no update has asked for its
\* ids in another order than that of the scan: every call takes effect at once,
\* update changes metadata only, and a crash leaves either all of a call or nothing.
ImplementsContract ==
  /\ Contract!Init
  /\ [][~setting.shared /\ ~setting.failing /\ ~misread => Contract!Next \/ UNCHANGED <<Held, Asked>>]_collectionsVars
=============================================================================
