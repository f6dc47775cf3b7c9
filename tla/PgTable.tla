------------------------------ MODULE PgTable ------------------------------
(***************************************************************************)
(* The table of a PostgreSQL collection (storage/postgres.py): processes   *)
(* that open it for the first time, add the column of a later release to   *)
(* it, write, and build its vector index when it is large enough.  Every   *)
(* block of the code on a connection of the pool is one transaction, which *)
(* is rolled back when it raises; between two of them the threads of all   *)
(* processes interleave.  What one transaction has looked up, another may  *)
(* have changed before it writes.                                          *)
(***************************************************************************)
EXTENDS Integers, FiniteSets, TLC

CONSTANTS
  Thread,        \* threads that use the store
  PgProcess,     \* their processes
  Width,         \* dimensions an embedder may have
  IndexFrom,     \* index_threshold
  MaxStored,     \* bound on the rows
  MaxBreaks      \* bound on lost connections and deaths

ASSUME PgAssumption ==
  /\ Width \subseteq Nat \ {0} /\ Width # {}
  /\ IndexFrom \in Nat /\ MaxStored \in Nat /\ MaxBreaks \in Nat

VARIABLES
  home,         \* the process of each thread
  width,        \* the dimension of each process's embedder
  pgTable,      \* the table and its row in _swampcastle_meta: there, width, kind (the column), stored, indexed
  schemaReady,  \* processes with _schema_ready
  kindEnsured,  \* processes with _kind_column_ensured
  halfway,      \* of these, those whose migration raised
  thread,       \* what each thread does: its step, whether it writes, whether the write is raw
  outcome,      \* how its last call ended
  breaks        \* bound: connections lost, processes dead

pgVars == <<home, width, pgTable, schemaReady, kindEnsured, halfway, thread, outcome, breaks>>

NoTable == [there |-> FALSE, width |-> 0, kind |-> FALSE, stored |-> 0, indexed |-> FALSE]
AtRest == [pc |-> "idle", writes |-> FALSE, raw |-> FALSE]

\* No table, or one of a release that had no column for the kind.
PgInit ==
  /\ home \in [Thread -> PgProcess] /\ width \in [PgProcess -> Width]
  /\ pgTable \in {NoTable} \cup {[NoTable EXCEPT !.there = TRUE, !.width = w] : w \in Width}
  /\ schemaReady = {} /\ kindEnsured = {} /\ halfway = {}
  /\ thread = [t \in Thread |-> AtRest] /\ outcome = [t \in Thread |-> "none"] /\ breaks = 0

-----------------------------------------------------------------------------
(* Calls.  A step either goes on to the next or ends the call.             *)

Goes(t, pc) == thread' = [thread EXCEPT ![t].pc = pc] /\ UNCHANGED outcome
Returns(t, with) == thread' = [thread EXCEPT ![t] = AtRest] /\ outcome' = [outcome EXCEPT ![t] = with]

\* get, query, delete, count; upsert, add, update; and the raw upsert of a sync.
PgCall(t) ==
  /\ thread[t].pc = "idle"
  /\ \E writes, raw \in BOOLEAN :
       /\ raw => writes
       /\ thread' = [thread EXCEPT ![t] = [pc |-> "schema", writes |-> writes, raw |-> raw]]
  /\ outcome' = [outcome EXCEPT ![t] = "none"]
  /\ UNCHANGED <<home, width, pgTable, schemaReady, kindEnsured, halfway, breaks>>

\* After the schema: the migration, but not for a raw upsert nor twice in a process.
AfterSchema(t) == IF ~thread[t].writes THEN "read"
                  ELSE IF thread[t].raw \/ home[t] \in kindEnsured THEN "write" ELSE "kind"

\* Mutant: the dimension of a table that is there is not compared.
FitsAny(t) == TRUE

Fits(t) == pgTable.width = width[home[t]]

\* _ensure_schema looks for the row of the collection; with another dimension in
\* it the call raises.
LookForSchema(t) ==
  /\ thread[t].pc = "schema"
  /\ IF home[t] \in schemaReady THEN Goes(t, AfterSchema(t)) /\ UNCHANGED schemaReady
     ELSE IF ~pgTable.there THEN Goes(t, "create") /\ UNCHANGED schemaReady
     ELSE IF Fits(t) THEN Goes(t, AfterSchema(t)) /\ schemaReady' = schemaReady \cup {home[t]}
     ELSE Returns(t, "dimension") /\ UNCHANGED schemaReady
  /\ UNCHANGED <<home, width, pgTable, kindEnsured, halfway, breaks>>

\* The same transaction creates the table and inserts the row, which is a key: of
\* two first processes one raises, and finds the table when it is called again.
CreateSchema(t) ==
  /\ thread[t].pc = "create"
  /\ IF pgTable.there THEN Returns(t, "exists") /\ UNCHANGED <<pgTable, schemaReady>>
     ELSE /\ pgTable' = [NoTable EXCEPT !.there = TRUE, !.width = width[home[t]], !.kind = TRUE]
          /\ schemaReady' = schemaReady \cup {home[t]}
          /\ Goes(t, AfterSchema(t))
  /\ UNCHANGED <<home, width, kindEnsured, halfway, breaks>>

\* _ensure_kind_column notes that it is done, then looks for the column.
LookForKind(t) ==
  /\ thread[t].pc = "kind"
  /\ kindEnsured' = kindEnsured \cup {home[t]}
  /\ Goes(t, IF home[t] \in kindEnsured \/ pgTable.kind THEN "write" ELSE "alter")
  /\ UNCHANGED <<home, width, pgTable, schemaReady, halfway, breaks>>

\* It adds the column, unless another process has done so since: then the call
\* raises.
AddKind(t) ==
  /\ thread[t].pc = "alter"
  /\ pgTable' = [pgTable EXCEPT !.kind = TRUE]
  /\ IF pgTable.kind THEN Returns(t, "exists") ELSE Goes(t, "write")
  /\ UNCHANGED <<home, width, schemaReady, kindEnsured, halfway, breaks>>

\* The connection is lost while a thread alters the table; the note stays.
LoseConnection(t) ==
  /\ thread[t].pc = "alter" /\ breaks < MaxBreaks
  /\ halfway' = halfway \cup {home[t]} /\ breaks' = breaks + 1
  /\ Returns(t, "lost")
  /\ UNCHANGED <<home, width, pgTable, schemaReady, kindEnsured>>

\* The rows of a call are one transaction; each names the column.
WriteRows(t) ==
  /\ thread[t].pc = "write"
  /\ pgTable.kind => pgTable.stored < MaxStored
  /\ IF pgTable.kind THEN pgTable' = [pgTable EXCEPT !.stored = @ + 1] /\ Goes(t, "count")
     ELSE Returns(t, "no column") /\ UNCHANGED pgTable
  /\ UNCHANGED <<home, width, schemaReady, kindEnsured, halfway, breaks>>

Read(t) ==
  /\ thread[t].pc = "read"
  /\ Returns(t, "ok")
  /\ UNCHANGED <<home, width, pgTable, schemaReady, kindEnsured, halfway, breaks>>

\* _maybe_create_vector_index.
LookForIndex(t) ==
  /\ thread[t].pc = "count"
  /\ IF IndexFrom > 0 /\ pgTable.stored >= IndexFrom /\ ~pgTable.indexed THEN Goes(t, "index") ELSE Returns(t, "ok")
  /\ UNCHANGED <<home, width, pgTable, schemaReady, kindEnsured, halfway, breaks>>

\* Mutant: that the index is there already is an error.
BuiltTwice == "exists"

\* That another process has built it is none.
BuiltAlready == "ok"

BuildIndex(t) ==
  /\ thread[t].pc = "index"
  /\ pgTable' = [pgTable EXCEPT !.indexed = TRUE]
  /\ Returns(t, IF pgTable.indexed THEN BuiltAlready ELSE "ok")
  /\ UNCHANGED <<home, width, schemaReady, kindEnsured, halfway, breaks>>

\* A process dies, with its notes; another starts.
ServerDies(p) ==
  /\ breaks < MaxBreaks
  /\ thread' = [t \in Thread |-> IF home[t] = p THEN AtRest ELSE thread[t]]
  /\ schemaReady' = schemaReady \ {p} /\ kindEnsured' = kindEnsured \ {p} /\ halfway' = halfway \ {p}
  /\ outcome' = [t \in Thread |-> IF home[t] = p THEN "none" ELSE outcome[t]]
  /\ breaks' = breaks + 1
  /\ UNCHANGED <<home, width, pgTable>>

PgNext ==
  \/ \E t \in Thread :
       \/ PgCall(t) \/ LookForSchema(t) \/ CreateSchema(t) \/ LookForKind(t) \/ AddKind(t) \/ LoseConnection(t)
       \/ WriteRows(t) \/ Read(t) \/ LookForIndex(t) \/ BuildIndex(t)
  \/ \E p \in PgProcess : ServerDies(p)

PgSpec == PgInit /\ [][PgNext]_pgVars

-----------------------------------------------------------------------------
(* Properties.                                                             *)

\* Whoever comes first decides the dimension of the vectors: no process with
\* another one gets to read or to write, not even of two that open an empty
\* database at once.
OneDimension ==
  \A t \in Thread : thread[t].pc \in {"kind", "alter", "write", "read", "count", "index"} => width[home[t]] = pgTable.width

\* A write that is stored is answered: losing the race for the vector index is not
\* reported as a failure.
StoredIsAnswered == [][\A t \in Thread : BuildIndex(t) => outcome'[t] = "ok"]_pgVars

\* A write fails for want of the column only if it is raw (a sync migrates
\* nothing), if the migration of its process was cut off ("This migration runs
\* once per collection, on first upsert after upgrade", postgres.py:217), or if
\* another thread of its process is still at it.
ColumnThere ==
  [][\A t \in Thread : outcome'[t] = "no column" /\ outcome[t] # "no column" =>
       \/ thread[t].raw
       \/ home[t] \in halfway
       \/ \E u \in Thread \ {t} : home[u] = home[t] /\ thread[u].pc = "alter"]_pgVars

\* What the store keeps up while its table is created, migrated and indexed.
PgSound == []OneDimension /\ StoredIsAnswered /\ ColumnThere
=============================================================================
