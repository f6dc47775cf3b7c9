------------------------------ MODULE Filters -------------------------------
(***************************************************************************)
(* What a where clause selects: the three translations of one language, in *)
(* memory (storage/memory.py), to the SQL of LanceDB (storage/lance.py)    *)
(* and to that of PostgreSQL (storage/postgres.py).                        *)
(*                                                                         *)
(* Values are texts or numbers.  Some fields of the metadata have a column *)
(* of their own, which holds "", 0 or "document" when the record lacks the *)
(* field, more of them in LanceDB than in PostgreSQL; the others are found *)
(* in the record's JSON, by PostgreSQL only, which casts them to numbers.  *)
(* A field with a column is asked for with values of the column's kind; no *)
(* text is the spelling of a number.                                       *)
(***************************************************************************)
EXTENDS Naturals, Sequences, FiniteSetsExt, Rows

CONSTANTS
  Field,
  LanceColumned,  \* FILTER_COLUMNS of LanceDB
  PgColumned,     \* _FILTER_COLUMNS of PostgreSQL
  Numbered,       \* columns of numbers: seq
  ColumnDefault,  \* column -> its value when the record lacks the field
  FieldValue,     \* field -> the values that it has, and is asked for with
  Paired          \* conditions that are joined by two

\* A text or a number, and its place among those of its kind: "" and 0 have place 0.
Value == [is : {"text", "number"}, n : Nat]

Kind(f) == IF f \in Numbered THEN "number" ELSE "text"

Ordering == {"$gt", "$gte", "$lt", "$lte"}
Op == Ordering \cup {"$eq", "$ne", "$in", "$nin", "$regex"}

\* A condition on a field; $in and $nin are given one value.
Condition == UNION {[field : {f}, op : Op, value : FieldValue[f]] : f \in Field}

ASSUME FiltersAssumption ==
  /\ Numbered \subseteq PgColumned /\ PgColumned \subseteq LanceColumned /\ LanceColumned \subseteq Field
  /\ \A f \in Field : \A v \in FieldValue[f] : v \in Value /\ v.n > 0
  /\ \A f \in LanceColumned : \A v \in FieldValue[f] \cup {ColumnDefault[f]} : v \in Value /\ v.is = Kind(f)
  /\ Paired \subseteq Condition

VARIABLES
  meta,      \* the metadata of a record: the values of the fields it has
  clause,    \* the where clause: conditions, and how they are joined
  answered   \* each backend -> whether it selects the record, or raises

filterVars == <<meta, clause, answered>>

Clause == [join : {"$and", "$or"}, parts : {<<>>} \cup {<<c>> : c \in Condition} \cup (Paired \X Paired)]

Metas ==
  UNION {{m \in [fields -> UNION {FieldValue[f] : f \in fields}] : \A f \in fields : m[f] \in FieldValue[f]} :
           fields \in SUBSET Field}

FiltersInit == meta \in Metas /\ clause \in Clause /\ answered = <<>>

Has(f) == f \in DOMAIN meta

Says(selected) == IF selected THEN "yes" ELSE "no"

\* An operator between values; an order is asked for between values of a kind.
Compare(op, actual, value) ==
  CASE op \in {"$eq", "$in"} -> actual = value
    [] op \in {"$ne", "$nin"} -> actual # value
    [] op = "$gt" -> actual.n > value.n
    [] op = "$gte" -> actual.n >= value.n
    [] op = "$lt" -> actual.n < value.n
    [] op = "$lte" -> actual.n <= value.n

Joined(join, parts, Holds(_)) ==
  IF join = "$and" THEN \A i \in DOMAIN parts : Holds(parts[i])
  ELSE \E i \in DOMAIN parts : Holds(parts[i])

\* What the column of a field holds.
Column(f) == IF Has(f) THEN meta[f] ELSE ColumnDefault[f]

-----------------------------------------------------------------------------
(* In memory.                                                              *)

\* _match_where: $nin and unknown operators are not looked at.
MemoryHolds(c) ==
  \/ c.op \in {"$nin", "$regex"}
  \/ c.op = "$ne" /\ (Has(c.field) => meta[c.field] # c.value)
  \/ c.op \notin {"$ne", "$nin", "$regex"} /\ Has(c.field) /\ Compare(c.op, meta[c.field], c.value)

\* Python does not order a text and a number.
MemoryRaises(c) == c.op \in Ordering /\ Has(c.field) /\ meta[c.field].is # c.value.is

\* all and any stop at the first condition that decides.
InMemory ==
  LET deciding ==
        {i \in DOMAIN clause.parts :
           MemoryRaises(clause.parts[i]) \/ MemoryHolds(clause.parts[i]) # (clause.join = "$and")}
  IN IF deciding = {} THEN Says(clause.join = "$and")
     ELSE IF MemoryRaises(clause.parts[Min(deciding)]) THEN "raises" ELSE Says(clause.join # "$and")

-----------------------------------------------------------------------------
(* LanceDB.                                                                *)

\* _chroma_where_to_sql leaves unknown operators out, and with them the parts that
\* become empty; no condition at all selects everything.
LanceParts == Picked(clause.parts, {i \in DOMAIN clause.parts : clause.parts[i].op # "$regex"})

LanceSelects ==
  \/ LanceParts = <<>>
  \/ Joined(clause.join, LanceParts, LAMBDA c : Compare(c.op, Column(c.field), c.value))

\* The values of $in and $nin are written as texts, numbers too.
QuotesNumber(c) == c.op \in {"$in", "$nin"} /\ c.field \in Numbered

\* A query on a column that is not there fails, and get and query answer with no
\* records; so may one that looks for texts in a column of numbers.
InLance ==
  IF \E i \in DOMAIN LanceParts : LanceParts[i].field \notin LanceColumned THEN {"no"}
  ELSE {Says(LanceSelects)} \cup (IF \E i \in DOMAIN LanceParts : QuotesNumber(LanceParts[i]) THEN {"no"} ELSE {})

-----------------------------------------------------------------------------
(* PostgreSQL.                                                             *)

\* _expression_kind: in the JSON an order is one of numbers, and so is what is
\* compared with a number.
Casts(c) == c.field \notin PgColumned /\ (c.op \in Ordering \/ c.value.is = "number")

\* A text, of the record or of the clause, is no number.
CastFails(c) ==
  Casts(c) /\ (c.value.is = "text" \/ (Has(c.field) /\ meta[c.field].is = "text"))

\* SQL's comparison with NULL selects nothing, and neither does its negation.
\* In a disjunction, and in a conjunction, that is as good as false.
PostgresHolds(c) ==
  IF c.field \in PgColumned THEN Compare(c.op, Column(c.field), c.value)
  ELSE Has(c.field) /\ Compare(c.op, meta[c.field], c.value)

\* An operator that _field_condition does not know raises before there is a query;
\* whether a cast is made that the other conditions do without is the planner's choice.
InPostgres ==
  LET parts == clause.parts
      deciding == {i \in DOMAIN parts : ~CastFails(parts[i]) /\ PostgresHolds(parts[i]) # (clause.join = "$and")}
  IN IF \E i \in DOMAIN parts : parts[i].op = "$regex" THEN {"raises"}
     ELSE IF \E i \in DOMAIN parts : CastFails(parts[i])
     THEN {"raises"} \cup (IF deciding = {} THEN {} ELSE {Says(clause.join # "$and")})
     ELSE {Says(parts = <<>> \/ Joined(clause.join, parts, PostgresHolds))}

\* get, or query, with the clause.
AskBackends ==
  /\ answered = <<>>
  /\ \E inLance \in InLance, inPostgres \in InPostgres :
       answered' = [memory |-> InMemory, lance |-> inLance, postgres |-> inPostgres]
  /\ UNCHANGED <<meta, clause>>

FiltersSpec == FiltersInit /\ [][AskBackends]_filterVars

-----------------------------------------------------------------------------
(* Properties.                                                             *)

\* The type invariant.
FiltersTypeOK ==
  /\ DOMAIN meta \subseteq Field /\ clause \in Clause
  /\ answered = <<>> \/ answered \in [{"memory", "lance", "postgres"} -> {"yes", "no", "raises"}]

EachPart(Is(_)) == \A i \in DOMAIN clause.parts : Is(clause.parts[i])

\* Conditions on columns of both databases that an absent field cannot meet by its
\* default, which the kind of a record can; texts are not ordered, as each backend
\* orders them its own way, and numbers not looked for in lists.
Portable(c) ==
  /\ c.field \in PgColumned /\ ColumnDefault[c.field].n = 0
  /\ c.op \in IF c.field \in Numbered THEN {"$eq", "$ne", "$gt", "$gte"} ELSE {"$eq", "$ne", "$in"}

\* A clause of portable conditions selects the same in all three backends, so that
\* what is tested in memory holds of the others; the empty disjunction does not.
BackendsAgree ==
  answered # <<>> /\ EachPart(Portable) /\ clause.parts # <<>> =>
    answered.memory = answered.lance /\ answered.lance = answered.postgres

\* On the columns of both, LanceDB and PostgreSQL agree on more.
OnColumns(c) ==
  /\ c.field \in PgColumned
  /\ c.op \in IF c.field \in Numbered THEN Ordering \cup {"$eq", "$ne"} ELSE {"$eq", "$ne", "$in", "$nin"}

SqlAgrees ==
  answered # <<>> /\ EachPart(OnColumns) => answered.lance = answered.postgres

\* On fields that PostgreSQL has no column for it never selects what memory refuses,
\* whatever it casts; and where a record has to have the field and no text is cast it
\* answers the same, LanceDB's own columns included.
InJson(c) == c.field \notin PgColumned /\ c.op # "$regex"

JsonAgrees ==
  answered # <<>> /\ EachPart(InJson) /\ clause.parts # <<>> =>
    /\ answered.postgres = "yes" => answered.memory # "no"
    /\ EachPart(LAMBDA c : c.op \notin {"$ne", "$nin"} /\ ~CastFails(c)) => answered.postgres = answered.memory

\* The translations mean the same, within what the program can rely on.
FiltersSound == BackendsAgree /\ SqlAgrees /\ JsonAgrees

\* A record that has the value a filter asks for is selected, whichever field
\* that is.  Stated here, and not kept: LanceDB has no column for some fields, a
\* filter on them fails in the query, and the failure is answered as no records.
FilteredFound ==
  answered # <<>> /\ Len(clause.parts) = 1 /\ clause.parts[1].op = "$eq"
    /\ Has(clause.parts[1].field) /\ meta[clause.parts[1].field] = clause.parts[1].value
  => answered.lance = "yes"

\* What memory answers, PostgreSQL answers.  Not kept either: an order asked of a
\* field without a column is cast, and a text there raises.
PostgresAnswers ==
  answered # <<>> /\ answered.memory # "raises" => answered.postgres # "raises"
=============================================================================
