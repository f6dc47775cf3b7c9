------------------------------- MODULE Facts --------------------------------
(***************************************************************************)
(* Facts and the days they hold: the graph of SQLite                       *)
(* (storage/sqlite_graph.py) and the one of PostgreSQL                     *)
(* (storage/postgres.py), for one predicate.  SQLite takes a write lock    *)
(* with the first statement of a transaction, so that a call is one step.  *)
(* In PostgreSQL a step is a statement: an entity whose insertion another  *)
(* transaction has not committed makes it wait, and the cycle of two that  *)
(* wait for each other is broken by the server, which fails one of them.   *)
(***************************************************************************)
EXTENDS Integers, Sequences, SequencesExt, Rows

CONSTANTS
  Writer,      \* processes or threads that write
  GraphStore,  \* "sqlite", "postgres"
  FactOf,      \* the facts of the model: <<subject, object>>
  MaxDay,      \* bound on days
  Span,        \* the first and last days facts are added with
  MaxRows      \* bound on triples; triples are never deleted

ASSUME FactsAssumption ==
  /\ GraphStore \subseteq {"sqlite", "postgres"} /\ MaxDay \in Nat /\ MaxRows \in Nat
  /\ Span \subseteq (-1..MaxDay) \X (-1..MaxDay)

Day == 0..MaxDay
NoDay == -1      \* NULL

VARIABLES
  store,      \* the backend
  triples,    \* the table of triples: fact, valid_from, valid_to, and as history
              \* whether its writer ran beside a change of the same fact
  known,      \* the committed entities
  adding      \* what each writer is doing

factVars == <<store, triples, known, adding>>

NotCalled == [at |-> "idle", fact |-> <<>>, from |-> NoDay, to |-> NoDay, mine |-> {}, beside |-> FALSE]

FactsInit ==
  /\ store \in GraphStore
  /\ triples = <<>> /\ known = {}
  /\ adding = [w \in Writer |-> NotCalled]

\* The row has no end.
Current(r) == r.to = NoDay

CurrentRows(f) == {i \in DOMAIN triples : triples[i].fact = f /\ Current(triples[i])}

Ends(f) == {f[1], f[2]}

-----------------------------------------------------------------------------
(* Reading.                                                                *)

\* Mutant: a fact does not hold on its last day.
ValidBefore(r, day) == (r.from = NoDay \/ r.from <= day) /\ (r.to = NoDay \/ r.to > day)

ValidOn(r, day) == (r.from = NoDay \/ r.from <= day) /\ (r.to = NoDay \/ r.to >= day)

\* query_entity: triples by subject, by object, or both.
QueryEntity(table, e, day, direction) ==
  {i \in DOMAIN table :
     /\ \/ direction \in {"outgoing", "both"} /\ table[i].fact[1] = e
        \/ direction \in {"incoming", "both"} /\ table[i].fact[2] = e
     /\ day = NoDay \/ ValidOn(table[i], day)}

QueryRelationship(table, day) == {i \in DOMAIN table : day = NoDay \/ ValidOn(table[i], day)}

\* The triples of an entity, and their order by the first day, those without one last.
About(e) == {i \in DOMAIN triples : e \in Ends(triples[i].fact)}
FirstDay(i) == IF triples[i].from = NoDay THEN MaxDay + 1 ELSE triples[i].from
ByFirstDay(e) ==
  {ij \in About(e) \X About(e) :
     \/ FirstDay(ij[1]) < FirstDay(ij[2])
     \/ FirstDay(ij[1]) = FirstDay(ij[2]) /\ ij[1] < ij[2]}

\* timeline: only the first hundred triples are given.
Timeline(e, most) ==
  LET n == Cardinality(About(e))
      places == Ordered(About(e), ByFirstDay(e))
  IN [k \in 1..(IF n < most THEN n ELSE most) |-> triples[places[k]]]

-----------------------------------------------------------------------------
(* Writing.                                                                *)

\* A change of f is seen by the calls on f that have begun.
Disturbed(f, w) ==
  [v \in Writer |-> IF v # w /\ adding[v].fact = f THEN [adding[v] EXCEPT !.beside = TRUE] ELSE adding[v]]

AddRow(c) == Append(triples, [fact |-> c.fact, from |-> c.from, to |-> c.to, beside |-> c.beside])

\* Mutant: the row that is already current is not looked for.
AlreadyCurrentNever(f) == FALSE

AlreadyCurrent(f) == CurrentRows(f) # {}

\* add_triple of SQLite.
AddSqlite(w, f, from, to) ==
  /\ store = "sqlite" /\ adding[w].at = "idle"
  /\ known' = known \cup Ends(f)
  /\ triples' = IF AlreadyCurrent(f) THEN triples
             ELSE AddRow([NotCalled EXCEPT !.fact = f, !.from = from, !.to = to])
  /\ UNCHANGED <<store, adding>>

\* add_triple of PostgreSQL: first the subject, then the object.
AddPostgres(w, f, from, to) ==
  /\ store = "postgres" /\ adding[w].at = "idle"
  /\ adding' = [adding EXCEPT ![w] =
       [at |-> "subject", fact |-> f, from |-> from, to |-> to, mine |-> {}, beside |-> FALSE]]
  /\ UNCHANGED <<store, triples, known>>

Registering(w) ==
  IF adding[w].at = "subject" THEN adding[w].fact[1]
  ELSE IF adding[w].at = "object" THEN adding[w].fact[2] ELSE "none"

WaitsFor(w, v) == v # w /\ Registering(w) \in adding[v].mine

\* ON CONFLICT DO NOTHING.
Register(w) ==
  /\ adding[w].at \in {"subject", "object"}
  /\ \A v \in Writer : ~WaitsFor(w, v)
  /\ adding' = [adding EXCEPT ![w].at = IF @ = "subject" THEN "object" ELSE "look",
                          ![w].mine = IF Registering(w) \in known THEN @ ELSE @ \cup {Registering(w)}]
  /\ UNCHANGED <<store, triples, known>>

\* The id of a current row ends the call.
LookForCurrent(w) ==
  /\ adding[w].at = "look"
  /\ IF AlreadyCurrent(adding[w].fact)
     THEN known' = known \cup adding[w].mine /\ adding' = [adding EXCEPT ![w] = NotCalled]
     ELSE adding' = [adding EXCEPT ![w].at = "insert"] /\ UNCHANGED known
  /\ UNCHANGED <<store, triples>>

\* INSERT, and the commit that makes it visible.
InsertRow(w) ==
  /\ adding[w].at = "insert"
  /\ triples' = AddRow(adding[w])
  /\ known' = known \cup adding[w].mine
  /\ adding' = [Disturbed(adding[w].fact, w) EXCEPT ![w] = NotCalled]
  /\ UNCHANGED store

\* The server breaks a deadlock; or the connection or the process is lost.  What was not
\* committed is gone, and the caller sees an exception.
AddFails(w) ==
  /\ adding[w].at # "idle"
  /\ adding' = [adding EXCEPT ![w] = NotCalled]
  /\ UNCHANGED <<store, triples, known>>

\* Mutant: the triples of the fact are deleted.
EndedGone(f, day) == SelectSeq(triples, LAMBDA r : ~(r.fact = f /\ Current(r)))

\* UPDATE ... SET valid_to.
EndedRows(f, day) ==
  [i \in DOMAIN triples |-> IF i \in CurrentRows(f) THEN [triples[i] EXCEPT !.to = day] ELSE triples[i]]

\* invalidate, one statement in both.
EndFact(w, f, day) ==
  /\ adding[w].at = "idle"
  /\ triples' = EndedRows(f, day)
  /\ adding' = Disturbed(f, w)
  /\ UNCHANGED <<store, known>>

FactsNext ==
  \E w \in Writer :
    \/ Register(w) \/ LookForCurrent(w) \/ InsertRow(w) \/ AddFails(w)
    \/ \E f \in FactOf :
         \/ Len(triples) < MaxRows /\ \E span \in Span :
              AddSqlite(w, f, span[1], span[2]) \/ AddPostgres(w, f, span[1], span[2])
         \/ \E day \in Day : EndFact(w, f, day)

FactsSpec == FactsInit /\ [][FactsNext]_factVars

-----------------------------------------------------------------------------
(* Properties.                                                             *)

\* The type invariant.
FactsTypeOK ==
  /\ \A i \in DOMAIN triples : /\ triples[i].fact \in FactOf /\ triples[i].beside \in BOOLEAN
                            /\ {triples[i].from, triples[i].to} \subseteq Day \cup {NoDay}
  /\ known \subseteq UNION {Ends(f) : f \in FactOf}
  /\ \A w \in Writer : adding[w].at \in {"idle", "subject", "object", "look", "insert"}

\* A fact has at most one row without an end: always with SQLite, and with
\* PostgreSQL unless the second one was written beside another change of it.
OneCurrent ==
  \A f \in FactOf : \A i, j \in CurrentRows(f) :
    i < j => store = "postgres" /\ (triples[i].beside \/ triples[j].beside)

\* An entity that a row names is in the table of entities: no fact falls out of
\* the joins of the queries.
NamesKnown == \A i \in DOMAIN triples : Ends(triples[i].fact) \subseteq known

\* Whatever day is asked about, a fact shows among the outgoing ones of its
\* subject if and only if it shows among the incoming ones of its object.
BothWays ==
  \A f \in FactOf, day \in Day \cup {NoDay} :
    {i \in QueryEntity(triples, f[1], day, "outgoing") : triples[i].fact = f} =
    {i \in QueryEntity(triples, f[2], day, "incoming") : triples[i].fact = f}

\* A timeline that is cut off shows no undated fact while an earlier or a dated
\* one is left out.
DatedFirst ==
  \A f \in FactOf : \A i \in 1..Len(triples) : \A r \in ToSet(Timeline(f[1], i)) :
    r.from = NoDay => \A j \in About(f[1]) :
                        triples[j].from # NoDay => triples[j] \in ToSet(Timeline(f[1], i))

\* What ends on a day leaves every answer about that day, and about those before
\* it, as it was; afterwards no row of the fact without an end answers.
HistoryKept ==
  [][\A w \in Writer, f \in FactOf, end \in Day :
       EndFact(w, f, end) => /\ \A day \in 0..end : QueryRelationship(triples, day) = QueryRelationship(triples', day)
                             /\ QueryRelationship(triples, NoDay) = QueryRelationship(triples', NoDay)
                             /\ CurrentRows(f)' = {}]_factVars

\* Facts are recorded once, stay in history, and are found from both ends.
FactsSound == [](OneCurrent /\ NamesKnown /\ BothWays /\ DatedFirst) /\ HistoryKept
=============================================================================
