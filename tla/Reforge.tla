------------------------------- MODULE Reforge -------------------------------
(***************************************************************************)
(* Which embedding model the vectors of a collection are of.  A server     *)
(* opens the collection with its model, is turned away if the stored       *)
(* contract names another (storage/lance.py), and writes; reforge          *)
(* (services/vault/reforge.py) skips the check, reads the records in pages *)
(* and writes them back with its own model.  Every upsert is followed by   *)
(* a rewrite of the contract file.  All models are of one dimension.       *)
(***************************************************************************)
EXTENDS Integers, Sequences, SequencesExt, FiniteSets, Rows

CONSTANTS
  Backend,     \* a subset of {"lance", "postgres"}
  ReforgeId,          \* numbers, for ORDER BY id
  Model,
  BatchSize,   \* the batch sizes of reforge besides the total
  MaxWrites,   \* bound on records filed
  MaxJobs      \* bound on runs of reforge

ASSUME ReforgeAssumption ==
  /\ Backend \subseteq {"lance", "postgres"} /\ ReforgeId \subseteq Nat
  /\ "none" \notin Model
  /\ BatchSize \subseteq Nat \ {0} /\ MaxWrites \in Nat /\ MaxJobs \in Nat

VARIABLES
  backend,
  vectors,    \* the rows in the order of a scan: id, wing, model of the vector
  contract,   \* the model in <table>.embedder.json, or "none"
  server,     \* the process that serves and files drawers
  job,        \* the run of reforge
  writes, jobs,
  mixed       \* history: a reforge to another model has begun, and none has since
              \* covered the whole collection in one batch with no server about

reforgeVars == <<backend, vectors, contract, server, job, writes, jobs, mixed>>

NoServer == [pc |-> "off", model |-> "none"]
NoJob == [pc |-> "off", model |-> "none", scope |-> {}, batch |-> 0, offset |-> 0,
          page |-> <<>>, whole |-> FALSE, alone |-> FALSE]

ReforgeInit ==
  /\ backend \in Backend
  /\ vectors = <<>> /\ contract = "none"
  /\ server = NoServer /\ job = NoJob
  /\ writes = 0 /\ jobs = 0 /\ mixed = FALSE

WingOf(id) == IF id % 2 = 0 THEN "even" ELSE "odd"
Vector(id, model) == [id |-> id, model |-> model]
Ids(vs) == {vs[k].id : k \in DOMAIN vs}

\* ORDER BY id.
ById(rows) ==
  LET places == Ordered(DOMAIN rows, {kl \in (DOMAIN rows) \X (DOMAIN rows) : rows[kl[1]].id < rows[kl[2]].id})
  IN [n \in DOMAIN rows |-> rows[places[n]]]

\* LanceDB's merge_insert puts the rows it has rewritten last; PostgreSQL's pages
\* come ORDER BY id.
Rewritten(batch, model) ==
  LET new == [k \in DOMAIN batch |-> Vector(batch[k].id, model)]
      rows == Picked(vectors, {k \in DOMAIN vectors : vectors[k].id \notin Ids(batch)}) \o new
  IN IF backend = "lance" THEN rows ELSE ById(rows)

-----------------------------------------------------------------------------
(* The server.                                                             *)

\* Mutant: every model is let in.
ContractAllowsAny(m) == TRUE

\* _check_embedder_contract: the file decides, or the label of the first row.
ContractAllows(m) ==
  backend = "lance" =>
    contract = m \/ (contract = "none" /\ \A k \in DOMAIN vectors : k = 1 => vectors[k].model = m)

OpenServer(m) ==
  /\ server.pc = "off" /\ ContractAllows(m)
  /\ server' = [pc |-> "idle", model |-> m]
  /\ contract' = IF backend = "lance" /\ vectors # <<>> THEN m ELSE contract
  /\ job' = [job EXCEPT !.alone = FALSE]
  /\ mixed' = (mixed \/ (backend = "postgres" /\ \E v \in ToSet(vectors) : v.model # m))
  /\ UNCHANGED <<backend, vectors, writes, jobs>>

File(id) ==
  /\ server.pc = "idle" /\ writes < MaxWrites
  /\ vectors' = Rewritten(<<Vector(id, server.model)>>, server.model)
  /\ server' = [server EXCEPT !.pc = "contract"]
  /\ writes' = writes + 1
  /\ UNCHANGED <<backend, contract, job, jobs, mixed>>

\* _write_embedder_meta, after the upsert.
ServerContract ==
  /\ server.pc = "contract"
  /\ contract' = server.model
  /\ server' = [server EXCEPT !.pc = "idle"]
  /\ UNCHANGED <<backend, vectors, job, writes, jobs, mixed>>

StopServer ==
  /\ server.pc # "off"
  /\ server' = NoServer
  /\ UNCHANGED <<backend, vectors, contract, job, writes, jobs, mixed>>

-----------------------------------------------------------------------------
(* reforge.                                                                *)

InScope(v) == WingOf(v.id) \in job.scope

\* The total is counted, and with it the batch size is fixed: the total if
\* nobody asks for progress.
StartJob(m, scope, batch) ==
  /\ job.pc = "off" /\ jobs < MaxJobs
  /\ LET total == Cardinality({k \in DOMAIN vectors : WingOf(vectors[k].id) \in scope})
     IN /\ total > 0
        /\ batch \in BatchSize \cup {total}
        /\ job' = [NoJob EXCEPT !.pc = "read", !.model = m, !.scope = scope, !.batch = batch,
                     !.whole = scope = {"even", "odd"} /\ batch >= total, !.alone = server.pc = "off"]
  /\ jobs' = jobs + 1
  /\ mixed' = (mixed \/ \E v \in ToSet(vectors) : v.model # m)
  /\ UNCHANGED <<backend, vectors, contract, server, writes>>

\* The rows that the filter by wing returns.
Scoped == Picked(vectors, {k \in DOMAIN vectors : InScope(vectors[k])})

Page == LET last == IF job.offset + job.batch < Len(Scoped) THEN job.offset + job.batch ELSE Len(Scoped)
        IN SubSeq(Scoped, job.offset + 1, last)

\* Mutant: a page is the last if it is full.
LastPageFull == Len(job.page) = job.batch

LastPage == Len(job.page) < job.batch

EndJob == job' = NoJob /\ mixed' = (mixed /\ ~(job.whole /\ job.alone))

ReadPage ==
  /\ job.pc = "read"
  /\ IF Page = <<>> THEN EndJob ELSE job' = [job EXCEPT !.pc = "write", !.page = Page] /\ UNCHANGED mixed
  /\ UNCHANGED <<backend, vectors, contract, server, writes, jobs>>

WritePage ==
  /\ job.pc = "write"
  /\ vectors' = Rewritten(job.page, job.model)
  /\ job' = [job EXCEPT !.pc = "contract"]
  /\ UNCHANGED <<backend, contract, server, writes, jobs, mixed>>

JobContract ==
  /\ job.pc = "contract"
  /\ contract' = job.model
  /\ IF LastPage THEN EndJob
     ELSE job' = [job EXCEPT !.pc = "read", !.offset = @ + job.batch, !.page = <<>>] /\ UNCHANGED mixed
  /\ UNCHANGED <<backend, vectors, server, writes, jobs>>

JobDies ==
  /\ job.pc # "off"
  /\ job' = NoJob
  /\ UNCHANGED <<backend, vectors, contract, server, writes, jobs, mixed>>

ReforgeNext ==
  \/ \E m \in Model : OpenServer(m) \/ \E scope \in {{"even"}, {"even", "odd"}}, b \in 1..Cardinality(ReforgeId) : StartJob(m, scope, b)
  \/ \E id \in ReforgeId : File(id)
  \/ ServerContract \/ StopServer \/ ReadPage \/ WritePage \/ JobContract \/ JobDies

ReforgeSpec == ReforgeInit /\ [][ReforgeNext]_reforgeVars

-----------------------------------------------------------------------------
(* Properties.                                                             *)

\* The type invariant.
ReforgeTypeOK ==
  /\ vectors \in Seq([id : ReforgeId, model : Model])
  /\ contract \in Model \cup {"none"}
  /\ server.pc \in {"off", "idle", "contract"} /\ job.pc \in {"off", "read", "write", "contract"}
  /\ Cardinality(Ids(vectors)) = Len(vectors)

\* Vectors are compared only with vectors of their model: in LanceDB a server
\* that is let in finds all rows of its own model, through crashes between an
\* upsert and the contract file, unless a reforge to another model was partial,
\* cut off, or done beside an open server.
ModelsAgree ==
  backend = "lance" /\ ~mixed /\ server.pc # "off" =>
    \A v \in ToSet(vectors) : v.model = server.model

\* The end of a run of reforge that had the collection to itself.
JobEndsAlone == job.alone /\ (ReadPage \/ JobContract) /\ job'.pc = "off"

\* Such a run has rewritten every record of its scope, if it read them in the
\* order of their ids or in one batch.
ReforgeCovers ==
  [][JobEndsAlone /\ (backend = "postgres" \/ job.whole) =>
       \A v \in ToSet(vectors') : InScope(v) => v.model = job.model]_reforgeVars

\* The two together: searches compare like with like, before and after a reforge.
ReforgeSound == []ModelsAgree /\ ReforgeCovers

\* "Re-embed all drawers using the currently configured embedding model."
\* (services/vault/service.py:433), on any backend and in any batches.
ReforgesAll ==
  [][JobEndsAlone => \A v \in ToSet(vectors') : InScope(v) => v.model = job.model]_reforgeVars
=============================================================================
