# SwampCastle: a TLA+ model

SwampCastle keeps an assistant's long-term memory on a machine: records
("drawers", diary entries, tombstones) in a vector collection, facts in a
knowledge graph, and a sync that replicates the collection between machines.
This directory holds TLA+ modules of the parts whose correctness depends on
order, failure and concurrency, TLC configurations that check them, and proofs
for TLAPS. Paths below are relative to `src/`; line numbers are those of the
commit in the repository.

Contents: [the system](#1-the-system) · [modules and code](#2-modules-and-code)
· [runs](#3-runs) · [proofs](#4-proofs) · [what the model leaves
out](#5-what-the-model-leaves-out) · [plan](#6-plan).

## 1. The system

| Part | State | Operations | What makes it hard |
|---|---|---|---|
| Sync engine, `swampcastle/sync.py`, `models/sync.py` | version vector file; the collection | construct (rebuild an empty vector), `get_changes_since`, `apply_changes` | read-judge-write without a lock; vector of maxima over records that arrive out of order; crash between upsert and vector |
| Sync client, `sync_client.py`, `cli/commands/ops.py` | none but the engine's | status, push, apply winning records, paged pull, apply | answers that are stale when used, timeouts, pages of a changing table |
| Sync server, `sync_server.py` | one engine per process | `/sync/status`, `/sync/push`, `/sync/pull` | lazily created engine, requests of many clients, crash |
| Node identity, `sync_meta.py` | `node_id` and `seq` files | `next_seq`, `inject_sync_meta` | number taken before the write that carries it; three system calls per number |
| Collection storage, `storage/*.py` | rows by id, embedder contract, tables and indexes | upsert, get, delete, update, create, migrate | two-call fallbacks, row order, errors shown as empty answers, three filter languages |
| Vault, `services/vault/service.py` | tombstones in the collection; a set of tombstoned ids per process | add, tombstone, delete, collect, diary | two copies of one truth, several processes, deletes in two calls |
| Vault maintenance, `services/vault/distill.py`, `reforge.py` | buffers of a running job | distill, reforge | results out of order, pages of a table being rewritten |
| Knowledge graph, `storage/sqlite_graph.py`, `services/graph.py` | entities, triples with validity | `add_triple`, `invalidate`, queries | names and entity ids, temporal queries, two writers |
| KG proposals, `services/kg_proposals.py` | candidates with a status | extract, propose, list, accept, reject | one review is several transactions; pages of a list under review |
| Project miner, `mining/miner.py` | drawers of a source file, embedding buffer | scan, skip, delete, chunk, embed, file | delete before write, parallel window, nested ignore files, crash |
| Conversation miner, `mining/convo.py`, `normalize.py`, `split_mega_files.py` | drawers of a transcript, registry drawer | split, parse, skip, purge, file in batches | purge before read, modification time on the first batch, five export formats |
| Trackers, `mining/tracker.py`, `runtime_config.py` | registry in `config.json` | register, remove, sweep, quarantine | lost updates of one file, failure counting |
| Names, `entity_detector.py`, `entity_registry.py`, `onboarding.py` | registry file | detect, confirm, seed, learn, give codes | derived flags and aliases that must agree, rewritten in place by several processes |
| Search, `services/search.py`, `retrieval/hybrid.py`, `query_sanitizer.py` | none | dense, lexical and hybrid search | scan under writes, merge of two lists, prompts put before the question |
| Catalog, digest, audit overlay, `services/catalog.py`, `digest.py`, `audit/*.py` | cached views, card files | view, tunnels, rebuild, digest | caches that other processes make stale |
| MCP server, `mcp/*.py`, `wal.py` | log of writes, session records | dispatch of tools | three trails of one call |
| Hooks, `hooks_cli.py` | save markers, digest cache | stop, session start, pre-compact | background refresh through one temporary file |
| Dedup, migration, `dedup.py`, `migrate.py` | none; a new castle | greedy pass; copy in batches | cut-off query results; failure half-way |

How they meet: writers (MCP server, miner, CLI) and the engine work on the same
collection from different processes, without a common lock. Every non-raw
upsert is stamped with `node_id`, `seq`, `updated_at`; the engine's upserts are
raw and keep the stamps of the author. A client talks to one hub; the hub's
server owns an engine like the client's. Tombstones are ordinary records and
travel with the sync; the sets of hidden ids do not. Accepted proposals are
written to the same graph that `kg_add` and `kg_invalidate` write. Miners and
trackers file through the collection and stamp what they file; views, digests
and cards are made from it and kept.

What makes each part correct:

- **Sync**: a version pair names one write; the vector claims nothing the node
  does not hold or supersede; what was claimed is not needed again; nothing but
  a later write replaces a record; a pull or push transfers all that is unseen;
  castles converge; sessions end.
- **Vault**: hidden is what is tombstoned; nothing is deleted before its grace
  period is over; what is hidden or deleted does not come back.
- **KG**: a fact is in the graph because its candidate was accepted; an
  exclusive predicate has one current fact; a fact gives way only to one that
  disagrees with it; a review is not undone by extracting again; history is not
  rewritten.
- **Storage**: a collection is a map from ids to records, whatever the backend,
  the order of rows and the fallbacks; a filter selects the same on each.
- **Miners**: an unchanged file is not filed twice; a finished run mirrors the
  files; a run ends; text is neither lost nor doubled on its way to a drawer.
- **Trackers**: only what is gone is quarantined, after repeated failures; a
  decision is filed once; a registered repository stays registered.
- **Maintenance**: every record is rewritten once, in order, by the model the
  contract names; dedup keeps a representative of whatever it drops; a failed
  migration leaves what it found.
- **Views and answers**: a view is what the collection was when its scan
  began, unless another process wrote; hits are ordered and the best is among
  them; a write is logged before it is done and a retry does not file twice.

The hazards, each at its line, with the properties that guard against it, are
in `PROJECT.json`.

## 2. Modules and code

```
SyncRecords ──┬── SyncReplication ── SyncProperties ──┬── MCSync
              │                          │ refines    └── SyncProofs
              │                     LWWReplicas
              └── SyncPaging
Tombstones ── TombstoneProofs
KGReview ──┬── MCKGReview
           └── KGReviewProofs

Chunking, Transcripts, MegaFiles ──┬── TextProofs ──┐
Ingest, ConvoMining, Hooks,        │                │
Migration, Registry, Trackers,     ├── MCIntake ────┴── IntakeProofs
ProjectScan, SyncPaging, Detection ┘

Identity, Distill, Requests, Dedup, PgTable, Facts,
Views, Filters, Digest, Sanitizer, Retrieval ──┬── CastleProofs ──┐
Collections, Candidates, Reforge ──────────────┴── MCCastle ──────┴── StorageProofs
  Collections ── refines CollectionContract      Distill ── refines DistillInOrder
Rows: the order of rows, used by the modules that sort, select or filter
```

### Synchronisation

**SyncRecords**: versions, vectors, and the pure operators of the engine:
`RemoteWins` (`sync.py` `_remote_wins`: later `updated_at`, then higher node
id), `ChangesSince`, `Accepted`, `WinningRecords`, `UpdateFromRecords` (maximum
per node), `OpenedVV` (rebuild of an empty vector), `Upsert`. A record is its
id and its stamp; documents and metadata are carried along and never looked at.

**SyncReplication**: a hub and clients. `Stamp` and `Land` are the two halves
of a writer's upsert; any process may act in between. `ApplyRead` and
`ApplyWrite` are the halves of `apply_changes`. `OpenEngine … WriteInbox` are
the stages of `SyncClient.sync`, `HubReceive` and `HubCommit` the push handler.
`Abort`, `LosePush`, `HubCrash` are the faults; `Crashed` lists what a dead
engine leaves on disk, including a truncated vector file. With `Graceful` the
hub's process ends only between two pushes, as uvicorn ends it on SIGTERM;
without, it may also be killed between the upsert of a push and the save of the
vector.

**SyncProperties**: type invariant, safety, the inductive invariants
(`NumberInv`, `HubInv`, `WholeInv`), the refinement `Implements` and liveness.

**LWWReplicas**: what replication promises of the collections alone: a node
writes its own new version, or merges versions that some node holds and lets
the later writer win. `SyncReplication` implements it under the mapping
`store`, `written` of the same names.

**SyncPaging**: `SyncReplication` treats a whole change set as one message;
here one direction is opened row by row. `rows` is the sender's table in the
order a query returns it, ordered by id (PostgreSQL) or by last write (LanceDB,
where `merge_insert` moves a rewritten row to the end: an assumption about that
library). `Begin` and `Page` are `pull_paged` and `sync_pull`; `Push` is the
single, capped request of a push; `Apply` is the receiver's `apply_changes`.

**Identity**: `Stamp` of SyncReplication in its system calls. `LockAndRead`,
`TruncateSeq`, `WriteSeq` are `_next_seq` under `flock`; `LookForId`, `MintId`,
`SaveId` are the unlocked `node_id` file, which a second first process may read
empty and then go by the id ""; `StamperDies` may replace any step.

### Vault and graph

**Tombstones**: `drawers` and `tomb` are the collection, `hidden` the
`_tombstone_targets` of each process. `AddDrawer/WriteDrawer`,
`CreateTombstone/Hide`, `DeleteDrawer/MarkDeleted/Hide/CollectDeleted` and
`GcCollect/DropTombstones/EraseRecords/Forget` are the operations, one call on
the collection or one update of memory per step. `Restart` may replace any
step; `SyncRecord` and `SyncTombstone` are the upserts of `apply_changes`.

**KGReview**: one subject and one predicate of `_EXCLUSIVE_PREDICATES`, which is all
the conflict logic looks at. `current` and `past` are the objects of the triples
without and with `valid_to`; `name` is the entities table, in which the first spelling
of an entity stays. `EntityId` maps spellings to entities; as `_entity_id` lowercases,
the runs give two spellings one entity. `Accept`, `Expire`, `WriteFact`,
`MarkAccepted` are the transactions of `accept`.

**Facts**: `add_triple`, `invalidate` and the queries of both graph stores for
one predicate, with the days facts hold. SQLite takes its write lock with the
first statement, so a call is a step; in PostgreSQL a statement is one, two
inserts of an entity wait for each other and a cycle of them is broken.

**Candidates**: the stores of candidates of three graph backends, row by row:
`propose` keeps a reviewed row's status, extraction pages through drawers that
others write, clients page through a list that reviewers change.

**Views**: the catalog view and the palace graph, which a service scans page by
page (`ScanCatalog`, `StartPalace`, `ScanPalace`, `ScanRaises`), with other
writers between the pages, and caches until one of its own writes; the tunnels
that `compute_curated_tunnels` makes of the graph and a policy that the user
edits (`EditPolicy`); the walk of `traverse`, cut to its first 50 rooms
(`Returned`, `WalkShown`); the cards that `rebuild_catalog` writes wing by wing.

**Digest**: whether a project is known, and its rooms, come from the cached
catalog (`inventory`, `ListNotes`), the newest drawers from pages of the
collection, which this service (`here`) and others file and move meanwhile; then
the two caps.

### Storage and maintenance

**Rows**: what ORDER BY, `sorted` and a filter make of rows. `Ordered(S, R)` is the
enumeration of a finite set in a strict order, `Ascending` that of numbers, and
`Picked(s, K)` the elements of `s` at the places in `K`. They are the sequences that
SortSeq and SelectSeq make, in a form about which theorems can be proved: the
module proves that the enumeration exists and is the only one, what is picked and in
which order, and the laws of sequences that the proofs of the other modules cite.

**Collections** implements **CollectionContract**: handles opened before there
is a table, `merge_insert` and its delete-and-add fallback, `update` as a read
and an upsert, with ids in any order, transactions of PostgreSQL, one call on the
database per step. The history `misread` notes that a LanceDB update has asked for
ids in another order than that of the scan.
The contract says that each call takes effect once between its start and its
return; `Held`, `Asked` map rows and calls.

**PgTable**: what surrounds PostgreSQL's rows: creation with the dimension of
the embedder, the column of a later release added at the first use, the index
when the table is large enough, a transaction per block.

**Filters**: one where clause on one record in three translations, each with its
own set of columns (LanceDB has `data_class` and its like, PostgreSQL has not):
LanceDB quotes the values of a list, numbers too, PostgreSQL casts a field without
a column to a number, which raises on a text; **Reforge**:
whose vectors are in the table, with the contract file that is rewritten after
each upsert; **Distill** implements **DistillInOrder**: the window of futures,
the map of results that came early, the write buffer and its flush; **Dedup**:
the greedy pass of a group; **Migration**: `migrate` try after try.

### Intake

**ProjectScan** (walk, `.gitignore`, `.swampcastleignore`, forced paths),
**Ingest** (`mine`: one thread or a window of workers, replace through a
buffer), **Chunking** (`chunk_text`, `chunk_exchanges`), **Transcripts** (the
five parsers of `normalize` and the units they end in), **MegaFiles** (the
splitter of concatenated sessions), **ConvoMining** (`mine_convos`), **Trackers**
(`sweep_trackers` and the commands on the same file), **Detection** (scores and
classes of names, confirmation), **Registry** (`EntityRegistry` in several
processes and the codes of the onboarding), **Hooks** (`hook_stop`,
`hook_session_start`, background builders; a file is the text that it holds, and a
builder truncates it at opening and writes over what is there from its own start,
as open handles do, so that two builders at once can leave a mix).

### Requests and search

**Requests**: one client of the MCP server, its calls, the log lines and
session records they leave, servers that die and calls that are repeated. A
deletion is its tombstone, its two log lines, and the removals of both
(`FindDrawer` … `LogCollected`); a twin is whatever `check_duplicate` finds, a
diary entry too.
**Retrieval**: the stages of a search; scores are small numbers and embeddings a
given similarity. **Sanitizer**: the returns of `sanitize_query` in their order,
over texts of tokens.

History variables (`written`, `begun`, `due`, `retired`, `torn`, `streak`, `noted`,
`undisturbed`, `misread`, `mixed` and the like, each described where it is declared)
only record: they feed properties, and no action's effect on the code's state depends
on them. Counters called *bound* cap how often something happens.

Operators that a comment calls *Mutant* are plausible wrong versions of the
definition that follows. Nothing uses them; replacing the definition by one of
them makes the property that `PROJECT.json` names fail.

## 3. Runs

Eight runs pass and four show a promise that the code does not keep. Sync, vault
and review have runs of their own. The other parts are checked side by side in
two: `MCIntake` and `MCCastle` instantiate them all, a constant variable `part`
chooses one part for a behaviour, and the others stay in one state. Nothing is
lost by this: the parts share no variables, and each part's state graph is
explored as if it were alone. Named groups (`TextSound`, `StorageSound`, …) are
conjunctions of the parts' properties; each conjunct is stated and commented in
its module.

### Sync

Node ids 1, 2 (hub), 3, so that ties of the node order go both ways; two or
three record ids; three writes (two in `sync_converges`) and one fault. Three
writes are enough for the interesting cases: an older and a newer version of
one id, and a third record of the same author that a wrong vector would mask.
One fault reaches a crash at each step of a session, followed by a whole
recovery.

| Run | Shows |
|---|---|
| `sync_dedicated_hub` | Two clients that share an id, one of them rewriting another id as well, clocks that drift, a hub that only serves: unique versions, `HubSound`, the refinement of LWWReplicas, `StoreMonotone`. |
| `sync_converges` | No id is written by two nodes: all vectors are sound and pulls deliver, with local writes in the middle of `apply_changes`, clients that abort or die at any step and a hub whose process ends between two pushes; under fairness castles converge and sessions end. |
| `pull_skips` | `PullDelivers` fails when clients share ids: winning records of a push response move the vector past records not received. |

Each premise of the passing runs is needed, as changing `sync_dedicated_hub.cfg`
shows:

- `Quiet = FALSE`: `StoreMonotone` fails, because a local write between read and
  upsert of `apply_changes` is lost to an older version.
- `SoleWriter = FALSE`, `Editable <- DedicatedHub`, `Drift <- InStep`: `HubSound`
  fails, because of two writers the one with the lower number may become visible
  after a push has carried the higher one.
- `Editable <- HubEditsToo`: `HubSound` fails, because a writer on the hub whose
  upsert carries an older stamp replaces a newer version. With `HubEdits`
  (only the hub writes), `PullDelivers` fails as in `pull_skips`: the hub's
  vector does not count its own writes, so clients send them back, and a stale
  echo is answered with winning records.

- `Graceful = FALSE` in `sync_converges.cfg`, four writes, one fault: `AllSound`
  fails, although no id is written by two nodes. The hub is killed after it has
  upserted a record of client a and before its vector counts it. Client b pulls the
  record and sends it back, since the hub's vector does not claim it. If a has
  pushed a later version of that record by then, and another record in between,
  the later version is in the answer to b as the winner; b's vector moves to its
  number, past the record in between, and no pull ever asks for that one. It takes
  four writes, because an empty vector would be rebuilt at the restart.

`SoleWriter` holds for a machine with one writing process at a time; `Quiet`
for one where nobody writes while `swampcastle sync` applies changes; `Graceful` for
a server that is stopped and not killed. The code guarantees none of them.

Fairness (`sync_converges`): a stamped write lands, the steps of a running
process go on, and the user keeps running the sync command. All weak: the hub
handles one request after the other and does not starve one for ever.

### Vault and review

Two records, grace of none or one tick, two services at most; operations go
round as often as they like, bounded only by the clock and the crashes. In
`vault_shared` records and services are interchangeable, and `Symmetry` is used
for its one invariant. Tombstones is small enough to be checked as it is, without a
module of definitions for TLC. Three candidates, three spellings of two entities, two
reviewers at most;
`c3` may be edited before it is accepted.

| Run | Shows |
|---|---|
| `vault_single` | one service that collects record by record, restarts between any two calls: `HidesTombstoned`, `GraceHonoured`, `DeleteHolds`. |
| `vault_shared` | two services and a sync, no crash: `NoResurrection`. |
| `kg_one_reviewer` | one current fact of an exclusive predicate, replaced facts are replaced, through crashes. |
| `kg_reviewers` | two reviewers, direct writes, planned and ended facts, a crash: accepted candidates are written, and extraction does not reopen a review. |

The premises again. With `Batch = {{a, b}}` in `vault_single.cfg`, `GraceHonoured`
fails, because `gc_collect` of two records of which one has an expired tombstone
deletes both. `NoResurrection` fails when a crash falls between the deletion of the
tombstone and that of the record, and `HidesTombstoned` fails for a running service
when a tombstone arrives by sync. With two reviewers `ExclusiveKept` fails: both look
for conflicts before either writes. `OnlyDisagreeing` is stated in KGReview and fails
in both runs: conflicts compare spellings and facts are stored by entity, so accepting
"clerk" expires the fact about "Clerk", which the accept then writes again.
`AcceptedOnly` fails: a candidate that was accepted can be rejected, and its fact
stays.

### `intake`

| Group | Parts and instance | Shows |
|---|---|---|
| `IngestSound` | one or two files of up to two chunks, window of two, an edit, a death, two runs | one content of a file at any time; a run that finishes mirrors what was not edited under it |
| `IntakeEnds` | the instances of mining, trackers, names and paging | runs of the miner end (`MineEnds`), what is gone leaves the sweep (`GoneIsQuarantined`), everyone on the roster gets a code (`EveryoneCoded`), the receiver catches up (`CatchesUp`) |
| `ScanSound` | four directories and files, five rule lists in either kind of ignore file and globally, forced paths | what no rule leaves out is found, forced paths are found, `.swampcastleignore` decides over `.gitignore` |
| `ConvoSound` | two wings, three turns, batches of two, the transcript grows once, one death | one content and one wing of a transcript, what is skipped is stored, drawers of the project miner survive |
| `TextSound` | texts of up to 6 characters in windows of 4 with overlap 1; exports of five formats with up to three entries; files of up to four lines, alone or beside a second one of the same stem | nothing is lost or doubled between a text and its pieces, an export and its units, a concatenated file and its sessions |
| `TrackersSound` | one repository, two faults, a registry changed by commands during the sweep | only what is gone is quarantined and only what was decided is filed; without overlap, quarantine follows repeated failures and the registry is faithful |
| `NamesSound` | two processes, a common word and its alias, files cut while written; three names with any signals | flags and aliases agree, nobody is forgotten, codes differ; classes rest on evidence, lists keep the best, and what is confirmed is apart |
| `HooksSound` | interval of two, three exchanges, two builders, digests of two sizes, the later one shorter | saves are spaced, sessions are served whole digests of builders that had the temporary file to themselves |
| `MigrationSafe` | three drawers in batches of two, two sidecars, three tries | what returns is complete, what raises can be repeated, what was there stays |
| `PagingSound` | two authors, three ids, pages of two, four writes | in id order and at any time, no record selectable at the start is skipped; undisturbed, no hole in the vector |

Fairness: a run of the miner does not pause; the timer starts sweeps again, a
sweep and a command do not stop half-way for ever, the user renews an expired
token; a loop that gives out codes goes on; the steps of a transfer go on and
the user syncs again. All weak, and each of one part, so that no fairness of one
helps another.

The bounds reach, in every part, a change between two steps of an operation, a
death at every step, and a complete operation after it. What does not hold: in
scan order (`OrderedById = FALSE`) `NothingSkipped` fails, a record is skipped
when a write moves a row behind the offset; `NoHole` without its premise fails,
because a record written into a page still to come masks one written into a
page already read; and it needs `Cap` not below the number of ids: with `Cap =
2`, the 100 000 of `get_changes_since` in small, a push that was cut leaves
records behind that the vector claims. `RenamedIsSplit` (MegaFiles) fails without its
exception: two mega-files of one stem with an equal session write it under one name,
and a split that dies while it writes the second over the first leaves it torn until
that file is split. `AlwaysWhole` (Hooks), which is `DigestWhole` without its
premise, fails: a shorter digest written over a longer one in the same open file
leaves a mix, which is renamed into the cache.

| Run | Shows |
|---|---|
| `hiccups_quarantine` | `QuarantineEarned` fails: `consecutive_failures` counts network hiccups, which are documented to change no state, so that a repository is quarantined by fewer than `StaleAfter` answers that it is gone. |

This run is Trackers alone, with one command and `StaleAfter` of three, as in the
code; two hiccups are its faults.

### `castle`

| Group | Parts and instance | Shows |
|---|---|---|
| `StorageSound`, `ImplementsContract` | two ids, two processes or one, a failing merge, a crash, both backends, updates with ids in any order; two threads in one or two PostgreSQL processes of two embedders | rows keep their ids, and their documents until a LanceDB update misreads them; losses are confined to a call, a process alone sees the contract; one dimension, no write on a column that is not there, a row that is stored is answered for |
| `ImplementsInOrder`, `DistillRunEnds` | eight records, window and write size of three | distill is a writer in order under any completion order; runs end |
| `ReforgeSound` | three records, two models, batches of one and two, two jobs | a server that is let in finds vectors of its model; a job alone covers its scope (PostgreSQL, or one batch) |
| `ShownSound` | two wings, three rooms, a chain of tunnels, pages of two, walks cut at two, policies with one edit; castles of up to four notes with one added and one moved, here or elsewhere | cached answers are those of the collection until others write, walks show the nearest rooms, cards match; the newest are shown first, counts add up, caps hold and cut only what is over them |
| `DedupSafe` | three drawers on a line of four places, query results cut at two | a dropped drawer has a kept near one; nothing else is dropped |
| `GraphSound` | two facts that name each other, days 0 and 1, two writers on both stores; three candidates of two drawers on three stores | one current row, found from both ends, history kept; reviews stand, extraction and listings are whole |
| `RequestsSound` | two requests, deletions among them, two servers, a failed write of a trail | logged before filed, answers kept, no tombstone outlives its drawer, session records survive |
| `AnswersSound` | clauses over five fields, columns of both databases, of LanceDB only and of none; two drawers, one hit, a write; every query of up to five tokens, and queries in tags | backends agree on portable filters, the best are found in order, the query behind a prompt is found |
| `StampsOnce` | two processes, batches of one and two, a death at any step | no number twice, the file never behind |

`DistillRunEnds` is under weak fairness of the job's steps. The deadlock check
is off in this run, and in the two violation runs of the same module: a
finished job, a sanitized query and a used-up bound are ends.

| Run | Shows |
|---|---|
| `reforge_skips` | `ReforgesAll` fails: reforge in several batches over LanceDB jumps over rows its own upsert moved. |
| `update_swaps` | `OwnDocument` fails on a LanceDB table: update pairs ids with documents read in another order. |

In the passing run `merge_insert` fails only where LanceDB has one process
(`OneMerges` below). Promises that the modules state and the code does
not keep are listed in section 5.

## 4. Proofs

Every safety property that a passing run checks is a theorem, and so are the type
invariants and the three refinements: for sets of nodes, ids, services, candidates,
files and processes of any size and for any bounds, under the named assumptions of the
modules. Where a premise is given, the theorem needs it, and section 3 says what the
code does without it.

| Module | Theorem | Premise | Says |
|---|---|---|---|
| SyncProofs | `TypeCorrect`, `VersionsUnique` | none | `TypeOK`, `VersionUnique` |
| SyncProofs | `ReplicationImplements`, `CollectionsMonotone` | `Quiet` | the refinement, `StoreMonotone` |
| SyncProofs | `HubInvariant`, `HubVectorSound` | `Dedicated` | `HubInv`, `HubSound` |
| SyncProofs | `WholeInvariant`, `VectorsSound`, `PullsDeliver` | `Apart` | `WholeInv`, `AllSound`, `PullDelivers` |
| TombstoneProofs | `TypeCorrect`; `HiddenStaysHidden` | none; no crash | `TypeOK`; `NoResurrection` |
| TombstoneProofs | `TombstonedHidden`, `GraceHonouredAlone`, `DeleteHoldsAlone` | one service, no sync, records one at a time | as their names |
| KGReviewProofs | `TypeCorrect`, `AcceptedWritten`, `ReviewedStays` | none | `TypeOK`, `AcceptedIsWritten`, `ReviewedForGood` |
| KGReviewProofs | `ExclusiveAlone` | one reviewer who invalidates | `ExclusiveKept` |
| KGReviewProofs | `ReplacedAfterReview` | only reviews change the graph, no fact has an end of its own | `ReplacedNotLost` |
| TextProofs | `ChunksAreSound`, `TranscriptsAreSound`, `MegaFilesAreSound` | none | `ChunkSound`, `TranscriptsSound`, `MegaSound` (the parts of `TextSound`) |
| IntakeProofs | `IngestIsSound`, `ConvosAreSound` | none | `IngestSound`, `ConvoSound`, and the types of both |
| IntakeProofs | `ScansAreSound`, `HooksAreSound`, `MigrationIsSafe` | none | `ScanSound`, `HooksSound`, `MigrationSafe`, and the types of each |
| IntakeProofs | `RegistryIsFaithful`, `DetectionsAreSound`, `TrackersAreFaithful` | none | `RegistrySound` and `DetectionSound` (of `NamesSound`), `TrackersSound` |
| IntakeProofs | `PagesLoseNothing` | of its parts: `AllFit`, `OrderedById` | `PagingTypeOK`; `NoHole`; `NothingSkipped` |
| IntakeProofs | `IntakeIsTyped`, `IntakeIsSound`, `TextIsSound`, `NamesAreSound`, `TrackersAreSound` | none | the type invariant and the groups of the `intake` run, of `IntakeSpec` |
| IntakeProofs | `PagesAreSound` | `AllFit`, `OrderedById` | `PagingSound`, of `IntakeSpec` |
| CastleProofs | `NoNumberTwice`, `DistillTyped`, `DistillImplements` | none | `StampsOnce`; `WithinWindow`; the refinement `ImplementsInOrder` |
| CastleProofs | `RequestsAreSound`, `DedupIsSafe`, `PgIsSound` | none | `RequestsSound`, `DedupSafe`, `PgSound` |
| CastleProofs | `FactsAreKept`, `ViewsAreSound`, `DigestsAreSound` | none | `FactsSound`, `ViewsSound`, `DigestSound` |
| CastleProofs | `FiltersAreSound`, `SanitizerIsSound`, `SearchesAreSound` | none | the parts of `AnswersSound` |
| StorageProofs | `CollectionImplements`, `KeysAreUnique`, `RowsAreSound` | `OneMerges` | the refinement `ImplementsContract`; `OneRowPerId`, `LossConfined`; `RowsSound` |
| StorageProofs | `CandidatesAreSound`, `ReforgesAreSound` | none | `CandidatesSound`, `ReforgeSound` |
| StorageProofs | `GraphIsSound`, `ShownIsSound`, `AnswersAreSound` | none | the groups of the `castle` run, of `CastleSpec` |
| StorageProofs | `StorageIsSound`, `CastleTyped` | `OneMerges` | `StorageSound`, `CastleTypeOK`, of `CastleSpec` |

Rows and the proof modules hold the lemmas these rest on.

A premise "none" does not mean that a property holds without conditions: where the
code keeps a promise only when processes do not overlap, or when nothing died in
the middle, the property itself says so with a history variable (`beside`,
`behind`, `alone`, `torn`, `touched`, `halfway`, `misread`, `undisturbed`, `stale`,
`fresh`, `unsettled`), and its comment names the condition.

The premises. `OneMerges`: `merge_insert` of LanceDB fails only where one process is
at work, for its fallback deletes and adds in two calls, and two processes that fall
back together leave two rows of one id. `AllFit`: the ids are finite and no
more than the 100 000 that one push takes (`Cap`); `OrderedById`: the backend returns
rows in the order of ids, as PostgreSQL does. `Dedicated`, `Apart` and `Quiet` are
those of section 3. The passing runs satisfy the premises of the theorems that state
their properties.

The assumptions on constants are those of the modules, as types and sizes: `Nat`
for counts and sizes, batches of at least one; "none" outside the sets that it
stands beside (files, transcripts, sidecars, models), and `Absent` and `NoCall` outside
records and calls. Finite sets are assumed only where something is counted or
enumerated: old drawers (Migration), drawers of a group (Dedup), drawers of a search
(Retrieval), rooms (Views), directories (ProjectScan, whose paths are sequences of
strings), and ids, in `AllFit`. Inputs are typed: the queries of the sanitizer are
sequences of strings, the drawers of a digest and the rows of evidence have distinct
ids, a widened limit is no less than the limit, the names that the detector is given
are distinct.

The argument for the hub. `HubSound` alone is not inductive: a client may relay
a record of a third node, and the hub's vector then jumps to that record's
number. It is safe because whoever holds a record of another node got it from
the hub, when the hub already had everything its author wrote before
(`Backed`), and an author sends all it wrote since the hub's last claim
(`Closed`). Messages in flight, answers that are stale by now, a truncated
vector that is rebuilt from the collection, and the half-done `apply_changes`
carry the same facts (`Known`, `HubBacked`, `ClientBacked`). That stamps grow
with numbers on each node (`Stamps`) makes a superseding version of the same
author the later one. `NumberInv` is proved first and gives types and unique
versions; SyncProofs then shows that what is about to be upserted still
wins, which gives the refinement. There is one lemma per action.

The argument for all castles. `Apart` is `Dedicated` without a shared id and with
`Graceful`. `WholeInv` adds three facts to `HubInv`. The hub's vector claims all the
hub holds (`HubVVCovers`; a hub killed half-way breaks it). A client therefore
sends the hub only its own writes (`OwnPushes`), and with ids apart the records
that win over them are its own too, so the winning records of an answer never
move its vector at a foreign node. What a client holds or is about to apply is
whole (`Whole`): with a record comes, or has come, what its author wrote before. A
pull is whole because its records are all the hub has beyond the vector, and the
hub has everything up to what it has. `PullDelivers` follows from the step that
applies the pull.

The argument for tombstones. `HiddenInv` says the hidden set covers what the
service retired at every moment, and that what it is about to forget is gone or
written again. `AloneInv` says at each place of an operation how far memory and
collection are apart. For the review, `ReviewInv` says that a candidate about
to be marked has its fact; `ExclusiveInv` that what is not yet expired is the
fact under review or on the list; `ReplacedInv` that while all facts are past ones, some
review has yet to write its own, which needs no limit on the reviewers.

The argument for the numbers. `NumbersOnce` is not inductive: it does not say
that the file is ahead. `LockHeld` says that the process at the file is the one
that holds the lock; `FileAhead` that all numbers given out are at most what the
file holds, or, between truncation and write, less than the first number its
writer is about to take. A death in that interval is the only way to lose them.

The argument for distill. `WrittenInOrder` says that the written records are a
prefix, the buffer the piece after it, and that the piece is shorter than a batch
whenever a result may be added; `NothingLost` that what was handed out is in
order already, has come back, or is at a worker. So the loop over results, which
ends when nothing is at a worker and nothing is due, has seen every record.

The argument for the miner. `OneContent` and the mirror after a run need to know,
at each place of a run, what stands for what: `OnePlace` says that a file is in one
place of the run (to do, with a worker, or being filed), `OneChain` that the drawers
of a file are the first chunks of one content, `Times` that modification times are
not ahead of the clock, and `Settled(f)`, for a file that nobody edited under the
run, that what a worker has read is what is on disk and that the time of any
drawer vouches for all of them. That a chain of drawers has as many as its content
is a bijection, not an induction.

The argument for transcripts. `Vouched(f)` says that a drawer which carries the
transcript's time vouches for all its drawers, and that the time which the run
holds vouches for what it has read. The first batch already carries the time, so
a filing that a death cut off is excluded by `torn`, which is the promise the code
does not keep. `OneFiling` and `AtWork` tie the wing and the content of the drawers
to the run at work.

The argument for hooks, migration and requests. `ApartIsWhole` says that a builder
that had the temporary file to itself since it opened it finds it empty, whatever a
dead one left there, and leaves it whole; `LeftWhole` that the cache that such a one
left is whole and that no builder holds its file any more. `MarkerTrue` says that the
marker is where a save was last asked for, as long as it could be written. A sidecar
that is torn is the one being copied, or one that an earlier death left
(`SidecarsKnown`); every other one is still to do or beside the target (`CopyCovers`).
For requests, `LoggedAhead` and `KeptSoFar` follow one call through the log, the
palace and the answer, and `CallsRecorded` says that the call being served is in the
record of its session; `TaskShape` that what is being deleted is filed until it is
collected, and its tombstone gone before that.

The argument for names and trackers. Both keep a file that several processes read
whole and write whole. `RegistryInv` therefore says the same of the file, of its
last whole content and of each process's copy (`Sane`), and `Current` that a process
which is not behind has everybody. `TrackersInv` speaks of the file only while
sweep and commands have not overlapped (`alone`); then what the sweep and the
command hold is the registry of the user with at most the change they are about
to save (`SweepHolds`, `UserHolds`).

The argument for the stores. Dedup: a removed drawer lies near one that is kept,
or near one that another run removed, so over many runs the distance grows with
the number of removals (`RemovedRepresented`); within a run, `LongestFirst` makes
the kept one the longer. PostgreSQL: who has noted the migration has done it, was
cut off, or is at it (`NotedMigrates`); who writes has a table of its dimension
(`ReadyFits`). Facts: a writer that saw no change beside it since it looked has no
current row beside its own (`LookedWell`), and has registered the ends of its fact
(`Registered`); a timeline is the first rows in an order in which dated ones come
before undated ones, so what is cut off is what comes last.

The argument for collections. `CollectionsInv` says of each call that what it has read
or has still to write fits the table it finds: an upsert or delete carries what its
caller gave (`PutCall`), an update has read rows of ids it was asked for
(`UpdateCall`), no id is in two rows, and until an update has misread, each row, in
the table and on its way there, has its own document (`DocumentsOwn`). For a process
that is alone, its handle is as the table is and what it has read is still so
(`AloneSound`); the refinement then maps each step that changes rows to the
contract's, whole, and all others to none. Candidates: a page moves only forward, so a
candidate that is due and not yet seen has its place after the pages read
(`ListingSound`); its place is the number of rows that are not listed after it.
Reforge: without a reforge to another model all parties agree on one (`OneModel`); a
run that is alone has done the rows before its page, by their places in the order of
ids (`PagesDone`).

The argument for views and answers. Views: until others write, what a scan has read is
where the collection begins, and its pages end when it is all of it (`ReadRight`); the
scope of a rebuild that is done already has the cards of the rows it read, and these
are the collection unless it was touched (`RebuildSound`). The walk through tunnels is
breadth-first search: the rooms that wait come in the order of their hops, which
differ by at most one, and an expanded room has its neighbours listed one hop further
at most (`Surveyed`), so that an empty queue means that each room is listed at its
distance, and the first of them by distance have none nearer among the others. Digest:
while drawers are only filed, what was read is the collection at the start up to the
offset (`ScanInv`); the catalog is the shelf until others write (`ListInv`), so that a
project it does not know has no drawers (`UnknownEmpty`). Filters: for each operator
it is worked out when the three comparisons agree, by the kind of the column, its
default, and the type of the value, and clauses are joined alike. Sanitizer: whatever
branch returns, it returns a piece of the query, and `SanitizerInv` says by the branch
which piece. Retrieval: the best of the rows scanned so far are in the heap
(`ScanCovers`), the nearest among the candidates (`NearestFound`), and ranking is an
enumeration in a strict order, which leaves out nothing better than what it keeps.

The argument for the scan. When the walk is at a directory, the rule lists in force are
those of the directories above it, the shortest path first, and what waits on the
stack is below or beside the way to it (`WalkedTo`). Hence the verdict at a file is the
verdict of all rules above it, in whatever order directories come. Paging: a record
that was selectable when the transfer began has been replaced, was received, or is at
a place that no page has reached (`StillAhead`); in the order of ids a write
never moves a row to an earlier place.

The argument for text. Chunks: a break is taken only in the back half of a window, so
that the next piece, which begins an overlap earlier, begins after the last one
(`Advances`); each place passed is in a kept piece, blank, or in one too short to keep
(`InkKept`), and a turn that was passed is never the one that the line looked at answers
(`TurnsClosed`). Mega-files: a session that stands alone has one boundary and
is never split again; what the split has written stands unless it wrote a
later session of the same name with other lines over it (`WrittenStand`). Transcripts:
the lines of a transcript are the pairs of an entry and a line of it in their order,
which says at once that each is there once; roles of a channel follow its speakers, by
induction over the places; on the branch of a tree that is read, each node is deeper by
one, so no node is met twice; a turn begins a unit, and two units with a line in common
are the same one.

The argument for detection. What the signals are counted from may only shrink when
the first three are kept, so two kinds among these are two kinds among all; seven
tenths of the score is more than twice the rest. The lists are the first places of a
strict order, by value and then by place, and the names of two lists have two
classes; an uncertain name gets one answer of the user, so that it is confirmed as
one thing.

Composites. `CastleSpec` and `IntakeSpec` run one part while the others stay as they
are: `CastleBegins`, `CastleSteps`, `IntakeBegins`, `IntakeSteps` say that the
composite starts and steps as each part does or leaves it alone, and the parts'
theorems carry over. Transcripts and mega-files rest as one state in the runs of
others; for these the invariants are stated of the runs that are about them
(`TranscriptPart`, `MegaPart`), as `TextSound` states its properties.

Most of these invariants were evaluated by TLC on the instances of the runs before
they were proved, `WholeInv` also with three writes, and with four and one fault.

Sorting, filtering and counting. What SelectSeq, SortSeq and folds compute is defined by
recursion over data, for which the installed provers have no induction. The models
therefore say which sequence it is instead of how it is computed, with Rows: the
enumeration in an order, the elements at a set of places. Where an induction over
the places of a sequence is unavoidable (sums, roles, distances) it is by sets: a set of
numbers that contains the first one and with each the next contains all
(`PlaceByPlace`, `StepByStep`).

Only model-checked: liveness, which is beyond the prover (`Converges`, `SessionEnds`,
`IntakeEnds`, `DistillRunEnds`). No property needs ENABLED. The four violation runs are
counterexamples, found by TLC.

## 5. What the model leaves out

### Known disagreements

Besides the four violation runs, these promises are stated in modules or follow
from changing a configuration, and the code does not keep them:

- `StoreMonotone` without `Quiet`, `NothingSkipped` in scan order, a synced
  tombstone in a running service, two reviewers at once: section 3.
- `FilteredFound` (Filters): a filter on a field for which LanceDB has no column
  (`contributor`) fails in the query and is answered as no records.
- `PostgresAnswers` (Filters): an order (`$gt` and its like) on a field for which
  PostgreSQL has no column casts it to a number, and a text there raises
  (`postgres.py:87-104`), where memory compares or refuses.
- `SearchAnswers` (Retrieval): `merge_candidates` takes the maximum of the lexical
  scores of a record found by its vector and by its words; a dense candidate has
  `None` (`services/search.py:67`), so that `hybrid.py:178-181` raises where
  `hybrid.py:165` says "Merge candidate lists by id or fallback document text."
- `AlwaysWhole` (Hooks): section 3. `OnlyDisagreeing`, `AcceptedOnly` (KGReview):
  section 3.
- Two stamped sessions of one mega-file can get one name; the later one is written
  over the earlier, which stays in the backup only (`split_mega_files.py:216-226`;
  `RenamedIsSplit` exempts them, `UnstampedApart` says that it takes two stamps).
- The sections of a digest come from two moments: a catalog that another process has
  made stale leaves out new rooms, or the newest drawers of a new project
  (`digest.py:139-152`, `catalog.py:73-76`).
- `TwoKindsSuffice` (Detection) and `LastLabelTaken` (Sanitizer): see there. The
  sanitizer also prefers `<query>` to a later `<user_query>`, and its sentence
  split after a question is never reached.
- `wal.py:14-16` promises a log line before execution; the one of a tombstone
  comes after it.
- The digest lists tombstoned drawers; `check_duplicate` finds them; distill and
  reforge process them.
- With PostgreSQL there is no candidate store for the service: `mine
  --extract-kg-proposals` raises after the files were mined.
- An id of the diary is a second and the first 50 characters: two entries alike
  in both are one.
- A listing of proposals that is paged while it is reviewed skips rows, and an
  extraction skips drawers that a writer moves behind its offset.
- The loop that gives out codes does not end when a longer code is taken as well
  (`onboarding.py`, `_generate_aaak_bootstrap`); the premise `Codable` of
  `EveryoneCoded` excludes it.
- PostgreSQL's raw upsert, used by sync, skips the migration of a column that the
  other one makes.
- Sessions of fewer than two messages are filed as raw JSON; the assistant's lines
  before the first turn of a user belong to no unit; text after a `---` line is
  dropped from it.
- A process that opened an empty LanceDB castle goes without a table until it
  writes.

### Not modelled

- **Encoding and transport**: gzip, JSON, authentication, the protocol check.
  A request arrives whole, late, or not at all.
- **Embeddings**: vectors are a given similarity. Whether a record is upserted
  with or without one in `apply_changes` is left out; a change set that mixes
  both is upserted in two calls, which a crash could separate.
- **A query whose error is an empty answer** inside `apply_changes`; two first
  requests that race to create the hub's engine.
- **The node status store**: outside tests nothing fills it, so its gate is
  always open.
- **Clocks that go back**: stamps of a node grow with its numbers.
- **Physical deletion in sync**: `delete_drawer` removes the record and its
  tombstone at once, so nothing travels to other nodes. Collections only grow
  in the sync modules.
- **Other subjects and predicates, and dates** in the review module; Facts has
  dates for one predicate.
- **Dry runs, statistics, progress, argument parsing, prompts, printing.**
- **Room detection, general extraction, dialect, spell checking**: heuristics
  over text with weights chosen by hand and without state; there is nothing to
  say of them that is not their text.
- **Embeddings, tuning, benchmarks; castle wiring and settings; the adapters**:
  wrappers of numerical libraries, validation and dispatch.

Each is in the list of hazards or components of `PROJECT.json` with its reason.

## 6. Plan

Done: everything in section 2. What would add most, in this order:

1. **Deletion across nodes**: Tombstones composed with SyncRecords, two nodes;
   what a tombstone promises when it is collected before it is synced.
2. **Proofs** under weaker premises: `GraceHonoured` for several services, with the
   sets of overlapping collections as history; `NothingSkipped` with the moves of
   LanceDB's rows as an explicit exception.
3. **Two services on one LanceDB table** through a whole session: Collections
   under Tombstones instead of a set of records.
4. **Settings**: which combinations of backend, embedder and paths a castle can
   be opened with.
