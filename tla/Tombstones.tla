----------------------------- MODULE Tombstones -----------------------------
(***************************************************************************)
(* Logical deletion of records: VaultService (services/vault/service.py)   *)
(* puts a tombstone with a grace period on a record, hides the record from *)
(* reads by a set it keeps in memory, and deletes both once the grace has  *)
(* passed.  Several processes (the MCP server, the CLI) run a service over *)
(* one collection, and a sync may bring records and tombstones from other  *)
(* nodes into it.  A step is one call on the collection or one update of   *)
(* the in-memory set; a process may die between two of them.               *)
(***************************************************************************)
EXTENDS Integers, FiniteSets, TLC

CONSTANTS
  Service,    \* processes that run a VaultService over the collection
  Id,         \* records
  Grace,      \* grace periods a caller may ask for
  Batch,      \* sets of records a caller may pass to gc_collect
  Synced,     \* TRUE: another process's sync writes into the collection
  MaxClock,   \* bound on the clock
  MaxCrashes  \* bound on process crashes

ASSUME TombstoneAssumption ==
  /\ Grace \subseteq Nat
  /\ Batch \subseteq SUBSET Id
  /\ Synced \in BOOLEAN
  /\ MaxClock \in Nat /\ MaxCrashes \in Nat

VARIABLES
  drawers,   \* the records in the collection
  tomb,      \* tombstone:<id> -> its grace_until, or None
  hidden,    \* _tombstone_targets of each service
  job,       \* the operation each service is in
  clock,
  crashes,
  due,       \* history: grace_until of the last tombstone put on a record
  retired    \* history: records each service hid that were not written again

vars == <<drawers, tomb, hidden, job, clock, crashes, due, retired>>

\* Records are alike, and so are the services.
Symmetry == Permutations(Id) \cup Permutations(Service)

None == -1
Tombstoned == {i \in Id : tomb[i] # None}
Idle == [pc |-> "idle", ids |-> {}, pending |-> {}, deleting |-> FALSE]

Init ==
  /\ drawers = {}
  /\ tomb = [i \in Id |-> None]
  /\ hidden = [s \in Service |-> {}]
  /\ job = [s \in Service |-> Idle]
  /\ clock = 0
  /\ crashes = 0
  /\ due = tomb
  /\ retired = [s \in Service |-> {}]

-----------------------------------------------------------------------------
(* add_drawer.                                                             *)

\* A known drawer, tombstoned or not, is reported as "already_exists".
AddDrawer(s, i) ==
  /\ job[s] = Idle /\ i \notin drawers
  /\ job' = [job EXCEPT ![s] = [Idle EXCEPT !.pc = "write", !.ids = {i}]]
  /\ UNCHANGED <<drawers, tomb, hidden, clock, crashes, due, retired>>

Written(ids) ==
  /\ drawers' = drawers \cup ids
  /\ retired' = [s \in Service |-> retired[s] \ ids]

WriteDrawer(s) ==
  /\ job[s].pc = "write"
  /\ Written(job[s].ids)
  /\ job' = [job EXCEPT ![s] = Idle]
  /\ UNCHANGED <<tomb, hidden, clock, crashes, due>>

-----------------------------------------------------------------------------
(* create_tombstone, alone or from delete_drawer.                          *)

\* The upsert of a tombstone replaces an earlier one.
Marked(i, g) ==
  /\ tomb' = [tomb EXCEPT ![i] = clock + g]
  /\ due' = [due EXCEPT ![i] = clock + g]

CreateTombstone(s, i, g) ==
  /\ job[s] = Idle
  /\ Marked(i, g)
  /\ job' = [job EXCEPT ![s] = [Idle EXCEPT !.pc = "hide", !.ids = {i}]]
  /\ UNCHANGED <<drawers, hidden, clock, crashes, retired>>

DeleteDrawer(s, i) ==
  /\ job[s] = Idle /\ i \in drawers
  /\ job' = [job EXCEPT ![s] = [Idle EXCEPT !.pc = "mark", !.ids = {i}, !.deleting = TRUE]]
  /\ UNCHANGED <<drawers, tomb, hidden, clock, crashes, due, retired>>

MarkDeleted(s) ==
  /\ job[s].pc = "mark"
  /\ \E i \in job[s].ids : Marked(i, 0)
  /\ job' = [job EXCEPT ![s].pc = "hide"]
  /\ UNCHANGED <<drawers, hidden, clock, crashes, retired>>

\* Mutant: the in-memory set is left to the next start.
HiddenLater(s) == hidden

HiddenNow(s) == [hidden EXCEPT ![s] = @ \cup job[s].ids]

Hide(s) ==
  /\ job[s].pc = "hide"
  /\ hidden' = HiddenNow(s)
  /\ retired' = [retired EXCEPT ![s] = @ \cup job[s].ids]
  /\ job' = [job EXCEPT ![s] = IF @.deleting THEN [@ EXCEPT !.pc = "collect"] ELSE Idle]
  /\ UNCHANGED <<drawers, tomb, clock, crashes, due>>

-----------------------------------------------------------------------------
(* gc_collect.                                                             *)

\* Mutant: the grace period must be exceeded.
PendingLate(i) == tomb[i] # None /\ clock > tomb[i]

\* Mutant: a tombstone is pending whatever its grace period.
PendingAlways(i) == tomb[i] # None

\* list_pending_gc.
Pending(i) == tomb[i] # None /\ clock >= tomb[i]

\* Mutant: every pending record is selected.
PendingOfAll(ids) == {i \in Id : Pending(i)}

PendingOf(ids) == {i \in ids : Pending(i)}

Selected(s, ids) ==
  LET pending == PendingOf(ids)
  IN job' = [job EXCEPT ![s] =
        IF pending = {} THEN Idle
        ELSE [@ EXCEPT !.pc = "drop", !.ids = ids, !.pending = pending]]

GcCollect(s, ids) ==
  /\ job[s] = Idle
  /\ Selected(s, ids)
  /\ UNCHANGED <<drawers, tomb, hidden, clock, crashes, due, retired>>

CollectDeleted(s) ==
  /\ job[s].pc = "collect"
  /\ Selected(s, job[s].ids)
  /\ UNCHANGED <<drawers, tomb, hidden, clock, crashes, due, retired>>

DropTombstones(s) ==
  /\ job[s].pc = "drop"
  /\ tomb' = [i \in Id |-> IF i \in job[s].pending THEN None ELSE tomb[i]]
  /\ job' = [job EXCEPT ![s].pc = "erase"]
  /\ UNCHANGED <<drawers, hidden, clock, crashes, due, retired>>

\* Mutant: only the tombstones are deleted.
ErasedNothing(s) == drawers

\* All records passed in are deleted, pending or not.
Erased(s) == drawers \ job[s].ids

EraseRecords(s) ==
  /\ job[s].pc = "erase"
  /\ drawers' = Erased(s)
  /\ due' = [i \in Id |-> IF i \in job[s].ids THEN tomb[i] ELSE due[i]]
  /\ job' = [job EXCEPT ![s].pc = "forget"]
  /\ UNCHANGED <<tomb, hidden, clock, crashes, retired>>

Forget(s) ==
  /\ job[s].pc = "forget"
  /\ hidden' = [hidden EXCEPT ![s] = @ \ job[s].pending]
  /\ job' = [job EXCEPT ![s] = Idle]
  /\ UNCHANGED <<drawers, tomb, clock, crashes, due, retired>>

-----------------------------------------------------------------------------
(* The environment.                                                        *)

\* A process dies and is started again: _load_tombstones.
Restart(s) ==
  /\ crashes < MaxCrashes
  /\ crashes' = crashes + 1
  /\ hidden' = [hidden EXCEPT ![s] = Tombstoned]
  /\ job' = [job EXCEPT ![s] = Idle]
  /\ UNCHANGED <<drawers, tomb, clock, due, retired>>

\* apply_changes of a sync upserts a record or a tombstone.
SyncRecord(i) ==
  /\ Synced
  /\ Written({i})
  /\ UNCHANGED <<tomb, hidden, job, clock, crashes, due>>

SyncTombstone(i, g) ==
  /\ Synced
  /\ Marked(i, g)
  /\ UNCHANGED <<drawers, hidden, job, clock, crashes, retired>>

Tick ==
  /\ clock < MaxClock
  /\ clock' = clock + 1
  /\ UNCHANGED <<drawers, tomb, hidden, job, crashes, due, retired>>

Step(s) ==
  \/ WriteDrawer(s)
  \/ MarkDeleted(s)
  \/ Hide(s)
  \/ CollectDeleted(s)
  \/ DropTombstones(s)
  \/ EraseRecords(s)
  \/ Forget(s)

Next ==
  \/ \E s \in Service, i \in Id :
       AddDrawer(s, i) \/ DeleteDrawer(s, i) \/ \E g \in Grace : CreateTombstone(s, i, g)
  \/ \E s \in Service, ids \in Batch : GcCollect(s, ids)
  \/ \E s \in Service : Step(s) \/ Restart(s)
  \/ \E i \in Id : SyncRecord(i) \/ \E g \in Grace : SyncTombstone(i, g)
  \/ Tick

Spec == Init /\ [][Next]_vars

-----------------------------------------------------------------------------
(* Properties.                                                             *)

\* The type invariant; an operation that deletes has something to delete.
TypeOK ==
  /\ drawers \subseteq Id
  /\ tomb \in [Id -> Nat \cup {None}] /\ due \in [Id -> Nat \cup {None}]
  /\ hidden \in [Service -> SUBSET Id] /\ retired \in [Service -> SUBSET Id]
  /\ job \in [Service ->
       [pc : {"idle", "write", "mark", "hide", "collect", "drop", "erase", "forget"},
        ids : SUBSET Id, pending : SUBSET Id, deleting : BOOLEAN]]
  /\ \A s \in Service : job[s].pending \subseteq job[s].ids
  /\ clock \in 0..MaxClock
  /\ crashes \in 0..MaxCrashes

\* Between two operations of a service, what carries a tombstone is hidden
\* from its reads, and nothing else is.  docs/sync.md:47, "applying a synced
\* tombstone locally hides the target record from normal reads".
HidesTombstoned ==
  \A s \in Service : job[s] = Idle => hidden[s] = Tombstoned

\* A record is deleted only when the last tombstone put on it has outlived
\* its grace period.  service.py:257, "Permanently delete records whose
\* tombstones have expired."
GraceHonoured ==
  [][\A i \in drawers \ drawers' : due[i] # None /\ due[i] <= clock]_vars

\* A record that a service has hidden does not come back in that service's
\* reads unless it has been written again.  protocol.py:60, "Logical
\* deletion: record_tombstone (grace period applies); permanent:
\* record_gc_collect after the grace period."
NoResurrection ==
  \A s \in Service : job[s] = Idle => retired[s] \cap drawers \subseteq hidden[s]

\* When delete_drawer answers, the drawer is gone (service.py:188).
DeleteHolds ==
  [][\A s \in Service :
       (job[s].deleting /\ job'[s] = Idle /\ crashes' = crashes) => job[s].ids \cap drawers' = {}]_vars
=============================================================================
