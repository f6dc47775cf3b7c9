-------------------------- MODULE TombstoneProofs ---------------------------
(***************************************************************************)
(* Proofs about Tombstones, for any number of services, records, grace     *)
(* periods and steps of the clock.                                         *)
(***************************************************************************)
EXTENDS Tombstones, TLAPS

\* One process works on a collection no sync writes into.
Alone == ~Synced /\ \A s, t \in Service : s = t

\* Callers of gc_collect pass one record at a time, as delete_drawer does.
OneAtATime == \A ids \in Batch : \A i, j \in ids : i = j

-----------------------------------------------------------------------------
(* Types.                                                                  *)

\* None is no time.
LEMMA NoneIsNoTime == None \notin Nat
BY SMT DEF None

\* A step keeps the types.
LEMMA TypeStep == TypeOK /\ [Next]_vars => TypeOK'
<1> SUFFICES ASSUME TypeOK, [Next]_vars PROVE TypeOK'
  OBVIOUS
<1> USE TombstoneAssumption DEF TypeOK, Idle
<1>1. ASSUME NEW s \in Service, NEW i \in Id, AddDrawer(s, i) PROVE TypeOK'
  BY <1>1 DEF AddDrawer
<1>2. ASSUME NEW s \in Service, NEW i \in Id, DeleteDrawer(s, i) PROVE TypeOK'
  BY <1>2 DEF DeleteDrawer
<1>3. ASSUME NEW s \in Service, NEW i \in Id, NEW g \in Grace, CreateTombstone(s, i, g) PROVE TypeOK'
  <2>1. clock + g \in Nat
    OBVIOUS
  <2> QED BY <1>3, <2>1 DEF CreateTombstone, Marked
<1>4. ASSUME NEW s \in Service, NEW ids \in Batch, GcCollect(s, ids) PROVE TypeOK'
  <2>1. ids \subseteq Id
    OBVIOUS
  <2> QED BY <1>4, <2>1 DEF GcCollect, Selected, PendingOf
<1>5. ASSUME NEW s \in Service, Step(s) PROVE TypeOK'
  <2>1. CASE WriteDrawer(s)
    BY <2>1 DEF WriteDrawer, Written
  <2>2. CASE MarkDeleted(s)
    <3>1. PICK i \in job[s].ids : Marked(i, 0)
      BY <2>2 DEF MarkDeleted
    <3>2. i \in Id /\ clock + 0 \in Nat
      BY <3>1
    <3> QED BY <2>2, <3>1, <3>2 DEF MarkDeleted, Marked
  <2>3. CASE Hide(s)
    BY <2>3 DEF Hide, HiddenNow
  <2>4. CASE CollectDeleted(s)
    BY <2>4 DEF CollectDeleted, Selected, PendingOf
  <2>5. CASE DropTombstones(s)
    BY <2>5 DEF DropTombstones
  <2>6. CASE EraseRecords(s)
    BY <2>6 DEF EraseRecords, Erased
  <2>7. CASE Forget(s)
    BY <2>7 DEF Forget
  <2> QED BY <1>5, <2>1, <2>2, <2>3, <2>4, <2>5, <2>6, <2>7 DEF Step
<1>6. ASSUME NEW s \in Service, Restart(s) PROVE TypeOK'
  BY <1>6 DEF Restart, Tombstoned
<1>7. ASSUME NEW i \in Id, SyncRecord(i) PROVE TypeOK'
  BY <1>7 DEF SyncRecord, Written
<1>8. ASSUME NEW i \in Id, NEW g \in Grace, SyncTombstone(i, g) PROVE TypeOK'
  <2>1. clock + g \in Nat
    OBVIOUS
  <2> QED BY <1>8, <2>1 DEF SyncTombstone, Marked
<1>9. CASE Tick
  BY <1>9 DEF Tick
<1>10. CASE UNCHANGED vars
  BY <1>10 DEF vars
<1> QED BY <1>1, <1>2, <1>3, <1>4, <1>5, <1>6, <1>7, <1>8, <1>9, <1>10 DEF Next

\* Every variable keeps its type, and a service collects only records it was
\* asked to collect.
THEOREM TypeCorrect == Spec => []TypeOK
<1>1. Init => TypeOK
  BY TombstoneAssumption DEF Init, TypeOK, Idle
<1> QED BY <1>1, TypeStep, PTL DEF Spec

-----------------------------------------------------------------------------
(* What was hidden stays hidden.                                           *)

\* Inductive: a hidden record that is still there is hidden at every moment,
\* and what a service is about to forget is gone or was written again.
HiddenInv ==
  \A s \in Service :
    /\ retired[s] \cap drawers \subseteq hidden[s]
    /\ job[s].pc = "forget" => retired[s] \cap drawers \cap job[s].pending = {}

\* A step without a restart keeps HiddenInv.
LEMMA HiddenStep ==
  ASSUME TypeOK, HiddenInv, [Next]_vars, MaxCrashes = 0
  PROVE  HiddenInv'
<1> USE DEF HiddenInv
<1>1. ASSUME NEW s \in Service, NEW i \in Id, AddDrawer(s, i) PROVE HiddenInv'
  BY <1>1 DEF AddDrawer, Idle, TypeOK
<1>2. ASSUME NEW s \in Service, NEW i \in Id, DeleteDrawer(s, i) PROVE HiddenInv'
  BY <1>2 DEF DeleteDrawer, Idle, TypeOK
<1>3. ASSUME NEW s \in Service, NEW i \in Id, NEW g \in Grace, CreateTombstone(s, i, g) PROVE HiddenInv'
  BY <1>3 DEF CreateTombstone, Idle, TypeOK
<1>4. ASSUME NEW s \in Service, NEW ids \in Batch, GcCollect(s, ids) PROVE HiddenInv'
  BY <1>4 DEF GcCollect, Selected, Idle, TypeOK
<1>5. ASSUME NEW s \in Service, Step(s) PROVE HiddenInv'
  <2>1. CASE WriteDrawer(s)
    BY <2>1 DEF WriteDrawer, Written, Idle, TypeOK
  <2>2. CASE MarkDeleted(s)
    BY <2>2 DEF MarkDeleted, TypeOK
  <2>3. CASE Hide(s)
    BY <2>3 DEF Hide, HiddenNow, Idle, TypeOK
  <2>4. CASE CollectDeleted(s)
    BY <2>4 DEF CollectDeleted, Selected, Idle, TypeOK
  <2>5. CASE DropTombstones(s)
    BY <2>5 DEF DropTombstones, TypeOK
  <2>6. CASE EraseRecords(s)
    BY <2>6 DEF EraseRecords, Erased, TypeOK
  <2>7. CASE Forget(s)
    BY <2>7 DEF Forget, Idle, TypeOK
  <2> QED BY <1>5, <2>1, <2>2, <2>3, <2>4, <2>5, <2>6, <2>7 DEF Step
<1>6. ASSUME NEW s \in Service, Restart(s) PROVE HiddenInv'
  BY <1>6, SMT DEF Restart, TypeOK
<1>7. ASSUME NEW i \in Id, SyncRecord(i) PROVE HiddenInv'
  BY <1>7 DEF SyncRecord, Written, TypeOK
<1>8. ASSUME NEW i \in Id, NEW g \in Grace, SyncTombstone(i, g) PROVE HiddenInv'
  BY <1>8 DEF SyncTombstone
<1>9. CASE Tick
  BY <1>9 DEF Tick
<1>10. CASE UNCHANGED vars
  BY <1>10 DEF vars
<1> QED BY <1>1, <1>2, <1>3, <1>4, <1>5, <1>6, <1>7, <1>8, <1>9, <1>10 DEF Next

\* As long as no process dies, a record that a service has hidden never comes
\* back in its reads unless it is written again, whatever other services and
\* a sync do to the same record meanwhile.
THEOREM HiddenStaysHidden == MaxCrashes = 0 => (Spec => []NoResurrection)
<1> SUFFICES ASSUME MaxCrashes = 0 PROVE Spec => []NoResurrection
  OBVIOUS
<1>1. Init => HiddenInv
  BY DEF Init, HiddenInv, Idle
<1>2. TypeOK /\ HiddenInv /\ [Next]_vars => HiddenInv'
  BY HiddenStep
<1>3. HiddenInv => NoResurrection
  BY DEF HiddenInv, NoResurrection
<1> QED BY <1>1, <1>2, <1>3, TypeCorrect, PTL DEF Spec

-----------------------------------------------------------------------------
(* A service that works alone.                                             *)

\* What its in-memory set is, by the place the service has reached.
SetInStep(s) ==
  /\ job[s].pc \in {"idle", "write", "mark", "collect", "drop"} => hidden[s] = Tombstoned
  /\ job[s].pc = "hide" => hidden[s] \cup job[s].ids = Tombstoned
  /\ job[s].pc \in {"erase", "forget"} => hidden[s] \ job[s].pending = Tombstoned

\* What is about to be deleted has outlived its grace period.
ExpiredInStep(s) ==
  /\ job[s].pc \in {"mark", "hide", "collect"} => \A i, j \in job[s].ids : i = j
  /\ job[s].pc \in {"drop", "erase"} => \A i \in job[s].ids : due[i] # None /\ due[i] <= clock

\* How far delete_drawer has come.
DeleteInStep(s) ==
  /\ job[s].pc = "write" => ~job[s].deleting
  /\ (job[s].deleting /\ job[s].pc \in {"hide", "collect"}) =>
        \A i \in job[s].ids : tomb[i] # None /\ tomb[i] <= clock
  /\ job[s].pc = "forget" => job[s].ids \cap drawers = {}

\* Inductive for a service that works alone.
AloneInv ==
  /\ \A i \in Id : tomb[i] # None => due[i] = tomb[i]
  /\ \A s \in Service : SetInStep(s) /\ ExpiredInStep(s) /\ DeleteInStep(s)

\* A step of the lone service keeps AloneInv.
LEMMA AloneStep ==
  ASSUME Alone, OneAtATime, TypeOK, AloneInv, [Next]_vars
  PROVE  AloneInv'
<1> USE DEF AloneInv, SetInStep, ExpiredInStep, DeleteInStep, Alone, Tombstoned
<1>1. ASSUME NEW s \in Service, NEW i \in Id, AddDrawer(s, i) PROVE AloneInv'
  BY <1>1 DEF AddDrawer, Idle, TypeOK
<1>2. ASSUME NEW s \in Service, NEW i \in Id, DeleteDrawer(s, i) PROVE AloneInv'
  BY <1>2 DEF DeleteDrawer, Idle, TypeOK
<1>3. ASSUME NEW s \in Service, NEW i \in Id, NEW g \in Grace, CreateTombstone(s, i, g) PROVE AloneInv'
  <2>1. clock + g \in Nat
    BY TombstoneAssumption DEF TypeOK
  <2>2. clock + g # None
    BY <2>1, NoneIsNoTime
  <2> QED BY <1>3, <2>1, <2>2 DEF CreateTombstone, Marked, Idle, TypeOK
<1>4. ASSUME NEW s \in Service, NEW ids \in Batch, GcCollect(s, ids) PROVE AloneInv'
  <2>1. ids \subseteq Id /\ \A i, j \in ids : i = j
    BY TombstoneAssumption DEF OneAtATime
  <2> QED BY <1>4, <2>1 DEF GcCollect, Selected, PendingOf, Pending, Idle, TypeOK
<1>5. ASSUME NEW s \in Service, Step(s) PROVE AloneInv'
  <2>1. CASE WriteDrawer(s)
    BY <2>1 DEF WriteDrawer, Written, Idle, TypeOK
  <2>2. CASE MarkDeleted(s)
    <3>1. PICK i \in job[s].ids : Marked(i, 0)
      BY <2>2 DEF MarkDeleted
    <3>2. i \in Id /\ clock + 0 = clock /\ clock # None /\ job[s].ids = {i}
      BY <2>2, <3>1, NoneIsNoTime DEF MarkDeleted, TypeOK
    <3> QED BY <2>2, <3>1, <3>2 DEF MarkDeleted, Marked, TypeOK
  <2>3. CASE Hide(s)
    BY <2>3 DEF Hide, HiddenNow, Idle, TypeOK
  <2>4. CASE CollectDeleted(s)
    BY <2>4 DEF CollectDeleted, Selected, PendingOf, Pending, Idle, TypeOK
  <2>5. CASE DropTombstones(s)
    BY <2>5 DEF DropTombstones, TypeOK
  <2>6. CASE EraseRecords(s)
    BY <2>6 DEF EraseRecords, Erased, TypeOK
  <2>7. CASE Forget(s)
    BY <2>7 DEF Forget, Idle, TypeOK
  <2> QED BY <1>5, <2>1, <2>2, <2>3, <2>4, <2>5, <2>6, <2>7 DEF Step
<1>6. ASSUME NEW s \in Service, Restart(s) PROVE AloneInv'
  BY <1>6 DEF Restart, Idle, TypeOK
<1>7. ASSUME NEW i \in Id, SyncRecord(i) \/ \E g \in Grace : SyncTombstone(i, g) PROVE AloneInv'
  BY <1>7 DEF SyncRecord, SyncTombstone
<1>8. CASE Tick
  <2>1. /\ clock \in Int /\ clock' = clock + 1
        /\ \A i \in Id : tomb[i] \in Int /\ due[i] \in Int
    BY <1>8 DEF Tick, TypeOK, None
  <2> QED BY <1>8, <2>1 DEF Tick, TypeOK
<1>9. CASE UNCHANGED vars
  BY <1>9 DEF vars
<1> QED BY <1>1, <1>2, <1>3, <1>4, <1>5, <1>6, <1>7, <1>8, <1>9 DEF Next

\* AloneInv holds in every reachable state.
THEOREM AloneInvariant == (Alone /\ OneAtATime) => (Spec => []AloneInv)
<1> SUFFICES ASSUME Alone, OneAtATime PROVE Spec => []AloneInv
  OBVIOUS
<1>1. Init => AloneInv
  BY DEF Init, AloneInv, SetInStep, ExpiredInStep, DeleteInStep, Idle, Tombstoned
<1>2. TypeOK /\ AloneInv /\ [Next]_vars => AloneInv'
  BY AloneStep
<1> QED BY <1>1, <1>2, TypeCorrect, PTL DEF Spec

\* A service that works alone hides exactly what carries a tombstone.
THEOREM TombstonedHidden == (Alone /\ OneAtATime) => (Spec => []HidesTombstoned)
<1> SUFFICES ASSUME Alone, OneAtATime PROVE Spec => []HidesTombstoned
  OBVIOUS
<1>1. AloneInv => HidesTombstoned
  BY DEF AloneInv, SetInStep, HidesTombstoned, Idle
<1> QED BY <1>1, AloneInvariant, PTL

\* A service that works alone, and is asked to collect one record at a time,
\* deletes no record before the grace period of its tombstone is over.
THEOREM GraceHonouredAlone == (Alone /\ OneAtATime) => (Spec => GraceHonoured)
<1> SUFFICES ASSUME Alone, OneAtATime PROVE Spec => GraceHonoured
  OBVIOUS
<1> DEFINE Honoured == \A i \in drawers \ drawers' : due[i] # None /\ due[i] <= clock
<1>1. TypeOK /\ AloneInv /\ [Next]_vars => [Honoured]_vars
  <2> SUFFICES ASSUME TypeOK, AloneInv, Next, NEW i \in drawers, i \notin drawers'
               PROVE  due[i] # None /\ due[i] <= clock
    OBVIOUS
  <2>1. PICK s \in Service : EraseRecords(s)
    BY DEF Next, Step, AddDrawer, DeleteDrawer, CreateTombstone, GcCollect, Restart,
           SyncRecord, SyncTombstone, Tick, WriteDrawer, Written, MarkDeleted, Hide,
           CollectDeleted, DropTombstones, Forget
  <2> QED BY <2>1 DEF EraseRecords, Erased, AloneInv, ExpiredInStep
<1> QED BY <1>1, AloneInvariant, TypeCorrect, PTL DEF Spec, GraceHonoured

\* When delete_drawer of a service that works alone answers, the drawer is
\* gone: its own tombstone is never found pending too late.
THEOREM DeleteHoldsAlone == (Alone /\ OneAtATime) => (Spec => DeleteHolds)
<1> SUFFICES ASSUME Alone, OneAtATime PROVE Spec => DeleteHolds
  OBVIOUS
<1> DEFINE Holds(s) == (job[s].deleting /\ job'[s] = Idle /\ crashes' = crashes)
                          => job[s].ids \cap drawers' = {}
           Gone == \A s \in Service : Holds(s)
<1>1. TypeOK /\ AloneInv /\ [Next]_vars => [Gone]_vars
  <2> SUFFICES ASSUME TypeOK, AloneInv, Next, NEW s \in Service, job[s].deleting,
                      job'[s] = Idle, crashes' = crashes
               PROVE  job[s].ids \cap drawers' = {}
    OBVIOUS
  <2>1. job'[s] # job[s] /\ job[s] # Idle
    BY DEF Idle
  <2>2. \A t \in Service : t = s
    BY DEF Alone
  <2>3. Step(s)
    <3>1. \A i \in Id, g \in Grace : ~CreateTombstone(s, i, g)
      BY <2>1 DEF CreateTombstone
    <3>2. \A i \in Id : ~AddDrawer(s, i) /\ ~DeleteDrawer(s, i)
      BY <2>1 DEF AddDrawer, DeleteDrawer
    <3>3. \A ids \in Batch : ~GcCollect(s, ids)
      BY <2>1 DEF GcCollect
    <3>4. ~Restart(s)
      BY DEF Restart, TypeOK
    <3>5. ~Tick
      BY <2>1 DEF Tick
    <3>6. \A i \in Id, g \in Grace : ~SyncTombstone(i, g)
      BY DEF SyncTombstone, Alone
    <3>7. \A i \in Id : ~SyncRecord(i)
      BY DEF SyncRecord, Alone
    <3> HIDE DEF Holds, Gone
    <3> QED BY <2>2, <3>1, <3>2, <3>3, <3>4, <3>5, <3>6, <3>7 DEF Next
  <2>5. CASE Forget(s)
    BY <2>5 DEF Forget, AloneInv, DeleteInStep
  <2>6. CASE CollectDeleted(s)
    <3>1. \A i \in job[s].ids : Pending(i)
      BY <2>6 DEF CollectDeleted, AloneInv, DeleteInStep, Pending, TypeOK, None
    <3>2. PendingOf(job[s].ids) = {}
      BY <2>6 DEF CollectDeleted, Selected, TypeOK, Idle
    <3> QED BY <3>1, <3>2 DEF PendingOf
  <2>7. CASE WriteDrawer(s)
    BY <2>7 DEF WriteDrawer, AloneInv, DeleteInStep
  <2>8. CASE Hide(s)
    BY <2>8 DEF Hide, TypeOK, Idle
  <2>9. CASE MarkDeleted(s) \/ DropTombstones(s) \/ EraseRecords(s)
    BY <2>9 DEF MarkDeleted, DropTombstones, EraseRecords, TypeOK, Idle
  <2> QED BY <2>3, <2>5, <2>6, <2>7, <2>8, <2>9 DEF Step
<1> QED BY <1>1, AloneInvariant, TypeCorrect, PTL DEF Spec, DeleteHolds
=============================================================================
