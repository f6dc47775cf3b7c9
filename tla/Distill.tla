------------------------------ MODULE Distill ------------------------------
(***************************************************************************)
(* DistillEngine (services/vault/distill.py): the summaries of the records *)
(* read at the start are computed in a pool of workers, whose results come *)
(* back in any order, and are written to the collection in the order of    *)
(* the records; or they are computed one after the other and then written. *)
(* A step is one turn of a loop, one result or one update call; a worker   *)
(* may raise, and the process may die, at any moment.                      *)
(***************************************************************************)
EXTENDS Integers, FiniteSets

CONSTANTS
  N,          \* number of records read: 1..N, in the order of ids
  TaskSize,   \* records handed to a worker at a time
  Window,     \* in_flight_limit
  WriteSize   \* _DISTILL_WRITE_BATCH_SIZE

ASSUME DistillAssumption ==
  N \in Nat \ {0} /\ TaskSize \in Nat \ {0} /\ Window \in Nat \ {0} /\ WriteSize \in Nat \ {0}

VARIABLES
  state,     \* "fill" the window, "wait" for a result, "drain" the results
             \* that are due, "compress" (sequential), "persist", "done" or "failed"
  taken,     \* records handed to workers so far
  slots,     \* free places in the window
  flying,    \* the tasks at the workers, each the set of its records
  ready,     \* ready_results
  next,      \* next_write_index
  buffer,    \* write_buffer, or the updates of the sequential run
  written    \* the records whose update has been written

distillVars == <<state, taken, slots, flying, ready, next, buffer, written>>

DistillInit ==
  /\ state \in {"fill", "compress"}
  /\ taken = 0 /\ slots = Window /\ flying = {}
  /\ ready = {} /\ next = 0 /\ buffer = {} /\ written = {}

\* Mutant: the last record ends no task.
UpToLast(k) == IF k < N THEN k ELSE N - 1

UpTo(k) == IF k < N THEN k ELSE N
Task == (taken + 1)..UpTo(taken + TaskSize)

Submit ==
  /\ flying' = flying \cup {Task}
  /\ taken' = UpTo(taken + TaskSize)
  /\ slots' = slots - 1

Fill ==
  /\ state = "fill"
  /\ IF slots > 0 /\ taken < N
     THEN Submit /\ UNCHANGED state
     ELSE state' = "wait" /\ UNCHANGED <<flying, taken, slots>>
  /\ UNCHANGED <<ready, next, buffer, written>>

\* wait(pending, FIRST_COMPLETED) returns a task that has finished.
Result(t) ==
  /\ state = "wait" /\ t \in flying
  /\ flying' = flying \ {t}
  /\ slots' = slots + 1
  /\ ready' = ready \cup t
  /\ state' = "drain"
  /\ UNCHANGED <<taken, next, buffer, written>>

\* future.result() raises, and with it the run: what is buffered is not written.
WorkerRaises ==
  /\ state = "wait" /\ flying # {}
  /\ state' = "failed"
  /\ UNCHANGED <<taken, slots, flying, ready, next, buffer, written>>

\* Mutant: results are written as they come.
DueAny == ready

Due == {i \in ready : i = next + 1}

Full(updates) == Cardinality(updates) >= WriteSize

\* The next record in order is moved to the buffer, which is written when full.
DrainOne ==
  /\ state = "drain"
  /\ \E i \in Due :
       /\ ready' = ready \ {i}
       /\ next' = next + 1
       /\ IF Full(buffer \cup {i})
          THEN written' = written \cup buffer \cup {i} /\ buffer' = {}
          ELSE buffer' = buffer \cup {i} /\ UNCHANGED written
  /\ UNCHANGED <<state, taken, slots, flying>>

\* Mutant: no task is submitted for one that has finished.
RefillNot == UNCHANGED <<flying, taken, slots>>

Refill == IF taken < N THEN Submit ELSE UNCHANGED <<flying, taken, slots>>

\* Nothing more is due: another task is submitted; nothing pending ends the loop.
Drained ==
  /\ state = "drain" /\ Due = {}
  /\ Refill
  /\ state' = IF flying' = {} THEN "persist" ELSE "wait"
  /\ UNCHANGED <<ready, next, buffer, written>>

\* _sequential.
Compress ==
  /\ state = "compress"
  /\ IF next < N
     THEN /\ next' = next + 1
          /\ buffer' = buffer \cup {next + 1}
          /\ UNCHANGED state
     ELSE state' = "persist" /\ UNCHANGED <<next, buffer>>
  /\ UNCHANGED <<taken, slots, flying, ready, written>>

\* Mutant: the last, incomplete batch is dropped.
NextBatchFull == {i \in buffer : Full(buffer) /\ i < Cardinality(written) + 1 + WriteSize}

\* The range of updates that _flush_with_progress writes next.
NextBatch == {i \in buffer : i < Cardinality(written) + 1 + WriteSize}

Persist ==
  /\ state = "persist"
  /\ IF NextBatch # {}
     THEN written' = written \cup NextBatch /\ buffer' = buffer \ NextBatch /\ UNCHANGED state
     ELSE state' = "done" /\ UNCHANGED <<written, buffer>>
  /\ UNCHANGED <<taken, slots, flying, ready, next>>

Die ==
  /\ state \notin {"done", "failed"}
  /\ state' = "failed"
  /\ UNCHANGED <<taken, slots, flying, ready, next, buffer, written>>

DistillStep ==
  Fill \/ (\E t \in flying : Result(t)) \/ DrainOne \/ Drained \/ Compress \/ Persist

DistillNext == DistillStep \/ WorkerRaises \/ Die

\* The pool always returns a result in the end, and the loops do not pause.
DistillSpec == DistillInit /\ [][DistillNext]_distillVars /\ WF_distillVars(DistillStep)

-----------------------------------------------------------------------------
(* Properties.                                                             *)

\* The type invariant.
DistillTypeOK ==
  /\ state \in {"fill", "wait", "drain", "compress", "persist", "done", "failed"}
  /\ taken \in 0..N /\ next \in 0..N /\ slots \in 0..Window
  /\ flying \subseteq SUBSET (1..N)
  /\ ready \subseteq 1..N /\ buffer \subseteq 1..N /\ written \subseteq 1..N

\* Until the run ends, every record is in exactly one place: not yet handed
\* out, at a worker, waiting for its turn, in the buffer, or written.  Results
\* that overtake each other must not lose a record or write it twice.
EveryRecordOnce ==
  /\ \A t \in flying : t \subseteq 1..taken /\ t \cap (1..next \cup ready) = {}
  /\ \A t, u \in flying : t # u => t \cap u = {}
  /\ state # "compress" /\ state # "persist" /\ state # "done" /\ state # "failed" =>
       1..taken = 1..next \cup ready \cup UNION flying
  /\ ready \cap 1..next = {}
  /\ buffer \cap written = {}
  /\ buffer \cup written = 1..next

\* Workers never hold more than the window allows.
WithinWindow == Cardinality(flying) <= Window

\* A parallel run, as a sequential one, writes the summaries in the order of
\* the records, and all of them unless it fails.
InOrder == INSTANCE DistillInOrder WITH
  ended <- IF state \in {"done", "failed"} THEN state ELSE "no"

ImplementsInOrder == InOrder!Spec

\* Every run comes to an end.
DistillEnds == <>(state \in {"done", "failed"})
=============================================================================
