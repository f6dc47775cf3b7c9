----------------------------- MODULE SyncPaging -----------------------------
(***************************************************************************)
(* One direction of a sync, seen row by row: how the selection of records  *)
(* the other side has not seen (SyncEngine.get_changes_since) is cut into  *)
(* pages by limit and offset (sync_server.sync_pull, pull_paged of         *)
(* sync_client.py), or sent as one capped change set (the push), while     *)
(* other records land in the sender's collection between two requests.     *)
(* SyncReplication takes a whole pull as one step; this module opens it.   *)
(***************************************************************************)
EXTENDS SyncRecords, SequencesExt, Rows

CONSTANTS
  Limit,        \* records in a page of a pull
  Cap,          \* records in a push, the 100_000 of get_changes_since
  OrderedById,  \* TRUE: the backend returns rows ordered by id (PostgreSQL);
                \* FALSE: in the order they were last written (LanceDB)
  MaxSenderWrites     \* bound on the writes of a behaviour

ASSUME PagingAssumption ==
  /\ Limit \in Nat \ {0}
  /\ Cap \in Nat
  /\ OrderedById \in BOOLEAN
  /\ MaxSenderWrites \in Nat
  /\ Id \subseteq Nat

VARIABLES
  rows,      \* the sender's collection, in the order a query returns it
  seq,       \* the last number each node has used
  writes,    \* writes so far
  store,     \* the receiver's collection
  vec,       \* the receiver's vector, sent unchanged with every page request
  pc,        \* the transfer: "idle", "paging" or "apply"
  offset,    \* offset of the next page
  received,  \* the records received so far, in order of arrival
  begun,     \* history: the records that were selectable when it began
  disturbed  \* history: a record has been written during a transfer

pagingVars == <<rows, seq, writes, store, vec, pc, offset, received, begun, disturbed>>
transferVars == <<store, vec, pc, offset, received, begun>>

PagingInit ==
  /\ rows = <<>>
  /\ seq = [n \in Node |-> 0]
  /\ writes = 0
  /\ store = {}
  /\ vec = EmptyVV
  /\ pc = "idle"
  /\ offset = 0
  /\ received = <<>>
  /\ begun = {}
  /\ disturbed = FALSE

-----------------------------------------------------------------------------
(* The sender's collection.                                                *)

Without(s, i) == Picked(s, {k \in DOMAIN s : s[k].id # i})

Below(s, i) == Picked(s, {k \in DOMAIN s : s[k].id < i})
Beyond(s, i) == Picked(s, {k \in DOMAIN s : s[k].id > i})

\* Mutant: the old row is not removed.
PutBeside(s, r) == Append(s, r)

\* An upsert: ordered by id it takes the place its id has; otherwise the
\* rewritten row moves behind all others.
Put(s, r) ==
  IF OrderedById
    THEN Below(s, r.id) \o <<r>> \o Beyond(s, r.id)
    ELSE Append(Without(s, r.id), r)

\* A record written by node n reaches the sender: by a push, or locally.
WriteAtSender(n, i) ==
  /\ writes < MaxSenderWrites
  /\ rows' = Put(rows, [id |-> i, node |-> n, seq |-> seq[n] + 1, ts |-> writes + 1])
  /\ seq' = [seq EXCEPT ![n] = @ + 1]
  /\ writes' = writes + 1
  /\ disturbed' = (disturbed \/ pc # "idle")
  /\ UNCHANGED transferVars

-----------------------------------------------------------------------------
(* A transfer.                                                             *)

\* Mutant: one record of each node is taken for seen.
UnseenButOne(r) == r.seq > vec[r.node] + 1

\* The filter of _build_changes_filter.
Unseen(r) == r.seq > vec[r.node]

Selection == Picked(rows, {k \in DOMAIN rows : Unseen(rows[k])})

\* What a query with limit and offset returns of the selection.
Query(limit, o) == SubSeq(Selection, o + 1, Min({o + limit, Len(Selection)}))

\* Mutant: a full page is taken for the last one.
HasMoreBeyond(page) == Len(page) > Limit

\* A saturated page announces another one.
HasMore(page) == Len(page) >= Limit

\* Mutant: the offset counts from one.
NextOffsetSkips == offset + Limit + 1

NextOffset == offset + Limit

\* A pull begins.
Begin ==
  /\ pc = "idle"
  /\ pc' = "paging"
  /\ offset' = 0
  /\ received' = <<>>
  /\ begun' = ToSet(Selection)
  /\ UNCHANGED <<rows, seq, writes, store, vec, disturbed>>

\* One request of the pull.
Page ==
  LET page == Query(Limit, offset)
  IN /\ pc = "paging"
     /\ received' = received \o page
     /\ pc' = IF HasMore(page) THEN "paging" ELSE "apply"
     /\ offset' = IF HasMore(page) THEN NextOffset ELSE offset
     /\ UNCHANGED <<rows, seq, writes, store, vec, begun, disturbed>>

\* A push: the whole selection up to the cap is read and sent at once.
Push ==
  /\ pc = "idle"
  /\ Selection # <<>>
  /\ pc' = "apply"
  /\ received' = Query(Cap, 0)
  /\ begun' = ToSet(Selection)
  /\ UNCHANGED <<rows, seq, writes, store, vec, offset, disturbed>>

\* All that was received is one change set for the receiver's apply_changes.
Apply ==
  LET cs == ToSet(received)
  IN /\ pc = "apply"
     /\ store' = Upsert(store, Accepted(store, cs))
     /\ vec' = UpdateFromRecords(vec, cs)
     /\ pc' = "idle"
     /\ UNCHANGED <<rows, seq, writes, offset, received, begun, disturbed>>

PagingNext ==
  \/ \E n \in Node, i \in Id : WriteAtSender(n, i)
  \/ Begin
  \/ Page
  \/ Push
  \/ Apply

PagingSpec == PagingInit /\ [][PagingNext]_pagingVars

\* The user syncs again and again, and a transfer that runs goes on.
PagingFairness == WF_pagingVars(Begin) /\ WF_pagingVars(Page) /\ WF_pagingVars(Apply)

PagingFairSpec == PagingSpec /\ PagingFairness

-----------------------------------------------------------------------------
(* Properties.                                                             *)

\* The type invariant; the sender's query never returns an id twice.
PagingTypeOK ==
  /\ ToSet(rows) \subseteq Version /\ OnePerId(ToSet(rows)) /\ IsInjective(rows)
  /\ seq \in VersionVector
  /\ writes \in 0..MaxSenderWrites
  /\ store \subseteq Version
  /\ vec \in VersionVector
  /\ pc \in {"idle", "paging", "apply"}
  /\ offset \in Nat
  /\ ToSet(received) \subseteq Version
  /\ begun \subseteq Version
  /\ disturbed \in BOOLEAN

\* A transfer brings over whatever was selectable when it began and has not
\* been replaced since.  sync_client.py:103-105, "The same version vector is
\* sent on every page request so the result set is stable for the duration
\* of the sync session".
NothingSkipped ==
  pc = "apply" => begun \cap ToSet(rows) \subseteq ToSet(received)

\* As long as no record was written in the middle of a transfer, the
\* receiver's vector claims after each one only what it holds or has
\* superseded: what the vector masks is never sent again.
NoHole ==
  pc = "idle" /\ ~disturbed =>
    \A r \in ToSet(rows) : r.seq <= vec[r.node] => Covers(store, r)

\* If no record is ever written in the middle of a transfer, the receiver
\* comes to hold, or to have superseded, everything the sender holds.
CatchesUp ==
  [](~disturbed) => <>[](\A r \in ToSet(rows) : Covers(store, r))

\* A transfer in pages loses no record, neither at once nor behind the vector.
PagingSound == NoHole /\ NothingSkipped
=============================================================================
