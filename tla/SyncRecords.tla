---------------------------- MODULE SyncRecords ----------------------------
(***************************************************************************)
(* The data of swampcastle/sync.py and the pure steps of its engine: which *)
(* records a change set selects, which of them win, what a collection and  *)
(* a version vector become.                                                *)
(*                                                                         *)
(* A record is reduced to what replication looks at: its id and the three  *)
(* fields sync_meta.inject_sync_meta adds (node_id, seq, updated_at).      *)
(* Document, embedding and the other metadata travel with it unread.       *)
(***************************************************************************)
EXTENDS Integers, FiniteSetsExt

CONSTANTS
  Node,   \* node identities; a number stands for the rank of the hex node_id
          \* in the lexicographic order that breaks ties
  Id      \* record ids

ASSUME NodeAssumption == Node \subseteq Nat

\* One write of one record: what identifies it for replication.
Version == [id : Id, node : Node, seq : Nat \ {0}, ts : Nat]

\* A missing entry of the dict and an entry 0 are the same thing to every
\* reader: VersionVector.get defaults to 0, and a filter over unknown nodes
\* asks for seq > 0.
VersionVector == [Node -> Nat]

EmptyVV == [n \in Node |-> 0]

(***************************************************************************)
(* Last writer wins: later updated_at, then the higher node id.  Equal on  *)
(* both counts is not a win, so an echo of a stored record is a loser.     *)
(***************************************************************************)
RemoteWins(remote, local) ==
  \/ remote.ts > local.ts
  \/ remote.ts = local.ts /\ remote.node > local.node

\* Mutant: an entry of the vector taken for the number of records held.
ChangesSinceSkipsOne(col, remoteVV) == {r \in col : r.seq > remoteVV[r.node] + 1}

\* get_changes_since: the records the remote vector does not claim.
ChangesSince(col, remoteVV) == {r \in col : r.seq > remoteVV[r.node]}

\* Mutant: the conflict check is dropped.
AcceptedAlways(col, cs) == cs

\* The records of a change set that apply_changes will upsert, judged
\* against the collection as it was read.
Accepted(col, cs) ==
  {r \in cs : \A local \in col : local.id = r.id => RemoteWins(r, local)}

\* A collection holds one record per id; an upsert replaces by id.
Upsert(col, rs) == {r \in col : \A u \in rs : u.id # r.id} \cup rs

\* The local records returned for the incoming records that lost.
WinningRecords(col, cs, accepted) ==
  {w \in col : \E r \in cs \ accepted : r.id = w.id}

\* Mutant: the maximum of the batch goes to every node's entry.
UpdateFromAnyRecord(vec, rs) ==
  [n \in Node |-> Max({vec[n]} \cup {r.seq : r \in rs})]

\* The per-node maximum over a batch of records.
UpdateFromRecords(vec, rs) ==
  [n \in Node |-> Max({vec[n]} \cup {r.seq : r \in {q \in rs : q.node = n}})]

\* SyncEngine.__init__: an empty vector beside a non-empty collection is
\* rebuilt from the metadata of the collection.
OpenedVV(vec, col) == IF vec = EmptyVV THEN UpdateFromRecords(EmptyVV, col) ELSE vec

-----------------------------------------------------------------------------
(* Vocabulary of the properties.                                           *)

\* The collection holds the version, or one of the same id that the version
\* would lose to: nothing is gained by sending it.
Covers(col, v) == \E h \in col : h.id = v.id /\ ~RemoteWins(v, h)

\* The records of new stand for those of col: the same ones or winners.
Monotone(col, new) ==
  \A r \in col : \E q \in new : q.id = r.id /\ (q = r \/ RemoteWins(q, r))

\* At most one record per id.
OnePerId(col) == \A r, q \in col : r.id = q.id => r = q
=============================================================================
