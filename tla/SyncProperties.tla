-------------------------- MODULE SyncProperties ---------------------------
(***************************************************************************)
(* The correctness properties of SyncReplication.                          *)
(***************************************************************************)
EXTENDS SyncReplication

\* The variables keep the shapes the engine, the client and the server give
\* them: the type invariant.
TypeOK ==
  /\ store \in [Node -> SUBSET Version]
  /\ vv \in [Node -> VersionVector]
  /\ seq \in [Node -> Nat]
  /\ pending \in [Node -> SUBSET Version]
  /\ now \in Nat
  /\ job \in [Node -> Job]
  /\ session \in [Client -> Session]
  /\ wire \in [Client -> SUBSET Version]
  /\ up \in BOOLEAN
  /\ faults \in Nat
  /\ written \in SUBSET Version

-----------------------------------------------------------------------------
(* Names for parts of the state.                                           *)

\* Every copy of a record anywhere in the system.
Copies ==
  (UNION {store[n] \cup pending[n] \cup job[n].cs : n \in Node})
    \cup (UNION {wire[c] \cup session[c].inbox : c \in Client})
    \cup written

\* Every write so far, landed or still under way.
Made == written \cup UNION {pending[n] : n \in Node}

\* The hub holds, or has superseded, everything that node a wrote up to
\* sequence number s.
HubHasUpTo(a, s) ==
  \A v \in written : v.node = a /\ v.seq <= s => Covers(store[Hub], v)

\* The vector of node n claims only versions that n holds or has superseded.
VVSound(n) == \A v \in written : v.seq <= vv[n][v.node] => Covers(store[n], v)

-----------------------------------------------------------------------------
(* Safety.                                                                 *)

\* The pair (node_id, seq) names one write: two copies that carry the same
\* pair, in any collection, queue or message, are the same record.  This is
\* what lets a vector of maxima stand for sets of writes; next_seq under its
\* file lock and the raw upserts of apply_changes are to guarantee it.
VersionUnique ==
  \A r, q \in Copies : r.node = q.node /\ r.seq = q.seq => r = q

\* What the sequence counters guarantee, whoever writes: records in the
\* engines, queues and messages have landed; no two writes, landed or under
\* way, share a number of a node; nothing is numbered, and no vector claims,
\* beyond the counter.  TypeOK and VersionUnique follow by induction.
NumberInv ==
  /\ TypeOK
  /\ \A n \in Node : store[n] \cup job[n].cs \cup job[n].accepted \subseteq written
  /\ \A c \in Client : wire[c] \cup session[c].inbox \subseteq written
  /\ \A n \in Node : \A r \in pending[n] : r.node = n /\ r \notin written
  /\ \A r \in Made : r.seq <= seq[r.node]
  /\ \A r, q \in Made : r.node = q.node /\ r.seq = q.seq => r = q
  /\ \A n, a \in Node : vv[n][a] <= seq[a]
  /\ \A c \in Client, a \in Node : session[c].serverVV[a] <= seq[a]

\* A hub whose vector claims a write holds that write or a later winner for
\* its id.  Clients never send again what the vector claims, so a hole here
\* would be permanent; crashes, lost or late pushes and stale status
\* answers must not open one.
HubSound == VVSound(Hub)

\* The same for every node: what a client's vector claims is never pulled
\* again, so a claim without the record loses the record on that client.
AllSound == \A n \in Node : VVSound(n)

\* Except by a writer's own upsert, a record gives way only to one that wins
\* over it, and none disappears: apply_changes must not let an older version
\* overwrite a newer one, nor may a crash or a restart.
StoreMonotone ==
  [][written' = written => \A n \in Node : Monotone(store[n], store'[n])]_vars

\* A pull that completes brings the client everything it has not seen: each
\* record of the hub is in the answer, or the client holds it or a winner.
\* sync.py:5-6, "On sync, nodes exchange records the other hasn't seen yet".
PullDelivers ==
  [][\A c \in Client :
       session[c].pc = "pull" /\ session'[c].pc # "pull" /\ faults' = faults
         => \A r \in store[Hub] : Covers(store[c], r) \/ r \in session'[c].inbox]_vars

-----------------------------------------------------------------------------
(***************************************************************************)
(* Why HubSound holds: its inductive strengthening, for a dedicated hub    *)
(* (nothing writes there but the server), one writer per client, and local *)
(* writes that keep out of the middle of apply_changes, or to ids that no  *)
(* other node writes.                                                      *)
(***************************************************************************)
Separate == \A n, m \in Node : n # m => Editable[n] \cap Editable[m] = {}

Dedicated == Editable[Hub] = {} /\ SoleWriter /\ (Quiet \/ Separate)

\* How far the writes of node a have landed: its counter, less the one
\* number that a write under way has taken.
Landed(a) == IF pending[a] = {} THEN seq[a] ELSE seq[a] - 1

\* A write under way carries the latest number and stamp of its node.
PendingIsLatest ==
  \A n \in Node : \A r \in pending[n] :
    /\ r.seq = seq[n]
    /\ \A q \in pending[n] : q = r

\* The stamps of a node's writes grow with their numbers, and none is ahead
\* of the node's clock.
Stamps ==
  /\ \A r \in written : r.seq <= Landed(r.node)
  /\ \A r \in Made : r.ts <= now + Drift[r.node]
  /\ \A r, q \in Made : r.node = q.node /\ r.seq < q.seq => r.ts < q.ts

\* Collections and change sets hold one record per id, and what an engine is
\* about to upsert is still what wins over the collection.
Applies ==
  /\ \A n \in Node : OnePerId(store[n]) /\ OnePerId(job[n].cs)
  /\ \A c \in Client : OnePerId(wire[c]) /\ OnePerId(session[c].inbox)
  /\ \A n \in Node : job[n].accepted = Accepted(store[n], job[n].cs)
  /\ \A c \in Client : Applying(c) =>
       session[c].pc \in {"merge", "fill"} /\ job[c].cs \subseteq session[c].inbox

\* A record is written by a node that edits its id.
AuthorsKept == \A r \in Made : r.id \in Editable[r.node]

\* The hub writes nothing of its own; a client holds or has superseded all
\* it has written.
OwnWrites ==
  /\ pending[Hub] = {}
  /\ \A v \in written : v.node # Hub /\ Covers(store[v.node], v)

\* With each of these records, the hub has everything its author wrote up to
\* that record.
Backed(records) == \A r \in records : HubHasUpTo(r.node, r.seq)

\* Everything this vector claims has landed and is on the hub.
Known(vec) == \A a \in Node : vec[a] <= Landed(a) /\ HubHasUpTo(a, vec[a])

\* A change set on its way to the hub closes every hole it would open: what
\* the author of a record wrote before it is on the hub or in the change set.
Closed(cs) ==
  \A r \in cs : \A v \in written :
    v.node = r.node /\ v.seq <= r.seq => Covers(store[Hub], v) \/ Covers(cs, v)

\* What client c learnt from the hub is backed by the hub, and so is every
\* record of others that it holds; what it has sent closes its holes.
ClientBacked(c) ==
  /\ Known(session[c].serverVV)
  /\ Backed(session[c].inbox)
  /\ Backed({r \in store[c] : r.node # c})
  /\ Closed(wire[c])

HubBacked ==
  /\ Known(vv[Hub])
  /\ Backed(store[Hub])
  /\ Closed(job[Hub].cs)

\* The inductive invariant.  It says, beyond HubSound, that a record a client
\* relays for another node can never make the hub's vector jump over a write
\* the hub has not seen, whatever session, crash or restart it went through.
HubInv ==
  /\ NumberInv
  /\ Applies
  /\ PendingIsLatest
  /\ Stamps
  /\ AuthorsKept /\ OwnWrites
  /\ HubBacked
  /\ \A c \in Client : ClientBacked(c)

-----------------------------------------------------------------------------
(***************************************************************************)
(* Why AllSound and PullDelivers hold when, besides, no id is written by   *)
(* two nodes and the hub's process is not killed inside apply_changes.     *)
(***************************************************************************)
Apart == Dedicated /\ Separate /\ Graceful

\* A client sends the hub nothing but its own writes: what it holds of others
\* the hub's vector claims.
OwnPushes ==
  /\ \A c \in Client : \A r \in wire[c] : r.node = c
  /\ Applying(Hub) => up /\ job[Hub].from \in Client
  /\ \A r \in job[Hub].cs : r.node = job[Hub].from

\* The hub's vector claims all the hub holds.
HubVVCovers == \A r \in store[Hub] : r.seq <= HubVV[r.node]

\* With these records comes, or has come, all their authors wrote before them.
Whole(c, records) ==
  \A r \in records : \A v \in written :
    v.node = r.node /\ v.seq <= r.seq => Covers(store[c], v) \/ Covers(records, v)

\* What client c holds and what it is sent is whole; the records that answer a
\* push are its own; the hub's vector it was shown claims all it holds of others.
ClientWhole(c) ==
  /\ \A a \in Node : vv[c][a] <= Landed(a)
  /\ VVSound(c)
  /\ Whole(c, store[c])
  /\ session[c].pc = "push" =>
       \A r \in store[c] : r.node # c => r.seq <= session[c].serverVV[r.node]
  /\ session[c].pc = "merge" => \A r \in session[c].inbox : r.node = c
  /\ session[c].pc = "fill" => Whole(c, session[c].inbox)
  /\ Applying(c) => job[c].cs = session[c].inbox

\* The inductive invariant.  It says, beyond AllSound, why no answer makes a
\* client's vector jump: neither the winning records, which are its own, nor the
\* pulled ones, which leave no hole.
WholeInv ==
  /\ HubInv
  /\ OwnPushes /\ HubVVCovers
  /\ \A c \in Client : ClientWhole(c)

-----------------------------------------------------------------------------
(* The replicas implement last-writer-wins registers.                      *)

LWW == INSTANCE LWWReplicas

\* SyncReplication implements LWWReplicas: whatever the sessions, messages,
\* crashes and restarts, seen from the collections there are only own writes
\* and merges that let the later writer win.
Implements == LWW!Spec

-----------------------------------------------------------------------------
(* Liveness.                                                               *)

\* Once the writes have stopped, every castle comes to hold the same
\* records as the hub, for good.
Converges == <>[](\A n \in Node : store[n] = store[Hub])

\* A session that was started ends.
SessionEnds == \A c \in Client : session[c].pc # "idle" ~> session[c].pc = "idle"
=============================================================================
