---------------------------- MODULE LWWReplicas ----------------------------
(***************************************************************************)
(* What replication promises, without a protocol: every node holds one     *)
(* version per id; a node's own write takes effect at once; anything a     *)
(* node takes over from others was written by somebody, and replaces only  *)
(* a version it wins over.  docs/sync.md: "later updated_at wins; if       *)
(* timestamps tie, lexicographically higher node_id wins".                 *)
(***************************************************************************)
EXTENDS SyncRecords

VARIABLES
  store,    \* store[n]: the versions node n holds
  written   \* every version written so far

Init ==
  /\ store = [n \in Node |-> {}]
  /\ written = {}

\* Node n writes a version nobody has written before.
Write(n, v) ==
  /\ v.node = n
  /\ \A w \in written : w.node = n => w.seq # v.seq
  /\ store' = [store EXCEPT ![n] = Upsert(@, {v})]
  /\ written' = written \cup {v}

\* Node n takes over any versions that exist, never losing to an older one.
Merge(n) ==
  /\ store'[n] \subseteq store[n] \cup written
  /\ OnePerId(store'[n])
  /\ Monotone(store[n], store'[n])
  /\ store' = [store EXCEPT ![n] = store'[n]]
  /\ UNCHANGED written

Next == \E n \in Node : Merge(n) \/ \E v \in written' : Write(n, v)

Spec == Init /\ [][Next]_<<store, written>>
=============================================================================
