------------------------------- MODULE MCSync -------------------------------
(* A hub and two clients; constants for the runs of SyncProperties.        *)
EXTENDS SyncProperties

CONSTANTS x, y, z   \* record ids

\* The hub's id is neither the highest nor the lowest, so that ties go both
\* ways.
MCNode == {1, 2, 3}
MCHub == 2
MCId == {x, y}
ThreeIds == {x, y, z}

\* A dedicated hub: the clients share x, the first also rewrites y.
SharedId == [n \in MCNode |-> CASE n = 1 -> MCId [] n = 3 -> {x} [] OTHER -> {}]

\* A dedicated hub: both clients rewrite both ids, the hub none.
DedicatedHub == [n \in MCNode |-> IF n = MCHub THEN {} ELSE MCId]

\* No id is written by two nodes, and the hub does not write.
Disjoint == [n \in MCNode |-> CASE n = 1 -> {x, z} [] n = 3 -> {y} [] OTHER -> {}]

\* Only the hub writes.
HubEdits == [n \in MCNode |-> IF n = MCHub THEN MCId ELSE {}]

\* The hub and a client rewrite the same ids.
HubEditsToo == [n \in MCNode |-> IF n = 3 THEN {} ELSE MCId]

InStep == [n \in MCNode |-> 0]
FirstAhead == [n \in MCNode |-> IF n = 1 THEN 1 ELSE 0]
=============================================================================
