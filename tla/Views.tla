-------------------------------- MODULE Views --------------------------------
(***************************************************************************)
(* What is computed from a collection and kept: the catalog view and the   *)
(* palace graph that a serving process caches (services/catalog.py,        *)
(* services/graph.py), the walk and the tunnels read from that graph, and  *)
(* the catalog cards that another process rebuilds in files                *)
(* (audit/derived.py).  A drawer is known by its wing and its room.        *)
(***************************************************************************)
EXTENDS Integers, Sequences, SequencesExt, FiniteSets

CONSTANTS
  Wing, Room,     \* "general" is in no palace graph
  General,
  Initially,      \* the collections to begin with
  Policy,         \* the contents of tunnels.yaml, [allow, deny]
  ViewPage,       \* BATCH_SIZE of the catalog, and the page of the palace graph
  MaxHops,        \* bound on max_hops
  WalkShown,      \* rooms that traverse returns
  MaxFilings,     \* bound on changes of the collection
  MaxEdits        \* bound on changes of tunnels.yaml

Drawers == Wing \X Room

\* A tunnel is a room and a pair of wings.
Tunnel == {t \in Room \X SUBSET Wing : Cardinality(t[2]) = 2}

ASSUME ViewsAssumption ==
  /\ Initially \subseteq Seq(Drawers) /\ Policy \subseteq [allow : SUBSET Tunnel, deny : SUBSET Tunnel]
  /\ {MaxHops, MaxFilings, MaxEdits} \subseteq Nat /\ {ViewPage, WalkShown} \subseteq Nat \ {0}
  /\ IsFiniteSet(Room)

NotCached == [is |-> "none", read |-> <<>>, total |-> 0, rules |-> [allow |-> {}, deny |-> {}], stale |-> FALSE]
NoCards == [present |-> FALSE, rows |-> {}]
NoRebuild == [pc |-> "off", rows |-> {}, scope |-> {}, left |-> {}]
NoWalk == [pc |-> "off", hops |-> 0, start |-> General, frontier |-> <<>>, hop |-> <<>>]

VARIABLES
  collection, \* its drawers, pairs of wing and room, in the order of a scan
  catalog,    \* the catalog view: not built, being scanned for, or cached; what has
              \* been read; and, history, whether another process has changed the
              \* collection since its scan began
  palace,     \* the palace graph: the same, with the count its scan goes by and the
              \* policy built into it
  cards,      \* the card file of each wing: the drawers it was written from
  rebuild,    \* the run of rebuild_catalog
  touched,    \* history: the collection has changed since the run's scan, or the
              \* last run died
  policy,     \* tunnels.yaml: the tunnels allowed and denied
  walk,       \* the traversal in progress
  filings, edits

viewsVars == <<collection, catalog, palace, cards, rebuild, touched, policy, walk, filings, edits>>

ViewsInit ==
  /\ collection \in Initially
  /\ catalog = NotCached /\ palace = NotCached
  /\ cards = [w \in Wing |-> NoCards] /\ rebuild = NoRebuild /\ touched = TRUE
  /\ policy \in Policy
  /\ walk = NoWalk /\ filings = 0 /\ edits = 0

-----------------------------------------------------------------------------
(* Writers.                                                                *)

InCollection == ToSet(collection)

\* A drawer is filed, which puts it last, or collected.
Changed(d) ==
  IF d \in InCollection THEN {RemoveAt(collection, i) : i \in {i \in DOMAIN collection : collection[i] = d}}
  ELSE {Append(collection, d)}

\* The serving process answers one request at a time.
Idle == catalog.is # "scan" /\ palace.is # "scan" /\ walk = NoWalk

\* Mutant: a write keeps the caches.
InvalidatedNever(cache) == cache

\* _invalidate_graph_cache, _invalidate_catalog_cache.
Invalidated(cache) == NotCached

\* The serving process files, checkpoints or collects a drawer.
FileHere(d) ==
  /\ filings < MaxFilings /\ Idle
  /\ filings' = filings + 1 /\ collection' \in Changed(d) /\ touched' = TRUE
  /\ catalog' = Invalidated(catalog) /\ palace' = Invalidated(palace)
  /\ UNCHANGED <<cards, rebuild, policy, walk, edits>>

Outdated(cache) == [cache EXCEPT !.stale = cache.is # "none"]

\* The miner, the sync or another server, also between two pages of a scan.
FileElsewhere(d) ==
  /\ filings < MaxFilings
  /\ filings' = filings + 1 /\ collection' \in Changed(d) /\ touched' = TRUE
  /\ catalog' = Outdated(catalog) /\ palace' = Outdated(palace)
  /\ UNCHANGED <<cards, rebuild, policy, walk, edits>>

\* The user edits tunnels.yaml, which is read again when the graph is built.
EditPolicy ==
  /\ edits < MaxEdits /\ edits' = edits + 1
  /\ policy' \in Policy \ {policy}
  /\ palace' = [palace EXCEPT !.stale = @ \/ palace.is = "cached"]
  /\ UNCHANGED <<collection, catalog, cards, rebuild, touched, walk, filings>>

-----------------------------------------------------------------------------
(* The two scans of a serving process, page by page.                       *)

PageFrom(offset) ==
  SubSeq(collection, offset + 1, IF offset + ViewPage < Len(collection) THEN offset + ViewPage ELSE Len(collection))

\* _get_view: a page that is not full is the last.
ScanCatalog ==
  /\ catalog.is # "cached" /\ palace.is # "scan" /\ walk = NoWalk
  /\ LET page == PageFrom(Len(catalog.read))
     IN catalog' = [catalog EXCEPT !.read = @ \o page, !.is = IF Len(page) < ViewPage THEN "cached" ELSE "scan"]
  /\ UNCHANGED <<collection, palace, cards, rebuild, touched, policy, walk, filings, edits>>

\* _get_palace_graph: the drawers are counted first.
StartPalace ==
  /\ palace.is = "none" /\ Idle
  /\ palace' = [palace EXCEPT !.is = "scan", !.total = Len(collection)]
  /\ UNCHANGED <<collection, catalog, cards, rebuild, touched, policy, walk, filings, edits>>

\* As many are read as were counted, or are left; then the policy is.
ScanPalace ==
  /\ palace.is = "scan"
  /\ LET page == PageFrom(Len(palace.read))
         more == page # <<>> /\ Len(palace.read) + Len(page) < palace.total
     IN palace' = IF more THEN [palace EXCEPT !.read = @ \o page]
                  ELSE [palace EXCEPT !.read = @ \o page, !.is = "cached", !.rules = policy]
  /\ UNCHANGED <<collection, catalog, cards, rebuild, touched, policy, walk, filings, edits>>

\* A page that raises fails the request; nothing is cached.
ScanRaises ==
  /\ \/ catalog.is = "scan" /\ catalog' = NotCached /\ UNCHANGED palace
     \/ palace.is = "scan" /\ palace' = NotCached /\ UNCHANGED catalog
  /\ UNCHANGED <<collection, cards, rebuild, touched, policy, walk, filings, edits>>

-----------------------------------------------------------------------------
(* The palace graph: rooms, joined when they share a wing.                 *)

WingsOf(r) == {w \in Wing : <<w, r>> \in ToSet(palace.read)}
Nodes == {r \in Room \ {General} : WingsOf(r) # {}}
Connected(r, s) == r # s /\ WingsOf(r) \cap WingsOf(s) # {}

\* Mutant: an allowed tunnel is dug although it is denied.
CuratedAllowWins == ({t \in Tunnel : t[1] \in Nodes /\ t[2] \subseteq WingsOf(t[1])} \ palace.rules.deny) \cup palace.rules.allow

\* compute_curated_tunnels.
Curated == ({t \in Tunnel : t[1] \in Nodes /\ t[2] \subseteq WingsOf(t[1])} \cup palace.rules.allow) \ palace.rules.deny

StartWalk(r, hops) ==
  /\ palace.is = "cached" /\ Idle /\ r \in Nodes
  /\ walk' = [pc |-> "on", hops |-> hops, start |-> r, frontier |-> <<r>>, hop |-> [s \in {r} |-> 0]]
  /\ UNCHANGED <<collection, catalog, palace, cards, rebuild, touched, policy, filings, edits>>

\* A room of the frontier is expanded: rooms not visited that share a wing get
\* one hop more, and join the frontier if they may be expanded themselves.
WalkStep ==
  /\ walk.pc = "on" /\ walk.frontier # <<>>
  /\ LET room == Head(walk.frontier)
         depth == walk.hop[room]
         fresh == {r \in Nodes : Connected(room, r) /\ r \notin DOMAIN walk.hop}
         rest == Tail(walk.frontier)
     IN IF depth >= walk.hops
        THEN walk' = [walk EXCEPT !.frontier = rest]
        ELSE \E order \in SetToSeqs(fresh) :
               walk' = [walk EXCEPT
                 !.frontier = IF depth + 1 < walk.hops THEN rest \o order ELSE rest,
                 !.hop = [r \in DOMAIN walk.hop \cup fresh |->
                            IF r \in fresh THEN depth + 1 ELSE walk.hop[r]]]
  /\ UNCHANGED <<collection, catalog, palace, cards, rebuild, touched, policy, filings, edits>>

\* Mutant: one more.
ReturnedOneMore(order) == SubSeq(order, 1, IF Len(order) <= WalkShown THEN Len(order) ELSE WalkShown + 1)

Returned(order) == SubSeq(order, 1, IF Len(order) <= WalkShown THEN Len(order) ELSE WalkShown)

\* The rooms are sorted by their hops, those of equal hops by their drawers (which
\* are not told apart here), and the first are returned.
EndWalk(order) ==
  /\ walk.pc = "on" /\ walk.frontier = <<>>
  /\ \A i, j \in DOMAIN order : i <= j => walk.hop[order[i]] <= walk.hop[order[j]]
  /\ walk' = NoWalk
  /\ UNCHANGED <<collection, catalog, palace, cards, rebuild, touched, policy, filings, edits>>

-----------------------------------------------------------------------------
(* rebuild_catalog, of all wings or of one.                                *)

OfWing(S, w) == {d \in S : d[1] = w}

\* The scan (its pages taken together), the groups of the wings found.
StartRebuild(scope) ==
  /\ rebuild.pc = "off"
  /\ rebuild' = [pc |-> "write", rows |-> InCollection, scope |-> scope, left |-> scope]
  /\ touched' = FALSE
  /\ UNCHANGED <<collection, catalog, palace, cards, policy, walk, filings, edits>>

\* Mutant: the files of wings without drawers stay.
RebuiltOnly(w) ==
  IF OfWing(rebuild.rows, w) = {} THEN cards[w] ELSE [present |-> TRUE, rows |-> OfWing(rebuild.rows, w)]

\* Mutant: the cards are not grouped by wing.
RebuiltAll(w) == [present |-> TRUE, rows |-> rebuild.rows]

\* A wing with drawers gets its file, through a temporary one that replaces it; a
\* file without drawers is unlinked.
Rebuilt(w) ==
  IF OfWing(rebuild.rows, w) = {} THEN NoCards ELSE [present |-> TRUE, rows |-> OfWing(rebuild.rows, w)]

\* The files are written first, then the others are unlinked.
RebuildWing(w) ==
  /\ rebuild.pc = "write" /\ w \in rebuild.left
  /\ OfWing(rebuild.rows, w) = {} => \A v \in rebuild.left : OfWing(rebuild.rows, v) = {}
  /\ cards' = [cards EXCEPT ![w] = Rebuilt(w)]
  /\ rebuild' = [rebuild EXCEPT !.left = @ \ {w}]
  /\ UNCHANGED <<collection, catalog, palace, touched, policy, walk, filings, edits>>

EndRebuild ==
  /\ rebuild.pc = "write" /\ rebuild.left = {}
  /\ rebuild' = NoRebuild
  /\ UNCHANGED <<collection, catalog, palace, cards, touched, policy, walk, filings, edits>>

RebuildDies ==
  /\ rebuild.pc = "write"
  /\ rebuild' = NoRebuild /\ touched' = TRUE
  /\ UNCHANGED <<collection, catalog, palace, cards, policy, walk, filings, edits>>

ViewsNext ==
  \/ \E d \in Drawers : FileHere(d) \/ FileElsewhere(d)
  \/ EditPolicy \/ ScanCatalog \/ StartPalace \/ ScanPalace \/ ScanRaises
  \/ WalkStep \/ EndRebuild \/ RebuildDies
  \/ \E r \in Room, hops \in 0..MaxHops : StartWalk(r, hops)
  \/ \E order \in SetToSeqs(DOMAIN walk.hop) : EndWalk(order)
  \/ \E scope \in {Wing} \cup {{w} : w \in Wing} : StartRebuild(scope)
  \/ \E w \in Wing : RebuildWing(w)

ViewsSpec == ViewsInit /\ [][ViewsNext]_viewsVars

-----------------------------------------------------------------------------
(* Properties.                                                             *)

\* The type invariant.
ViewsTypeOK ==
  /\ collection \in Seq(Drawers) /\ catalog.read \in Seq(Drawers) /\ palace.read \in Seq(Drawers)
  /\ \A w \in Wing : cards[w].rows \subseteq OfWing(Drawers, w)
  /\ rebuild.left \subseteq Wing /\ DOMAIN walk.hop \subseteq Room

\* A process reads its own writes: its catalog and its graph are of the collection
\* as it is, no page left out or read twice, unless another process has changed
\* that since their scan began.
CacheFresh ==
  \A cache \in {catalog, palace} : cache.is = "cached" /\ ~cache.stale => cache.read = collection

\* The rooms that can be reached from r in k hops.
Reached(r, k) ==
  LET reach[n \in 0..MaxHops] ==
        IF n = 0 THEN {r} ELSE reach[n - 1] \cup {s \in Nodes : \E t \in reach[n - 1] : Connected(t, s)}
  IN reach[k]

\* traverse finds the rooms within max_hops, each with its distance.
WalkIsDistance ==
  walk.pc = "on" /\ walk.frontier = <<>> =>
    /\ DOMAIN walk.hop = Reached(walk.start, walk.hops)
    /\ \A r \in DOMAIN walk.hop : \A k \in 0..walk.hops : r \in Reached(walk.start, k) <=> walk.hop[r] <= k

\* What it returns: rooms that can be reached, at most WalkShown of them; a room
\* within max_hops that is not among them has had to give way to as many that are
\* no farther.
WalkShowsNearest ==
  [][\A order \in SetToSeqs(DOMAIN walk.hop) : EndWalk(order) =>
       LET shown == ToSet(Returned(order))
       IN /\ shown \subseteq Reached(walk.start, walk.hops)
          /\ Cardinality(shown) <= WalkShown
          /\ \A s \in Reached(walk.start, walk.hops) \ shown :
               /\ Cardinality(shown) = WalkShown
               /\ \A r \in shown, k \in 0..walk.hops : s \in Reached(walk.start, k) => r \in Reached(walk.start, k)]_viewsVars

\* While nobody else has written, a tunnel that is listed is one the user allows, or
\* its room has drawers in both its wings; none is listed that the user denies.
TunnelsSound ==
  palace.is = "cached" /\ ~palace.stale => \A t \in Curated :
    t \notin policy.deny /\ (t \in policy.allow \/ \A w \in t[2] : <<w, t[1]>> \in InCollection)

\* What a process answers from its caches is right for the collection.
CachedAnswers == CacheFresh /\ WalkIsDistance /\ TunnelsSound

\* A rebuild during which nothing changes leaves exactly the cards of its wings,
\* and no file for a wing that has lost its last drawer, whatever earlier runs
\* that died have left.
CardsMatch ==
  [][EndRebuild /\ ~touched =>
       \A w \in rebuild.scope :
         LET own == OfWing(InCollection, w) IN cards[w] = [present |-> own # {}, rows |-> own]]_viewsVars

\* Together: what is served from memory, and from the files of cards, is what the
\* collection says.
ViewsSound == []CachedAnswers /\ WalkShowsNearest /\ CardsMatch
=============================================================================
