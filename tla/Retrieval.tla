----------------------------- MODULE Retrieval ------------------------------
(***************************************************************************)
(* A search: SearchService.search (services/search.py), the scan for       *)
(* lexical candidates, the merge and the ranking (retrieval/hybrid.py).    *)
(* A step is one call on the collection, which others write meanwhile, or  *)
(* one stage of the search.                                                *)
(***************************************************************************)
EXTENDS Integers, Sequences, FiniteSetsExt, Rows

CONSTANTS
  Drawer,        \* the drawers of the collection, in the order of their scan
  MostHits,      \* bound on SearchQuery.limit
  Widened,       \* limit of the search -> that of the candidates, when reranked
  ScanBatch,     \* batch_size of the scan
  ScanLimit,     \* _DEF_SPARSE_SCAN_LIMIT
  MaxWritten     \* bound on changes during a search

ASSUME RetrievalAssumption ==
  /\ Drawer \subseteq Nat /\ IsFiniteSet(Drawer)
  /\ MostHits \in Nat \ {0} /\ MaxWritten \in Nat
  /\ ScanBatch \in Nat \ {0} /\ ScanLimit \in Nat
  /\ Widened \in [1..MostHits -> Nat] /\ \A n \in 1..MostHits : Widened[n] >= n

VARIABLES
  castle,      \* the drawers that the filter selects
  near,        \* drawer -> its similarity to the query, 0..2
  shared,      \* drawer -> its share of the query's words, 0..2
  ask,         \* the search: its limit and the way it ranks
  stage,       \* "dense", "scan", "merge", "rank", "done", "raised"
  scanned,     \* offset of the scan
  heap,        \* the best of the drawers scanned
  candidates,  \* drawer and lexical_score, or Unscored, in order
  hits,        \* the answer
  disturbances      \* changes since the search began

retrievalVars == <<castle, near, shared, ask, stage, scanned, heap, candidates, hits, disturbances>>

Unscored == -1
Way == {"dense", "lexical", "hybrid"}

RetrievalInit ==
  /\ castle \in SUBSET Drawer
  /\ near \in [Drawer -> 0..2] /\ shared \in [Drawer -> 0..2]
  /\ ask \in [limit : 1..MostHits, way : Way]
  /\ stage = "dense" /\ scanned = 0 /\ heap = {} /\ candidates = <<>> /\ hits = <<>> /\ disturbances = 0

Fetched == IF ask.way = "dense" THEN ask.limit ELSE Widened[ask.limit]

\* The drawers of S from the highest value to the lowest, in the order of the scan
\* where the value does not decide.
Highest(S, value) ==
  {de \in S \X S : \/ value[de[1]] > value[de[2]]
                   \/ value[de[1]] = value[de[2]] /\ de[1] < de[2]}

\* The vector search of the collection.
DenseSearch ==
  /\ stage = "dense"
  /\ candidates' = [i \in 1..Min({Fetched, Cardinality(castle)}) |->
       [drawer |-> Ordered(castle, Highest(castle, near))[i], lexical |-> Unscored]]
  /\ stage' = IF ask.way = "hybrid" THEN "scan" ELSE "rank"
  /\ UNCHANGED <<castle, near, shared, ask, scanned, heap, hits, disturbances>>

WorthKeeping(d) == shared[d] > 0

\* The drawers of S in the order in which the heap lets them go, from the last one to
\* the first: of equal scores, the one scanned first goes.
Lasting(S) ==
  {de \in S \X S : shared[de[1]] > shared[de[2]] \/ (shared[de[1]] = shared[de[2]] /\ de[1] > de[2])}

\* What is left of S when heappush and heappop have had all of it.
Kept(S) == {Ordered(S, Lasting(S))[i] : i \in 1..Min({Fetched, Cardinality(S)})}

\* One page of the scan, by the place it has now.
Scan ==
  /\ stage = "scan" /\ scanned < ScanLimit
  /\ LET reached == Min({scanned + ScanBatch, ScanLimit, Cardinality(castle)})
         page == {Ascending(castle)[i] : i \in scanned + 1..reached}
     IN IF page = {} THEN stage' = "merge" /\ UNCHANGED <<scanned, heap>>
        ELSE /\ heap' = Kept(heap \cup {d \in page : WorthKeeping(d)})
             /\ scanned' = reached
             /\ UNCHANGED stage
  /\ UNCHANGED <<castle, near, shared, ask, candidates, hits, disturbances>>

ScanEnds ==
  /\ stage = "scan" /\ scanned >= ScanLimit
  /\ stage' = "merge"
  /\ UNCHANGED <<castle, near, shared, ask, scanned, heap, candidates, hits, disturbances>>

Dense == {candidates[i].drawer : i \in DOMAIN candidates}

\* merge_candidates: a drawer on both lists has no score on one and a score on the
\* other, and comparing them raises.
Merge ==
  /\ stage = "merge"
  /\ IF Dense \cap heap # {} THEN stage' = "raised" /\ UNCHANGED candidates
     ELSE /\ candidates' = candidates \o
               [i \in 1..Cardinality(heap) |->
                  LET d == Ordered(heap, Highest(heap, shared))[i]
                  IN [drawer |-> d, lexical |-> shared[d]]]
          /\ stage' = "rank"
  /\ UNCHANGED <<castle, near, shared, ask, scanned, heap, hits, disturbances>>

\* The similarity a candidate is known with.
Similarity(c) == IF c.lexical = Unscored THEN near[c.drawer] ELSE 0

\* Mutant: similarity comes first.
RankedBySimilarity(c, d) == Similarity(c) > Similarity(d)

\* rerank_dense_candidates scores every candidate anew, also those of the scan.
RankedBefore(c, d) ==
  \/ shared[c.drawer] > shared[d.drawer]
  \/ shared[c.drawer] = shared[d.drawer] /\ Similarity(c) > Similarity(d)

\* Their order, the one that comes first where the two do not decide.
Ranking ==
  LET place == [c \in ToSet(candidates) |-> CHOOSE i \in DOMAIN candidates : candidates[i] = c]
  IN {cd \in ToSet(candidates) \X ToSet(candidates) :
        \/ RankedBefore(cd[1], cd[2])
        \/ ~RankedBefore(cd[2], cd[1]) /\ place[cd[1]] < place[cd[2]]}

Rank ==
  /\ stage = "rank"
  /\ LET sorted == IF ask.way = "dense" THEN candidates ELSE Ordered(ToSet(candidates), Ranking)
     IN hits' = [i \in 1..Min({ask.limit, Len(candidates)}) |-> sorted[i].drawer]
  /\ stage' = "done"
  /\ UNCHANGED <<castle, near, shared, ask, scanned, heap, candidates, disturbances>>

\* Another process files or deletes a drawer between two calls.
CastleWritten(d) ==
  /\ stage \in {"scan"} /\ disturbances < MaxWritten
  /\ disturbances' = disturbances + 1
  /\ castle' = IF d \in castle THEN castle \ {d} ELSE castle \cup {d}
  /\ UNCHANGED <<near, shared, ask, stage, scanned, heap, candidates, hits>>

RetrievalStep == DenseSearch \/ Scan \/ ScanEnds \/ Merge \/ Rank
RetrievalNext == RetrievalStep \/ \E d \in Drawer : CastleWritten(d)

RetrievalSpec == RetrievalInit /\ [][RetrievalNext]_retrievalVars

-----------------------------------------------------------------------------
(* Properties.                                                             *)

\* The type invariant.
RetrievalTypeOK ==
  /\ castle \cup heap \subseteq Drawer /\ ToSet(hits) \subseteq Drawer
  /\ \A i \in DOMAIN candidates : candidates[i].drawer \in Drawer /\ candidates[i].lexical \in -1..2
  /\ stage \in {"dense", "scan", "merge", "rank", "done", "raised"} /\ scanned \in 0..ScanLimit

\* The answer is within its limit, names no drawer twice, and is in the order the
\* search asked for.
HitsOrdered ==
  LET value(d) == IF ask.way = "dense" THEN near[d] ELSE shared[d]
  IN /\ Len(hits) <= ask.limit
     /\ \A i, j \in DOMAIN hits : i < j => hits[i] # hits[j] /\ value(hits[i]) >= value(hits[j])

\* When nobody writes meanwhile, no drawer that is left out is worth more than one
\* that is in: by similarity; or by words among the candidates nearest to the
\* query; or, in a hybrid search of a castle within the scan, by words among all
\* drawers, wherever their vectors lie.
BestFound ==
  stage = "done" /\ disturbances = 0 =>
    \A d \in castle \ ToSet(hits), e \in ToSet(hits) :
      /\ ask.way = "dense" => near[d] <= near[e]
      /\ ask.way = "lexical" /\ d \in Dense => shared[d] <= shared[e]
      /\ ask.way = "hybrid" /\ Cardinality(castle) <= ScanLimit => shared[d] <= shared[e]

\* What is left out was left out for better ones: the answer is as long as it can be.
FullAnswer == stage = "done" /\ disturbances = 0 => Len(hits) >= Min({ask.limit, Cardinality(castle)})

\* A search answers with the best drawers, in order.
SearchSound == HitsOrdered /\ BestFound /\ FullAnswer

\* Every search is answered, however its candidates were found.
SearchAnswers == stage # "raised"
=============================================================================
