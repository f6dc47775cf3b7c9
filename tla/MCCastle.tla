------------------------------ MODULE MCCastle ------------------------------
(***************************************************************************)
(* A castle in use, checked in one run: its collection, the maintenance of *)
(* it, the views, cards and digests made from it, its facts and the        *)
(* candidates for them, the requests of a client, searches, the table of a *)
(* PostgreSQL collection, and the stamps of its records.  The parts share  *)
(* no state here, so that a behaviour is one of one part, chosen at the    *)
(* start; the others stay as they are.                                     *)
(***************************************************************************)
EXTENDS Collections, Distill, Reforge, Views, Dedup, Facts, Requests, Filters, Retrieval,
  Candidates, PgTable, Identity, Digest, Sanitizer

VARIABLE part

Part == {"collections", "distill", "reforge", "views", "cards", "dedup", "facts", "requests", "filters", "retrieval",
         "candidates", "pgtable", "identity", "digest", "sanitizer"}

-----------------------------------------------------------------------------
(* Constants.                                                              *)

MCSetting ==
  {[lance |-> TRUE, shared |-> FALSE, failing |-> FALSE],
   [lance |-> TRUE, shared |-> FALSE, failing |-> TRUE],
   [lance |-> FALSE, shared |-> FALSE, failing |-> FALSE],
   [lance |-> FALSE, shared |-> TRUE, failing |-> FALSE]}

\* Several processes on one LanceDB table.
MCSharedLance == {[lance |-> TRUE, shared |-> TRUE, failing |-> FALSE]}

\* Views: an empty castle, and one with a chain of two tunnels, one of which
\* the user denies and allows.
MCInitially == {<<>>, <<<<"u", "a">>, <<"u", "b">>, <<"v", "b">>, <<"v", "c">>>>}
MCPolicy ==
  {[allow |-> {<<"a", {"u", "v"}>>, <<"b", {"u", "v"}>>}, deny |-> {<<"a", {"u", "v"}>>}],
   [allow |-> {}, deny |-> {<<"b", {"u", "v"}>>}]}

\* Facts: two that name each other's ends; undated, open and ended spans.
MCFactOf == {<<"x", "y">>, <<"y", "x">>}
MCSpan == {<<-1, -1>>, <<1, -1>>, <<0, 1>>}

\* Requests: two contents of which the first is found similar to the second, and the
\* second to a diary entry.
MCAlike == {<<1, 2>>}
MCDiaryLike == {2}
MCSaves == {<<1, 2>>, <<2, 1>>}

\* Filters: a column of texts and one of numbers, one with a default that is asked for,
\* one that LanceDB alone has, and a field without a column that holds both kinds.
MCText(n) == [is |-> "text", n |-> n]
MCNumber(n) == [is |-> "number", n |-> n]
MCFieldValue ==
  [wing |-> {MCText(1), MCText(2)}, seq |-> {MCNumber(1), MCNumber(2)}, kind |-> {MCText(1)},
   data_class |-> {MCText(1)}, contributor |-> {MCText(1), MCNumber(1)}]
MCColumnDefault == [wing |-> MCText(0), seq |-> MCNumber(0), kind |-> MCText(1), data_class |-> MCText(0)]
MCPaired ==
  {c \in Condition : c.field \in {"wing", "seq", "contributor"} /\ c.op \in {"$eq", "$gt", "$nin"} /\ c.value.n = 1}

\* Retrieval.
MCWidened == <<1, 2>>

\* Candidates: two drawers, one of which says more when it is filed again.
MCEvidence == {<<[drawer |-> "p", text |-> 1], [drawer |-> "q", text |-> 1]>>}
MCExtracted == [p |-> <<<<3>>, <<3, 2>>>>, q |-> <<<<1>>>>]

\* Digest: an empty project, one with equal times, one with an undated drawer, and
\* one larger than what is shown.
MCNote(i, r, t) == [id |-> i, room |-> r, time |-> t]
MCShelves ==
  {<<>>, <<MCNote(2, 1, 1), MCNote(1, 1, 1), MCNote(3, 2, 2)>>, <<MCNote(1, 2, 0), MCNote(2, 1, 2)>>,
   <<MCNote(3, 1, 2), MCNote(2, 1, 2), MCNote(4, 2, 1), MCNote(1, 3, 2)>>}
MCNotes == {MCNote(5, 1, 1), MCNote(6, 3, 2)}
MCLengths == BoundedSeq(0..2, 3) \cup {<<2, 2, 2, 2, 2>>, <<0, 1, 0, 1>>, <<8>>}

\* Sanitizer: every short query of unmarked text, and queries in tags behind others.
MCRawQuery ==
  BoundedSeq({"word", "?", "line", "label", "<query>"}, 5)
  \cup {<<"word", "<query>", "word", "?", "</query>">> \o t \o <<"<query>", "word", "word", "</query>", "word", "?">>
          : t \in BoundedSeq({"word", "label", "<query>", "</query>", "<user_query>", "</user_query>"}, 2)}
  \cup {<<"<user_query>", "word", "word">> \o t \o <<"</user_query>", "line", "word", "word">>
          : t \in BoundedSeq({"word", "?", "label", "<query>", "</query>", "</user_query>"}, 3)}

-----------------------------------------------------------------------------
(* A part that does not move starts in one state.                          *)

OthersRest ==
  /\ IF part = "collections" THEN TRUE
     ELSE setting = (CHOOSE s \in Setting : TRUE) /\ table = TRUE
  /\ IF part = "distill" THEN TRUE ELSE state = "fill"
  /\ IF part = "reforge" THEN TRUE ELSE backend = "lance"
  /\ IF part \in {"views", "cards"} THEN TRUE ELSE collection = <<>>
  /\ IF part = "views" THEN TRUE ELSE policy = (CHOOSE p \in Policy : TRUE)
  /\ IF part = "dedup" THEN TRUE ELSE doc = [d \in DedupDrawer |-> [at |-> 0, size |-> 1]]
  /\ IF part = "facts" THEN TRUE ELSE store = "sqlite"
  /\ IF part = "filters" THEN TRUE ELSE meta = <<>> /\ clause = [join |-> "$and", parts |-> <<>>]
  /\ IF part = "retrieval" THEN TRUE
     ELSE /\ castle = {} /\ near = [d \in Drawer |-> 0] /\ shared = [d \in Drawer |-> 0]
          /\ ask = [limit |-> 1, way |-> "dense"]
  /\ IF part = "candidates" THEN TRUE ELSE kind = "sqlite"
  /\ IF part = "pgtable" THEN TRUE
     ELSE /\ home = [t \in Thread |-> CHOOSE p \in PgProcess : TRUE]
          /\ width = [p \in PgProcess |-> CHOOSE w \in Width : TRUE] /\ pgTable = NoTable
  /\ IF part = "digest" THEN TRUE ELSE shelf = <<>>
  /\ IF part = "sanitizer" THEN SanitizerInit ELSE raw = <<>> /\ clean = <<>> /\ how = "no"

CastleInit ==
  /\ part \in Part
  /\ OthersRest
  /\ CollectionsInit /\ DistillInit /\ ReforgeInit /\ ViewsInit /\ DedupInit /\ FactsInit
  /\ RequestsInit /\ FiltersInit /\ RetrievalInit
  /\ CandidatesInit /\ PgInit /\ IdentityInit /\ DigestInit

-----------------------------------------------------------------------------
(* One part moves.                                                         *)

servedVars == <<candidateVars, pgVars, identityVars, digestVars, sanitizerVars>>

\* The variables of all parts but these five.
mostVars ==
  <<collectionsVars, distillVars, reforgeVars, viewsVars, dedupVars, factVars, requestVars,
    filterVars, retrievalVars>>

CollectionsMoves ==
  /\ part = "collections" /\ CollectionsNext
  /\ UNCHANGED <<part, servedVars, distillVars, reforgeVars, viewsVars, dedupVars, factVars,
                  requestVars, filterVars, retrievalVars>>

DistillMoves ==
  /\ part = "distill" /\ DistillNext
  /\ UNCHANGED <<part, servedVars, collectionsVars, reforgeVars, viewsVars, dedupVars, factVars,
                  requestVars, filterVars, retrievalVars>>

ReforgeMoves ==
  /\ part = "reforge" /\ ReforgeNext
  /\ UNCHANGED <<part, servedVars, collectionsVars, distillVars, viewsVars, dedupVars, factVars,
                  requestVars, filterVars, retrievalVars>>

\* The caches of a server and the cards that another process rebuilds have only the
\* collection in common, which neither of them changes: they are two parts.
ViewsMoves ==
  /\ \/ part = "views" /\ UNCHANGED <<cards, rebuild>>
     \/ part = "cards" /\ UNCHANGED <<catalog, palace, policy, walk>>
  /\ ViewsNext
  /\ UNCHANGED <<part, servedVars, collectionsVars, distillVars, reforgeVars, dedupVars, factVars,
                  requestVars, filterVars, retrievalVars>>

DedupMoves ==
  /\ part = "dedup" /\ DedupNext
  /\ UNCHANGED <<part, servedVars, collectionsVars, distillVars, reforgeVars, viewsVars, factVars,
                  requestVars, filterVars, retrievalVars>>

FactsMoves ==
  /\ part = "facts" /\ FactsNext
  /\ UNCHANGED <<part, servedVars, collectionsVars, distillVars, reforgeVars, viewsVars, dedupVars,
                  requestVars, filterVars, retrievalVars>>

RequestsMoves ==
  /\ part = "requests" /\ RequestsNext
  /\ UNCHANGED <<part, servedVars, collectionsVars, distillVars, reforgeVars, viewsVars, dedupVars,
                  factVars, filterVars, retrievalVars>>

FiltersMoves ==
  /\ part = "filters" /\ AskBackends
  /\ UNCHANGED <<part, servedVars, collectionsVars, distillVars, reforgeVars, viewsVars, dedupVars,
                  factVars, requestVars, retrievalVars>>

RetrievalMoves ==
  /\ part = "retrieval" /\ RetrievalNext
  /\ UNCHANGED <<part, servedVars, collectionsVars, distillVars, reforgeVars, viewsVars, dedupVars,
                  factVars, requestVars, filterVars>>

CandidatesMoves ==
  /\ part = "candidates" /\ CandidatesNext
  /\ UNCHANGED <<part, mostVars, pgVars, identityVars, digestVars, sanitizerVars>>

PgMoves ==
  /\ part = "pgtable" /\ PgNext
  /\ UNCHANGED <<part, mostVars, candidateVars, identityVars, digestVars, sanitizerVars>>

IdentityMoves ==
  /\ part = "identity" /\ IdentityNext
  /\ UNCHANGED <<part, mostVars, candidateVars, pgVars, digestVars, sanitizerVars>>

DigestMoves ==
  /\ part = "digest" /\ DigestNext
  /\ UNCHANGED <<part, mostVars, candidateVars, pgVars, identityVars, sanitizerVars>>

SanitizerMoves ==
  /\ part = "sanitizer" /\ SanitizerNext
  /\ UNCHANGED <<part, mostVars, candidateVars, pgVars, identityVars, digestVars>>

CastleNext ==
  \/ CollectionsMoves
  \/ DistillMoves
  \/ ReforgeMoves
  \/ ViewsMoves
  \/ DedupMoves
  \/ FactsMoves
  \/ RequestsMoves
  \/ FiltersMoves
  \/ RetrievalMoves
  \/ CandidatesMoves
  \/ PgMoves
  \/ IdentityMoves
  \/ DigestMoves
  \/ SanitizerMoves

castleVars == <<part, mostVars, servedVars>>

CastleSpec ==
  CastleInit /\ [][CastleNext]_castleVars /\ WF_distillVars(part = "distill" /\ DistillStep)

-----------------------------------------------------------------------------
(* Properties.                                                             *)

\* The type invariants of the parts.
CastleTypeOK ==
  /\ CollectionsTypeOK /\ DistillTypeOK /\ ReforgeTypeOK /\ ViewsTypeOK /\ DedupTypeOK
  /\ FactsTypeOK /\ RequestsTypeOK /\ FiltersTypeOK /\ RetrievalTypeOK

\* Every run of distill comes to an end, sequential or parallel, wherever
\* workers raise.
DistillRunEnds == part = "distill" => DistillEnds

\* The rows of a collection, in LanceDB and in memory (storage/lance.py,
\* storage/memory.py), and the table that holds them in PostgreSQL
\* (storage/postgres.py).
StorageSound == RowsSound /\ PgSound

\* What is known of the graph: its facts (storage/sqlite_graph.py,
\* storage/postgres.py), and the candidates for them, which are proposed, reviewed
\* and listed (services/kg_proposals.py).
GraphSound == FactsSound /\ CandidatesSound

\* What is shown of a castle: the cached catalog and tunnels and the derived cards
\* (services/catalog.py, services/graph.py, audit/derived.py), and its digest
\* (services/digest.py).
ShownSound == ViewsSound /\ []DigestSound

\* What a search answers, whatever an agent put around its question
\* (query_sanitizer.py), whichever backend filters it (storage/lance.py,
\* storage/memory.py, storage/postgres.py) and whichever way it is made
\* (services/search.py, retrieval/hybrid.py).
AnswersSound == SanitizerSound /\ FiltersSound /\ SearchSound
=============================================================================
