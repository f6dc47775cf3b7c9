----------------------------- MODULE Candidates -----------------------------
(***************************************************************************)
(* The store of candidate facts: extraction fills it from the drawers      *)
(* (KGProposalService.extract_from_drawers and propose), reviewers set the *)
(* status of its rows, and clients list it in pages.  KGReview has what a  *)
(* review does to the facts; here are the rows, their order, and the       *)
(* paging of both sides.                                                   *)
(*                                                                         *)
(* An id is a digest of all that a candidate says and where it was found,  *)
(* except for its confidence and the extractor's version: a candidate is   *)
(* its id.                                                                 *)
(***************************************************************************)
EXTENDS Integers, Sequences, SequencesExt, FiniteSetsExt, Rows

CONSTANTS
  GraphKind,      \* backends: "sqlite", "memory", "postgres"
  CandidateId,    \* the ids, ordered as the database orders them
  Evidence,       \* drawers with the text they hold: sequences of [drawer, text]
  Extracted,      \* [drawer -> [text -> sequence of ids]]: the rules of the extractor
  ExtractBatch,   \* drawers read at a time
  ExtractLimits,  \* --limit: 0 is none
  PageSize,       \* candidates listed at a time
  MaxSecond,      \* bound on the clock, which counts seconds
  MaxExtracts,    \* bound on the runs of extraction
  MaxOutside      \* bound on what happens meanwhile: reviews, rewritten drawers, deaths

\* A drawer with a text it may hold.
EvidenceRow == UNION {[drawer : {d}, text : DOMAIN Extracted[d]] : d \in DOMAIN Extracted}

ASSUME CandidateAssumption ==
  /\ GraphKind \subseteq {"sqlite", "memory", "postgres"} /\ CandidateId \subseteq Nat
  /\ ExtractBatch \in Nat \ {0} /\ PageSize \in Nat \ {0} /\ ExtractLimits \subseteq Nat
  /\ {MaxSecond, MaxExtracts, MaxOutside} \subseteq Nat
  /\ \A d \in DOMAIN Extracted : \A text \in DOMAIN Extracted[d] : Extracted[d][text] \in Seq(CandidateId)
  /\ \A scan \in Evidence :
       scan \in Seq(EvidenceRow) /\ \A j, k \in DOMAIN scan : scan[j].drawer = scan[k].drawer => j = k

VARIABLES
  kind,       \* the backend of the graph
  evidence,   \* the collection, in the order of its scan
  proposals,  \* the rows of the store, in the order they were inserted
  extract,    \* a run of extraction: its page, and what it has still to propose
  listing,    \* a client that lists page after page
  second,     \* the clock of the database
  extracts,   \* bound: runs of extraction
  meanwhile   \* bound: what happened meanwhile

candidateVars == <<kind, evidence, proposals, extract, listing, second, extracts, meanwhile>>

NoExtract == [pc |-> "off", apply |-> FALSE, limit |-> 0, offset |-> 0, rest |-> <<>>, alone |-> TRUE]
NoListing == [pc |-> "off", status |-> "any", due |-> {}, seen |-> {}, offset |-> 0, calm |-> TRUE]

CandidatesInit ==
  /\ kind \in GraphKind
  /\ evidence \in Evidence
  /\ proposals = <<>> /\ extract = NoExtract /\ listing = NoListing /\ second = 0
  /\ extracts = 0 /\ meanwhile = 0

-----------------------------------------------------------------------------
(* The store.                                                              *)

CandidateIds == {proposals[i].id : i \in DOMAIN proposals}

\* Mutant: a candidate that is proposed again is open again.
ProposedAfresh(id) ==
  [i \in DOMAIN proposals |->
     IF proposals[i].id = id THEN [proposals[i] EXCEPT !.status = "proposed"] ELSE proposals[i]]

\* propose_triple on a row that is there: its status, its time and so its place
\* in a listing stay; what may change, its confidence, is left out.
ProposedAgain(id) == proposals

\* propose_triple; PostgreSQL has no such store and raises, see ProposeNext.
Proposed(id) ==
  IF id \in CandidateIds THEN ProposedAgain(id)
  ELSE Append(proposals, [id |-> id, status |-> "proposed", at |-> second])

Oldest(r, s) == r.at < s.at \/ (r.at = s.at /\ r.id < s.id)

\* The rows a client asks for, by their places.
AskedFor(status) == {i \in DOMAIN proposals : status = "any" \/ proposals[i].status = status}

\* SQLite orders by the second of the insertion and the id, the store in memory by
\* the insertion itself.
ListedFirst(i, j) == IF kind = "sqlite" THEN Oldest(proposals[i], proposals[j]) ELSE i < j

\* list_candidate_triples without its limit.
Listed(status) ==
  LET asked == AskedFor(status)
      places == Ordered(asked, {ij \in asked \X asked : ListedFirst(ij[1], ij[2])})
  IN [n \in 1..Cardinality(asked) |-> proposals[places[n]]]

\* set_candidate_status, by a reviewer of any process.
SetStatus ==
  /\ meanwhile < MaxOutside
  /\ \E i \in DOMAIN proposals, status \in {"accepted", "rejected"} :
       proposals' = [proposals EXCEPT ![i].status = status]
  /\ listing' = [listing EXCEPT !.calm = FALSE]
  /\ meanwhile' = meanwhile + 1
  /\ UNCHANGED <<kind, evidence, extract, second, extracts>>

SecondPasses ==
  /\ second < MaxSecond
  /\ second' = second + 1
  /\ UNCHANGED <<kind, evidence, proposals, extract, listing, extracts, meanwhile>>

-----------------------------------------------------------------------------
(* extract_from_drawers.                                                   *)

StartExtract ==
  /\ extract.pc = "off" /\ extracts < MaxExtracts
  /\ \E apply \in BOOLEAN, limit \in ExtractLimits :
       extract' = [NoExtract EXCEPT !.pc = "read", !.apply = apply, !.limit = limit]
  /\ extracts' = extracts + 1
  /\ UNCHANGED <<kind, evidence, proposals, listing, second, meanwhile>>

\* Mutant: the limit holds for each page, not for the run.
PageRoomEach == IF extract.limit = 0 \/ extract.limit > ExtractBatch THEN ExtractBatch ELSE extract.limit

\* What a page may hold: offset drawers have been seen.
PageRoom ==
  IF extract.limit = 0 \/ extract.limit - extract.offset > ExtractBatch THEN ExtractBatch
  ELSE extract.limit - extract.offset

EvidencePage == LET last == extract.offset + PageRoom
                IN SubSeq(evidence, extract.offset + 1, IF last < Len(evidence) THEN last ELSE Len(evidence))

\* What the rules find in a drawer, and in those of a page, one after the other.
FoundIn(e) == Extracted[e.drawer][e.text]

InTurn(u, v) == u[1] < v[1] \/ (u[1] = v[1] /\ u[2] < v[2])

Mentioned(page) ==
  LET found == UNION {{k} \X (DOMAIN FoundIn(page[k])) : k \in DOMAIN page}
      places == Ordered(found, {uv \in found \X found : InTurn(uv[1], uv[2])})
  IN [n \in 1..Cardinality(found) |-> FoundIn(page[places[n][1]])[places[n][2]]]

\* A page is read; an empty one, or no room, ends the run.
ReadEvidence ==
  /\ extract.pc = "read"
  /\ extract' = IF EvidencePage = <<>> THEN NoExtract
                ELSE [extract EXCEPT !.pc = "propose", !.offset = @ + Len(EvidencePage),
                        !.rest = IF extract.apply THEN Mentioned(EvidencePage) ELSE <<>>]
  /\ UNCHANGED <<kind, evidence, proposals, listing, second, extracts, meanwhile>>

\* Each candidate is a transaction of its own; PostgreSQL raises at the first.
ProposeNext ==
  /\ extract.pc = "propose"
  /\ IF extract.rest = <<>> THEN extract' = [extract EXCEPT !.pc = "read"] /\ UNCHANGED proposals
     ELSE IF kind = "postgres" THEN extract' = NoExtract /\ UNCHANGED proposals
     ELSE /\ proposals' = Proposed(Head(extract.rest))
          /\ extract' = [extract EXCEPT !.rest = Tail(@)]
  /\ UNCHANGED <<kind, evidence, listing, second, extracts, meanwhile>>

\* A run that dies keeps what it has proposed.
ExtractDies ==
  /\ extract.pc = "propose" /\ extract.apply /\ meanwhile < MaxOutside
  /\ extract' = NoExtract
  /\ meanwhile' = meanwhile + 1
  /\ UNCHANGED <<kind, evidence, proposals, listing, second, extracts>>

\* A drawer is filed again, with another text, and moves to the end of the scan.
RewriteEvidence ==
  /\ meanwhile < MaxOutside
  /\ \E i \in DOMAIN evidence : \E text \in DOMAIN Extracted[evidence[i].drawer] :
       evidence' = Append(RemoveAt(evidence, i), [drawer |-> evidence[i].drawer, text |-> text])
  /\ extract' = [extract EXCEPT !.alone = FALSE]
  /\ meanwhile' = meanwhile + 1
  /\ UNCHANGED <<kind, proposals, listing, second, extracts>>

-----------------------------------------------------------------------------
(* A client lists the store in pages, all of it or what is to be reviewed. *)

StartListing ==
  /\ listing.pc = "off" /\ kind # "postgres"
  /\ \E status \in {"any", "proposed"} :
       listing' = [NoListing EXCEPT !.pc = "on", !.status = status,
                     !.due = {r.id : r \in ToSet(Listed(status))}]
  /\ UNCHANGED <<kind, evidence, proposals, extract, second, extracts, meanwhile>>

ListPage ==
  /\ listing.pc = "on"
  /\ LET rows == Listed(listing.status)
         last == IF listing.offset + PageSize < Len(rows) THEN listing.offset + PageSize ELSE Len(rows)
         page == SubSeq(rows, listing.offset + 1, last)
     IN listing' = [listing EXCEPT !.pc = IF page = <<>> THEN "done" ELSE "on", !.offset = @ + PageSize,
                      !.seen = @ \cup {r.id : r \in ToSet(page)}]
  /\ UNCHANGED <<kind, evidence, proposals, extract, second, extracts, meanwhile>>

CandidatesNext ==
  \/ SetStatus \/ SecondPasses
  \/ StartExtract \/ ReadEvidence \/ ProposeNext \/ ExtractDies \/ RewriteEvidence
  \/ StartListing \/ ListPage

CandidatesSpec == CandidatesInit /\ [][CandidatesNext]_candidateVars

-----------------------------------------------------------------------------
(* Properties.                                                             *)

\* However often the same drawers are extracted, a candidate has one row, and its
\* status changes only by a review ("rerunning extraction on the same wing
\* updates or preserves existing proposals rather than duplicating them",
\* mining/kg_extract.py:21).
ReviewStands ==
  [][/\ Len(proposals') = Cardinality({proposals'[i].id : i \in DOMAIN proposals'})
     /\ \A i \in DOMAIN proposals :
          \E j \in DOMAIN proposals' :
            /\ proposals'[j].id = proposals[i].id
            /\ proposals'[j].status = proposals[i].status \/ SetStatus]_candidateVars

\* A client that pages through the whole list sees every candidate that was there
\* when it began, whatever is proposed and reviewed meanwhile; one that pages
\* through those to be reviewed does so while nobody reviews.
ListingWhole ==
  listing.pc = "done" =>
    \/ listing.due \subseteq listing.seen
    \/ listing.status = "proposed" /\ ~listing.calm

\* The drawers a run of extraction has to read.
Scope == IF extract.limit = 0 \/ extract.limit > Len(evidence) THEN ToSet(evidence)
         ELSE ToSet(SubSeq(evidence, 1, extract.limit))

\* A run that comes to its end, while no drawer was written, has proposed the
\* candidates of all drawers in its scope, and read no others.
ExtractWhole ==
  [][ReadEvidence /\ extract'.pc = "off" /\ extract.alone =>
       /\ extract.offset = Cardinality(Scope)
       /\ extract.apply =>
            \A e \in Scope : ToSet(FoundIn(e)) \subseteq CandidateIds]_candidateVars

\* What the store of candidates promises.
CandidatesSound == ReviewStands /\ ExtractWhole /\ []ListingWhole
=============================================================================
