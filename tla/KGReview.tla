------------------------------ MODULE KGReview ------------------------------
(***************************************************************************)
(* Candidate facts and their review: KGProposalService                     *)
(* (services/kg_proposals.py) over the SQLite knowledge graph              *)
(* (storage/sqlite_graph.py), for one subject and one predicate of         *)
(* _EXCLUSIVE_PREDICATES.  Several reviewers (CLI commands, scripts) work  *)
(* on one database.  Each call on the graph is one transaction; accept     *)
(* makes several, and its process may die in between.  The object of a     *)
(* fact is an entity, found by a normalised name: many spellings, one      *)
(* entity.                                                                 *)
(***************************************************************************)
EXTENDS Naturals, FiniteSets

CONSTANTS
  Reviewer,    \* processes that review
  Candidate,   \* candidate ids
  Name,        \* spellings of objects
  NoName,      \* no spelling
  EntityId,    \* spelling -> entity (_entity_id)
  Offered,     \* candidate -> the objects it is accepted with: the one that
               \* was extracted, and those a reviewer may put in its place
  Accepts,     \* how it may be accepted: TRUE, with --invalidate-conflicts
  Asserted,    \* candidates with modality "asserted" and polarity "positive"
  Ended,       \* candidates with a valid_to, their own or the reviewer's
  Direct,      \* TRUE: kg_add and kg_invalidate are called as well
  MaxCrashes   \* bound on crashes

ASSUME KGAssumption ==
  /\ Offered \in [Candidate -> SUBSET Name]
  /\ Accepts \subseteq BOOLEAN
  /\ NoName \notin Name
  /\ Asserted \subseteq Candidate /\ Ended \subseteq Candidate
  /\ Direct \in BOOLEAN
  /\ MaxCrashes \in Nat
  /\ DOMAIN EntityId = Name

Entity == {EntityId[x] : x \in Name}

VARIABLES
  status,    \* candidate -> "none" (no row), "proposed", "accepted", "rejected"
  name,      \* entity -> its name, or NoName: the entities table
  current,   \* entities of the triples whose valid_to is NULL
  past,      \* entities of the triples with a valid_to
  job,       \* what each reviewer is doing
  crashes

vars == <<status, name, current, past, job, crashes>>

Idle == [pc |-> "idle"]
Idling(r) == job[r].pc = "idle"

Init ==
  /\ status = [c \in Candidate |-> "none"]
  /\ name = [e \in Entity |-> NoName]
  /\ current = {}
  /\ past = {}
  /\ job = [r \in Reviewer |-> Idle]
  /\ crashes = 0

-----------------------------------------------------------------------------
(* Transactions of the graph.                                              *)

\* Mutant: proposing again starts the review again.
ProposedAnew(c) == [status EXCEPT ![c] = "proposed"]

\* ON CONFLICT DO UPDATE leaves the status alone.
Proposed(c) == [status EXCEPT ![c] = IF @ = "none" THEN "proposed" ELSE @]

\* Mutant: a fact that has expired counts as known.
AddTripleOnce(x, ended) ==
  LET e == EntityId[x]
  IN /\ name' = [name EXCEPT ![e] = IF @ = NoName THEN x ELSE @]
     /\ current' = IF ended \/ e \in past THEN current ELSE current \cup {e}
     /\ past' = IF ended /\ e \notin current THEN past \cup {e} ELSE past

\* Mutant: an entity is registered only with its second fact.
AddTripleUnnamed(x, ended) ==
  LET e == EntityId[x]
  IN /\ name' = [name EXCEPT ![e] = IF e \in past THEN x ELSE @]
     /\ current' = IF ended THEN current ELSE current \cup {e}
     /\ past' = IF ended /\ e \notin current THEN past \cup {e} ELSE past

\* add_triple: the first spelling names the entity; a current fact is kept.
AddTriple(x, ended) ==
  LET e == EntityId[x]
  IN /\ name' = [name EXCEPT ![e] = IF @ = NoName THEN x ELSE @]
     /\ current' = IF ended THEN current ELSE current \cup {e}
     /\ past' = IF ended /\ e \notin current THEN past \cup {e} ELSE past

\* invalidate.
Invalidate(x) ==
  LET e == EntityId[x]
  IN /\ current' = current \ {e}
     /\ past' = past \cup ({e} \cap current)

\* Mutant: conflicts are looked for only when the fact is not yet known.
ConflictsOfNew(c, x) ==
  IF c \in Asserted /\ EntityId[x] \notin past \cup current
    THEN {name[e] : e \in current} ELSE {}

\* _find_conflicting_objects compares names, not entities.
Conflicts(c, x) ==
  IF c \in Asserted THEN {name[e] : e \in current} \ {x} ELSE {}

-----------------------------------------------------------------------------
(* Actions.                                                                *)

Propose(c) ==
  /\ status' = Proposed(c)
  /\ UNCHANGED <<name, current, past, job, crashes>>

\* accept: the proposal is read, and with it its conflicts when they are to
\* be invalidated; neither its status nor a later change is looked at.
Accept(r, c, x, invalidating) ==
  /\ Idling(r) /\ status[c] # "none"
  /\ job' = [job EXCEPT ![r] =
       [pc |-> "accept", cand |-> c, obj |-> x,
        conflicts |-> IF invalidating THEN Conflicts(c, x) ELSE {}]]
  /\ UNCHANGED <<status, name, current, past, crashes>>

\* One conflicting fact after the other expires.
Expire(r, x) ==
  /\ job[r].pc = "accept" /\ x \in job[r].conflicts
  /\ Invalidate(x)
  /\ job' = [job EXCEPT ![r].conflicts = @ \ {x}]
  /\ UNCHANGED <<status, name, crashes>>

WriteFact(r) ==
  /\ job[r].pc = "accept" /\ job[r].conflicts = {}
  /\ AddTriple(job[r].obj, job[r].cand \in Ended)
  /\ job' = [job EXCEPT ![r].pc = "mark"]
  /\ UNCHANGED <<status, crashes>>

\* Mutant: the candidate may be marked before its fact is written.
MarkableEarly(r) == job[r].pc \in {"accept", "mark"}

Markable(r) == job[r].pc = "mark"

MarkAccepted(r) ==
  /\ Markable(r)
  /\ status' = [status EXCEPT ![job[r].cand] = "accepted"]
  /\ job' = [job EXCEPT ![r] = Idle]
  /\ UNCHANGED <<name, current, past, crashes>>

Reject(r, c) ==
  /\ Idling(r) /\ status[c] # "none"
  /\ status' = [status EXCEPT ![c] = "rejected"]
  /\ UNCHANGED <<name, current, past, job, crashes>>

\* GraphService.kg_add and kg_invalidate.
KGAdd(x) ==
  /\ Direct
  /\ AddTriple(x, FALSE)
  /\ UNCHANGED <<status, job, crashes>>

KGInvalidate(x) ==
  /\ Direct
  /\ Invalidate(x)
  /\ UNCHANGED <<status, name, job, crashes>>

Crash(r) ==
  /\ crashes < MaxCrashes /\ ~Idling(r)
  /\ crashes' = crashes + 1
  /\ job' = [job EXCEPT ![r] = Idle]
  /\ UNCHANGED <<status, name, current, past>>

Next ==
  \/ \E c \in Candidate : Propose(c)
  \/ \E r \in Reviewer, c \in Candidate :
       \/ Reject(r, c)
       \/ \E x \in Offered[c], invalidating \in Accepts : Accept(r, c, x, invalidating)
  \/ \E r \in Reviewer : WriteFact(r) \/ MarkAccepted(r) \/ Crash(r)
  \/ \E r \in Reviewer, x \in Name : Expire(r, x)
  \/ \E x \in Name : KGAdd(x) \/ KGInvalidate(x)

Spec == Init /\ [][Next]_vars

-----------------------------------------------------------------------------
(* Properties.                                                             *)

Jobs ==
  {Idle} \cup [pc : {"accept", "mark"}, cand : Candidate, obj : Name, conflicts : SUBSET Name]

\* The type invariant; entities of facts have their names.
TypeOK ==
  /\ status \in [Candidate -> {"none", "proposed", "accepted", "rejected"}]
  /\ name \in [Entity -> Name \cup {NoName}]
  /\ current \subseteq Entity /\ past \subseteq Entity
  /\ \A e \in Entity : name[e] # NoName => EntityId[name[e]] = e
  /\ \A e \in current \cup past : name[e] # NoName
  /\ job \in [Reviewer -> Jobs]
  /\ crashes \in 0..MaxCrashes

\* Of an exclusive predicate one fact is current, as long as candidates are
\* accepted with --invalidate-conflicts.  docs/cli.md:250, "Accept and expire
\* conflicting current facts for exclusive predicates".
ExclusiveKept == Cardinality(current) <= 1

\* A conflicting fact expires to be replaced: between reviews there is a
\* current fact if there ever was one, unless a process died in a review.
ReplacedNotLost ==
  (crashes = 0 /\ \A r \in Reviewer : Idling(r)) => (past # {} => current # {})

\* An accepted candidate has a fact in the graph, current or past, even if a
\* process died in the middle of a review (accept, kg_proposals.py:267-281).
AcceptedIsWritten ==
  \A c \in Candidate :
    status[c] = "accepted" => \E x \in Offered[c] : EntityId[x] \in current \cup past

\* Extracting again does not bring back what was reviewed.  docs/mining.md:79,
\* "repeated runs are idempotent because proposal IDs are deterministic".
ReviewedForGood ==
  [][\A c \in Candidate :
       status[c] \in {"accepted", "rejected"} => status'[c] \in {"accepted", "rejected"}]_vars

\* Accepting a fact never expires that fact.  docs/kg.md:116-117, a conflict
\* is "when the proposed fact disagrees with a currently-active fact".  Not so
\* when the fact is there in another spelling: it expires and is written again.
OnlyDisagreeing ==
  [][\A r \in Reviewer, x \in Name :
       Expire(r, x) => EntityId[job[r].obj] \notin current \ current']_vars

\* Between reviews every current fact comes from an accepted candidate.
\* docs/kg.md:93, candidates "are not part of the accepted KG until you
\* review and accept them".
AcceptedOnly ==
  (\A r \in Reviewer : Idling(r)) =>
    \A e \in current : \E c \in Candidate :
      status[c] = "accepted" /\ \E x \in Offered[c] : EntityId[x] = e
=============================================================================
