--------------------------- MODULE KGReviewProofs ---------------------------
(***************************************************************************)
(* Proofs about KGReview, for any number of reviewers, candidates,         *)
(* spellings and crashes.                                                  *)
(***************************************************************************)
EXTENDS KGReview, FiniteSetTheorems, TLAPS

\* One reviewer, who accepts asserted facts with --invalidate-conflicts, is
\* the only one to change the graph.
OneReviewer ==
  /\ \A r, q \in Reviewer : r = q
  /\ Accepts = {TRUE}
  /\ Asserted = Candidate
  /\ ~Direct

-----------------------------------------------------------------------------
(* Types.                                                                  *)

\* A spelling in use is the spelling of its entity.
LEMMA SpellingOf == ASSUME NEW x \in Name PROVE EntityId[x] \in Entity
BY DEF Entity

\* add_triple keeps the types of the graph and forgets no fact.
LEMMA AddTripleTypes ==
  ASSUME TypeOK, NEW x \in Name, NEW ended \in BOOLEAN, AddTriple(x, ended)
  PROVE  /\ name' \in [Entity -> Name \cup {NoName}]
         /\ current' \subseteq Entity /\ past' \subseteq Entity
         /\ \A e \in Entity : name'[e] # NoName => EntityId[name'[e]] = e
         /\ \A e \in current' \cup past' : name'[e] # NoName
         /\ current \cup past \subseteq current' \cup past'
         /\ EntityId[x] \in current' \cup past'
<1> DEFINE e == EntityId[x]
<1>1. e \in Entity /\ x # NoName
  BY SpellingOf, KGAssumption
<1>2. name' = [name EXCEPT ![e] = IF @ = NoName THEN x ELSE @]
  BY DEF AddTriple
<1>3. /\ current \cup past \subseteq current' \cup past'
      /\ current' \cup past' \subseteq current \cup past \cup {e}
      /\ e \in current' \cup past'
  BY DEF AddTriple
<1>4. /\ name' \in [Entity -> Name \cup {NoName}]
      /\ current' \subseteq Entity /\ past' \subseteq Entity
  BY <1>1, <1>2, <1>3 DEF TypeOK
<1>5. ASSUME NEW f \in Entity, name'[f] # NoName PROVE EntityId[name'[f]] = f
  <2>1. CASE name[f] = NoName
    BY <1>1, <1>2, <1>5, <2>1 DEF TypeOK
  <2>2. CASE name[f] # NoName
    BY <1>1, <1>2, <2>2 DEF TypeOK
  <2> QED BY <2>1, <2>2
<1>6. ASSUME NEW f \in current' \cup past' PROVE name'[f] # NoName
  BY <1>1, <1>2, <1>3 DEF TypeOK
<1> QED BY <1>3, <1>4, <1>5, <1>6

\* invalidate keeps the types of the graph and forgets no fact.
LEMMA InvalidateTypes ==
  ASSUME TypeOK, NEW x \in Name, Invalidate(x)
  PROVE  current' \cup past' = current \cup past
BY DEF TypeOK, Invalidate

\* A step keeps the types.
LEMMA TypeStep == TypeOK /\ [Next]_vars => TypeOK'
<1> SUFFICES ASSUME TypeOK, [Next]_vars PROVE TypeOK'
  OBVIOUS
<1> USE KGAssumption
<1>1. ASSUME NEW c \in Candidate, Propose(c) PROVE TypeOK'
  BY <1>1 DEF Propose, Proposed, TypeOK
<1>2. ASSUME NEW r \in Reviewer, NEW c \in Candidate, Reject(r, c) PROVE TypeOK'
  BY <1>2 DEF Reject, TypeOK
<1>3. ASSUME NEW r \in Reviewer, NEW c \in Candidate, NEW x \in Offered[c],
             NEW invalidating \in Accepts, Accept(r, c, x, invalidating)
      PROVE  TypeOK'
  <2>1. Conflicts(c, x) \subseteq Name
    BY DEF Conflicts, TypeOK
  <2>2. x \in Name
    OBVIOUS
  <2> QED BY <1>3, <2>1, <2>2 DEF Accept, TypeOK, Jobs
<1>4. ASSUME NEW r \in Reviewer, WriteFact(r) PROVE TypeOK'
  <2>1. job[r].obj \in Name /\ (job[r].cand \in Ended) \in BOOLEAN
    BY <1>4 DEF WriteFact, TypeOK, Jobs, Idle
  <2>2. AddTriple(job[r].obj, job[r].cand \in Ended)
    BY <1>4 DEF WriteFact
  <2>3. job' \in [Reviewer -> Jobs]
    BY <1>4 DEF WriteFact, TypeOK, Jobs, Idle
  <2> QED BY <1>4, <2>1, <2>2, <2>3, AddTripleTypes DEF WriteFact, TypeOK
<1>5. ASSUME NEW r \in Reviewer, MarkAccepted(r) PROVE TypeOK'
  BY <1>5 DEF MarkAccepted, Markable, TypeOK, Jobs
<1>6. ASSUME NEW r \in Reviewer, Crash(r) PROVE TypeOK'
  BY <1>6 DEF Crash, TypeOK, Jobs
<1>7. ASSUME NEW r \in Reviewer, NEW x \in Name, Expire(r, x) PROVE TypeOK'
  <2>1. current' \cup past' = current \cup past
    BY <1>7, InvalidateTypes DEF Expire
  <2>2. job' \in [Reviewer -> Jobs]
    BY <1>7 DEF Expire, TypeOK, Jobs, Idle
  <2> QED BY <1>7, <2>1, <2>2 DEF Expire, TypeOK
<1>8. ASSUME NEW x \in Name, KGAdd(x) PROVE TypeOK'
  BY <1>8, AddTripleTypes DEF KGAdd, TypeOK
<1>9. ASSUME NEW x \in Name, KGInvalidate(x) PROVE TypeOK'
  <2>1. current' \cup past' = current \cup past
    BY <1>9, InvalidateTypes DEF KGInvalidate
  <2> QED BY <1>9, <2>1 DEF KGInvalidate, TypeOK
<1>10. CASE UNCHANGED vars
  BY <1>10 DEF vars, TypeOK
<1> QED BY <1>1, <1>2, <1>3, <1>4, <1>5, <1>6, <1>7, <1>8, <1>9, <1>10 DEF Next

\* Every variable keeps its type, and the entity of every fact its name.
THEOREM TypeCorrect == Spec => []TypeOK
<1>1. Init => TypeOK
  BY KGAssumption DEF Init, TypeOK, Jobs
<1> QED BY <1>1, TypeStep, PTL DEF Spec

-----------------------------------------------------------------------------
(* Accepted candidates.                                                    *)

\* Inductive: a review works on an object offered for its candidate, and
\* before it marks the candidate the fact is written.
ReviewInv ==
  /\ AcceptedIsWritten
  /\ \A r \in Reviewer :
       /\ ~Idling(r) => job[r].obj \in Offered[job[r].cand]
       /\ job[r].pc = "mark" => EntityId[job[r].obj] \in current \cup past

\* The graph forgets no fact.
LEMMA NothingForgotten ==
  ASSUME TypeOK, [Next]_vars
  PROVE  current \cup past \subseteq current' \cup past'
<1>1. ASSUME NEW r \in Reviewer, WriteFact(r) PROVE current \cup past \subseteq current' \cup past'
  BY <1>1 DEF WriteFact, AddTriple
<1>2. ASSUME NEW r \in Reviewer, NEW x \in Name, Expire(r, x)
      PROVE  current \cup past \subseteq current' \cup past'
  BY <1>2 DEF Expire, Invalidate
<1>3. ASSUME NEW x \in Name, KGAdd(x) \/ KGInvalidate(x)
      PROVE  current \cup past \subseteq current' \cup past'
  BY <1>3 DEF KGAdd, KGInvalidate, AddTriple, Invalidate
<1>4. ASSUME UNCHANGED <<current, past>> PROVE current \cup past \subseteq current' \cup past'
  BY <1>4
<1> QED BY <1>1, <1>2, <1>3, <1>4
        DEF Next, vars, Propose, Reject, Accept, MarkAccepted, Crash

\* A step keeps ReviewInv.
LEMMA ReviewStep ==
  ASSUME TypeOK, ReviewInv, [Next]_vars
  PROVE  ReviewInv'
<1>1. current \cup past \subseteq current' \cup past'
  BY NothingForgotten
<1> USE KGAssumption, <1>1 DEF ReviewInv, AcceptedIsWritten, Idling
<1>2. ASSUME NEW c \in Candidate, Propose(c) PROVE ReviewInv'
  BY <1>2 DEF Propose, Proposed, TypeOK
<1>3. ASSUME NEW r \in Reviewer, NEW c \in Candidate, Reject(r, c) PROVE ReviewInv'
  BY <1>3 DEF Reject, TypeOK
<1>4. ASSUME NEW r \in Reviewer, NEW c \in Candidate, NEW x \in Offered[c],
             NEW invalidating \in Accepts, Accept(r, c, x, invalidating)
      PROVE  ReviewInv'
  BY <1>4 DEF Accept, TypeOK
<1>5. ASSUME NEW r \in Reviewer, WriteFact(r) PROVE ReviewInv'
  <2>1. EntityId[job[r].obj] \in current' \cup past'
    BY <1>5 DEF WriteFact, AddTriple
  <2> QED BY <1>5, <2>1 DEF WriteFact, TypeOK, Jobs, Idle
<1>6. ASSUME NEW r \in Reviewer, MarkAccepted(r) PROVE ReviewInv'
  BY <1>6 DEF MarkAccepted, Markable, TypeOK, Jobs, Idle
<1>7. ASSUME NEW r \in Reviewer, Crash(r) PROVE ReviewInv'
  BY <1>7 DEF Crash, TypeOK, Idle
<1>8. ASSUME NEW r \in Reviewer, NEW x \in Name, Expire(r, x) PROVE ReviewInv'
  BY <1>8 DEF Expire, TypeOK, Jobs, Idle
<1>9. ASSUME NEW x \in Name, KGAdd(x) \/ KGInvalidate(x) PROVE ReviewInv'
  BY <1>9 DEF KGAdd, KGInvalidate
<1>10. CASE UNCHANGED vars
  BY <1>10 DEF vars
<1> QED BY <1>2, <1>3, <1>4, <1>5, <1>6, <1>7, <1>8, <1>9, <1>10 DEF Next

\* An accepted candidate has its fact in the graph, whoever reviews, whatever
\* else is written, and wherever a review dies.
THEOREM AcceptedWritten == Spec => []AcceptedIsWritten
<1>1. Init => ReviewInv
  BY DEF Init, ReviewInv, AcceptedIsWritten, Idling, Idle
<1>2. TypeOK /\ ReviewInv /\ [Next]_vars => ReviewInv'
  BY ReviewStep
<1>3. ReviewInv => AcceptedIsWritten
  BY DEF ReviewInv
<1> QED BY <1>1, <1>2, <1>3, TypeCorrect, PTL DEF Spec

-----------------------------------------------------------------------------
(* Exclusive facts.                                                        *)

\* What a lone reviewer has not yet expired is the fact under review or on
\* the list of conflicts.
ReviewAlone ==
  \A r \in Reviewer :
    job[r].pc = "accept" =>
      \A e \in current : e = EntityId[job[r].obj] \/ name[e] \in job[r].conflicts

\* Inductive for one reviewer: one fact is current, review or not.
ExclusiveInv == ReviewAlone /\ \A e, f \in current : e = f

\* A step of the one reviewer keeps ExclusiveInv.
LEMMA ExclusiveStep ==
  ASSUME OneReviewer, TypeOK, ExclusiveInv, [Next]_vars
  PROVE  ExclusiveInv'
<1> USE KGAssumption DEF ExclusiveInv, ReviewAlone, OneReviewer
<1>1. ASSUME NEW c \in Candidate, Propose(c) PROVE ExclusiveInv'
  BY <1>1 DEF Propose
<1>2. ASSUME NEW r \in Reviewer, NEW c \in Candidate, Reject(r, c) PROVE ExclusiveInv'
  BY <1>2 DEF Reject
<1>3. ASSUME NEW r \in Reviewer, NEW c \in Candidate, NEW x \in Offered[c],
             NEW invalidating \in Accepts, Accept(r, c, x, invalidating)
      PROVE  ExclusiveInv'
  <2>1. job'[r] = [pc |-> "accept", cand |-> c, obj |-> x, conflicts |-> {name[e] : e \in current} \ {x}]
    BY <1>3 DEF Accept, Conflicts, TypeOK
  <2>2. \A e \in current : e = EntityId[x] \/ name[e] \in {name[f] : f \in current} \ {x}
    BY DEF TypeOK
  <2> QED BY <1>3, <2>1, <2>2 DEF Accept
<1>4. ASSUME NEW r \in Reviewer, WriteFact(r) PROVE ExclusiveInv'
  <2>1. \A e \in current : e = EntityId[job[r].obj]
    BY <1>4 DEF WriteFact
  <2>2. \A e \in current' : e = EntityId[job[r].obj]
    BY <1>4, <2>1 DEF WriteFact, AddTriple
  <2>3. job'[r].pc = "mark"
    BY <1>4 DEF WriteFact, TypeOK, Jobs, Idle
  <2> QED BY <2>2, <2>3
<1>5. ASSUME NEW r \in Reviewer, MarkAccepted(r) \/ Crash(r) PROVE ExclusiveInv'
  BY <1>5 DEF MarkAccepted, Crash, TypeOK, Idle
<1>6. ASSUME NEW r \in Reviewer, NEW x \in Name, Expire(r, x) PROVE ExclusiveInv'
  <2>1. current' = current \ {EntityId[x]} /\ name' = name
    BY <1>6 DEF Expire, Invalidate
  <2>2. /\ job'[r].pc = "accept" /\ job'[r].obj = job[r].obj
        /\ job'[r].conflicts = job[r].conflicts \ {x}
    BY <1>6 DEF Expire, TypeOK, Jobs, Idle
  <2>3. ASSUME NEW e \in current' PROVE e = EntityId[job[r].obj] \/ name[e] \in job[r].conflicts \ {x}
    BY <1>6, <2>1, <2>3 DEF Expire, TypeOK
  <2> QED BY <2>1, <2>2, <2>3
<1>7. ASSUME NEW x \in Name, KGAdd(x) \/ KGInvalidate(x) PROVE ExclusiveInv'
  BY <1>7 DEF KGAdd, KGInvalidate
<1>8. CASE UNCHANGED vars
  BY <1>8 DEF vars
<1> QED BY <1>1, <1>2, <1>3, <1>4, <1>5, <1>6, <1>7, <1>8 DEF Next

\* One reviewer who invalidates conflicts leaves one current fact, even with
\* crashes in the middle of a review and with names that are spelled freely.
THEOREM ExclusiveAlone == OneReviewer => (Spec => []ExclusiveKept)
<1> SUFFICES ASSUME OneReviewer PROVE Spec => []ExclusiveKept
  OBVIOUS
<1>1. Init => ExclusiveInv
  BY DEF Init, ExclusiveInv, ReviewAlone, Idle
<1>2. TypeOK /\ ExclusiveInv /\ [Next]_vars => ExclusiveInv'
  BY ExclusiveStep
<1>3. ExclusiveInv => ExclusiveKept
  <2> SUFFICES ASSUME \A e, f \in current : e = f PROVE Cardinality(current) <= 1
    BY DEF ExclusiveInv, ExclusiveKept
  <2>1. CASE current = {}
    BY <2>1, FS_EmptySet
  <2>2. CASE current # {}
    <3>1. PICK e : current = {e}
      BY <2>2
    <3> QED BY <3>1, FS_Singleton
  <2> QED BY <2>1, <2>2
<1> QED BY <1>1, <1>2, <1>3, TypeCorrect, PTL DEF Spec

-----------------------------------------------------------------------------
(* What is replaced is replaced.                                           *)

\* Facts have no end of their own, and only reviews change the graph.
OnlyReplacing == Ended = {} /\ ~Direct

\* Inductive: while all facts are past ones, some review has yet to write its own.
ReplacedInv ==
  crashes = 0 /\ past # {} /\ current = {} => \E r \in Reviewer : job[r].pc = "accept"

\* A step keeps ReplacedInv.
LEMMA ReplacedStep ==
  ASSUME OnlyReplacing, TypeOK, ReplacedInv, [Next]_vars
  PROVE  ReplacedInv'
<1> USE KGAssumption DEF ReplacedInv, OnlyReplacing
<1>1. ASSUME NEW c \in Candidate, Propose(c) PROVE ReplacedInv'
  BY <1>1 DEF Propose
<1>2. ASSUME NEW r \in Reviewer, NEW c \in Candidate, Reject(r, c) PROVE ReplacedInv'
  BY <1>2 DEF Reject
<1>3. ASSUME NEW r \in Reviewer, NEW c \in Candidate, NEW x \in Offered[c],
             NEW invalidating \in Accepts, Accept(r, c, x, invalidating)
      PROVE  ReplacedInv'
  <2>1. job'[r].pc = "accept"
    BY <1>3 DEF Accept, TypeOK
  <2> QED BY <2>1
<1>4. ASSUME NEW r \in Reviewer, WriteFact(r) PROVE ReplacedInv'
  <2>1. EntityId[job[r].obj] \in current'
    BY <1>4 DEF WriteFact, AddTriple
  <2> QED BY <2>1
<1>5. ASSUME NEW r \in Reviewer, MarkAccepted(r) PROVE ReplacedInv'
  <2>1. \A q \in Reviewer : job[q].pc = "accept" => job'[q].pc = "accept"
    BY <1>5 DEF MarkAccepted, Markable, TypeOK
  <2> QED BY <1>5, <2>1 DEF MarkAccepted
<1>6. ASSUME NEW r \in Reviewer, Crash(r) PROVE ReplacedInv'
  <2>1. crashes' # 0
    BY <1>6 DEF Crash, TypeOK
  <2> QED BY <2>1
<1>7. ASSUME NEW r \in Reviewer, NEW x \in Name, Expire(r, x) PROVE ReplacedInv'
  <2>1. job'[r].pc = "accept"
    BY <1>7 DEF Expire, TypeOK, Jobs, Idle
  <2> QED BY <2>1
<1>8. ASSUME NEW x \in Name, KGAdd(x) \/ KGInvalidate(x) PROVE ReplacedInv'
  BY <1>8 DEF KGAdd, KGInvalidate
<1>9. CASE UNCHANGED vars
  BY <1>9 DEF vars
<1> QED BY <1>1, <1>2, <1>3, <1>4, <1>5, <1>6, <1>7, <1>8, <1>9 DEF Next

\* When no review is under way and none was cut off, a fact that expired has been
\* replaced, for any number of reviewers and any ways to accept, as long as only
\* reviews change the graph and no fact has an end of its own.
THEOREM ReplacedAfterReview == OnlyReplacing => (Spec => []ReplacedNotLost)
<1> SUFFICES ASSUME OnlyReplacing PROVE Spec => []ReplacedNotLost
  OBVIOUS
<1>1. Init => ReplacedInv
  BY DEF Init, ReplacedInv
<1>2. TypeOK /\ ReplacedInv /\ [Next]_vars => ReplacedInv'
  BY ReplacedStep
<1>3. ReplacedInv => ReplacedNotLost
  BY DEF ReplacedInv, ReplacedNotLost, Idling
<1> QED BY <1>1, <1>2, <1>3, TypeCorrect, PTL DEF Spec

-----------------------------------------------------------------------------
(* What is reviewed stays reviewed.                                        *)

\* Extracting a candidate again, another reviewer's verdict and a crash leave a
\* reviewed candidate reviewed.
THEOREM ReviewedStays == Spec => ReviewedForGood
<1> DEFINE Reviewed == \A c \in Candidate :
             status[c] \in {"accepted", "rejected"} => status'[c] \in {"accepted", "rejected"}
<1>1. ASSUME TypeOK, [Next]_vars PROVE [Reviewed]_vars
  <2>1. ASSUME NEW c \in Candidate, Propose(c) PROVE Reviewed
    BY <1>1, <2>1 DEF Propose, Proposed, TypeOK
  <2>2. ASSUME NEW r \in Reviewer, NEW c \in Candidate, Reject(r, c) PROVE Reviewed
    BY <1>1, <2>2 DEF Reject, TypeOK
  <2>3. ASSUME NEW r \in Reviewer, MarkAccepted(r) PROVE Reviewed
    <3>1. job[r].cand \in Candidate
      BY <1>1, <2>3 DEF MarkAccepted, Markable, TypeOK, Jobs, Idle
    <3> QED BY <1>1, <2>3, <3>1 DEF MarkAccepted, TypeOK
  <2>4. ASSUME UNCHANGED status PROVE Reviewed
    BY <2>4
  <2>5. ASSUME NEW r \in Reviewer, WriteFact(r) \/ Crash(r) \/ \E x \in Name : Expire(r, x)
        PROVE  UNCHANGED status
    BY <2>5 DEF WriteFact, Crash, Expire
  <2>6. ASSUME NEW r \in Reviewer, NEW c \in Candidate,
               \E x \in Offered[c], invalidating \in Accepts : Accept(r, c, x, invalidating)
        PROVE  UNCHANGED status
    BY <2>6 DEF Accept
  <2>7. ASSUME NEW x \in Name, KGAdd(x) \/ KGInvalidate(x) PROVE UNCHANGED status
    BY <2>7 DEF KGAdd, KGInvalidate
  <2> HIDE DEF Reviewed
  <2> QED BY <1>1, <2>1, <2>2, <2>3, <2>4, <2>5, <2>6, <2>7 DEF Next
<1>2. TypeOK /\ [Next]_vars => [Reviewed]_vars
  BY <1>1
<1> QED BY <1>2, TypeCorrect, PTL DEF Spec, ReviewedForGood
=============================================================================
