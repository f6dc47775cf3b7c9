----------------------------- MODULE SyncProofs -----------------------------
(***************************************************************************)
(* Proofs about SyncReplication, for any set of nodes and ids, any number  *)
(* of writes and faults:                                                   *)
(*   NumbersInvariant  numbers stay unique and below the counters, and     *)
(*                     everything keeps its type, whoever writes, whenever *)
(*   TypeCorrect, VersionsUnique   what follows from it                    *)
(* about merging, as long as local writes keep out of the middle of        *)
(* apply_changes (Quiet):                                                  *)
(*   MergesInvariant       collections and change sets hold one record per *)
(*                         id, and what is upserted wins                   *)
(*   ReplicationImplements SyncReplication implements LWWReplicas          *)
(*   CollectionsMonotone   no record gives way to a loser, or disappears   *)
(* about the hub's version vector, with a hub nobody edits records on, one *)
(* writer per client and local writes that keep out of the middle of       *)
(* apply_changes or to ids of their own (Dedicated):                       *)
(*   HubInvariant      the inductive invariant HubInv                      *)
(*   HubVectorSound    what the hub's vector claims, the hub holds or has  *)
(*                     superseded                                          *)
(* and about every node's version vector, when besides (Apart) no id is    *)
(* written by two nodes and the hub's process is not killed inside         *)
(* apply_changes:                                                          *)
(*   WholeInvariant    the inductive invariant WholeInv                    *)
(*   VectorsSound      what a node's vector claims, the node holds or has  *)
(*                     superseded                                          *)
(*   PullsDeliver      a pull leaves nothing of the hub behind             *)
(***************************************************************************)
EXTENDS SyncProperties, WellFoundedInduction, TLAPS

-----------------------------------------------------------------------------
(* Maxima of bounded sets of numbers.                                      *)

\* A non-empty set of naturals has a least element.
LEMMA LeastNat ==
  ASSUME NEW T \in SUBSET Nat, T # {}
  PROVE  \E m \in T : \A k \in T : m <= k
<1> DEFINE Less == {ss \in Nat \X Nat : ss[1] < ss[2]}
<1>1. IsWellFoundedOn(Less, Nat)
  BY NatLessThanWellFounded, Zenon DEF OpToRel
<1>2. PICK m \in T : \A k \in T : ~(<<k, m>> \in Less)
  BY <1>1, WFMin, Zenon
<1>3. ASSUME NEW k \in T
      PROVE  m <= k
  <2>1. ~(<<k, m>> \in Less)
    BY <1>2
  <2>2. m \in Nat /\ k \in Nat
    OBVIOUS
  <2>3. k < m => <<k, m>> \in Less
    BY <2>2
  <2> HIDE DEF Less
  <2> QED BY <2>1, <2>2, <2>3
<1> QED BY <1>3

\* Max picks an element of a non-empty bounded set that no other exceeds.
LEMMA MaxOfBounded ==
  ASSUME NEW S \in SUBSET Nat, S # {}, NEW b \in Nat, \A s \in S : s <= b
  PROVE  Max(S) \in S /\ \A s \in S : s <= Max(S)
<1> DEFINE Bounds == {u \in Nat : \A s \in S : s <= u}
<1>1. PICK m \in Bounds : \A u \in Bounds : m <= u
  <2>1. b \in Bounds
    OBVIOUS
  <2>2. Bounds \in SUBSET Nat
    OBVIOUS
  <2> HIDE DEF Bounds
  <2> QED BY <2>1, <2>2, LeastNat
<1>2. m \in S
  <2>1. SUFFICES ASSUME m \notin S PROVE FALSE
    OBVIOUS
  <2>2. PICK s \in S : TRUE
    OBVIOUS
  <2>3. \A t \in S : t <= m - 1
    BY <2>1
  <2>4. m - 1 \in Nat
    BY <2>2, <2>3
  <2> QED BY <2>3, <2>4, <1>1
<1>3. \E t \in S : \A s \in S : t >= s
  BY <1>2
<1> QED BY <1>3 DEF Max

-----------------------------------------------------------------------------
(* The version vector.                                                     *)

\* Advancing a vector over a batch gives a vector; no entry shrinks, each is
\* the old one or a number of the batch, and none of the batch is beyond it.
LEMMA UpdateFacts ==
  ASSUME NEW vec \in VersionVector, NEW rs \in SUBSET Version,
         NEW bound \in VersionVector,
         \A a \in Node : vec[a] <= bound[a],
         \A r \in rs : r.seq <= bound[r.node]
  PROVE  LET new == UpdateFromRecords(vec, rs)
         IN /\ new \in VersionVector
            /\ \A a \in Node : \/ new[a] = vec[a]
                               \/ \E r \in rs : r.node = a /\ r.seq = new[a]
            /\ \A a \in Node : vec[a] <= new[a] /\ new[a] <= bound[a]
            /\ \A r \in rs : r.seq <= new[r.node]
<1> DEFINE new == UpdateFromRecords(vec, rs)
           Of(a) == {vec[a]} \cup {r.seq : r \in {q \in rs : q.node = a}}
<1>1. \A a \in Node : new[a] = Max(Of(a))
  BY DEF UpdateFromRecords
<1>2. ASSUME NEW a \in Node
      PROVE  Max(Of(a)) \in Of(a) /\ \A s \in Of(a) : s <= Max(Of(a))
  <2>1. Of(a) \in SUBSET Nat /\ Of(a) # {}
    BY DEF Version, VersionVector
  <2>2. bound[a] \in Nat /\ \A s \in Of(a) : s <= bound[a]
    BY DEF Version, VersionVector
  <2> HIDE DEF Of
  <2> QED BY <2>1, <2>2, MaxOfBounded
<1>3. \A a \in Node : new[a] \in Of(a) /\ \A s \in Of(a) : s <= new[a]
  BY <1>1, <1>2
<1>4. new \in VersionVector
  <2>1. \A a \in Node : new[a] \in Nat
    BY <1>3 DEF Version, VersionVector
  <2>2. new = [a \in Node |-> new[a]]
    BY DEF UpdateFromRecords
  <2> HIDE DEF new
  <2> QED BY <2>1, <2>2 DEF VersionVector
<1>5. \A r \in rs : r.node \in Node /\ r.seq \in Of(r.node)
  BY DEF Version
<1> HIDE DEF new
<1>6. \A a \in Node : \/ new[a] = vec[a]
                      \/ \E r \in rs : r.node = a /\ r.seq = new[a]
  BY <1>3
<1>7. \A a \in Node : vec[a] <= new[a] /\ new[a] <= bound[a]
  BY <1>3, <1>6
<1>8. \A r \in rs : r.seq <= new[r.node]
  BY <1>3, <1>5
<1> QED BY <1>4, <1>6, <1>7, <1>8 DEF new

\* The vector an engine opens with is a vector, claims no less than the file
\* said, and claims what the file said or the number of a stored record.
LEMMA OpenedFacts ==
  ASSUME NEW vec \in VersionVector, NEW col \in SUBSET Version,
         NEW bound \in VersionVector,
         \A a \in Node : vec[a] <= bound[a],
         \A r \in col : r.seq <= bound[r.node]
  PROVE  /\ OpenedVV(vec, col) \in VersionVector
         /\ \A a \in Node : \/ OpenedVV(vec, col)[a] = vec[a]
                            \/ \E r \in col : r.node = a /\ r.seq = OpenedVV(vec, col)[a]
         /\ \A a \in Node : OpenedVV(vec, col)[a] <= bound[a]
<1>1. CASE vec = EmptyVV
  <2>1. OpenedVV(vec, col) = UpdateFromRecords(vec, col)
    BY <1>1 DEF OpenedVV
  <2> QED BY <2>1, UpdateFacts
<1>2. CASE vec # EmptyVV
  <2>1. OpenedVV(vec, col) = vec
    BY <1>2 DEF OpenedVV
  <2> QED BY <2>1
<1> QED BY <1>1, <1>2

-----------------------------------------------------------------------------
(* Numbers: type correctness and the uniqueness of versions.               *)

\* The counter as a bound for the lemmas on vectors.
LEMMA SeqBounds ==
  ASSUME NumberInv
  PROVE  /\ seq \in VersionVector
         /\ \A n \in Node : vv[n] \in VersionVector /\ store[n] \in SUBSET Version
         /\ \A n \in Node : job[n].cs \in SUBSET Version
         /\ \A n, a \in Node : vv[n][a] <= seq[a]
         /\ \A r \in written : r.node \in Node /\ r.seq <= seq[r.node]
         /\ \A n \in Node : \A r \in store[n] : r.seq <= seq[r.node]
         /\ \A n \in Node : \A r \in job[n].cs : r.seq <= seq[r.node]
BY DEF NumberInv, TypeOK, VersionVector, Made, Job, Version

\* An engine's step keeps NumberInv when it only moves written records about
\* and keeps the vectors within the counters.
LEMMA NumberFrame ==
  ASSUME NumberInv, UNCHANGED localVars, TypeOK',
         \A n \in Node : store'[n] \cup job'[n].cs \cup job'[n].accepted \subseteq written,
         \A c \in Client : wire'[c] \cup session'[c].inbox \subseteq written,
         \A n, a \in Node : vv'[n][a] <= seq[a],
         \A c \in Client, a \in Node : session'[c].serverVV[a] <= seq[a]
  PROVE  NumberInv'
BY DEF NumberInv, localVars, Made

\* The hub's vector, opened if need be.
LEMMA HubVVFacts ==
  ASSUME NumberInv
  PROVE  /\ HubVV \in VersionVector
         /\ \A a \in Node : HubVV[a] <= seq[a]
         /\ \A a \in Node : \/ HubVV[a] = vv[Hub][a]
                            \/ \E r \in store[Hub] : r.node = a /\ r.seq = HubVV[a]
<1>1. Hub \in Node
  BY ReplicationAssumption
<1> QED BY <1>1, SeqBounds, OpenedFacts DEF HubVV

LEMMA NumberInit == Init => NumberInv
<1> SUFFICES ASSUME Init PROVE NumberInv
  OBVIOUS
<1>1. EmptyVV \in VersionVector /\ \A a \in Node : EmptyVV[a] = 0
  BY DEF EmptyVV, VersionVector
<1>2. NoJob \in Job /\ NoJob.cs = {} /\ NoJob.accepted = {}
  BY ReplicationAssumption DEF NoJob, Job
<1>3. Idle \in Session /\ Idle.inbox = {} /\ Idle.serverVV = EmptyVV
  BY <1>1 DEF Idle, SessionAt, Session, Places
<1>4. TypeOK
  BY <1>1, <1>2, <1>3 DEF Init, TypeOK
<1>5. Made = {}
  BY DEF Init, Made
<1>6. /\ \A n \in Node : store[n] = {} /\ pending[n] = {} /\ job[n] = NoJob
      /\ \A c \in Client : wire[c] = {} /\ session[c] = Idle
      /\ \A n \in Node : vv[n] = EmptyVV /\ seq[n] = 0
  BY DEF Init
<1> QED BY <1>1, <1>2, <1>3, <1>4, <1>5, <1>6 DEF NumberInv

LEMMA NumberStamp ==
  ASSUME NumberInv, NEW n \in Node, NEW i \in Id, Stamp(n, i)
  PROVE  NumberInv'
<1> DEFINE new == Stamped(n, i)
<1>1. new \in Version /\ new.node = n /\ new.seq = seq[n] + 1
  BY ReplicationAssumption, NodeAssumption DEF NumberInv, TypeOK, Stamped, Version
<1>2. TypeOK'
  BY <1>1 DEF NumberInv, TypeOK, Stamp, NextSeq
<1>3. Made' = Made \cup {new}
  BY DEF NumberInv, TypeOK, Made, Stamp
<1>4. \A r \in Made : r.node \in Node /\ r.seq \in Nat /\ r.seq <= seq[r.node]
  BY DEF NumberInv, TypeOK, Made, Version
<1>5. seq \in [Node -> Nat] /\ seq' = [seq EXCEPT ![n] = seq[n] + 1]
  BY DEF NumberInv, TypeOK, Stamp, NextSeq
<1>6. \A r \in Made' : r.seq <= seq'[r.node]
  BY <1>1, <1>3, <1>4, <1>5
<1>7. \A r, q \in Made' : r.node = q.node /\ r.seq = q.seq => r = q
  BY <1>1, <1>3, <1>4, <1>5 DEF NumberInv
<1>8. new \notin written
  BY <1>1, <1>4, <1>5 DEF Made
<1>9. \A m \in Node : \A r \in pending'[m] : r.node = m /\ r \notin written'
  BY <1>1, <1>8 DEF NumberInv, TypeOK, Stamp
<1>10. /\ \A m, a \in Node : vv'[m][a] <= seq'[a]
       /\ \A c \in Client, a \in Node : session'[c].serverVV[a] <= seq'[a]
  BY <1>5 DEF NumberInv, TypeOK, Stamp, VersionVector, Session
<1>11. /\ \A m \in Node : store'[m] \cup job'[m].cs \cup job'[m].accepted \subseteq written'
       /\ \A c \in Client : wire'[c] \cup session'[c].inbox \subseteq written'
  BY DEF NumberInv, Stamp
<1> HIDE DEF new
<1> QED BY <1>2, <1>6, <1>7, <1>9, <1>10, <1>11 DEF NumberInv

LEMMA NumberLand ==
  ASSUME NumberInv, NEW n \in Node, NEW r \in pending[n], Land(n, r)
  PROVE  NumberInv'
<1>1. r \in Version
  BY DEF NumberInv, TypeOK
<1>2. TypeOK'
  BY <1>1 DEF NumberInv, TypeOK, Land, Upsert
<1>3. Made' = Made
  BY DEF NumberInv, TypeOK, Made, Land
<1>4. \A m \in Node : store'[m] \subseteq store[m] \cup {r}
  BY DEF NumberInv, TypeOK, Land, Upsert
<1>5. /\ \A m \in Node : store'[m] \cup job'[m].cs \cup job'[m].accepted \subseteq written'
      /\ \A c \in Client : wire'[c] \cup session'[c].inbox \subseteq written'
  BY <1>4 DEF NumberInv, Land
<1>6. \A m \in Node : \A q \in pending'[m] : q.node = m /\ q \notin written'
  BY DEF NumberInv, TypeOK, Land
<1>7. UNCHANGED <<seq, vv, session>>
  BY DEF Land
<1> QED BY <1>2, <1>3, <1>5, <1>6, <1>7 DEF NumberInv

\* The two halves of apply_changes and a crash in the middle of them, at any
\* node: what they leave in the engine's variables is still of written
\* records.  (The other variables are each caller's.)
EngineOK ==
  /\ store' \in [Node -> SUBSET Version]
  /\ vv' \in [Node -> VersionVector]
  /\ job' \in [Node -> Job]
  /\ \A n \in Node : store'[n] \cup job'[n].cs \cup job'[n].accepted \subseteq written
  /\ \A n, a \in Node : vv'[n][a] <= seq[a]

LEMMA ApplyReadOK ==
  ASSUME NumberInv, NEW n \in Node, NEW cs \in SUBSET written, NEW from \in Node,
         ApplyRead(n, cs, from)
  PROVE  /\ job' \in [Node -> Job]
         /\ \A m \in Node : job'[m].cs \cup job'[m].accepted \subseteq written
<1>1. Accepted(store[n], cs) \subseteq cs
  BY DEF Accepted
<1>2. cs \subseteq Version
  BY DEF NumberInv, TypeOK
<1> QED BY <1>1, <1>2 DEF NumberInv, TypeOK, ApplyRead, Job

LEMMA ApplyWriteOK ==
  ASSUME NumberInv, NEW n \in Node, ApplyWrite(n)
  PROVE  EngineOK
<1>1. /\ NoJob \in Job
      /\ NoJob.cs = {} /\ NoJob.accepted = {}
  BY ReplicationAssumption DEF NoJob, Job
<1>2. /\ job' \in [Node -> Job]
      /\ \A m \in Node : job'[m].cs \cup job'[m].accepted \subseteq written
  BY <1>1 DEF NumberInv, TypeOK, ApplyWrite
<1>3. /\ store' \in [Node -> SUBSET Version]
      /\ \A m \in Node : store'[m] \subseteq written
  BY DEF NumberInv, TypeOK, ApplyWrite, Upsert, Job
<1>4. LET new == UpdateFromRecords(vv[n], job[n].cs)
      IN new \in VersionVector /\ \A a \in Node : new[a] <= seq[a]
  BY SeqBounds, UpdateFacts
<1>5. /\ vv' \in [Node -> VersionVector]
      /\ \A m, a \in Node : vv'[m][a] <= seq[a]
  BY <1>4 DEF NumberInv, TypeOK, ApplyWrite
<1> QED BY <1>2, <1>3, <1>5 DEF EngineOK

LEMMA CrashedOK ==
  ASSUME NumberInv, NEW n \in Node, Crashed(n)
  PROVE  EngineOK
<1>1. /\ NoJob \in Job
      /\ NoJob.cs = {} /\ NoJob.accepted = {}
  BY ReplicationAssumption DEF NoJob, Job
<1>2. /\ job' \in [Node -> Job]
      /\ \A m \in Node : job'[m].cs \cup job'[m].accepted \subseteq written
  BY <1>1 DEF NumberInv, TypeOK, Crashed
<1>3. /\ store' \in [Node -> SUBSET Version]
      /\ \A m \in Node : store'[m] \subseteq written
  <2>1. Upsert(store[n], job[n].accepted) \subseteq written
    BY DEF NumberInv, Upsert
  <2>2. store' = store \/ store' = [store EXCEPT ![n] = Upsert(store[n], job[n].accepted)]
    BY DEF Crashed
  <2> QED BY <2>1, <2>2 DEF NumberInv, TypeOK
<1>4. EmptyVV \in VersionVector /\ \A a \in Node : EmptyVV[a] <= seq[a]
  BY DEF EmptyVV, VersionVector, NumberInv, TypeOK
<1>5. /\ vv' \in [Node -> VersionVector]
      /\ \A m, a \in Node : vv'[m][a] <= seq[a]
  <2>1. vv' = vv \/ vv' = [vv EXCEPT ![n] = EmptyVV]
    BY DEF Crashed
  <2> QED BY <1>4, <2>1 DEF NumberInv, TypeOK
<1> QED BY <1>2, <1>3, <1>5 DEF EngineOK

LEMMA OpenHubOK ==
  ASSUME NumberInv, OpenHub
  PROVE  /\ up' \in BOOLEAN
         /\ vv' \in [Node -> VersionVector]
         /\ \A n, a \in Node : vv'[n][a] <= seq[a]
BY HubVVFacts DEF OpenHub, NumberInv, TypeOK

\* What a client's session may become.
SessionsOK ==
  /\ session' \in [Client -> Session]
  /\ \A c \in Client : session'[c].inbox \subseteq written
  /\ \A c \in Client, a \in Node : session'[c].serverVV[a] <= seq[a]

LEMMA SessionOK ==
  ASSUME NumberInv, NEW c \in Client, NEW s \in Session,
         s.inbox \subseteq written, \A a \in Node : s.serverVV[a] <= seq[a],
         session' = [session EXCEPT ![c] = s]
  PROVE  SessionsOK
BY DEF NumberInv, TypeOK, SessionsOK

LEMMA SessionAtFacts ==
  ASSUME NEW p \in Places, NEW vec \in VersionVector, NEW records \in SUBSET Version
  PROVE  /\ SessionAt(p, vec, records) \in Session
         /\ SessionAt(p, vec, records).pc = p
         /\ SessionAt(p, vec, records).serverVV = vec
         /\ SessionAt(p, vec, records).inbox = records
BY DEF SessionAt, Session

\* The fields of a session.
LEMMA SessionFields ==
  ASSUME NumberInv, NEW c \in Client
  PROVE  /\ session[c].pc \in Places
         /\ session[c].serverVV \in VersionVector
         /\ \A a \in Node : session[c].serverVV[a] <= seq[a]
         /\ session[c].inbox \subseteq written
BY DEF NumberInv, TypeOK, Session

\* An engine's step that leaves writers, session, wire and engine consistent.
LEMMA NumberEngine ==
  ASSUME NumberInv, UNCHANGED localVars,
         store' \in [Node -> SUBSET Version],
         vv' \in [Node -> VersionVector],
         job' \in [Node -> Job],
         session' \in [Client -> Session],
         wire' \in [Client -> SUBSET Version],
         up' \in BOOLEAN,
         faults' \in Nat,
         \A n \in Node : store'[n] \cup job'[n].cs \cup job'[n].accepted \subseteq written,
         \A n, a \in Node : vv'[n][a] <= seq[a],
         \A c \in Client : wire'[c] \cup session'[c].inbox \subseteq written,
         \A c \in Client, a \in Node : session'[c].serverVV[a] <= seq[a]
  PROVE  NumberInv'
<1>1. TypeOK'
  BY DEF NumberInv, TypeOK, localVars
<1> QED BY <1>1, NumberFrame

LEMMA NumberHubCommit ==
  ASSUME NumberInv, HubCommit
  PROVE  NumberInv'
<1> DEFINE c == job[Hub].from
           winning == WinningRecords(store'[Hub], job[Hub].cs, job[Hub].accepted)
           p == IF winning = {} THEN "pull" ELSE "merge"
<1>0. Hub \in Node
  BY ReplicationAssumption
<1>1. EngineOK
  BY <1>0, ApplyWriteOK DEF HubCommit
<1>2. winning \in SUBSET written
  <2>1. winning \subseteq store'[Hub]
    BY DEF WinningRecords
  <2> QED BY <1>0, <1>1, <2>1 DEF EngineOK
<1>3. \/ session' = session
      \/ session' = [session EXCEPT ![c] = SessionAt(p, @.serverVV, winning)]
  BY DEF HubCommit
<1>4. p \in Places
  BY DEF Places
<1> HIDE DEF winning, c, p
<1>5. SessionsOK
  <2>1. CASE session' = session \/ c \notin Client
    <3>1. session' = session
      BY <1>3, <2>1 DEF NumberInv, TypeOK
    <3> QED BY <3>1 DEF NumberInv, TypeOK, SessionsOK
  <2>2. CASE c \in Client /\ session' # session
    <3> DEFINE s == SessionAt(p, session[c].serverVV, winning)
    <3>1. winning \in SUBSET Version
      BY <1>2 DEF NumberInv, TypeOK
    <3>2. s \in Session /\ s.inbox = winning /\ s.serverVV = session[c].serverVV
      BY <1>4, <2>2, <3>1, SessionFields, SessionAtFacts
    <3>3. session' = [session EXCEPT ![c] = s]
      BY <1>3, <2>2
    <3> HIDE DEF s
    <3> QED BY <1>2, <2>2, <3>2, <3>3, SessionFields, SessionOK
  <2> QED BY <2>1, <2>2
<1>6. UNCHANGED <<localVars, wire, up, faults>>
  BY DEF HubCommit
<1> QED BY <1>1, <1>5, <1>6, NumberEngine DEF EngineOK, SessionsOK, NumberInv, TypeOK

LEMMA NumberHubCrash ==
  ASSUME NumberInv, HubCrash
  PROVE  NumberInv'
<1>0. Hub \in Node
  BY ReplicationAssumption
<1>1. EngineOK
  BY <1>0, CrashedOK DEF HubCrash
<1>2. UNCHANGED <<localVars, session, wire>> /\ up' \in BOOLEAN /\ faults' = faults + 1
  BY DEF HubCrash
<1> QED BY <1>1, <1>2, NumberEngine DEF EngineOK, NumberInv, TypeOK

LEMMA NumberClient ==
  ASSUME NumberInv, NEW c \in Client,
         \/ OpenEngine(c) \/ GetStatus(c) \/ Push(c) \/ HubReceive(c)
         \/ Pull(c) \/ ReadInbox(c) \/ WriteInbox(c)
         \/ TimeOut(c) \/ Abort(c) \/ LosePush(c)
  PROVE  NumberInv'
<1>0. Hub \in Node /\ c \in Node
  BY ReplicationAssumption DEF Client
<1>1. CASE OpenEngine(c)
  <2>1. /\ OpenedVV(vv[c], store[c]) \in VersionVector
        /\ \A a \in Node : OpenedVV(vv[c], store[c])[a] <= seq[a]
    BY <1>0, SeqBounds, OpenedFacts
  <2>2. vv' \in [Node -> VersionVector] /\ \A n, a \in Node : vv'[n][a] <= seq[a]
    BY <1>1, <2>1 DEF OpenEngine, NumberInv, TypeOK
  <2>3. SessionsOK
    BY <1>1 DEF OpenEngine, SessionsOK, NumberInv, TypeOK, Session, Places
  <2> QED BY <1>1, <2>2, <2>3, NumberEngine DEF OpenEngine, SessionsOK, NumberInv, TypeOK
<1>2. CASE GetStatus(c)
  <2>1. session' = [session EXCEPT ![c] = SessionAt("push", HubVV, {})]
    BY <1>2, SessionFields DEF GetStatus
  <2>2. SessionsOK
    <3> DEFINE s == SessionAt("push", HubVV, {})
    <3>1. s \in Session /\ s.inbox = {} /\ s.serverVV = HubVV
      BY HubVVFacts, SessionAtFacts DEF Places
    <3> HIDE DEF s
    <3> QED BY <2>1, <3>1, HubVVFacts, SessionOK DEF s
  <2> QED BY <1>2, <2>2, OpenHubOK, NumberEngine DEF GetStatus, SessionsOK, NumberInv, TypeOK
<1>3. CASE Push(c)
  <2>1. ChangesSince(store[c], session[c].serverVV) \subseteq store[c]
    BY DEF ChangesSince
  <2>2. /\ wire' \in [Client -> SUBSET Version]
        /\ \A d \in Client : wire'[d] \subseteq written
    BY <1>0, <1>3, <2>1 DEF Push, NumberInv, TypeOK
  <2>3. SessionsOK
    BY <1>3 DEF Push, SessionsOK, NumberInv, TypeOK, Session, Places
  <2> QED BY <1>3, <2>2, <2>3, NumberEngine DEF Push, SessionsOK, NumberInv, TypeOK
<1>4. CASE HubReceive(c)
  <2>1. wire[c] \in SUBSET written
    BY DEF NumberInv
  <2>2. /\ job' \in [Node -> Job]
        /\ \A m \in Node : job'[m].cs \cup job'[m].accepted \subseteq written
    BY <1>0, <1>4, <2>1, ApplyReadOK DEF HubReceive
  <2>3. /\ wire' \in [Client -> SUBSET Version]
        /\ \A d \in Client : wire'[d] \subseteq written
    BY <1>4 DEF HubReceive, NumberInv, TypeOK
  <2> QED BY <1>4, <2>2, <2>3, OpenHubOK, NumberEngine DEF HubReceive, NumberInv, TypeOK
<1>5. CASE Pull(c)
  <2>1. ChangesSince(store[Hub], vv[c]) \subseteq store[Hub]
    BY DEF ChangesSince
  <2>2. PICK p \in Places :
          session' = [session EXCEPT ![c] =
             SessionAt(p, session[c].serverVV, ChangesSince(store[Hub], vv[c]))]
    BY <1>5, SessionFields DEF Pull, Places
  <2>3. SessionsOK
    <3> DEFINE cs == ChangesSince(store[Hub], vv[c])
               s == SessionAt(p, session[c].serverVV, cs)
    <3>1. cs \subseteq written /\ cs \in SUBSET Version
      BY <1>0, <2>1 DEF NumberInv, TypeOK
    <3>2. s \in Session /\ s.inbox = cs /\ s.serverVV = session[c].serverVV
      BY <3>1, SessionFields, SessionAtFacts
    <3> HIDE DEF s, cs
    <3> QED BY <2>2, <3>1, <3>2, SessionFields, SessionOK DEF s, cs
  <2> QED BY <1>5, <2>3, OpenHubOK, NumberEngine DEF Pull, SessionsOK, NumberInv, TypeOK
<1>6. CASE ReadInbox(c)
  <2>1. session[c].inbox \in SUBSET written
    BY DEF NumberInv
  <2>2. /\ job' \in [Node -> Job]
        /\ \A m \in Node : job'[m].cs \cup job'[m].accepted \subseteq written
    BY <1>0, <1>6, <2>1, ApplyReadOK DEF ReadInbox
  <2> QED BY <1>6, <2>2, NumberEngine DEF ReadInbox, NumberInv, TypeOK
<1>7. CASE WriteInbox(c)
  <2>1. EngineOK
    BY <1>0, <1>7, ApplyWriteOK DEF WriteInbox
  <2>2. PICK p \in Places :
          session' = [session EXCEPT ![c] = SessionAt(p, session[c].serverVV, {})]
    BY <1>7, SessionFields DEF WriteInbox, Places
  <2>3. SessionsOK
    <3> DEFINE s == SessionAt(p, session[c].serverVV, {})
    <3>1. s \in Session /\ s.inbox = {} /\ s.serverVV = session[c].serverVV
      BY SessionFields, SessionAtFacts
    <3> HIDE DEF s
    <3> QED BY <2>2, <3>1, SessionFields, SessionOK DEF s
  <2> QED BY <1>7, <2>1, <2>3, NumberEngine DEF WriteInbox, SessionsOK, EngineOK, NumberInv, TypeOK
<1>8. Idle \in Session /\ Idle.inbox = {} /\ \A a \in Node : Idle.serverVV[a] <= seq[a]
  BY DEF Idle, SessionAt, Session, Places, EmptyVV, VersionVector, NumberInv, TypeOK
<1>9. CASE TimeOut(c)
  <2>1. SessionsOK
    BY <1>8, <1>9 DEF TimeOut, SessionsOK, NumberInv, TypeOK
  <2> QED BY <1>9, <2>1, NumberEngine DEF TimeOut, SessionsOK, NumberInv, TypeOK
<1>10. CASE Abort(c)
  <2>1. EngineOK
    BY <1>0, <1>10, CrashedOK DEF Abort
  <2>2. SessionsOK
    BY <1>8, <1>10 DEF Abort, SessionsOK, NumberInv, TypeOK
  <2> QED BY <1>10, <2>1, <2>2, NumberEngine DEF Abort, SessionsOK, EngineOK, NumberInv, TypeOK
<1>11. CASE LosePush(c)
  <2>1. /\ wire' \in [Client -> SUBSET Version]
        /\ \A d \in Client : wire'[d] \subseteq written
    BY <1>11 DEF LosePush, NumberInv, TypeOK
  <2> QED BY <1>11, <2>1, NumberEngine DEF LosePush, NumberInv, TypeOK
<1> QED BY <1>1, <1>2, <1>3, <1>4, <1>5, <1>6, <1>7, <1>9, <1>10, <1>11

\* NumberInv is inductive.
LEMMA NumberNext == NumberInv /\ [Next]_vars => NumberInv'
<1> SUFFICES ASSUME NumberInv, [Next]_vars PROVE NumberInv'
  OBVIOUS
<1>1. CASE UNCHANGED vars
  BY <1>1 DEF NumberInv, TypeOK, Made, vars
<1>2. CASE LocalWrite
  BY <1>2, NumberStamp, NumberLand DEF LocalWrite
<1>3. CASE HubCommit
  BY <1>3, NumberHubCommit
<1>4. CASE HubCrash
  BY <1>4, NumberHubCrash
<1>5. CASE \E c \in Client :
             \/ OpenEngine(c) \/ GetStatus(c) \/ Push(c) \/ HubReceive(c)
             \/ Pull(c) \/ ReadInbox(c) \/ WriteInbox(c)
             \/ TimeOut(c) \/ Abort(c) \/ LosePush(c)
  BY <1>5, NumberClient
<1> QED BY <1>1, <1>2, <1>3, <1>4, <1>5 DEF Next

\* For every number of nodes, ids, writes and faults, whoever writes and
\* whenever: the counters keep numbers unique and everything keeps its type.
THEOREM NumbersInvariant == Spec => []NumberInv
<1>1. Init => NumberInv
  BY NumberInit
<1>2. NumberInv /\ [Next]_vars => NumberInv'
  BY NumberNext
<1> QED BY <1>1, <1>2, PTL DEF Spec

\* The type invariant of the core module (sync.py, sync_client.py,
\* sync_server.py, sync_meta.py).
THEOREM TypeCorrect == Spec => []TypeOK
<1>1. NumberInv => TypeOK
  BY DEF NumberInv
<1> QED BY <1>1, NumbersInvariant, PTL

\* A (node_id, seq) pair names one write, wherever copies of it are.
THEOREM VersionsUnique == Spec => []VersionUnique
<1>1. NumberInv => VersionUnique
  <2> SUFFICES ASSUME NumberInv PROVE VersionUnique
    OBVIOUS
  <2>1. /\ \A n \in Node : store[n] \cup pending[n] \cup job[n].cs \subseteq Made
        /\ \A c \in Client : wire[c] \cup session[c].inbox \subseteq Made
        /\ written \subseteq Made
    BY DEF NumberInv, Made
  <2>2. Copies \subseteq Made
    <3>1. UNION {store[n] \cup pending[n] \cup job[n].cs : n \in Node} \subseteq Made
      BY <2>1
    <3>2. UNION {wire[c] \cup session[c].inbox : c \in Client} \subseteq Made
      BY <2>1
    <3>3. \A A, B, C : A \subseteq Made /\ B \subseteq Made /\ C \subseteq Made
                         => (A \cup B) \cup C \subseteq Made
      OBVIOUS
    <3> QED BY <2>1, <3>1, <3>2, <3>3, Zenon DEF Copies
  <2> QED BY <2>2 DEF NumberInv, VersionUnique
<1> QED BY <1>1, NumbersInvariant, PTL

-----------------------------------------------------------------------------
(* The order of versions and the merge of a change set.                    *)

\* Versions are ordered by "wins over": irreflexive, and a version that does
\* not beat h does not beat anything h does not beat.
LEMMA WinsOrder ==
  /\ \A v \in Version : ~RemoteWins(v, v)
  /\ \A v, h, q \in Version : ~RemoteWins(v, h) /\ ~RemoteWins(h, q) => ~RemoteWins(v, q)
  /\ \A v, h, q \in Version : ~RemoteWins(v, h) /\ RemoteWins(q, h) => ~RemoteWins(v, q)
<1>1. \A v \in Version : v.ts \in Nat /\ v.node \in Nat
  BY NodeAssumption DEF Version
<1>2. \A v \in Version : ~RemoteWins(v, v)
  BY <1>1 DEF RemoteWins
<1>3. ASSUME NEW v \in Version, NEW h \in Version, NEW q \in Version, ~RemoteWins(v, h)
      PROVE  /\ ~RemoteWins(h, q) => ~RemoteWins(v, q)
             /\ RemoteWins(q, h) => ~RemoteWins(v, q)
  BY <1>1, <1>3 DEF RemoteWins
<1> QED BY <1>2, <1>3

\* What is covered stays covered under a monotone change.
LEMMA CoversMonotone ==
  ASSUME NEW col \in SUBSET Version, NEW new \in SUBSET Version, Monotone(col, new),
         NEW v \in Version, Covers(col, v)
  PROVE  Covers(new, v)
<1>1. PICK h \in col : h.id = v.id /\ ~RemoteWins(v, h)
  BY DEF Covers
<1>2. PICK q \in new : q.id = h.id /\ (q = h \/ RemoteWins(q, h))
  BY <1>1 DEF Monotone
<1>3. ~RemoteWins(v, q)
  BY <1>1, <1>2, WinsOrder
<1> QED BY <1>1, <1>2, <1>3 DEF Covers

\* What a covered version covers is covered.
LEMMA CoversTransitive ==
  ASSUME NEW col \in SUBSET Version, NEW h \in Version, Covers(col, h),
         NEW v \in Version, v.id = h.id, ~RemoteWins(v, h)
  PROVE  Covers(col, v)
<1>1. PICK q \in col : q.id = h.id /\ ~RemoteWins(h, q)
  BY DEF Covers
<1> QED BY <1>1, WinsOrder DEF Covers

\* Merging a change set into a collection: the one-per-id shape is kept, no
\* record is replaced by a loser, nothing appears that was in neither, and
\* every record of the change set is held or superseded afterwards.
LEMMA MergeFacts ==
  ASSUME NEW col \in SUBSET Version, NEW cs \in SUBSET Version,
         OnePerId(col), OnePerId(cs)
  PROVE  LET new == Upsert(col, Accepted(col, cs))
         IN /\ OnePerId(new)
            /\ Monotone(col, new)
            /\ new \subseteq col \cup cs
            /\ \A r \in cs : Covers(new, r)
<1> DEFINE acc == Accepted(col, cs)
           new == Upsert(col, acc)
<1>1. acc \subseteq cs /\ \A r \in acc, local \in col : local.id = r.id => RemoteWins(r, local)
  BY DEF Accepted
<1>2. new \subseteq col \cup cs
  BY <1>1 DEF Upsert
<1>3. OnePerId(new)
  BY <1>1 DEF OnePerId, Upsert
<1>4. Monotone(col, new)
  <2> SUFFICES ASSUME NEW r \in col
               PROVE  \E q \in new : q.id = r.id /\ (q = r \/ RemoteWins(q, r))
    BY DEF Monotone
  <2>1. CASE \E u \in acc : u.id = r.id
    BY <1>1, <2>1 DEF Upsert
  <2>2. CASE ~\E u \in acc : u.id = r.id
    <3>1. r \in new
      BY <2>2 DEF Upsert
    <3> QED BY <3>1
  <2> QED BY <2>1, <2>2
<1>5. ASSUME NEW r \in cs
      PROVE  Covers(new, r)
  <2>1. CASE r \in acc
    <3>1. r \in new
      BY <2>1 DEF Upsert
    <3> QED BY <3>1, WinsOrder DEF Covers
  <2>2. CASE r \notin acc
    <3>1. Covers(col, r)
      BY <2>2 DEF Accepted, Covers
    <3>2. new \in SUBSET Version
      BY <1>2
    <3> QED BY <1>4, <3>1, <3>2, CoversMonotone
  <2> QED BY <2>1, <2>2
<1> QED BY <1>2, <1>3, <1>4, <1>5

\* A record put in place of what is under its id.
LEMMA PutFacts ==
  ASSUME NEW col \in SUBSET Version, OnePerId(col), NEW r \in Version
  PROVE  OnePerId(Upsert(col, {r})) /\ Upsert(col, {r}) \subseteq col \cup {r}
BY DEF OnePerId, Upsert

-----------------------------------------------------------------------------
(* Merges.                                                                 *)

MergeInv == NumberInv /\ Applies

\* The engines between two calls, and the effect of the calls on one node.
LEMMA NoJobFacts == NoJob.cs = {} /\ NoJob.accepted = {} /\ OnePerId({})
                      /\ \A col : Accepted(col, {}) = {}
BY DEF NoJob, OnePerId, Accepted

LEMMA EngineTypes ==
  ASSUME NumberInv, NEW n \in Node
  PROVE  /\ store[n] \in SUBSET Version
         /\ job[n].cs \in SUBSET Version
         /\ \A col \in SUBSET store[n] : OnePerId(store[n]) => OnePerId(col)
BY DEF NumberInv, TypeOK, Job, OnePerId

\* What ApplyWrite, or a crash, does to a collection is a merge or nothing.
LEMMA MergedStore ==
  ASSUME MergeInv, NEW n \in Node, ApplyWrite(n) \/ Crashed(n)
  PROVE  /\ store' = [store EXCEPT ![n] = store'[n]]
         /\ OnePerId(store'[n])
         /\ Monotone(store[n], store'[n])
         /\ store'[n] \subseteq store[n] \cup job[n].cs
         /\ job' = [job EXCEPT ![n] = NoJob]
<1> DEFINE new == Upsert(store[n], Accepted(store[n], job[n].cs))
<1>1. job[n].accepted = Accepted(store[n], job[n].cs)
  BY DEF MergeInv, Applies
<1>2. store' = store \/ store' = [store EXCEPT ![n] = new]
  BY <1>1 DEF ApplyWrite, Crashed
<1>3. /\ OnePerId(new)
      /\ Monotone(store[n], new)
      /\ new \subseteq store[n] \cup job[n].cs
  BY EngineTypes, MergeFacts DEF MergeInv, Applies
<1>4. job' = [job EXCEPT ![n] = NoJob]
  BY DEF ApplyWrite, Crashed
<1>5. store \in [Node -> SUBSET Version]
  BY DEF MergeInv, NumberInv, TypeOK
<1> HIDE DEF new
<1>6. CASE store' = store
  BY <1>4, <1>5, <1>6 DEF MergeInv, Applies, Monotone
<1>7. CASE store' = [store EXCEPT ![n] = new]
  BY <1>3, <1>4, <1>5, <1>7
<1> QED BY <1>2, <1>6, <1>7

LEMMA MergeInit == Init => MergeInv
<1> SUFFICES ASSUME Init PROVE MergeInv
  OBVIOUS
<1>1. NumberInv
  BY NumberInit
<1>2. /\ \A n \in Node : store[n] = {} /\ job[n] = NoJob
      /\ \A c \in Client : c \in Node /\ wire[c] = {} /\ session[c].inbox = {}
  BY DEF Init, Idle, SessionAt, Client
<1> QED BY <1>1, <1>2, NoJobFacts DEF MergeInv, Applies, Applying

LEMMA MergeStamp ==
  ASSUME MergeInv, NEW n \in Node, NEW i \in Id, Stamp(n, i)
  PROVE  Applies'
BY DEF MergeInv, Applies, Applying, Stamp

LEMMA MergeLand ==
  ASSUME Quiet, MergeInv, NEW n \in Node, NEW r \in pending[n], Land(n, r)
  PROVE  Applies'
<1>1. job[n].cs = {} /\ job[n].accepted = {}
  BY NoJobFacts DEF Land, Applying, MergeInv, Applies
<1>2. store' = [store EXCEPT ![n] = Upsert(store[n], {r})] /\ UNCHANGED <<job, wire, session>>
  BY DEF Land
<1>3. OnePerId(Upsert(store[n], {r}))
  BY PutFacts DEF MergeInv, NumberInv, TypeOK, Applies
<1>4. \A m \in Node : OnePerId(store'[m])
  BY <1>2, <1>3 DEF MergeInv, NumberInv, TypeOK, Applies
<1>5. \A m \in Node : job'[m].accepted = Accepted(store'[m], job'[m].cs)
  BY <1>1, <1>2, NoJobFacts DEF MergeInv, NumberInv, TypeOK, Applies
<1> QED BY <1>2, <1>4, <1>5 DEF MergeInv, Applies, Applying

LEMMA MergeHubCommit ==
  ASSUME MergeInv, HubCommit
  PROVE  Applies'
<1> DEFINE c == job[Hub].from
           winning == WinningRecords(store'[Hub], job[Hub].cs, job[Hub].accepted)
           p == IF winning = {} THEN "pull" ELSE "merge"
<1>0. Hub \in Node /\ Hub \notin Client
  BY ReplicationAssumption DEF Client
<1>1. /\ store' = [store EXCEPT ![Hub] = store'[Hub]]
      /\ OnePerId(store'[Hub])
      /\ job' = [job EXCEPT ![Hub] = NoJob]
  BY <1>0, MergedStore DEF HubCommit
<1>2. \A n \in Node : OnePerId(store'[n]) /\ OnePerId(job'[n].cs)
  BY <1>0, <1>1, NoJobFacts DEF MergeInv, NumberInv, TypeOK, Applies
<1>3. \A n \in Node : job'[n].accepted = Accepted(store'[n], job'[n].cs)
  BY <1>0, <1>1, NoJobFacts DEF MergeInv, NumberInv, TypeOK, Applies
<1>4. OnePerId(winning)
  BY <1>1 DEF WinningRecords, OnePerId
<1>5. \/ session' = session
      \/ /\ session[c].pc = "await"
         /\ session' = [session EXCEPT ![c] = SessionAt(p, @.serverVV, winning)]
  BY DEF HubCommit
<1>6. wire' = wire
  BY DEF HubCommit
<1> HIDE DEF c, winning, p
<1>7. \A d \in Client : OnePerId(session'[d].inbox)
  BY <1>4, <1>5 DEF MergeInv, NumberInv, TypeOK, Applies, SessionAt
<1>8. ASSUME NEW d \in Client, Applying(d)'
      PROVE  session'[d].pc \in {"merge", "fill"} /\ job'[d].cs \subseteq session'[d].inbox
  <2>1. d \in Node /\ job'[d] = job[d]
    BY <1>0, <1>1 DEF Client
  <2>2. session[d].pc \in {"merge", "fill"} /\ job[d].cs \subseteq session[d].inbox
    BY <1>8, <2>1 DEF MergeInv, Applies, Applying
  <2>3. session'[d] = session[d]
    BY <1>5, <2>2 DEF MergeInv, NumberInv, TypeOK
  <2> QED BY <2>1, <2>2, <2>3
<1> QED BY <1>2, <1>3, <1>6, <1>7, <1>8 DEF MergeInv, Applies

LEMMA MergeHubCrash ==
  ASSUME MergeInv, HubCrash
  PROVE  Applies'
<1>0. Hub \in Node /\ Hub \notin Client
  BY ReplicationAssumption DEF Client
<1>1. /\ store' = [store EXCEPT ![Hub] = store'[Hub]]
      /\ OnePerId(store'[Hub])
      /\ job' = [job EXCEPT ![Hub] = NoJob]
      /\ UNCHANGED <<session, wire>>
  BY <1>0, MergedStore DEF HubCrash
<1>2. \A n \in Node : OnePerId(store'[n]) /\ OnePerId(job'[n].cs)
  BY <1>0, <1>1, NoJobFacts DEF MergeInv, NumberInv, TypeOK, Applies
<1>3. \A n \in Node : job'[n].accepted = Accepted(store'[n], job'[n].cs)
  BY <1>0, <1>1, NoJobFacts DEF MergeInv, NumberInv, TypeOK, Applies
<1>4. \A c \in Client : job'[c] = job[c]
  BY <1>0, <1>1 DEF Client
<1> QED BY <1>1, <1>2, <1>3, <1>4 DEF MergeInv, Applies, Applying

\* A step that starts no apply, stores nothing, and leaves client c, which is
\* not applying anything, with a one-per-id inbox and push.
LEMMA MergeSession ==
  ASSUME MergeInv, NEW c \in Client, UNCHANGED <<store, job>>, ~Applying(c),
         \A d \in Client : d # c => session'[d] = session[d] /\ wire'[d] = wire[d],
         OnePerId(session'[c].inbox), OnePerId(wire'[c])
  PROVE  Applies'
BY DEF MergeInv, Applies, Applying

LEMMA MergeClient ==
  ASSUME MergeInv, NEW c \in Client,
         \/ OpenEngine(c) \/ GetStatus(c) \/ Push(c) \/ HubReceive(c)
         \/ Pull(c) \/ ReadInbox(c) \/ WriteInbox(c)
         \/ TimeOut(c) \/ Abort(c) \/ LosePush(c)
  PROVE  Applies'
<1>0. Hub \in Node /\ c \in Node /\ c # Hub
  BY ReplicationAssumption DEF Client
<1>1. /\ session \in [Client -> Session] /\ wire \in [Client -> SUBSET Version]
      /\ job \in [Node -> Job] /\ store \in [Node -> SUBSET Version]
      /\ OnePerId(session[c].inbox) /\ OnePerId(wire[c])
      /\ Applying(c) => session[c].pc \in {"merge", "fill"}
  BY DEF MergeInv, NumberInv, TypeOK, Applies
<1>2. CASE OpenEngine(c)
  <2>1. session'[c].inbox = session[c].inbox /\ wire' = wire
    BY <1>1, <1>2 DEF OpenEngine, Session
  <2> QED BY <1>1, <1>2, <2>1, MergeSession DEF OpenEngine
<1>3. CASE GetStatus(c)
  <2>1. session'[c].inbox = {} /\ wire' = wire
    BY <1>1, <1>3 DEF GetStatus, SessionAt
  <2> QED BY <1>1, <1>3, <2>1, NoJobFacts, MergeSession DEF GetStatus
<1>4. CASE Push(c)
  <2>1. session'[c].inbox = session[c].inbox
    BY <1>1, <1>4 DEF Push, Session
  <2>2. wire'[c] = ChangesSince(store[c], session[c].serverVV)
    BY <1>1, <1>4 DEF Push
  <2>3. OnePerId(wire'[c])
    BY <1>0, <2>2 DEF ChangesSince, OnePerId, MergeInv, Applies
  <2> QED BY <1>1, <1>4, <2>1, <2>3, MergeSession DEF Push
<1>5. CASE HubReceive(c)
  <2>1. /\ job' = [job EXCEPT ![Hub] = [cs |-> wire[c],
                                        accepted |-> Accepted(store[Hub], wire[c]),
                                        from |-> c]]
        /\ wire' = [wire EXCEPT ![c] = {}]
        /\ UNCHANGED <<store, session>>
    BY <1>5 DEF HubReceive, ApplyRead
  <2>2. \A d \in Client : OnePerId(wire'[d]) /\ job'[d] = job[d]
    BY <1>0, <1>1, <2>1, NoJobFacts DEF MergeInv, Applies, Client
  <2>3. \A n \in Node : OnePerId(job'[n].cs) /\ job'[n].accepted = Accepted(store[n], job'[n].cs)
    BY <1>0, <1>1, <2>1 DEF MergeInv, Applies
  <2> QED BY <2>1, <2>2, <2>3 DEF MergeInv, Applies, Applying
<1>6. CASE Pull(c)
  <2>1. session'[c].inbox = ChangesSince(store[Hub], vv[c]) /\ wire' = wire
    BY <1>1, <1>6 DEF Pull, SessionAt
  <2>2. OnePerId(session'[c].inbox)
    BY <1>0, <2>1 DEF ChangesSince, OnePerId, MergeInv, Applies
  <2> QED BY <1>1, <1>6, <2>1, <2>2, MergeSession DEF Pull
<1>7. CASE ReadInbox(c)
  <2>1. /\ job' = [job EXCEPT ![c] = [cs |-> session[c].inbox,
                                      accepted |-> Accepted(store[c], session[c].inbox),
                                      from |-> Hub]]
        /\ session[c].pc \in {"merge", "fill"}
        /\ UNCHANGED <<store, session, wire>>
    BY <1>7 DEF ReadInbox, ApplyRead
  <2>2. \A n \in Node : OnePerId(job'[n].cs) /\ job'[n].accepted = Accepted(store[n], job'[n].cs)
    BY <1>0, <1>1, <2>1 DEF MergeInv, Applies
  <2>3. \A d \in Client : d # c => job'[d] = job[d]
    BY <2>1
  <2>4. job'[c].cs = session[c].inbox
    BY <1>0, <1>1, <2>1
  <2> QED BY <2>1, <2>2, <2>3, <2>4 DEF MergeInv, Applies, Applying
<1>8. ASSUME ApplyWrite(c) \/ Crashed(c), wire' = wire,
             \A d \in Client : d # c => session'[d] = session[d],
             session'[c].inbox = {}
      PROVE  Applies'
  <2>1. /\ store' = [store EXCEPT ![c] = store'[c]]
        /\ OnePerId(store'[c])
        /\ job' = [job EXCEPT ![c] = NoJob]
    BY <1>0, <1>8, MergedStore
  <2>2. /\ \A n \in Node : OnePerId(store'[n]) /\ OnePerId(job'[n].cs)
        /\ \A n \in Node : job'[n].accepted = Accepted(store'[n], job'[n].cs)
    BY <1>0, <1>1, <2>1, NoJobFacts DEF MergeInv, Applies
  <2>3. job'[c].cs = {} /\ \A d \in Client : d # c => job'[d] = job[d]
    BY <1>0, <1>1, <2>1, NoJobFacts
  <2> QED BY <1>8, <2>2, <2>3, NoJobFacts DEF MergeInv, Applies, Applying
<1>9. CASE WriteInbox(c)
  BY <1>1, <1>8, <1>9 DEF WriteInbox, SessionAt
<1>10. CASE TimeOut(c)
  <2>1. session'[c].inbox = {} /\ wire' = wire
    BY <1>1, <1>10 DEF TimeOut, Idle, SessionAt
  <2> QED BY <1>1, <1>10, <2>1, NoJobFacts, MergeSession DEF TimeOut
<1>11. CASE Abort(c)
  BY <1>1, <1>8, <1>11 DEF Abort, Idle, SessionAt
<1>12. CASE LosePush(c)
  <2>1. /\ \A d \in Client : OnePerId(wire'[d])
        /\ UNCHANGED <<store, job, session>>
    BY <1>1, <1>12, NoJobFacts DEF LosePush, MergeInv, Applies
  <2> QED BY <2>1 DEF MergeInv, Applies, Applying
<1> QED BY <1>2, <1>3, <1>4, <1>5, <1>6, <1>7, <1>9, <1>10, <1>11, <1>12

\* Every step, if a landing write does not disturb an apply_changes under way.
LEMMA MergeSteps ==
  ASSUME MergeInv, [Next]_vars,
         \A n \in Node : \A r \in pending[n] : Land(n, r) => Applies'
  PROVE  MergeInv'
<1>1. NumberInv'
  BY NumberNext DEF MergeInv
<1>2. Applies'
  <2>1. CASE UNCHANGED vars
    BY <2>1 DEF MergeInv, Applies, Applying, vars
  <2>2. CASE LocalWrite
    BY <2>2, MergeStamp DEF LocalWrite
  <2>3. CASE HubCommit \/ HubCrash
    BY <2>3, MergeHubCommit, MergeHubCrash
  <2>4. CASE \E c \in Client :
               \/ OpenEngine(c) \/ GetStatus(c) \/ Push(c) \/ HubReceive(c)
               \/ Pull(c) \/ ReadInbox(c) \/ WriteInbox(c)
               \/ TimeOut(c) \/ Abort(c) \/ LosePush(c)
    BY <2>4, MergeClient
  <2> QED BY <2>1, <2>2, <2>3, <2>4 DEF Next
<1> QED BY <1>1, <1>2 DEF MergeInv

LEMMA MergeNext == Quiet /\ MergeInv /\ [Next]_vars => MergeInv'
BY MergeLand, MergeSteps

\* While writes keep out of apply_changes, every collection and change set
\* holds one record per id and what is upserted wins over what is there.
THEOREM MergesInvariant == Quiet => (Spec => []MergeInv)
<1> SUFFICES ASSUME Quiet PROVE Spec => []MergeInv
  OBVIOUS
<1>1. MergeInv /\ [Next]_vars => MergeInv'
  BY MergeNext
<1> QED BY <1>1, MergeInit, PTL DEF Spec

-----------------------------------------------------------------------------
(* What a step does to the collections and to the history.                 *)

\* A merge at node n: of versions that exist, losing none to an older one.
MergeStep(n) ==
  /\ store' = [store EXCEPT ![n] = store'[n]]
  /\ OnePerId(store'[n])
  /\ Monotone(store[n], store'[n])
  /\ store'[n] \subseteq store[n] \cup written
  /\ written' = written

LEMMA EngineMerges ==
  ASSUME MergeInv, NEW n \in Node, ApplyWrite(n) \/ Crashed(n), written' = written
  PROVE  MergeStep(n)
<1>1. job[n].cs \subseteq written
  BY DEF MergeInv, NumberInv
<1> QED BY <1>1, MergedStore DEF MergeStep

LEMMA StepOfCollections ==
  ASSUME MergeInv, Next
  PROVE  \/ UNCHANGED <<store, written>>
         \/ \E n \in Node : MergeStep(n)
         \/ \E n \in Node : \E r \in pending[n] : Land(n, r)
<1>1. Hub \in Node /\ Client \subseteq Node
  BY ReplicationAssumption DEF Client
<1>2. CASE LocalWrite
  BY <1>2 DEF LocalWrite, Stamp
<1>3. CASE HubCommit \/ HubCrash
  <2>1. (ApplyWrite(Hub) \/ Crashed(Hub)) /\ written' = written
    BY <1>3 DEF HubCommit, HubCrash, localVars
  <2> QED BY <1>1, <2>1, EngineMerges
<1>4. ASSUME NEW c \in Client, WriteInbox(c) \/ Abort(c)
      PROVE  MergeStep(c)
  <2>1. (ApplyWrite(c) \/ Crashed(c)) /\ written' = written
    BY <1>4 DEF WriteInbox, Abort, localVars
  <2> QED BY <1>1, <2>1, EngineMerges
<1>5. ASSUME NEW c \in Client,
             \/ OpenEngine(c) \/ GetStatus(c) \/ Push(c) \/ HubReceive(c)
             \/ Pull(c) \/ ReadInbox(c) \/ TimeOut(c) \/ LosePush(c)
      PROVE  UNCHANGED <<store, written>>
  BY <1>5 DEF OpenEngine, GetStatus, Push, HubReceive, Pull, ReadInbox,
              TimeOut, LosePush, localVars
<1> QED BY <1>1, <1>2, <1>3, <1>4, <1>5 DEF Next

-----------------------------------------------------------------------------
(* Refinement.                                                             *)

LEMMA ImplementsInit == Init => LWW!Init
BY DEF Init, LWW!Init

\* A writer's upsert is a write of the abstract specification: its number is
\* fresh.
LEMMA LandWrites ==
  ASSUME MergeInv, NEW n \in Node, NEW r \in pending[n], Land(n, r)
  PROVE  LWW!Write(n, r)
<1>1. r \in Made /\ written \subseteq Made
  BY DEF Made
<1>2. r.node = n /\ r \notin written
  BY DEF MergeInv, NumberInv
<1>3. \A w \in written : w.node = n => w.seq # r.seq
  BY <1>1, <1>2 DEF MergeInv, NumberInv
<1> QED BY <1>2, <1>3 DEF Land, LWW!Write, LWW!Upsert, Upsert

LEMMA MergeMerges ==
  ASSUME NEW n \in Node, MergeStep(n)
  PROVE  LWW!Merge(n)
BY DEF MergeStep, LWW!Merge, LWW!OnePerId, OnePerId, LWW!Monotone, Monotone,
       LWW!RemoteWins, RemoteWins

LEMMA ImplementsNext ==
  MergeInv /\ [Next]_vars => [LWW!Next]_<<store, written>>
<1> SUFFICES ASSUME MergeInv, Next PROVE LWW!Next \/ UNCHANGED <<store, written>>
  BY DEF vars
<1>1. ASSUME NEW n \in Node, NEW r \in pending[n], Land(n, r)
      PROVE  LWW!Next
  <2>1. r \in written'
    BY <1>1 DEF Land
  <2> QED BY <1>1, <2>1, LandWrites DEF LWW!Next
<1>2. ASSUME NEW n \in Node, MergeStep(n)
      PROVE  LWW!Next
  BY <1>2, MergeMerges DEF LWW!Next
<1> QED BY <1>1, <1>2, StepOfCollections

\* Seen from the collections, the sessions, messages, crashes and restarts of
\* SyncReplication are own writes and last-writer-wins merges (sync.py:159).
THEOREM ReplicationImplements == Quiet => (Spec => Implements)
<1> SUFFICES ASSUME Quiet PROVE Spec => Implements
  OBVIOUS
<1>1. MergeInv /\ [Next]_vars => [LWW!Next]_<<store, written>>
  BY ImplementsNext
<1>2. Init => LWW!Init
  BY ImplementsInit
<1>3. Spec => []MergeInv
  BY MergesInvariant
<1> QED BY <1>1, <1>2, <1>3, PTL DEF Spec, Implements, LWW!Spec

\* While writes keep out of apply_changes, no step but a writer's own upsert
\* lets a record be replaced by a loser, or disappear (sync.py:208-236).
THEOREM CollectionsMonotone == Quiet => (Spec => StoreMonotone)
<1> DEFINE Step == written' = written => \A n \in Node : Monotone(store[n], store'[n])
<1> SUFFICES ASSUME Quiet PROVE Spec => [][Step]_vars
  BY DEF StoreMonotone
<1>1. MergeInv /\ [Next]_vars => [Step]_vars
  <2> SUFFICES ASSUME MergeInv, Next, written' = written, NEW n \in Node
               PROVE  Monotone(store[n], store'[n])
    OBVIOUS
  <2>1. store \in [Node -> SUBSET Version]
    BY DEF MergeInv, NumberInv, TypeOK
  <2>2. CASE UNCHANGED <<store, written>>
    BY <2>2 DEF Monotone
  <2>3. ASSUME NEW m \in Node, MergeStep(m)
        PROVE  Monotone(store[n], store'[n])
    BY <2>1, <2>3 DEF MergeStep, Monotone
  <2>4. ASSUME NEW m \in Node, NEW r \in pending[m], Land(m, r)
        PROVE  FALSE
    BY <2>4 DEF Land, MergeInv, NumberInv
  <2> QED BY <2>2, <2>3, <2>4, StepOfCollections
<1>2. Spec => []MergeInv
  BY MergesInvariant
<1> HIDE DEF Step
<1> QED BY <1>1, <1>2, PTL DEF Spec

-----------------------------------------------------------------------------
(* The facts the lemmas below start from.                                  *)

LEMMA HubFacts ==
  ASSUME HubInv
  PROVE  /\ Hub \in Node /\ Client \subseteq Node /\ Hub \notin Client
         /\ MergeInv
         /\ store \in [Node -> SUBSET Version]
         /\ seq \in [Node -> Nat]
         /\ vv[Hub] \in VersionVector
         /\ written \in SUBSET Version
         /\ \A n \in Node : store[n] \subseteq written /\ job[n].cs \subseteq written
         /\ \A c \in Client : wire[c] \subseteq written /\ session[c].inbox \subseteq written
         /\ \A n \in Node : pending[n] \in SUBSET Version
BY ReplicationAssumption DEF HubInv, MergeInv, NumberInv, TypeOK, Client

LEMMA VersionFields ==
  \A v \in Version : v.node \in Node /\ v.seq \in Nat /\ v.seq > 0 /\ v.ts \in Nat
BY DEF Version

\* A number that is written has landed.
LEMMA LandedFacts ==
  ASSUME HubInv
  PROVE  /\ \A a \in Node : Landed(a) \in Int
         /\ \A r \in written : r.node \in Node /\ r.seq <= Landed(r.node)
BY HubFacts, VersionFields DEF HubInv, Stamps, Landed

\* No step but a write of the hub itself, which there is none, loses anything
\* that the hub's collection covers.
LEMMA HubCoverage ==
  ASSUME HubInv, Next
  PROVE  \A v \in written : Covers(store[Hub], v) => Covers(store'[Hub], v)
<1>1. CASE UNCHANGED <<store, written>>
  BY <1>1
<1>2. ASSUME NEW n \in Node, MergeStep(n)
      PROVE  \A v \in written : Covers(store[Hub], v) => Covers(store'[Hub], v)
  <2>1. store'[n] \in SUBSET Version /\ Monotone(store[n], store'[n])
    BY <1>2, HubFacts DEF MergeStep
  <2>2. n # Hub => store'[Hub] = store[Hub]
    BY <1>2, HubFacts DEF MergeStep
  <2> QED BY <2>1, <2>2, HubFacts, CoversMonotone
<1>3. ASSUME NEW n \in Node, NEW r \in pending[n], Land(n, r)
      PROVE  store'[Hub] = store[Hub]
  <2>1. n # Hub
    BY DEF HubInv, OwnWrites
  <2> QED BY <1>3, <2>1, HubFacts DEF Land
<1> QED BY <1>1, <1>2, <1>3, HubFacts, StepOfCollections

-----------------------------------------------------------------------------
(* Numbers and stamps of the writes.                                       *)

LEMMA ClockStamp ==
  ASSUME Dedicated, HubInv, NEW n \in Node, NEW i \in Id, Stamp(n, i)
  PROVE  /\ PendingIsLatest' /\ Stamps'
         /\ \A a \in Node : Landed(a)' = Landed(a)
<1> DEFINE new == Stamped(n, i)
<1>1. /\ pending[n] = {}
      /\ pending' = [pending EXCEPT ![n] = {new}]
      /\ seq' = [seq EXCEPT ![n] = seq[n] + 1]
      /\ now' = now + 1
      /\ written' = written
  BY DEF Dedicated, Stamp, NextSeq
<1>2. new.node = n /\ new.seq = seq[n] + 1 /\ new.ts = now + 1 + Drift[n]
  BY DEF Stamped
<1>3. /\ pending \in [Node -> SUBSET Version] /\ seq \in [Node -> Nat] /\ now \in Nat
      /\ Drift \in [Node -> Nat]
  BY ReplicationAssumption DEF HubInv, NumberInv, TypeOK
<1>4. /\ Made' = Made \cup {new}
      /\ \A r \in Made : r \in Version
  BY <1>1, <1>3, HubFacts DEF Made
<1> HIDE DEF new
<1>5. PendingIsLatest'
  BY <1>1, <1>2, <1>3 DEF PendingIsLatest, HubInv
<1>6. \A a \in Node : Landed(a)' = Landed(a)
  BY <1>1, <1>3 DEF Landed
<1>7. \A r \in written' : r.seq <= Landed(r.node)'
  BY <1>1, <1>6, HubFacts, VersionFields DEF HubInv, Stamps
<1>8. \A r \in Made' : r.ts <= now' + Drift[r.node]
  BY <1>1, <1>2, <1>3, <1>4, VersionFields DEF HubInv, Stamps
<1>9. \A r, q \in Made' : r.node = q.node /\ r.seq < q.seq => r.ts < q.ts
  <2>1. \A r \in Made : r.seq <= seq[r.node] /\ r.ts <= now + Drift[r.node]
    BY DEF HubInv, Stamps, NumberInv
  <2>2. \A r \in Made : r.node = n => r.seq < new.seq /\ r.ts < new.ts
    BY <1>2, <1>3, <1>4, <2>1, VersionFields
  <2>3. ASSUME NEW r \in Made', NEW q \in Made', r.node = q.node, r.seq < q.seq
        PROVE  r.ts < q.ts
    <3>1. CASE r \in Made /\ q \in Made
      BY <2>3, <3>1 DEF HubInv, Stamps
    <3>2. CASE r \in Made /\ q = new
      BY <1>2, <2>2, <2>3, <3>2
    <3>3. CASE r = new /\ q \in Made
      BY <1>2, <1>3, <1>4, <2>2, <2>3, <3>3, VersionFields
    <3>4. CASE r = new /\ q = new
      BY <1>2, <1>3, <2>3, <3>4
    <3> QED BY <1>4, <3>1, <3>2, <3>3, <3>4
  <2> QED BY <2>3
<1> QED BY <1>5, <1>6, <1>7, <1>8, <1>9 DEF Stamps

LEMMA ClockLand ==
  ASSUME HubInv, NEW n \in Node, NEW r \in pending[n], Land(n, r)
  PROVE  /\ PendingIsLatest' /\ Stamps'
         /\ r.node = n /\ r.seq = Landed(n) + 1
         /\ \A a \in Node : Landed(a) <= Landed(a)'
<1>1. /\ pending[n] = {r} /\ r.seq = seq[n] /\ r.node = n /\ r \in Version
  BY HubFacts DEF HubInv, PendingIsLatest, NumberInv
<1>2. /\ pending' = [pending EXCEPT ![n] = {}]
      /\ written' = written \cup {r}
      /\ seq' = seq /\ now' = now
  BY <1>1 DEF Land
<1>3. pending \in [Node -> SUBSET Version] /\ seq \in [Node -> Nat]
  BY DEF HubInv, NumberInv, TypeOK
<1>4. Made' = Made
  BY <1>1, <1>2, <1>3 DEF Made
<1>5. PendingIsLatest'
  BY <1>2, <1>3 DEF PendingIsLatest, HubInv
<1>6. /\ Landed(n)' = seq[n] /\ Landed(n) = seq[n] - 1
      /\ \A a \in Node : a # n => Landed(a)' = Landed(a)
  BY <1>1, <1>2, <1>3 DEF Landed
<1>7. \A a \in Node : Landed(a) <= Landed(a)'
  BY <1>3, <1>6, LandedFacts
<1>8. \A q \in written' : q.seq <= Landed(q.node)'
  <2>1. ASSUME NEW q \in written
        PROVE  q.seq <= Landed(q.node)'
    <3>1. q.node \in Node /\ q.seq \in Nat /\ q.seq <= Landed(q.node)
      BY HubFacts, VersionFields, LandedFacts
    <3>2. Landed(q.node) \in Int /\ Landed(q.node)' \in Int
      BY <1>3, <1>6, <3>1, LandedFacts
    <3> HIDE DEF Landed
    <3> QED BY <1>7, <3>1, <3>2
  <2>2. r.seq <= Landed(r.node)'
    BY <1>1, <1>3, <1>6
  <2> QED BY <1>2, <2>1, <2>2
<1>9. Stamps'
  BY <1>2, <1>4, <1>8 DEF HubInv, Stamps
<1> QED BY <1>1, <1>3, <1>5, <1>6, <1>7, <1>9

LEMMA ClockEngine ==
  ASSUME HubInv, UNCHANGED localVars
  PROVE  /\ PendingIsLatest' /\ Stamps'
         /\ \A a \in Node : Landed(a)' = Landed(a)
BY DEF HubInv, PendingIsLatest, Stamps, Landed, Made, localVars

-----------------------------------------------------------------------------
(* What a client wrote, it holds or has superseded.                        *)

LEMMA OwnStamp ==
  ASSUME Dedicated, HubInv, NEW n \in Node, NEW i \in Id, Stamp(n, i)
  PROVE  OwnWrites'
<1>1. n # Hub /\ pending' = [pending EXCEPT ![n] = @ \cup {Stamped(n, i)}]
  BY DEF Dedicated, Stamp
<1>2. pending'[Hub] = {}
  BY <1>1, HubFacts DEF HubInv, OwnWrites, NumberInv, TypeOK
<1> QED BY <1>2 DEF HubInv, OwnWrites, Stamp

LEMMA OwnLand ==
  ASSUME HubInv, NEW n \in Node, NEW r \in pending[n], Land(n, r)
  PROVE  OwnWrites'
<1>1. /\ r.node = n /\ r.seq = Landed(n) + 1 /\ r \in Version /\ n # Hub
  BY ClockLand, HubFacts DEF HubInv, OwnWrites
<1>2. /\ store' = [store EXCEPT ![n] = Upsert(store[n], {r})]
      /\ written' = written \cup {r}
      /\ pending'[Hub] = {}
  BY <1>1 DEF Land, HubInv, OwnWrites, NumberInv, TypeOK
<1>3. Covers(store'[n], r)
  BY <1>1, <1>2, HubFacts, WinsOrder DEF Covers, Upsert
<1>4. ASSUME NEW v \in written
      PROVE  v.node # Hub /\ Covers(store'[v.node], v)
  <2>1. v.node \in Node /\ v.node # Hub /\ Covers(store[v.node], v) /\ v \in Version
    BY HubFacts, VersionFields DEF HubInv, OwnWrites
  <2>2. CASE v.node # n
    BY <1>2, <2>1, <2>2, HubFacts
  <2>3. CASE v.node = n /\ v.id # r.id
    <3>1. PICK h \in store[n] : h.id = v.id /\ ~RemoteWins(v, h)
      BY <2>1, <2>3 DEF Covers
    <3>2. h \in store'[n]
      BY <1>2, <2>3, <3>1, HubFacts DEF Upsert
    <3>3. Covers(store'[n], v)
      BY <3>1, <3>2 DEF Covers
    <3> QED BY <2>1, <2>3, <3>3
  <2>4. CASE v.node = n /\ v.id = r.id
    <3>1. v \in Made /\ r \in Made
      BY DEF Made
    <3>2. v.seq < r.seq
      BY <1>1, <2>1, <2>4, LandedFacts, VersionFields
    <3>3. v.ts < r.ts
      BY <1>1, <2>4, <3>1, <3>2 DEF HubInv, Stamps
    <3>4. ~RemoteWins(v, r)
      BY <1>1, <2>1, <3>3, VersionFields DEF RemoteWins
    <3>5. r \in store'[n]
      BY <1>2, HubFacts DEF Upsert
    <3>6. Covers(store'[n], v)
      BY <2>4, <3>4, <3>5 DEF Covers
    <3> QED BY <2>1, <2>4, <3>6
  <2> QED BY <2>1, <2>2, <2>3, <2>4
<1> QED BY <1>1, <1>2, <1>3, <1>4 DEF OwnWrites

LEMMA OwnEngine ==
  ASSUME HubInv, UNCHANGED localVars,
         store' = store \/ \E n \in Node : MergeStep(n)
  PROVE  OwnWrites'
<1>1. ASSUME NEW n \in Node, MergeStep(n), NEW v \in written
      PROVE  v.node # Hub /\ Covers(store'[v.node], v)
  <2>1. v.node \in Node /\ v.node # Hub /\ Covers(store[v.node], v) /\ v \in Version
    BY HubFacts, VersionFields DEF HubInv, OwnWrites
  <2>2. store'[n] \in SUBSET Version /\ Monotone(store[n], store'[n])
    BY <1>1, HubFacts DEF MergeStep
  <2>3. v.node # n => store'[v.node] = store[v.node]
    BY <1>1, <2>1, HubFacts DEF MergeStep
  <2> QED BY <2>1, <2>2, <2>3, HubFacts, CoversMonotone
<1> QED BY <1>1 DEF localVars, HubInv, OwnWrites

LEMMA AuthorsNext ==
  ASSUME HubInv, [Next]_vars
  PROVE  AuthorsKept'
<1>1. CASE UNCHANGED localVars
  BY <1>1 DEF HubInv, AuthorsKept, Made, localVars
<1>2. ASSUME NEW n \in Node, NEW i \in Id, Stamp(n, i)
      PROVE  AuthorsKept'
  <2>1. Made' \subseteq Made \cup {Stamped(n, i)}
    BY <1>2, HubFacts DEF Stamp, Made, HubInv, NumberInv, TypeOK
  <2>2. Stamped(n, i).id = i /\ Stamped(n, i).node = n /\ i \in Editable[n]
    BY <1>2 DEF Stamp, Stamped
  <2> QED BY <2>1, <2>2 DEF HubInv, AuthorsKept
<1>3. ASSUME NEW n \in Node, NEW r \in pending[n], Land(n, r)
      PROVE  AuthorsKept'
  <2>1. Made' \subseteq Made
    BY <1>3, HubFacts DEF Land, Made, HubInv, NumberInv, TypeOK
  <2> QED BY <2>1 DEF HubInv, AuthorsKept
<1>4. CASE UNCHANGED vars
  BY <1>1, <1>4 DEF vars, localVars
<1>5. CASE HubCommit \/ HubCrash
  BY <1>1, <1>5 DEF HubCommit, HubCrash
<1>6. CASE \E c \in Client :
             \/ OpenEngine(c) \/ GetStatus(c) \/ Push(c) \/ HubReceive(c)
             \/ Pull(c) \/ ReadInbox(c) \/ WriteInbox(c)
             \/ TimeOut(c) \/ Abort(c) \/ LosePush(c)
  <2>1. UNCHANGED localVars
    BY <1>6 DEF OpenEngine, GetStatus, Push, HubReceive, Pull, ReadInbox,
                WriteInbox, TimeOut, Abort, LosePush
  <2> QED BY <1>1, <2>1
<1> QED BY <1>2, <1>3, <1>4, <1>5, <1>6 DEF Next, LocalWrite

\* A write that lands while its node is applying a change set: where ids are not
\* shared, the change set holds nothing under its id but older writes of the same
\* node, which lost to what was there and would lose to it.
LEMMA ApplyLand ==
  ASSUME Dedicated, HubInv, NEW n \in Node, NEW r \in pending[n], Land(n, r)
  PROVE  Applies'
<1>1. CASE Quiet
  BY <1>1, HubFacts, MergeLand
<1>2. CASE Separate
  <2> DEFINE cs == job[n].cs
  <2>1. /\ store' = [store EXCEPT ![n] = Upsert(store[n], {r})]
        /\ UNCHANGED <<job, wire, session>>
    BY DEF Land
  <2>2. /\ store \in [Node -> SUBSET Version] /\ store[n] \in SUBSET Version
        /\ cs \subseteq written /\ cs \in SUBSET Version /\ r \in Version
    BY HubFacts
  <2>3. r.node = n /\ r.seq = Landed(n) + 1
    BY ClockLand
  <2>4. \A m \in Node : OnePerId(store'[m])
    BY <2>1, <2>2, PutFacts DEF HubInv, Applies
  <2>5. ASSUME NEW q \in cs, q.id = r.id
        PROVE  ~RemoteWins(q, r) /\ Covers(store[n], q)
    <3>1. q \in written /\ q \in Made /\ r \in Made
      BY <2>2 DEF Made
    <3>2. q.node \in Node /\ q.seq \in Nat /\ q.seq <= Landed(q.node)
      BY <3>1, LandedFacts, <2>2, VersionFields
    <3>3. q.node = n
      BY <1>2, <2>3, <2>5, <3>1, <3>2 DEF Separate, HubInv, AuthorsKept
    <3>4. q.seq < r.seq
      BY <2>3, <3>2, <3>3, LandedFacts
    <3>5. q.ts < r.ts
      BY <2>3, <3>1, <3>3, <3>4 DEF HubInv, Stamps
    <3>6. ~RemoteWins(q, r)
      BY <2>2, <3>5, VersionFields DEF RemoteWins
    <3>7. Covers(store[n], q)
      BY <3>1, <3>3 DEF HubInv, OwnWrites
    <3> QED BY <3>6, <3>7
  <2>6. Accepted(Upsert(store[n], {r}), cs) = Accepted(store[n], cs)
    <3> SUFFICES ASSUME NEW q \in cs
                 PROVE  q \in Accepted(Upsert(store[n], {r}), cs) <=> q \in Accepted(store[n], cs)
      BY DEF Accepted
    <3>1. CASE q.id = r.id
      <4>1. r \in Upsert(store[n], {r})
        BY DEF Upsert
      <4>2. q \notin Accepted(Upsert(store[n], {r}), cs)
        BY <2>5, <3>1, <4>1 DEF Accepted
      <4>3. q \notin Accepted(store[n], cs)
        BY <2>5, <3>1 DEF Accepted, Covers
      <4> QED BY <4>2, <4>3
    <3>2. CASE q.id # r.id
      BY <3>2 DEF Accepted, Upsert
    <3> QED BY <3>1, <3>2
  <2>7. \A m \in Node : job'[m].accepted = Accepted(store'[m], job'[m].cs)
    BY <2>1, <2>2, <2>6 DEF HubInv, Applies
  <2> QED BY <2>1, <2>4, <2>7 DEF HubInv, Applies, Applying
<1> QED BY <1>1, <1>2 DEF Dedicated

-----------------------------------------------------------------------------
(* Vectors and change sets.                                                *)

\* The vector of a fresh file or a fresh session claims nothing.
LEMMA KnownEmpty ==
  ASSUME HubInv
  PROVE  \A a \in Node : EmptyVV[a] <= Landed(a)
                         /\ \A v \in written : ~(v.seq <= EmptyVV[a])
<1>1. \A a \in Node : EmptyVV[a] = 0 /\ Landed(a) \in Int
  BY LandedFacts DEF EmptyVV
<1>2. \A a \in Node : 0 <= Landed(a)
  BY HubFacts, VersionFields DEF Landed, HubInv, PendingIsLatest
<1> QED BY <1>1, <1>2, HubFacts, VersionFields

\* The vector the hub opens with, rebuilt from its collection or read from
\* its file, is backed by the collection.
LEMMA KnownHubVV ==
  ASSUME HubInv
  PROVE  Known(HubVV)
<1> SUFFICES ASSUME NEW a \in Node
             PROVE  HubVV[a] <= Landed(a) /\ HubHasUpTo(a, HubVV[a])
  BY DEF Known
<1>1. CASE HubVV[a] = vv[Hub][a]
  BY <1>1 DEF HubInv, HubBacked, Known
<1>2. ASSUME NEW r \in store[Hub], r.node = a, r.seq = HubVV[a]
      PROVE  HubVV[a] <= Landed(a) /\ HubHasUpTo(a, HubVV[a])
  BY <1>2, HubFacts, LandedFacts DEF HubInv, HubBacked, Backed
<1> QED BY <1>1, <1>2, HubVVFacts DEF HubInv

\* What a client selects for a push closes its holes: its own older writes it
\* sends too, or the vector it was shown claims what it has instead of them;
\* records of others came with everything before them on the hub.
LEMMA SelectionClosed ==
  ASSUME HubInv, NEW c \in Client
  PROVE  Closed(ChangesSince(store[c], session[c].serverVV))
<1> DEFINE cs == ChangesSince(store[c], session[c].serverVV)
<1> SUFFICES ASSUME NEW r \in cs, NEW v \in written, v.node = r.node, v.seq <= r.seq
             PROVE  Covers(store[Hub], v) \/ Covers(cs, v)
  BY DEF Closed
<1>1. r \in store[c] /\ c \in Node
  BY HubFacts DEF ChangesSince
<1>2. CASE r.node # c
  BY <1>1, <1>2 DEF HubInv, ClientBacked, Backed, HubHasUpTo
<1>3. CASE r.node = c
  <2>1. PICK h \in store[c] : h.id = v.id /\ ~RemoteWins(v, h)
    BY <1>3 DEF HubInv, OwnWrites, Covers
  <2>2. CASE h \in cs
    BY <2>1, <2>2 DEF Covers
  <2>3. CASE h \notin cs
    <3>1. h \in written /\ h \in Version /\ v \in Version
      BY <1>1, HubFacts
    <3>2. h.node \in Node /\ session[c].serverVV[h.node] \in Nat /\ h.seq \in Nat
      BY <3>1, VersionFields, SessionFields DEF HubInv, VersionVector
    <3>3. h.seq <= session[c].serverVV[h.node]
      BY <2>3, <3>2 DEF ChangesSince
    <3>4. Covers(store[Hub], h)
      BY <3>1, <3>2, <3>3 DEF HubInv, ClientBacked, Known, HubHasUpTo
    <3> QED BY <2>1, <3>1, <3>4, HubFacts, CoversTransitive
  <2> QED BY <2>2, <2>3
<1> QED BY <1>2, <1>3

\* Once the hub has upserted a push, it covers all its authors wrote up to
\* its records.
LEMMA PushLands ==
  ASSUME HubInv, store'[Hub] = Upsert(store[Hub], job[Hub].accepted)
  PROVE  \A r \in job[Hub].cs : \A v \in written :
           v.node = r.node /\ v.seq <= r.seq => Covers(store'[Hub], v)
<1> DEFINE cs == job[Hub].cs
           new == Upsert(store[Hub], Accepted(store[Hub], cs))
<1>1. store'[Hub] = new
  BY HubFacts DEF HubInv, Applies
<1>2. /\ cs \in SUBSET Version /\ store[Hub] \in SUBSET Version
      /\ Monotone(store[Hub], new) /\ new \subseteq store[Hub] \cup cs
      /\ \A r \in cs : Covers(new, r)
  BY HubFacts, MergeFacts DEF HubInv, Applies
<1>3. new \in SUBSET Version
  BY <1>2
<1> HIDE DEF new
<1> SUFFICES ASSUME NEW r \in cs, NEW v \in written, v.node = r.node, v.seq <= r.seq
             PROVE  Covers(new, v)
  BY <1>1
<1>4. v \in Version
  BY HubFacts
<1>5. CASE Covers(store[Hub], v)
  BY <1>2, <1>3, <1>4, <1>5, CoversMonotone
<1>6. CASE Covers(cs, v)
  <2>1. PICK h \in cs : h.id = v.id /\ ~RemoteWins(v, h)
    BY <1>6 DEF Covers
  <2>2. Covers(new, h) /\ h \in Version
    BY <1>2, <2>1
  <2> QED BY <1>3, <1>4, <2>1, <2>2, CoversTransitive
<1> QED BY <1>5, <1>6 DEF HubInv, HubBacked, Closed

-----------------------------------------------------------------------------
(* A writer's steps: what they add is beyond every claim.                  *)

LEMMA BackedStamp ==
  ASSUME Dedicated, HubInv, NEW n \in Node, NEW i \in Id, Stamp(n, i)
  PROVE  HubBacked' /\ \A c \in Client : ClientBacked(c)'
<1>1. \A a \in Node : Landed(a)' = Landed(a)
  BY ClockStamp
<1>2. UNCHANGED <<store, vv, job, session, wire, written>>
  BY DEF Stamp
<1>3. HubBacked'
  BY <1>1, <1>2 DEF HubInv, HubBacked, Known, Backed, HubHasUpTo, Closed
<1>4. \A c \in Client : ClientBacked(c)'
  BY <1>1, <1>2 DEF HubInv, ClientBacked, Known, Backed, HubHasUpTo, Closed
<1> QED BY <1>3, <1>4

\* A write that lands on a client leaves the hub alone, and its number is
\* beyond what any vector claims and what any record closes up to.
LEMMA BackedLand ==
  ASSUME HubInv, NEW n \in Node, NEW r \in pending[n], Land(n, r)
  PROVE  HubBacked' /\ \A c \in Client : ClientBacked(c)'
<1>1. /\ r.node = n /\ r.seq = Landed(n) + 1 /\ n # Hub /\ r \in Version
      /\ \A a \in Node : Landed(a) <= Landed(a)'
  BY ClockLand, HubFacts DEF HubInv, OwnWrites
<1>2. /\ store'[Hub] = store[Hub]
      /\ written' = written \cup {r}
      /\ UNCHANGED <<vv, job, session, wire>>
  BY <1>1, HubFacts DEF Land
<1>3. \A a \in Node : Landed(a) \in Int /\ Landed(a)' \in Int
  BY <1>2, HubFacts DEF Land, Landed
<1>4. ASSUME NEW q \in written, NEW v \in written', v.node = q.node, v.seq <= q.seq
      PROVE  v \in written
  BY <1>1, <1>2, <1>3, <1>4, LandedFacts, HubFacts, VersionFields
<1>5. ASSUME NEW vec \in VersionVector, NEW a \in Node, vec[a] <= Landed(a),
             HubHasUpTo(a, vec[a])
      PROVE  vec[a] <= Landed(a)' /\ HubHasUpTo(a, vec[a])'
  <2>1. vec[a] \in Nat
    BY DEF VersionVector
  <2>2. ~(r.node = a /\ r.seq <= vec[a])
    BY <1>1, <1>3, <1>5, <2>1
  <2>3. vec[a] <= Landed(a)'
    BY <1>1, <1>3, <1>5, <2>1
  <2> QED BY <1>2, <1>5, <2>2, <2>3 DEF HubHasUpTo
<1>6. HubBacked'
  <2>1. Known(vv[Hub])'
    BY <1>2, <1>5, HubFacts DEF HubInv, HubBacked, Known
  <2>2. Backed(store[Hub])'
    BY <1>2, <1>4, HubFacts DEF HubInv, HubBacked, Backed, HubHasUpTo
  <2>3. Closed(job[Hub].cs)'
    BY <1>2, <1>4, HubFacts DEF HubInv, HubBacked, Closed
  <2> QED BY <2>1, <2>2, <2>3 DEF HubBacked
<1>7. ASSUME NEW c \in Client
      PROVE  ClientBacked(c)'
  <2>1. Known(session[c].serverVV)'
    BY <1>2, <1>5, SessionFields DEF HubInv, ClientBacked, Known
  <2>2. Backed(session[c].inbox)'
    BY <1>2, <1>4, HubFacts DEF HubInv, ClientBacked, Backed, HubHasUpTo
  <2>3. \A q \in store'[c] : q.node # c => q \in store[c]
    BY <1>1, HubFacts DEF Land, Upsert
  <2>4. Backed({q \in store[c] : q.node # c})'
    BY <1>2, <1>4, <2>3, HubFacts DEF HubInv, ClientBacked, Backed, HubHasUpTo
  <2>5. Closed(wire[c])'
    BY <1>2, <1>4, HubFacts DEF HubInv, ClientBacked, Closed
  <2> QED BY <2>1, <2>2, <2>4, <2>5 DEF ClientBacked
<1> QED BY <1>6, <1>7

-----------------------------------------------------------------------------
(* The steps of the engines.                                               *)

\* A step that leaves the hub's collection, and at most opens its vector or
\* hands it a push.
LEMMA HubUntouched ==
  ASSUME HubInv, UNCHANGED localVars, store'[Hub] = store[Hub],
         vv'[Hub] = vv[Hub] \/ vv'[Hub] = HubVV,
         job'[Hub].cs = job[Hub].cs \/ \E c \in Client : job'[Hub].cs = wire[c]
  PROVE  HubBacked'
<1>1. \A a \in Node : Landed(a)' = Landed(a)
  BY ClockEngine
<1>2. written' = written
  BY DEF localVars
<1>3. Known(vv[Hub])'
  BY <1>1, <1>2, KnownHubVV DEF HubInv, HubBacked, Known, HubHasUpTo
<1>4. Backed(store[Hub])'
  BY <1>2 DEF HubInv, HubBacked, Backed, HubHasUpTo
<1>5. Closed(job[Hub].cs)'
  BY <1>2 DEF HubInv, HubBacked, ClientBacked, Closed
<1> QED BY <1>3, <1>4, <1>5 DEF HubBacked

\* The hub commits a push, or dies before, after or in the middle of it.
LEMMA HubEngine ==
  ASSUME HubInv, Next, HubCommit \/ HubCrash
  PROVE  HubBacked'
<1>1. UNCHANGED localVars /\ (ApplyWrite(Hub) \/ Crashed(Hub))
  BY DEF HubCommit, HubCrash
<1>2. written' = written /\ \A a \in Node : Landed(a)' = Landed(a)
  BY <1>1, ClockEngine DEF localVars
<1>3. \A v \in written : Covers(store[Hub], v) => Covers(store'[Hub], v)
  BY HubCoverage
<1>4. store' = store \/ store'[Hub] = Upsert(store[Hub], job[Hub].accepted)
  BY <1>1, HubFacts DEF ApplyWrite, Crashed
<1>5. Backed(store[Hub])'
  <2>1. job[Hub].accepted \subseteq job[Hub].cs
    BY HubFacts DEF HubInv, Applies, Accepted
  <2>2. CASE store' = store
    BY <1>2, <2>2 DEF HubInv, HubBacked, Backed, HubHasUpTo
  <2>3. CASE store'[Hub] = Upsert(store[Hub], job[Hub].accepted)
    <3>1. \A r \in store'[Hub] : r \in store[Hub] \/ r \in job[Hub].cs
      BY <2>1, <2>3 DEF Upsert
    <3> QED BY <1>2, <1>3, <2>3, <3>1, PushLands DEF HubInv, HubBacked, Backed, HubHasUpTo
  <2> QED BY <1>4, <2>2, <2>3
<1>6. Closed(job[Hub].cs)'
  <2>1. job'[Hub].cs = {}
    BY <1>1, HubFacts, MergedStore, NoJobFacts DEF HubInv, NumberInv, TypeOK
  <2> QED BY <2>1 DEF Closed
<1>7. Known(vv[Hub])'
  <2> SUFFICES ASSUME NEW a \in Node
               PROVE  vv'[Hub][a] <= Landed(a) /\ HubHasUpTo(a, vv[Hub][a])'
    BY <1>2 DEF Known
  <2>1. CASE vv'[Hub][a] = vv[Hub][a]
    BY <1>2, <1>3, <2>1 DEF HubInv, HubBacked, Known, HubHasUpTo
  <2>2. CASE vv'[Hub] = EmptyVV
    BY <1>2, <2>2, KnownEmpty DEF HubHasUpTo
  <2>3. CASE ApplyWrite(Hub)
    <3> DEFINE new == UpdateFromRecords(vv[Hub], job[Hub].cs)
    <3>1. vv'[Hub] = new /\ store'[Hub] = Upsert(store[Hub], job[Hub].accepted)
      BY <2>3, HubFacts DEF ApplyWrite, HubInv, NumberInv, TypeOK
    <3>2. new[a] = vv[Hub][a] \/ \E r \in job[Hub].cs : r.node = a /\ r.seq = new[a]
      BY HubFacts, SeqBounds, UpdateFacts DEF HubInv
    <3> HIDE DEF new
    <3>3. ASSUME NEW r \in job[Hub].cs, r.node = a, r.seq = new[a]
          PROVE  vv'[Hub][a] <= Landed(a) /\ HubHasUpTo(a, vv[Hub][a])'
      <4>1. r \in written
        BY HubFacts
      <4> QED BY <1>2, <3>1, <3>3, <4>1, PushLands, LandedFacts DEF HubHasUpTo
    <3> QED BY <2>1, <3>1, <3>2, <3>3
  <2>4. vv'[Hub] = vv[Hub] \/ vv'[Hub] = EmptyVV \/ ApplyWrite(Hub)
    BY <1>1, HubFacts DEF Crashed, HubInv, NumberInv, TypeOK
  <2> QED BY <2>1, <2>2, <2>3, <2>4
<1> QED BY <1>5, <1>6, <1>7 DEF HubBacked

\* A step after which client c has been shown a vector of the hub, or none,
\* holds and has been sent records of the hub, and has pushed a selection.
LEMMA ClientKept ==
  ASSUME HubInv, HubBacked', UNCHANGED localVars, NEW c \in Client,
         \A v \in written : Covers(store[Hub], v) => Covers(store'[Hub], v),
         \/ session'[c].serverVV = session[c].serverVV
         \/ session'[c].serverVV = HubVV
         \/ session'[c].serverVV = EmptyVV,
         \A r \in session'[c].inbox : r \in session[c].inbox \/ r \in store'[Hub],
         \A r \in store'[c] : r \in store[c] \/ r \in session[c].inbox,
         \/ wire'[c] = wire[c] \/ wire'[c] = {}
         \/ wire'[c] = ChangesSince(store[c], session[c].serverVV)
  PROVE  ClientBacked(c)'
<1>1. written' = written /\ \A a \in Node : Landed(a)' = Landed(a)
  BY ClockEngine DEF localVars
<1>2. ASSUME NEW a \in Node
      PROVE  session'[c].serverVV[a] <= Landed(a) /\ HubHasUpTo(a, session[c].serverVV[a])'
  <2>1. CASE session'[c].serverVV = session[c].serverVV
    BY <1>1, <2>1 DEF HubInv, ClientBacked, Known, HubHasUpTo
  <2>2. CASE session'[c].serverVV = HubVV
    BY <1>1, <2>2, KnownHubVV DEF Known, HubHasUpTo
  <2>3. CASE session'[c].serverVV = EmptyVV
    BY <1>1, <2>3, KnownEmpty DEF HubHasUpTo
  <2> QED BY <2>1, <2>2, <2>3
<1>3. Known(session[c].serverVV)'
  BY <1>1, <1>2 DEF Known
<1>4. ASSUME NEW r \in session[c].inbox \cup store'[Hub]
      PROVE  HubHasUpTo(r.node, r.seq)'
  <2>1. CASE r \in session[c].inbox
    BY <1>1, <2>1 DEF HubInv, ClientBacked, Backed, HubHasUpTo
  <2>2. CASE r \in store'[Hub]
    BY <2>2 DEF HubBacked, Backed
  <2> QED BY <2>1, <2>2
<1>5. Backed(session[c].inbox)'
  BY <1>4 DEF Backed
<1>6. Backed({r \in store[c] : r.node # c})'
  <2>1. ASSUME NEW r \in store[c], r.node # c
        PROVE  HubHasUpTo(r.node, r.seq)'
    BY <1>1, <2>1 DEF HubInv, ClientBacked, Backed, HubHasUpTo
  <2> QED BY <1>4, <2>1 DEF Backed
<1>7. Closed(wire[c])'
  <2>1. Closed(wire'[c])
    BY SelectionClosed DEF HubInv, ClientBacked, Closed
  <2> QED BY <1>1, <2>1 DEF Closed
<1> QED BY <1>3, <1>5, <1>6, <1>7 DEF ClientBacked

-----------------------------------------------------------------------------
(* Every step.                                                             *)

\* Sessions of the other clients, and what they hold, are left alone.
LEMMA OthersKept ==
  ASSUME HubInv, HubBacked', UNCHANGED localVars, NEW c \in Client,
         \A v \in written : Covers(store[Hub], v) => Covers(store'[Hub], v),
         ClientBacked(c)',
         \A d \in Client : d # c =>
           session'[d] = session[d] /\ wire'[d] = wire[d] /\ store'[d] = store[d]
  PROVE  \A d \in Client : ClientBacked(d)'
<1> SUFFICES ASSUME NEW d \in Client, d # c PROVE ClientBacked(d)'
  OBVIOUS
<1>1. session'[d] = session[d] /\ wire'[d] = wire[d] /\ store'[d] = store[d]
  OBVIOUS
<1> QED BY <1>1, ClientKept

LEMMA BackedHub ==
  ASSUME HubInv, Next, HubCommit \/ HubCrash
  PROVE  HubBacked' /\ \A c \in Client : ClientBacked(c)'
<1> DEFINE c == job[Hub].from
           winning == WinningRecords(store'[Hub], job[Hub].cs, job[Hub].accepted)
           p == IF winning = {} THEN "pull" ELSE "merge"
<1>1. HubBacked' /\ UNCHANGED localVars /\ wire' = wire
  BY HubEngine DEF HubCommit, HubCrash
<1>2. ApplyWrite(Hub) \/ Crashed(Hub)
  BY DEF HubCommit, HubCrash
<1>3. \A d \in Client : store'[d] = store[d]
  BY <1>2, HubFacts, MergedStore
<1>4. winning \subseteq store'[Hub]
  BY DEF WinningRecords
<1>5. \/ session' = session
      \/ session' = [session EXCEPT ![c] = SessionAt(p, @.serverVV, winning)]
  BY DEF HubCommit, HubCrash
<1> HIDE DEF c, p, winning
<1>6. ASSUME NEW d \in Client
      PROVE  /\ session'[d].serverVV = session[d].serverVV
             /\ session'[d].inbox = session[d].inbox \/ session'[d].inbox = winning
  BY <1>5 DEF HubInv, NumberInv, TypeOK, SessionAt
<1>7. \A d \in Client : ClientBacked(d)'
  BY <1>1, <1>3, <1>4, <1>6, HubCoverage, ClientKept
<1> QED BY <1>1, <1>7

LEMMA BackedClient ==
  ASSUME HubInv, Next, NEW c \in Client,
         \/ OpenEngine(c) \/ GetStatus(c) \/ Push(c) \/ HubReceive(c)
         \/ Pull(c) \/ ReadInbox(c) \/ WriteInbox(c)
         \/ TimeOut(c) \/ Abort(c) \/ LosePush(c)
  PROVE  HubBacked' /\ \A d \in Client : ClientBacked(d)'
<1>1. /\ c \in Node /\ c # Hub /\ Hub \in Node /\ Client \subseteq Node
      /\ session \in [Client -> Session] /\ wire \in [Client -> SUBSET Version]
      /\ job \in [Node -> Job] /\ store \in [Node -> SUBSET Version]
      /\ vv \in [Node -> VersionVector]
  BY HubFacts DEF HubInv, NumberInv, TypeOK
<1>2. /\ UNCHANGED localVars
      /\ \A v \in written : Covers(store[Hub], v) => Covers(store'[Hub], v)
  BY HubCoverage DEF OpenEngine, GetStatus, Push, HubReceive, Pull, ReadInbox,
                     WriteInbox, TimeOut, Abort, LosePush
<1> DEFINE StoreKept == store' = store
           HubKept == /\ vv'[Hub] = vv[Hub] \/ vv'[Hub] = HubVV
                      /\ \/ job'[Hub].cs = job[Hub].cs
                         \/ job'[Hub].cs = wire[c]
           OthersSame == \A d \in Client : d # c =>
                           session'[d] = session[d] /\ wire'[d] = wire[d]
           Shown == \/ session'[c].serverVV = session[c].serverVV
                    \/ session'[c].serverVV = HubVV
                    \/ session'[c].serverVV = EmptyVV
           Sent == \A r \in session'[c].inbox : r \in session[c].inbox \/ r \in store[Hub]
           Pushed == \/ wire'[c] = wire[c] \/ wire'[c] = {}
                     \/ wire'[c] = ChangesSince(store[c], session[c].serverVV)
           Goal == HubBacked' /\ \A d \in Client : ClientBacked(d)'
<1>3. ASSUME StoreKept, HubKept, OthersSame, Shown, Sent, Pushed
      PROVE  Goal
  <2>1. HubBacked'
    BY <1>2, <1>3, HubUntouched
  <2>2. ClientBacked(c)'
    BY <1>2, <1>3, <2>1, ClientKept
  <2>3. \A d \in Client : ClientBacked(d)'
    BY <1>2, <1>3, <2>1, <2>2, OthersKept
  <2> QED BY <2>1, <2>3
<1>4. ASSUME ApplyWrite(c) \/ Crashed(c), OthersSame, Shown, session'[c].inbox = {},
             wire' = wire
      PROVE  Goal
  <2>1. /\ store' = [store EXCEPT ![c] = store'[c]]
        /\ store'[c] \subseteq store[c] \cup job[c].cs
        /\ job' = [job EXCEPT ![c] = NoJob]
    BY <1>1, <1>4, HubFacts, MergedStore
  <2>2. job[c].cs \subseteq session[c].inbox
    BY DEF HubInv, Applies, Applying
  <2>3. store'[Hub] = store[Hub] /\ vv'[Hub] = vv[Hub] /\ job'[Hub].cs = job[Hub].cs
    BY <1>1, <1>4, <2>1 DEF ApplyWrite, Crashed
  <2>4. HubBacked'
    BY <1>2, <2>3, HubUntouched
  <2>5. \A r \in store'[c] : r \in store[c] \/ r \in session[c].inbox
    BY <2>1, <2>2
  <2>6. ClientBacked(c)'
    BY <1>2, <1>4, <2>4, <2>5, ClientKept
  <2>7. \A d \in Client : d # c => store'[d] = store[d]
    BY <1>1, <2>1
  <2>8. \A d \in Client : ClientBacked(d)'
    BY <1>2, <1>4, <2>4, <2>6, <2>7, OthersKept
  <2> QED BY <2>4, <2>8
<1>5. CASE OpenEngine(c)
  <2>1. /\ session'[c].serverVV = session[c].serverVV
        /\ session'[c].inbox = session[c].inbox
    BY <1>1, <1>5 DEF OpenEngine, Session
  <2> QED BY <1>1, <1>3, <1>5, <2>1 DEF OpenEngine
<1>6. CASE GetStatus(c)
  <2>1. session'[c].serverVV = HubVV /\ session'[c].inbox = {}
    BY <1>1, <1>6 DEF GetStatus, SessionAt
  <2> QED BY <1>1, <1>3, <1>6, <2>1 DEF GetStatus, OpenHub
<1>7. CASE Push(c)
  <2>1. /\ session'[c].serverVV = session[c].serverVV
        /\ session'[c].inbox = session[c].inbox
    BY <1>1, <1>7 DEF Push, Session
  <2> QED BY <1>1, <1>3, <1>7, <2>1 DEF Push
<1>8. CASE HubReceive(c)
  <2>1. job'[Hub].cs = wire[c]
    BY <1>1, <1>8 DEF HubReceive, ApplyRead
  <2> QED BY <1>1, <1>3, <1>8, <2>1 DEF HubReceive, OpenHub
<1>9. CASE Pull(c)
  <2>1. /\ session'[c].serverVV = session[c].serverVV
        /\ session'[c].inbox \subseteq store[Hub]
    BY <1>1, <1>9 DEF Pull, SessionAt, ChangesSince
  <2> QED BY <1>1, <1>3, <1>9, <2>1 DEF Pull, OpenHub
<1>10. CASE ReadInbox(c)
  <2>1. job'[Hub].cs = job[Hub].cs
    BY <1>1, <1>10 DEF ReadInbox, ApplyRead
  <2> QED BY <1>1, <1>3, <1>10, <2>1 DEF ReadInbox
<1>11. CASE WriteInbox(c)
  <2>1. session'[c].serverVV = session[c].serverVV /\ session'[c].inbox = {}
    BY <1>1, <1>11 DEF WriteInbox, SessionAt
  <2>2. OthersSame /\ wire' = wire
    BY <1>1, <1>11 DEF WriteInbox
  <2>3. Shown /\ session'[c].inbox = {}
    BY <2>1
  <2>4. ApplyWrite(c) \/ Crashed(c)
    BY <1>11 DEF WriteInbox
  <2> HIDE DEF OthersSame, Shown
  <2> QED BY <1>4, <2>2, <2>3, <2>4
<1>12. CASE TimeOut(c)
  <2>1. session'[c].serverVV = EmptyVV /\ session'[c].inbox = {}
    BY <1>1, <1>12 DEF TimeOut, Idle, SessionAt
  <2> QED BY <1>1, <1>3, <1>12, <2>1 DEF TimeOut
<1>13. CASE Abort(c)
  <2>1. session'[c].serverVV = EmptyVV /\ session'[c].inbox = {}
    BY <1>1, <1>13 DEF Abort, Idle, SessionAt
  <2>2. OthersSame /\ wire' = wire
    BY <1>1, <1>13 DEF Abort
  <2>3. Shown /\ session'[c].inbox = {}
    BY <2>1
  <2>4. ApplyWrite(c) \/ Crashed(c)
    BY <1>13 DEF Abort
  <2> HIDE DEF OthersSame, Shown
  <2> QED BY <1>4, <2>2, <2>3, <2>4
<1>14. CASE LosePush(c)
  BY <1>1, <1>3, <1>14 DEF LosePush
<1> QED BY <1>5, <1>6, <1>7, <1>8, <1>9, <1>10, <1>11, <1>12, <1>13, <1>14

LEMMA HubInit == Dedicated /\ Init => HubInv
<1> SUFFICES ASSUME Dedicated, Init PROVE HubInv
  OBVIOUS
<1>1. NumberInv /\ Applies
  BY MergeInit DEF MergeInv
<1>2. Hub \in Node /\ Client \subseteq Node
  BY ReplicationAssumption DEF Client
<1>3. /\ \A n \in Node : store[n] = {} /\ pending[n] = {} /\ job[n].cs = {}
      /\ \A n \in Node : vv[n] = EmptyVV /\ seq[n] = 0
      /\ \A c \in Client : wire[c] = {} /\ session[c].inbox = {}
      /\ \A c \in Client : session[c].serverVV = EmptyVV
      /\ written = {}
  BY <1>2, NoJobFacts DEF Init, Idle, SessionAt
<1>4. Made = {}
  BY <1>3 DEF Made
<1>5. PendingIsLatest /\ Stamps /\ AuthorsKept /\ OwnWrites
  BY <1>2, <1>3, <1>4 DEF PendingIsLatest, Stamps, AuthorsKept, OwnWrites
<1>6. Known(EmptyVV)
  BY <1>3 DEF Known, Landed, EmptyVV, HubHasUpTo
<1>7. HubBacked
  BY <1>2, <1>3, <1>6 DEF HubBacked, Backed, Closed
<1>8. \A c \in Client : ClientBacked(c)
  BY <1>2, <1>3, <1>6 DEF ClientBacked, Backed, Closed
<1> QED BY <1>1, <1>5, <1>7, <1>8 DEF HubInv

LEMMA HubNext == Dedicated /\ HubInv /\ [Next]_vars => HubInv'
<1> SUFFICES ASSUME Dedicated, HubInv, [Next]_vars PROVE HubInv'
  OBVIOUS
<1>1. NumberInv' /\ Applies'
  BY HubFacts, ApplyLand, MergeSteps DEF MergeInv
<1> DEFINE Rest == /\ PendingIsLatest' /\ Stamps' /\ OwnWrites' /\ HubBacked'
                   /\ \A c \in Client : ClientBacked(c)'
<1>2. ASSUME UNCHANGED vars
      PROVE  Rest
  <2>1. UNCHANGED localVars /\ UNCHANGED <<store, vv, job, session, wire>>
    BY <1>2 DEF vars, localVars
  <2>2. HubBacked'
    BY <2>1, HubUntouched
  <2>3. \A c \in Client : ClientBacked(c)'
    BY <2>1, <2>2, ClientKept
  <2> QED BY <2>1, <2>2, <2>3, ClockEngine, OwnEngine
<1>3. ASSUME NEW n \in Node, NEW i \in Id, Stamp(n, i)
      PROVE  Rest
  BY <1>3, ClockStamp, OwnStamp, BackedStamp
<1>4. ASSUME NEW n \in Node, NEW r \in pending[n], Land(n, r)
      PROVE  Rest
  BY <1>4, ClockLand, OwnLand, BackedLand
<1>5. ASSUME Next, HubCommit \/ HubCrash
      PROVE  Rest
  <2>1. UNCHANGED localVars /\ (ApplyWrite(Hub) \/ Crashed(Hub)) /\ written' = written
    BY <1>5 DEF HubCommit, HubCrash, localVars
  <2>2. MergeStep(Hub)
    BY <2>1, HubFacts, EngineMerges
  <2> QED BY <1>5, <2>1, <2>2, HubFacts, ClockEngine, OwnEngine, BackedHub
<1>6. ASSUME Next, NEW c \in Client,
             \/ OpenEngine(c) \/ GetStatus(c) \/ Push(c) \/ HubReceive(c)
             \/ Pull(c) \/ ReadInbox(c) \/ WriteInbox(c)
             \/ TimeOut(c) \/ Abort(c) \/ LosePush(c)
      PROVE  Rest
  <2>1. UNCHANGED localVars /\ written' = written
    BY <1>6 DEF OpenEngine, GetStatus, Push, HubReceive, Pull, ReadInbox,
                WriteInbox, TimeOut, Abort, LosePush, localVars
  <2>2. store' = store \/ ApplyWrite(c) \/ Crashed(c)
    BY <1>6 DEF OpenEngine, GetStatus, Push, HubReceive, Pull, ReadInbox,
                WriteInbox, TimeOut, Abort, LosePush
  <2>3. store' = store \/ MergeStep(c)
    BY <2>1, <2>2, HubFacts, EngineMerges
  <2> QED BY <1>6, <2>1, <2>3, HubFacts, ClockEngine, OwnEngine, BackedClient
<1> HIDE DEF Rest
<1>7. Rest
  BY <1>2, <1>3, <1>4, <1>5, <1>6 DEF Next, LocalWrite
<1>8. AuthorsKept'
  BY AuthorsNext
<1> QED BY <1>1, <1>7, <1>8 DEF HubInv, Rest

\* For every number of clients, ids, clock drifts, writes and faults: nothing
\* opens a hole behind the hub's vector (sync.py:159, sync_client.py:137,
\* sync_server.py:286), given one writer per client (sync_meta.py:89,
\* lance.py:352) and a hub that only serves.
THEOREM HubInvariant == Dedicated => (Spec => []HubInv)
<1> SUFFICES ASSUME Dedicated PROVE Spec => []HubInv
  OBVIOUS
<1>1. Init => HubInv
  BY HubInit
<1>2. HubInv /\ [Next]_vars => HubInv'
  BY HubNext
<1> QED BY <1>1, <1>2, PTL DEF Spec

\* What the hub's vector claims, the hub holds or has superseded: no record a
\* client skips because of it is missing from the hub.
THEOREM HubVectorSound == Dedicated => (Spec => []HubSound)
<1> SUFFICES ASSUME Dedicated PROVE Spec => []HubSound
  OBVIOUS
<1>1. HubInv => HubSound
  <2> SUFFICES ASSUME HubInv, NEW v \in written, v.seq <= vv[Hub][v.node]
               PROVE  Covers(store[Hub], v)
    BY DEF HubSound, VVSound
  <2>1. v.node \in Node
    BY HubFacts, VersionFields
  <2> QED BY <2>1 DEF HubInv, HubBacked, Known, HubHasUpTo
<1>2. Spec => []HubInv
  BY HubInvariant
<1> QED BY <1>1, <1>2, PTL

-----------------------------------------------------------------------------
(* One author per id.                                                      *)

LEMMA SameAuthor ==
  ASSUME Apart, HubInv, NEW r \in written, NEW q \in written, r.id = q.id
  PROVE  r.node = q.node
<1>1. r.node \in Node /\ q.node \in Node
  BY HubFacts, VersionFields
<1>2. r.id \in Editable[r.node] /\ q.id \in Editable[q.node]
  BY DEF HubInv, AuthorsKept, Made
<1> QED BY <1>1, <1>2 DEF Apart, Separate

\* What covers a version is a version of the same author, and not an earlier one.
LEMMA CoversByAuthor ==
  ASSUME Apart, HubInv, NEW h \in written, NEW v \in written, h.id = v.id, ~RemoteWins(v, h)
  PROVE  h.node = v.node /\ v.seq <= h.seq
<1>1. h.node = v.node /\ h \in Version /\ v \in Version
  BY SameAuthor, HubFacts
<1>2. h.seq < v.seq => h.ts < v.ts
  BY <1>1 DEF HubInv, Stamps, Made
<1> QED BY <1>1, <1>2, VersionFields DEF RemoteWins

\* No step loses anything a node's collection covers: a writer replaces only
\* what it wrote itself, and earlier.
LEMMA CoverageKept ==
  ASSUME Apart, HubInv, Next, NEW c \in Node, NEW v \in written, Covers(store[c], v)
  PROVE  Covers(store'[c], v)
<1>1. CASE UNCHANGED <<store, written>>
  BY <1>1
<1>2. ASSUME NEW n \in Node, MergeStep(n)
      PROVE  Covers(store'[c], v)
  <2>1. store'[n] \in SUBSET Version /\ Monotone(store[n], store'[n])
    BY <1>2, HubFacts DEF MergeStep
  <2>2. n # c => store'[c] = store[c]
    BY <1>2, HubFacts DEF MergeStep
  <2> QED BY <2>1, <2>2, HubFacts, CoversMonotone
<1>3. ASSUME NEW n \in Node, NEW r \in pending[n], Land(n, r)
      PROVE  Covers(store'[c], v)
  <2>1. PICK h \in store[c] : h.id = v.id /\ ~RemoteWins(v, h)
    BY DEF Covers
  <2>2. store' = [store EXCEPT ![n] = Upsert(store[n], {r})]
    BY <1>3 DEF Land
  <2>3. CASE n # c
    BY <2>2, <2>3, HubFacts
  <2>4. CASE n = c /\ h.id # r.id
    <3>1. h \in store'[c]
      BY <2>2, <2>4, HubFacts DEF Upsert
    <3> QED BY <2>1, <3>1 DEF Covers
  <2>5. CASE n = c /\ h.id = r.id
    <3>1. r \in store'[c]
      BY <2>2, <2>5, HubFacts DEF Upsert
    <3>2. r \in Made /\ h \in Made /\ h \in written /\ r \in Version /\ h \in Version
      BY HubFacts DEF Made
    <3>3. r.node = n /\ r.seq = Landed(n) + 1
      BY <1>3, ClockLand
    <3>4. h.node = r.node
      BY <2>5, <3>2, <3>3, VersionFields DEF Apart, Separate, HubInv, AuthorsKept
    <3>5. h.seq < r.seq
      BY <3>2, <3>3, <3>4, LandedFacts, VersionFields
    <3>6. h.ts < r.ts
      BY <3>2, <3>4, <3>5 DEF HubInv, Stamps
    <3>7. RemoteWins(r, h)
      BY <3>6 DEF RemoteWins
    <3>8. ~RemoteWins(v, r)
      BY <2>1, <3>2, <3>7, HubFacts, WinsOrder
    <3> QED BY <2>1, <2>5, <3>1, <3>8 DEF Covers
  <2> QED BY <2>3, <2>4, <2>5
<1> QED BY <1>1, <1>2, <1>3, HubFacts, StepOfCollections

\* The hub's vector claims what a client holds of others.
LEMMA ForeignKnown ==
  ASSUME Apart, WholeInv, NEW c \in Client, NEW r \in store[c], r.node # c
  PROVE  r.seq <= HubVV[r.node]
<1>1. r \in written /\ r.node \in Node
  BY HubFacts, VersionFields DEF WholeInv
<1>2. Covers(store[Hub], r)
  BY <1>1, VersionFields, HubFacts DEF WholeInv, HubInv, ClientBacked, Backed, HubHasUpTo
<1>3. PICK h \in store[Hub] : h.id = r.id /\ ~RemoteWins(r, h)
  BY <1>2 DEF Covers
<1>4. h \in written
  BY HubFacts DEF WholeInv
<1>5. h.node = r.node /\ r.seq <= h.seq
  BY <1>1, <1>3, <1>4, CoversByAuthor DEF WholeInv
<1>6. h.seq <= HubVV[h.node]
  BY DEF WholeInv, HubVVCovers
<1>7. HubVV[r.node] \in Nat
  BY <1>1, HubVVFacts DEF WholeInv, HubInv, VersionVector
<1> QED BY <1>1, <1>4, <1>5, <1>6, <1>7, HubFacts, VersionFields DEF WholeInv

\* A batch without records leaves a vector as it is.
LEMMA UpdateOfNothing ==
  ASSUME NEW vec \in VersionVector
  PROVE  UpdateFromRecords(vec, {}) = vec
<1> DEFINE new == UpdateFromRecords(vec, {})
<1>1. new \in VersionVector /\ \A a \in Node : new[a] = vec[a]
  <2>1. vec \in VersionVector /\ {} \in SUBSET Version /\ \A a \in Node : vec[a] <= vec[a]
    BY DEF VersionVector
  <2> HIDE DEF new
  <2> QED BY <2>1, UpdateFacts DEF new
<1>2. new = [a \in Node |-> new[a]] /\ vec = [a \in Node |-> vec[a]]
  BY <1>1 DEF VersionVector
<1> QED BY <1>1, <1>2, Zenon

-----------------------------------------------------------------------------
(* Authors, pushes and the hub's vector.                                   *)

\* What a client pushes is its own.
LEMMA PushIsOwn ==
  ASSUME WholeInv, NEW c \in Client, session[c].pc = "push",
         NEW r \in ChangesSince(store[c], session[c].serverVV)
  PROVE  r.node = c
<1>1. r \in store[c] /\ r.seq > session[c].serverVV[r.node]
  BY DEF ChangesSince
<1>2. r \in Version
  BY <1>1, HubFacts DEF WholeInv
<1>3. session[c].serverVV[r.node] \in Nat
  BY <1>2, VersionFields, SessionFields DEF WholeInv, HubInv, VersionVector
<1>4. r.node # c => r.seq <= session[c].serverVV[r.node]
  BY <1>1 DEF WholeInv, ClientWhole
<1> QED BY <1>1, <1>2, <1>3, <1>4, VersionFields

LEMMA OwnPushesKept ==
  ASSUME WholeInv,
         \A c \in Client : wire'[c] = wire[c] \/ \A r \in wire'[c] : r.node = c,
         up' \/ up' = up,
         \/ job'[Hub] = job[Hub]
         \/ job'[Hub].cs = {}
         \/ /\ up' /\ job'[Hub].from \in Client
            /\ job'[Hub].cs = wire[job'[Hub].from]
  PROVE  OwnPushes'
<1>1. \A c \in Client : \A r \in wire'[c] : r.node = c
  BY DEF WholeInv, OwnPushes
<1>2. CASE job'[Hub] = job[Hub]
  BY <1>1, <1>2 DEF WholeInv, OwnPushes, Applying
<1>3. CASE job'[Hub].cs = {}
  BY <1>1, <1>3 DEF OwnPushes, Applying
<1>4. CASE /\ up' /\ job'[Hub].from \in Client
           /\ job'[Hub].cs = wire[job'[Hub].from]
  BY <1>1, <1>4 DEF WholeInv, OwnPushes, Applying
<1> QED BY <1>2, <1>3, <1>4

LEMMA OwnPushesNext ==
  ASSUME Apart, WholeInv, [Next]_vars
  PROVE  OwnPushes'
<1>0. /\ Hub \in Node /\ Hub \notin Client
      /\ wire \in [Client -> SUBSET Version] /\ job \in [Node -> Job]
  BY HubFacts DEF WholeInv, HubInv, NumberInv, TypeOK
<1>1. CASE UNCHANGED <<wire, up, job>>
  BY <1>1, OwnPushesKept
<1>2. CASE LocalWrite
  BY <1>1, <1>2 DEF LocalWrite, Stamp, Land
<1>3. CASE HubCommit \/ HubCrash
  <2>1. wire' = wire /\ job' = [job EXCEPT ![Hub] = NoJob]
    BY <1>3 DEF HubCommit, HubCrash, ApplyWrite, Crashed
  <2>2. job'[Hub].cs = {}
    BY <1>0, <2>1, NoJobFacts
  <2> QED BY <2>1, <2>2 DEF WholeInv, OwnPushes, Applying
<1>4. ASSUME NEW c \in Client,
             \/ OpenEngine(c) \/ GetStatus(c) \/ Push(c) \/ HubReceive(c)
             \/ Pull(c) \/ ReadInbox(c) \/ WriteInbox(c)
             \/ TimeOut(c) \/ Abort(c) \/ LosePush(c)
      PROVE  OwnPushes'
  <2>1. CASE OpenEngine(c) \/ TimeOut(c)
    BY <1>1, <2>1 DEF OpenEngine, TimeOut
  <2>2. CASE GetStatus(c) \/ Pull(c)
    BY <2>2, OwnPushesKept DEF GetStatus, Pull, OpenHub
  <2>3. CASE Push(c)
    <3>1. /\ wire' = [wire EXCEPT ![c] = ChangesSince(store[c], session[c].serverVV)]
          /\ session[c].pc = "push" /\ up' = up /\ job' = job
      BY <2>3 DEF Push
    <3>2. \A r \in wire'[c] : r.node = c
      BY <1>0, <3>1, PushIsOwn
    <3> QED BY <1>0, <3>1, <3>2, OwnPushesKept
  <2>4. CASE HubReceive(c)
    <3>1. /\ wire' = [wire EXCEPT ![c] = {}] /\ up'
          /\ job' = [job EXCEPT ![Hub] = [cs |-> wire[c], accepted |-> Accepted(store[Hub], wire[c]),
                                          from |-> c]]
      BY <2>4 DEF HubReceive, OpenHub, ApplyRead
    <3>2. job'[Hub].from = c /\ job'[Hub].cs = wire[c]
      BY <1>0, <3>1
    <3>3. \A d \in Client : wire'[d] = wire[d] \/ \A r \in wire'[d] : r.node = d
      BY <1>0, <3>1
    <3> QED BY <3>1, <3>2, <3>3, OwnPushesKept
  <2>5. CASE ReadInbox(c)
    <3>1. job'[Hub] = job[Hub] /\ wire' = wire /\ up' = up
      BY <1>0, <2>5 DEF ReadInbox, ApplyRead
    <3> QED BY <3>1, OwnPushesKept
  <2>6. CASE WriteInbox(c) \/ Abort(c)
    <3>1. job'[Hub] = job[Hub] /\ wire' = wire /\ up' = up
      BY <1>0, <2>6 DEF WriteInbox, Abort, ApplyWrite, Crashed
    <3> QED BY <3>1, OwnPushesKept
  <2>7. CASE LosePush(c)
    <3>1. wire' = [wire EXCEPT ![c] = {}] /\ up' = up /\ job' = job
      BY <2>7 DEF LosePush
    <3> QED BY <1>0, <3>1, OwnPushesKept
  <2> QED BY <1>4, <2>1, <2>2, <2>3, <2>4, <2>5, <2>6, <2>7
<1>5. CASE UNCHANGED vars
  BY <1>1, <1>5 DEF vars
<1> QED BY <1>2, <1>3, <1>4, <1>5 DEF Next

\* The hub's vector, read from its file or rebuilt from its collection, claims
\* what the hub holds, before and after it is opened.
LEMMA HubVVCoversNext ==
  ASSUME Apart, WholeInv, [Next]_vars
  PROVE  HubVVCovers'
<1>0. /\ Hub \in Node /\ Hub \notin Client
      /\ vv \in [Node -> VersionVector] /\ store \in [Node -> SUBSET Version]
      /\ job \in [Node -> Job] /\ HubInv
      /\ up \in BOOLEAN
  BY HubFacts DEF WholeInv, HubInv, NumberInv, TypeOK
<1>1. ASSUME store'[Hub] = store[Hub], up' = up, vv'[Hub] = vv[Hub]
      PROVE  HubVVCovers'
  BY <1>1 DEF WholeInv, HubVVCovers, HubVV
<1>2. ASSUME store'[Hub] = store[Hub], OpenHub
      PROVE  HubVVCovers'
  <2>1. up' = TRUE /\ vv'[Hub] = HubVV
    BY <1>0, <1>2 DEF OpenHub
  <2>2. HubVV' = HubVV
    BY <2>1 DEF HubVV
  <2> QED BY <1>2, <2>2 DEF WholeInv, HubVVCovers
<1>3. CASE LocalWrite
  <2>1. ASSUME NEW n \in Node, NEW i \in Id, Stamp(n, i)
        PROVE  HubVVCovers'
    BY <1>1, <2>1 DEF Stamp
  <2>2. ASSUME NEW n \in Node, NEW r \in pending[n], Land(n, r)
        PROVE  HubVVCovers'
    <3>1. n # Hub
      BY <1>0 DEF HubInv, OwnWrites
    <3>2. store'[Hub] = store[Hub] /\ up' = up /\ vv' = vv
      BY <1>0, <2>2, <3>1 DEF Land
    <3> QED BY <1>1, <3>2
  <2> QED BY <1>3, <2>1, <2>2 DEF LocalWrite
<1>4. CASE HubCommit
  <2> DEFINE new == UpdateFromRecords(vv[Hub], job[Hub].cs)
  <2>1. /\ store' = [store EXCEPT ![Hub] = Upsert(store[Hub], job[Hub].accepted)]
        /\ vv' = [vv EXCEPT ![Hub] = new]
        /\ up' = up /\ Applying(Hub)
    BY <1>4 DEF HubCommit, ApplyWrite
  <2>2. up
    BY <2>1 DEF WholeInv, OwnPushes
  <2>3. job[Hub].accepted \subseteq job[Hub].cs
    BY <1>0 DEF HubInv, Applies, Accepted
  <2>4. /\ \A a \in Node : vv[Hub][a] <= new[a]
        /\ \A r \in job[Hub].cs : r.seq <= new[r.node]
        /\ new \in VersionVector
    BY <1>0, SeqBounds, UpdateFacts DEF HubInv
  <2> HIDE DEF new
  <2>5. HubVV' = new /\ HubVV = vv[Hub]
    BY <1>0, <2>1, <2>2 DEF HubVV
  <2>6. ASSUME NEW r \in store'[Hub]
        PROVE  r.seq <= new[r.node]
    <3>1. CASE r \in store[Hub]
      <4>1. r.node \in Node /\ r.seq \in Nat /\ r.seq <= vv[Hub][r.node]
        BY <1>0, <2>5, <3>1, VersionFields DEF WholeInv, HubVVCovers
      <4>2. vv[Hub][r.node] \in Nat /\ new[r.node] \in Nat /\ vv[Hub][r.node] <= new[r.node]
        BY <1>0, <2>4, <4>1 DEF VersionVector
      <4> QED BY <4>1, <4>2
    <3>2. CASE r \in job[Hub].cs
      BY <2>4, <3>2
    <3>3. r \in store[Hub] \/ r \in job[Hub].cs
      BY <1>0, <2>1, <2>3 DEF Upsert
    <3> QED BY <3>1, <3>2, <3>3
  <2> QED BY <2>5, <2>6 DEF HubVVCovers
<1>5. CASE HubCrash
  <2>1. up /\ ~Applying(Hub) /\ up' = FALSE /\ Crashed(Hub)
    BY <1>5 DEF HubCrash, Apart
  <2>2. job[Hub].cs = {} /\ job[Hub].accepted = {}
    BY <1>0, <2>1, NoJobFacts DEF Applying, HubInv, Applies
  <2>3. Upsert(store[Hub], {}) = store[Hub]
    BY DEF Upsert
  <2>4. UpdateFromRecords(vv[Hub], {}) = vv[Hub]
    BY <1>0, SeqBounds, UpdateOfNothing DEF HubInv
  <2>5. store'[Hub] = store[Hub] /\ vv' = vv
    BY <1>0, <2>1, <2>2, <2>3, <2>4 DEF Crashed
  <2>6. HubVV = vv[Hub]
    BY <2>1 DEF HubVV
  <2>7. vv[Hub] # EmptyVV => HubVV' = vv[Hub]
    BY <2>1, <2>5 DEF HubVV, OpenedVV
  <2>8. CASE vv[Hub] # EmptyVV
    BY <2>5, <2>6, <2>7, <2>8 DEF WholeInv, HubVVCovers
  <2>9. CASE vv[Hub] = EmptyVV
    <3>1. store[Hub] = {}
      <4> SUFFICES ASSUME NEW r \in store[Hub] PROVE FALSE
        OBVIOUS
      <4>1. r.node \in Node /\ r.seq \in Nat /\ r.seq > 0
        BY <1>0, VersionFields
      <4>2. r.seq <= EmptyVV[r.node]
        BY <2>6, <2>9 DEF WholeInv, HubVVCovers
      <4> QED BY <4>1, <4>2 DEF EmptyVV
    <3> QED BY <2>5, <3>1 DEF HubVVCovers
  <2> QED BY <2>8, <2>9
<1>6. ASSUME NEW c \in Client,
             \/ OpenEngine(c) \/ GetStatus(c) \/ Push(c) \/ HubReceive(c)
             \/ Pull(c) \/ ReadInbox(c) \/ WriteInbox(c)
             \/ TimeOut(c) \/ Abort(c) \/ LosePush(c)
      PROVE  HubVVCovers'
  <2>1. CASE GetStatus(c) \/ HubReceive(c) \/ Pull(c)
    BY <1>2, <2>1 DEF GetStatus, HubReceive, Pull
  <2>2. CASE OpenEngine(c) \/ WriteInbox(c) \/ Abort(c)
    <3>1. store'[Hub] = store[Hub] /\ vv'[Hub] = vv[Hub] /\ up' = up
      BY <1>0, <2>2 DEF OpenEngine, WriteInbox, Abort, ApplyWrite, Crashed
    <3> QED BY <1>1, <3>1
  <2>3. CASE Push(c) \/ ReadInbox(c) \/ TimeOut(c) \/ LosePush(c)
    BY <1>1, <2>3 DEF Push, ReadInbox, TimeOut, LosePush
  <2> QED BY <1>6, <2>1, <2>2, <2>3
<1>7. CASE UNCHANGED vars
  BY <1>1, <1>7 DEF vars
<1> QED BY <1>3, <1>4, <1>5, <1>6, <1>7 DEF Next

-----------------------------------------------------------------------------
(* What a client holds is whole.                                           *)

LEMMA WholeFacts ==
  ASSUME WholeInv
  PROVE  /\ HubInv /\ MergeInv /\ NumberInv
         /\ Hub \in Node /\ Hub \notin Client /\ Client \subseteq Node
         /\ session \in [Client -> Session] /\ job \in [Node -> Job]
         /\ vv \in [Node -> VersionVector]
         /\ store \in [Node -> SUBSET Version] /\ wire \in [Client -> SUBSET Version]
         /\ \A c \in Client : Applying(c) => session[c].pc \in {"merge", "fill"}
BY HubFacts DEF WholeInv, HubInv, NumberInv, TypeOK, Applies

\* A step that leaves a client's collection and vector alone, and shows it no
\* vector and sends it no records but those the invariant allows.
LEMMA WholeKept ==
  ASSUME WholeInv, NEW c \in Client, written' = written,
         \A a \in Node : Landed(a)' = Landed(a),
         store'[c] = store[c], vv'[c] = vv[c],
         session'[c].pc = "push" =>
           \A r \in store[c] : r.node # c => r.seq <= session'[c].serverVV[r.node],
         session'[c].pc = "merge" => \A r \in session'[c].inbox : r.node = c,
         session'[c].pc = "fill" => Whole(c, session'[c].inbox),
         job'[c].cs # {} => job'[c].cs = session'[c].inbox
  PROVE  ClientWhole(c)'
<1>1. c \in Node
  BY WholeFacts
<1>2. VVSound(c)' /\ \A a \in Node : vv'[c][a] <= Landed(a)'
  BY <1>1 DEF WholeInv, ClientWhole, VVSound
<1>3. Whole(c, store[c])'
  BY DEF WholeInv, ClientWhole, Whole
<1>4. session'[c].pc = "fill" => Whole(c, session[c].inbox)'
  BY DEF Whole
<1> QED BY <1>2, <1>3, <1>4 DEF ClientWhole, Applying

\* A step of others.
LEMMA WholeOthers ==
  ASSUME WholeInv, NEW c \in Client, written' = written,
         \A a \in Node : Landed(a)' = Landed(a),
         store'[c] = store[c], vv'[c] = vv[c], session'[c] = session[c],
         job'[c] = job[c]
  PROVE  ClientWhole(c)'
<1>1. job[c].cs # {} => job[c].cs = session[c].inbox
  BY DEF WholeInv, ClientWhole, Applying
<1> QED BY <1>1, WholeKept DEF WholeInv, ClientWhole

\* A write that lands has a number beyond all that is claimed, and what its
\* author wrote before it the author holds or has superseded.
LEMMA WholeLand ==
  ASSUME Apart, WholeInv, NEW n \in Node, NEW r \in pending[n], Land(n, r), Next, NEW c \in Client
  PROVE  ClientWhole(c)'
<1>0. HubInv /\ c \in Node
  BY WholeFacts
<1>1. /\ r.node = n /\ r.seq = Landed(n) + 1 /\ r \in Version
      /\ \A a \in Node : Landed(a) <= Landed(a)'
  BY <1>0, ClockLand, HubFacts
<1>2. /\ written' = written \cup {r}
      /\ store' = [store EXCEPT ![n] = Upsert(store[n], {r})]
      /\ UNCHANGED <<vv, job, session>>
  BY DEF Land
<1>3. \A a \in Node : Landed(a) \in Int /\ Landed(a)' \in Int /\ vv[c][a] \in Nat
  BY <1>0, <1>2, HubFacts, WholeFacts DEF Land, Landed, VersionVector
<1>4. \A q \in written : q.node \in Node /\ q.seq \in Nat /\ q.seq <= Landed(q.node)
  BY <1>0, LandedFacts, HubFacts, VersionFields
<1>5. \A q \in written : q.node = n => ~(r.seq <= q.seq)
  BY <1>1, <1>3, <1>4, VersionFields
<1>6. \A v \in written : Covers(store[c], v) => Covers(store'[c], v)
  BY <1>0, CoverageKept DEF WholeInv
<1>7. \A a \in Node : vv'[c][a] <= Landed(a)'
  <2> SUFFICES ASSUME NEW a \in Node PROVE vv[c][a] <= Landed(a)'
    BY <1>2
  <2>1. vv[c][a] <= Landed(a)
    BY DEF WholeInv, ClientWhole
  <2> HIDE DEF Landed
  <2> QED BY <1>1, <1>3, <2>1
<1>8. VVSound(c)'
  <2> SUFFICES ASSUME NEW v \in written', v.seq <= vv[c][v.node]
               PROVE  Covers(store'[c], v)
    BY <1>2 DEF VVSound
  <2>1. CASE v = r
    <3>1. vv[c][n] <= Landed(n)
      BY DEF WholeInv, ClientWhole
    <3> HIDE DEF Landed
    <3> QED BY <1>1, <1>3, <2>1, <3>1
  <2>2. CASE v \in written
    BY <1>6, <2>2 DEF WholeInv, ClientWhole, VVSound
  <2> QED BY <1>2, <2>1, <2>2
<1>9. OwnWrites'
  BY <1>0, OwnLand
<1>10. Whole(c, store[c])'
  <2> SUFFICES ASSUME NEW q \in store'[c], NEW v \in written', v.node = q.node, v.seq <= q.seq
               PROVE  Covers(store'[c], v)
    BY DEF Whole
  <2>1. CASE q \in store[c]
    <3>1. q \in written /\ v # r
      BY <1>0, <1>1, <1>5, <2>1, HubFacts
    <3>2. v \in written
      BY <1>2, <3>1
    <3>3. Covers(store[c], v)
      BY <2>1, <3>2 DEF WholeInv, ClientWhole, Whole
    <3> QED BY <1>6, <3>2, <3>3
  <2>2. CASE q = r /\ n = c
    BY <1>1, <1>9, <2>2 DEF OwnWrites
  <2>3. q \in store[c] \/ (q = r /\ n = c)
    BY <1>0, <1>2, WholeFacts DEF Upsert
  <2> QED BY <2>1, <2>2, <2>3
<1>11. ASSUME session'[c].pc = "push", NEW q \in store'[c], q.node # c
       PROVE  q.seq <= session'[c].serverVV[q.node]
  <2>1. q \in store[c]
    BY <1>0, <1>1, <1>2, <1>11, WholeFacts DEF Upsert
  <2> QED BY <1>2, <1>11, <2>1 DEF WholeInv, ClientWhole
<1>12. ASSUME session'[c].pc = "fill"
       PROVE  Whole(c, session[c].inbox)'
  <2> SUFFICES ASSUME NEW q \in session[c].inbox, NEW v \in written', v.node = q.node, v.seq <= q.seq
               PROVE  Covers(store'[c], v) \/ Covers(session[c].inbox, v)
    BY <1>2 DEF Whole
  <2>1. q \in written
    BY <1>0, HubFacts
  <2>2. v \in written
    BY <1>1, <1>2, <1>5, <2>1
  <2>3. Covers(store[c], v) \/ Covers(session[c].inbox, v)
    BY <1>2, <1>12, <2>2 DEF WholeInv, ClientWhole, Whole
  <2> QED BY <1>6, <2>2, <2>3
<1>13. /\ session'[c].pc = "merge" => \A q \in session'[c].inbox : q.node = c
       /\ Applying(c)' => job'[c].cs = session'[c].inbox
  BY <1>2 DEF WholeInv, ClientWhole, Applying
<1> QED BY <1>7, <1>8, <1>10, <1>11, <1>12, <1>13 DEF ClientWhole

\* Once a client has upserted what it was sent, it covers all that the authors of
\* those records wrote up to them.
LEMMA InboxLands ==
  ASSUME Apart, WholeInv, NEW c \in Client
  PROVE  LET new == Upsert(store[c], job[c].accepted)
         IN /\ \A v \in written : Covers(store[c], v) => Covers(new, v)
            /\ new \subseteq store[c] \cup job[c].cs
            /\ \A r \in job[c].cs : \A v \in written :
                 v.node = r.node /\ v.seq <= r.seq => Covers(new, v)
<1> DEFINE cs == job[c].cs
           new == Upsert(store[c], job[c].accepted)
<1>0. HubInv /\ c \in Node
  BY WholeFacts
<1>1. new = Upsert(store[c], Accepted(store[c], cs))
  BY <1>0 DEF HubInv, Applies
<1>2. /\ cs \in SUBSET Version /\ store[c] \in SUBSET Version
      /\ OnePerId(store[c]) /\ OnePerId(cs)
  BY <1>0, HubFacts DEF HubInv, Applies
<1>3. /\ Monotone(store[c], new) /\ new \subseteq store[c] \cup cs
      /\ \A r \in cs : Covers(new, r)
  BY <1>1, <1>2, MergeFacts
<1>4. new \in SUBSET Version
  BY <1>2, <1>3
<1> HIDE DEF new
<1>5. \A v \in written : Covers(store[c], v) => Covers(new, v)
  BY <1>0, <1>2, <1>3, <1>4, HubFacts, CoversMonotone
<1>6. ASSUME NEW r \in cs, NEW v \in written, v.node = r.node, v.seq <= r.seq
      PROVE  Covers(new, v)
  <2>1. v \in Version /\ Applying(c)
    BY <1>0, HubFacts DEF Applying
  <2>2. cs = session[c].inbox /\ session[c].pc \in {"merge", "fill"}
    BY <2>1, WholeFacts DEF WholeInv, ClientWhole
  <2>3. CASE session[c].pc = "merge"
    <3>1. v.node = c
      BY <1>6, <2>2, <2>3 DEF WholeInv, ClientWhole
    <3> QED BY <1>0, <1>5, <3>1 DEF HubInv, OwnWrites
  <2>4. CASE session[c].pc = "fill"
    <3>1. Covers(store[c], v) \/ Covers(cs, v)
      BY <1>6, <2>2, <2>4 DEF WholeInv, ClientWhole, Whole
    <3>2. CASE Covers(cs, v)
      <4>1. PICK h \in cs : h.id = v.id /\ ~RemoteWins(v, h)
        BY <3>2 DEF Covers
      <4>2. Covers(new, h) /\ h \in Version
        BY <1>2, <1>3, <4>1
      <4> QED BY <1>4, <2>1, <4>1, <4>2, CoversTransitive
    <3> QED BY <1>5, <3>1, <3>2
  <2> QED BY <2>2, <2>3, <2>4
<1> QED BY <1>3, <1>5, <1>6 DEF new

\* A call of apply_changes that ends, or dies, leaves the client whole.
LEMMA WholeEngine ==
  ASSUME Apart, WholeInv, NEW c \in Client, ApplyWrite(c) \/ Crashed(c), UNCHANGED localVars,
         session'[c].pc \in {"pull", "idle"}
  PROVE  ClientWhole(c)'
<1> DEFINE new == Upsert(store[c], job[c].accepted)
           told == UpdateFromRecords(vv[c], job[c].cs)
<1>0. /\ HubInv /\ c \in Node
      /\ vv[c] \in VersionVector /\ job[c].cs \subseteq written
  BY WholeFacts, HubFacts
<1>1. written' = written /\ \A a \in Node : Landed(a)' = Landed(a)
  BY <1>0, ClockEngine DEF localVars
<1>2. job'[c].cs = {}
  BY <1>0, WholeFacts, NoJobFacts DEF ApplyWrite, Crashed
<1>3. \/ store'[c] = store[c] /\ vv'[c] = vv[c]
      \/ store'[c] = new /\ (vv'[c] = vv[c] \/ vv'[c] = EmptyVV \/ vv'[c] = told)
  BY <1>0, WholeFacts DEF ApplyWrite, Crashed
<1>4. /\ \A v \in written : Covers(store[c], v) => Covers(store'[c], v)
      /\ \A r \in store'[c] : r \in store[c] \/ (r \in job[c].cs /\ store'[c] = new)
      /\ store'[c] = new => \A r \in job[c].cs : \A v \in written :
                              v.node = r.node /\ v.seq <= r.seq => Covers(store'[c], v)
  BY <1>3, InboxLands
<1>5. \A a \in Node : told[a] = vv[c][a] \/ \E r \in job[c].cs : r.node = a /\ r.seq = told[a]
  BY <1>0, SeqBounds, UpdateFacts, WholeFacts
<1> HIDE DEF new, told
<1>6. ASSUME NEW a \in Node
      PROVE  /\ vv'[c][a] <= Landed(a)
             /\ \A v \in written : v.node = a /\ v.seq <= vv'[c][a] => Covers(store'[c], v)
  <2>1. CASE vv'[c][a] = vv[c][a]
    BY <1>4, <2>1 DEF WholeInv, ClientWhole, VVSound
  <2>2. CASE vv'[c] = EmptyVV
    BY <1>0, <2>2, KnownEmpty
  <2>3. ASSUME NEW r \in job[c].cs, r.node = a, r.seq = vv'[c][a], store'[c] = new
        PROVE  /\ vv'[c][a] <= Landed(a)
               /\ \A v \in written : v.node = a /\ v.seq <= vv'[c][a] => Covers(store'[c], v)
    BY <1>0, <1>4, <2>3, LandedFacts
  <2> QED BY <1>3, <1>5, <2>1, <2>2, <2>3
<1>7. VVSound(c)'
  BY <1>0, <1>1, <1>6, HubFacts, VersionFields DEF VVSound
<1>8. Whole(c, store[c])'
  <2> SUFFICES ASSUME NEW r \in store'[c], NEW v \in written, v.node = r.node, v.seq <= r.seq
               PROVE  Covers(store'[c], v)
    BY <1>1 DEF Whole
  <2>1. CASE r \in store[c]
    <3>1. Covers(store[c], v)
      BY <2>1 DEF WholeInv, ClientWhole, Whole
    <3> QED BY <1>4, <3>1
  <2>2. CASE r \in job[c].cs /\ store'[c] = new
    BY <1>4, <2>2
  <2> QED BY <1>4, <2>1, <2>2
<1> QED BY <1>1, <1>2, <1>6, <1>7, <1>8 DEF ClientWhole, Applying

-----------------------------------------------------------------------------
(* Every step.                                                             *)

\* The vector an engine opens with, rebuilt from the collection or read from the
\* file, claims no more than the client holds or has superseded.
LEMMA WholeOpen ==
  ASSUME WholeInv, NEW c \in Client, OpenEngine(c)
  PROVE  ClientWhole(c)'
<1> DEFINE told == OpenedVV(vv[c], store[c])
<1>0. HubInv /\ c \in Node /\ store[c] \subseteq written /\ NumberInv
  BY WholeFacts, HubFacts
<1>1. written' = written /\ \A a \in Node : Landed(a)' = Landed(a)
  BY <1>0, ClockEngine DEF OpenEngine, localVars
<1>2. /\ store' = store /\ vv'[c] = told /\ job' = job
      /\ session'[c].pc = "status" /\ session[c].pc = "idle"
  BY <1>0, WholeFacts DEF OpenEngine, Session
<1>3. job[c].cs = {}
  BY <1>2, WholeFacts DEF Applying
<1>4. \A a \in Node : told[a] = vv[c][a] \/ \E r \in store[c] : r.node = a /\ r.seq = told[a]
  BY <1>0, SeqBounds, OpenedFacts
<1> HIDE DEF told
<1>5. ASSUME NEW a \in Node
      PROVE  /\ told[a] <= Landed(a)
             /\ \A v \in written : v.node = a /\ v.seq <= told[a] => Covers(store[c], v)
  <2>1. CASE told[a] = vv[c][a]
    BY <2>1 DEF WholeInv, ClientWhole, VVSound
  <2>2. ASSUME NEW r \in store[c], r.node = a, r.seq = told[a]
        PROVE  /\ told[a] <= Landed(a)
               /\ \A v \in written : v.node = a /\ v.seq <= told[a] => Covers(store[c], v)
    BY <1>0, <2>2, LandedFacts DEF WholeInv, ClientWhole, Whole
  <2> QED BY <1>4, <2>1, <2>2
<1>6. VVSound(c)'
  BY <1>0, <1>1, <1>2, <1>5, HubFacts, VersionFields DEF VVSound
<1>7. Whole(c, store[c])'
  BY <1>1, <1>2 DEF WholeInv, ClientWhole, Whole
<1> QED BY <1>1, <1>2, <1>3, <1>5, <1>6, <1>7 DEF ClientWhole, Applying

\* A pull leaves no hole: what the answer leaves out the client's vector claims.
LEMMA PullWhole ==
  ASSUME WholeInv, NEW c \in Client
  PROVE  Whole(c, ChangesSince(store[Hub], vv[c]))
<1> DEFINE cs == ChangesSince(store[Hub], vv[c])
<1>0. HubInv /\ c \in Node /\ Hub \in Node
  BY WholeFacts
<1> SUFFICES ASSUME NEW r \in cs, NEW v \in written, v.node = r.node, v.seq <= r.seq
             PROVE  Covers(store[c], v) \/ Covers(cs, v)
  BY DEF Whole
<1>1. Covers(store[Hub], v)
  BY <1>0 DEF HubInv, HubBacked, Backed, HubHasUpTo, ChangesSince
<1>2. PICK h \in store[Hub] : h.id = v.id /\ ~RemoteWins(v, h)
  BY <1>1 DEF Covers
<1>3. h \in written /\ h \in Version /\ v \in Version /\ store[c] \in SUBSET Version
  BY <1>0, HubFacts
<1>4. CASE h \in cs
  BY <1>2, <1>4 DEF Covers
<1>5. CASE h \notin cs
  <2>1. h.node \in Node /\ h.seq \in Nat /\ vv[c][h.node] \in Nat
    BY <1>0, <1>3, VersionFields, WholeFacts DEF VersionVector
  <2>2. h.seq <= vv[c][h.node]
    BY <1>5, <2>1 DEF ChangesSince
  <2>3. Covers(store[c], h)
    BY <1>3, <2>2 DEF WholeInv, ClientWhole, VVSound
  <2> QED BY <1>2, <1>3, <2>3, CoversTransitive
<1> QED BY <1>4, <1>5

LEMMA WholeClient ==
  ASSUME Apart, WholeInv, NEW c \in Client,
         \/ OpenEngine(c) \/ GetStatus(c) \/ Push(c) \/ HubReceive(c)
         \/ Pull(c) \/ ReadInbox(c) \/ WriteInbox(c)
         \/ TimeOut(c) \/ Abort(c) \/ LosePush(c)
  PROVE  \A d \in Client : ClientWhole(d)'
<1>0. HubInv /\ c \in Node /\ c # Hub /\ Hub \in Node /\ Client \subseteq Node /\ Hub \notin Client
  BY WholeFacts
<1>1. UNCHANGED localVars
  BY DEF OpenEngine, GetStatus, Push, HubReceive, Pull, ReadInbox,
         WriteInbox, TimeOut, Abort, LosePush
<1>2. written' = written /\ \A a \in Node : Landed(a)' = Landed(a)
  BY <1>0, <1>1, ClockEngine DEF localVars
<1>3. ASSUME NEW d \in Client, d # c
      PROVE  ClientWhole(d)'
  <2>1. store'[d] = store[d]
    BY <1>0, <1>3, WholeFacts DEF OpenEngine, GetStatus, Push, HubReceive, Pull, ReadInbox,
       WriteInbox, TimeOut, Abort, LosePush, ApplyWrite, Crashed
  <2>2. vv'[d] = vv[d]
    BY <1>0, <1>3, WholeFacts DEF OpenEngine, GetStatus, Push, HubReceive, Pull, ReadInbox,
       WriteInbox, TimeOut, Abort, LosePush, ApplyWrite, Crashed, OpenHub
  <2>3. session'[d] = session[d]
    BY <1>0, <1>3, WholeFacts DEF OpenEngine, GetStatus, Push, HubReceive, Pull, ReadInbox,
       WriteInbox, TimeOut, Abort, LosePush
  <2>4. job'[d] = job[d]
    BY <1>0, <1>3, WholeFacts DEF OpenEngine, GetStatus, Push, HubReceive, Pull, ReadInbox,
       WriteInbox, TimeOut, Abort, LosePush, ApplyRead, ApplyWrite, Crashed
  <2> QED BY <1>2, <2>1, <2>2, <2>3, <2>4, WholeOthers
<1>4. CASE OpenEngine(c)
  BY <1>3, <1>4, WholeOpen
<1>5. CASE GetStatus(c)
  <2>1. /\ session'[c].pc = "push" /\ session'[c].serverVV = HubVV
        /\ store' = store /\ vv'[c] = vv[c] /\ job' = job /\ session[c].pc = "status"
    BY <1>0, <1>5, WholeFacts DEF GetStatus, OpenHub, SessionAt
  <2>2. job[c].cs = {}
    BY <2>1, WholeFacts DEF Applying
  <2>3. \A r \in store[c] : r.node # c => r.seq <= HubVV[r.node]
    BY ForeignKnown
  <2>4. ClientWhole(c)'
    BY <1>2, <2>1, <2>2, <2>3, WholeKept
  <2> QED BY <1>3, <2>4
<1>6. CASE Push(c)
  <2>1. /\ session'[c].pc \in {"pull", "await"}
        /\ store' = store /\ vv' = vv /\ job' = job /\ session[c].pc = "push"
    BY <1>0, <1>6, WholeFacts DEF Push, Session
  <2>2. job[c].cs = {}
    BY <2>1, WholeFacts DEF Applying
  <2>3. ClientWhole(c)'
    BY <1>2, <2>1, <2>2, WholeKept
  <2> QED BY <1>3, <2>3
<1>7. CASE HubReceive(c)
  <2>1. /\ session' = session /\ store' = store /\ vv'[c] = vv[c] /\ job'[c] = job[c]
    BY <1>0, <1>7, WholeFacts DEF HubReceive, OpenHub, ApplyRead
  <2> QED BY <1>2, <1>3, <2>1, WholeOthers
<1>8. CASE Pull(c)
  <2>1. /\ \/ session'[c].pc = "idle"
           \/ session'[c].pc = "fill" /\ session'[c].inbox = ChangesSince(store[Hub], vv[c])
        /\ store' = store /\ vv'[c] = vv[c] /\ job' = job /\ session[c].pc = "pull"
    BY <1>0, <1>8, WholeFacts DEF Pull, OpenHub, SessionAt
  <2>2. job[c].cs = {}
    BY <2>1, WholeFacts DEF Applying
  <2>3. ClientWhole(c)'
    BY <1>2, <2>1, <2>2, PullWhole, WholeKept
  <2> QED BY <1>3, <2>3
<1>9. CASE ReadInbox(c)
  <2>1. /\ session' = session /\ store' = store /\ vv' = vv
        /\ job'[c].cs = session[c].inbox
    BY <1>0, <1>9, WholeFacts DEF ReadInbox, ApplyRead
  <2>2. ClientWhole(c)'
    BY <1>2, <2>1, WholeKept DEF WholeInv, ClientWhole
  <2> QED BY <1>3, <2>2
<1>10. CASE WriteInbox(c)
  <2>1. session'[c].pc \in {"pull", "idle"} /\ ApplyWrite(c)
    BY <1>0, <1>10, WholeFacts DEF WriteInbox, SessionAt
  <2> QED BY <1>1, <1>3, <2>1, WholeEngine
<1>11. CASE TimeOut(c)
  <2>1. /\ session'[c].pc = "idle"
        /\ store' = store /\ vv' = vv /\ job' = job /\ session[c].pc = "await"
    BY <1>0, <1>11, WholeFacts DEF TimeOut, Idle, SessionAt
  <2>2. job[c].cs = {}
    BY <2>1, WholeFacts DEF Applying
  <2>3. ClientWhole(c)'
    BY <1>2, <2>1, <2>2, WholeKept
  <2> QED BY <1>3, <2>3
<1>12. CASE Abort(c)
  <2>1. session'[c].pc = "idle" /\ Crashed(c)
    BY <1>0, <1>12, WholeFacts DEF Abort, Idle, SessionAt
  <2> QED BY <1>1, <1>3, <2>1, WholeEngine
<1>13. CASE LosePush(c)
  <2>1. UNCHANGED <<session, store, vv, job>>
    BY <1>13 DEF LosePush
  <2> QED BY <1>2, <1>3, <2>1, WholeOthers
<1> QED BY <1>4, <1>5, <1>6, <1>7, <1>8, <1>9, <1>10, <1>11, <1>12, <1>13

\* The winning records of a push have the ids, and so the author, of the records
\* pushed: the client's own.
LEMMA WholeHub ==
  ASSUME Apart, WholeInv, HubCommit \/ HubCrash, HubInv'
  PROVE  \A d \in Client : ClientWhole(d)'
<1> DEFINE c == job[Hub].from
           winning == WinningRecords(store'[Hub], job[Hub].cs, job[Hub].accepted)
           p == IF winning = {} THEN "pull" ELSE "merge"
<1>0. HubInv /\ Hub \in Node /\ Client \subseteq Node /\ Hub \notin Client
  BY WholeFacts
<1>1. UNCHANGED localVars
  BY DEF HubCommit, HubCrash
<1>2. written' = written /\ \A a \in Node : Landed(a)' = Landed(a)
  BY <1>0, <1>1, ClockEngine DEF localVars
<1>3. \A d \in Client : store'[d] = store[d] /\ vv'[d] = vv[d] /\ job'[d] = job[d]
  BY <1>0, WholeFacts DEF HubCommit, HubCrash, ApplyWrite, Crashed
<1>4. \A w \in winning : w.node = c
  <2> SUFFICES ASSUME NEW w \in winning PROVE w.node = c
    OBVIOUS
  <2>1. w \in store'[Hub] /\ \E r \in job[Hub].cs : r.id = w.id
    BY DEF WinningRecords
  <2>2. PICK r \in job[Hub].cs : r.id = w.id
    BY <2>1
  <2>3. store'[Hub] \subseteq written' /\ job[Hub].cs \subseteq written
    BY <1>0, HubFacts DEF HubInv, NumberInv
  <2>4. w \in written /\ r \in written
    BY <1>2, <2>1, <2>3
  <2>5. r.node = c
    BY DEF WholeInv, OwnPushes
  <2> QED BY <1>0, <2>2, <2>4, <2>5, SameAuthor DEF WholeInv
<1>5. ASSUME NEW d \in Client, session'[d] = session[d]
      PROVE  ClientWhole(d)'
  BY <1>2, <1>3, <1>5, WholeOthers
<1>6. \/ session' = session
      \/ /\ session[c].pc = "await"
         /\ session' = [session EXCEPT ![c] = SessionAt(p, @.serverVV, winning)]
  BY DEF HubCommit, HubCrash
<1> HIDE DEF winning, c
<1>7. ASSUME NEW d \in Client, d = c, session[d].pc = "await",
             session' = [session EXCEPT ![d] = SessionAt(p, @.serverVV, winning)]
      PROVE  ClientWhole(d)'
  <2>1. session'[d].pc \in {"pull", "merge"} /\ session'[d].inbox = winning
    BY <1>7, WholeFacts DEF SessionAt
  <2>2. job[d].cs = {}
    BY <1>7, WholeFacts DEF Applying
  <2>3. store'[d] = store[d] /\ vv'[d] = vv[d] /\ job'[d].cs = {}
    BY <1>3, <2>2
  <2>4. /\ session'[d].pc # "push" /\ session'[d].pc # "fill"
        /\ \A r \in session'[d].inbox : r.node = d
    BY <1>4, <1>7, <2>1
  <2> QED BY <1>2, <2>3, <2>4, WholeKept
<1>8. CASE session' = session
  BY <1>5, <1>8
<1>9. CASE /\ session[c].pc = "await"
           /\ session' = [session EXCEPT ![c] = SessionAt(p, @.serverVV, winning)]
  <2> SUFFICES ASSUME NEW d \in Client PROVE ClientWhole(d)'
    OBVIOUS
  <2>1. CASE d # c
    <3>1. session'[d] = session[d]
      BY <1>9, <2>1
    <3> QED BY <1>5, <3>1
  <2>2. CASE d = c
    BY <1>7, <1>9, <2>2
  <2> QED BY <2>1, <2>2
<1> QED BY <1>6, <1>8, <1>9

LEMMA WholeNext == Apart /\ WholeInv /\ [Next]_vars => WholeInv'
<1> SUFFICES ASSUME Apart, WholeInv, [Next]_vars PROVE WholeInv'
  OBVIOUS
<1>1. HubInv /\ HubInv'
  BY HubNext DEF Apart, WholeInv
<1>2. OwnPushes' /\ HubVVCovers'
  BY OwnPushesNext, HubVVCoversNext
<1> DEFINE Clients == \A c \in Client : ClientWhole(c)'
<1>3. ASSUME UNCHANGED vars
      PROVE  Clients
  <2>1. UNCHANGED localVars /\ UNCHANGED <<store, vv, job, session>> /\ written' = written
    BY <1>3 DEF vars, localVars
  <2>2. \A a \in Node : Landed(a)' = Landed(a)
    BY <1>1, <2>1, ClockEngine
  <2> QED BY <2>1, <2>2, WholeOthers
<1>4. ASSUME NEW n \in Node, NEW i \in Id, Stamp(n, i)
      PROVE  Clients
  <2>1. \A a \in Node : Landed(a)' = Landed(a)
    BY <1>1, <1>4, ClockStamp DEF Apart
  <2>2. UNCHANGED <<store, vv, job, session>> /\ written' = written
    BY <1>4 DEF Stamp
  <2> QED BY <2>1, <2>2, WholeOthers
<1>5. ASSUME NEW n \in Node, NEW r \in pending[n], Land(n, r), Next
      PROVE  Clients
  BY <1>5, WholeLand
<1>6. ASSUME HubCommit \/ HubCrash
      PROVE  Clients
  BY <1>1, <1>6, WholeHub
<1>7. ASSUME NEW c \in Client,
             \/ OpenEngine(c) \/ GetStatus(c) \/ Push(c) \/ HubReceive(c)
             \/ Pull(c) \/ ReadInbox(c) \/ WriteInbox(c)
             \/ TimeOut(c) \/ Abort(c) \/ LosePush(c)
      PROVE  Clients
  BY <1>7, WholeClient
<1> HIDE DEF Clients
<1>8. Clients
  BY <1>3, <1>4, <1>5, <1>6, <1>7 DEF Next, LocalWrite
<1> QED BY <1>1, <1>2, <1>8 DEF WholeInv, Clients

LEMMA WholeInit == Apart /\ Init => WholeInv
<1> SUFFICES ASSUME Apart, Init PROVE WholeInv
  OBVIOUS
<1>1. HubInv
  BY HubInit DEF Apart
<1>2. Hub \in Node /\ Client \subseteq Node
  BY ReplicationAssumption DEF Client
<1>3. /\ \A n \in Node : store[n] = {} /\ pending[n] = {} /\ job[n].cs = {}
      /\ \A n \in Node : vv[n] = EmptyVV
      /\ \A c \in Client : wire[c] = {} /\ session[c].pc = "idle"
      /\ written = {}
  BY <1>2, NoJobFacts DEF Init, Idle, SessionAt
<1>4. OwnPushes /\ HubVVCovers
  BY <1>2, <1>3 DEF OwnPushes, Applying, HubVVCovers
<1>5. ASSUME NEW c \in Client
      PROVE  ClientWhole(c)
  <2>1. \A a \in Node : vv[c][a] <= Landed(a)
    BY <1>1, <1>2, <1>3, KnownEmpty
  <2> QED BY <1>2, <1>3, <2>1 DEF ClientWhole, VVSound, Whole, Applying
<1> QED BY <1>1, <1>4, <1>5 DEF WholeInv

\* For every number of clients, ids, clock drifts, writes and faults: no answer of
\* the hub makes a client's vector jump over a write (sync_client.py:137,
\* sync.py:159), when no id is written by two nodes and the hub's process is not
\* killed inside apply_changes.
THEOREM WholeInvariant == Apart => (Spec => []WholeInv)
<1> SUFFICES ASSUME Apart PROVE Spec => []WholeInv
  OBVIOUS
<1>1. Init => WholeInv
  BY WholeInit
<1>2. WholeInv /\ [Next]_vars => WholeInv'
  BY WholeNext
<1> QED BY <1>1, <1>2, PTL DEF Spec

\* What the vector of any node claims, that node holds or has superseded: no record
\* it will not be sent again because of the vector is missing.
THEOREM VectorsSound == Apart => (Spec => []AllSound)
<1> SUFFICES ASSUME Apart PROVE Spec => []AllSound
  OBVIOUS
<1>1. WholeInv => AllSound
  <2> SUFFICES ASSUME WholeInv, NEW n \in Node, NEW v \in written, v.seq <= vv[n][v.node]
               PROVE  Covers(store[n], v)
    BY DEF AllSound, VVSound
  <2>1. v.node \in Node /\ HubInv
    BY WholeFacts, HubFacts, VersionFields
  <2>2. CASE n = Hub
    BY <2>1, <2>2 DEF HubInv, HubBacked, Known, HubHasUpTo
  <2>3. CASE n # Hub
    BY <2>3 DEF Client, WholeInv, ClientWhole, VVSound
  <2> QED BY <2>2, <2>3
<1>2. Spec => []WholeInv
  BY WholeInvariant
<1> QED BY <1>1, <1>2, PTL

\* A pull that completes brings the client everything of the hub that it has not
\* seen (sync.py:5-6, sync_client.py:149).
THEOREM PullsDeliver == Apart => (Spec => PullDelivers)
<1> DEFINE Step == \A c \in Client :
             session[c].pc = "pull" /\ session'[c].pc # "pull" /\ faults' = faults
               => \A r \in store[Hub] : Covers(store[c], r) \/ r \in session'[c].inbox
<1> SUFFICES ASSUME Apart PROVE Spec => [][Step]_vars
  BY DEF PullDelivers
<1>1. WholeInv /\ [Next]_vars => [Step]_vars
  <2> SUFFICES ASSUME WholeInv, Next, NEW c \in Client,
                      session[c].pc = "pull", session'[c].pc # "pull", faults' = faults,
                      NEW r \in store[Hub]
               PROVE  Covers(store[c], r) \/ r \in session'[c].inbox
    OBVIOUS
  <2>0. /\ HubInv /\ c \in Node /\ Hub \in Node /\ ~Applying(c)
        /\ r \in written /\ r.node \in Node /\ r.seq \in Nat /\ vv[c][r.node] \in Nat
    BY WholeFacts, HubFacts, VersionFields DEF VersionVector
  <2>1. ASSUME Pull(c)
        PROVE  Covers(store[c], r) \/ r \in session'[c].inbox
    <3>1. session'[c].inbox = ChangesSince(store[Hub], vv[c])
      BY <2>1, WholeFacts DEF Pull, SessionAt
    <3>2. CASE r.seq > vv[c][r.node]
      BY <3>1, <3>2 DEF ChangesSince
    <3>3. CASE r.seq <= vv[c][r.node]
      BY <2>0, <3>3 DEF WholeInv, ClientWhole, VVSound
    <3> QED BY <2>0, <3>2, <3>3
  <2>2. CASE LocalWrite \/ HubCrash
    BY <2>2 DEF LocalWrite, Stamp, Land, HubCrash
  <2>3. CASE HubCommit
    <3>1. \/ session' = session
          \/ /\ session[job[Hub].from].pc = "await"
             /\ \A d \in Client : d # job[Hub].from => session'[d] = session[d]
      BY <2>3 DEF HubCommit
    <3> QED BY <3>1
  <2>4. ASSUME NEW d \in Client, d # c,
               \/ OpenEngine(d) \/ GetStatus(d) \/ Push(d) \/ HubReceive(d)
               \/ Pull(d) \/ ReadInbox(d) \/ WriteInbox(d)
               \/ TimeOut(d) \/ Abort(d) \/ LosePush(d)
        PROVE  FALSE
    BY <2>4, WholeFacts DEF OpenEngine, GetStatus, Push, HubReceive, Pull, ReadInbox,
       WriteInbox, TimeOut, Abort, LosePush
  <2>5. CASE OpenEngine(c) \/ GetStatus(c) \/ Push(c) \/ ReadInbox(c) \/ TimeOut(c)
    BY <2>5 DEF OpenEngine, GetStatus, Push, ReadInbox, TimeOut
  <2>6. CASE HubReceive(c) \/ LosePush(c)
    BY <2>6 DEF HubReceive, LosePush
  <2>7. CASE WriteInbox(c)
    BY <2>0, <2>7 DEF WriteInbox
  <2>8. CASE Abort(c)
    <3>1. faults \in Nat /\ faults' = faults + 1
      BY <2>0, <2>8 DEF Abort, HubInv, NumberInv, TypeOK
    <3> QED BY <3>1
  <2> QED BY <2>1, <2>2, <2>3, <2>4, <2>5, <2>6, <2>7, <2>8 DEF Next
<1>2. Spec => []WholeInv
  BY WholeInvariant
<1> HIDE DEF Step
<1> QED BY <1>1, <1>2, PTL DEF Spec
=============================================================================
