----------------------------- MODULE CastleProofs -----------------------------
(*****************************************************************************)
(* Proofs about a castle at work, each about one of its machines, whatever   *)
(* the number of processes, clients and records:                             *)
(*   NoNumberTwice      stamping processes never give out a number twice     *)
(*   DistillImplements  a pipelined distill run implements the one in order  *)
(*   RequestsAreSound   what the server answers, files and logs agree        *)
(*   DedupIsSafe        duplicate removal leaves what stands for the removed *)
(*   PgIsSound          a PostgreSQL table keeps one width and its columns   *)
(*   FactsAreKept       one current row of a fact, and a history that stays  *)
(*   ViewsAreFresh      what is cached and filed in cards is the collection  *)
(*   ViewsAreSound      a walk of the tunnel graph is in order and cut well  *)
(*   FiltersAreSound    where the three backends agree on a filter           *)
(*   DigestsAreSound    a digest keeps its budget and its order              *)
(*   SanitizerIsSound   a cleaned query is short and out of the raw one      *)
(*   SearchesAreSound   a search returns its best hits, up to its scan       *)
(* and the types of the facts, the views and a distill run.                  *)
(*****************************************************************************)
EXTENDS Identity, Distill, Requests, Dedup, PgTable, Facts, Views, Filters, Digest, Sanitizer, Retrieval,
  FiniteSetTheorems, TLAPS

-----------------------------------------------------------------------------
(* Identity: the counter file and its stamps.                              *)

Step == {"idle", "lock", "truncate", "write", "name", "mint", "save", "stamp"}
AfterWrite == {"name", "mint", "save", "stamp"}

Stamper == [pc : Step, id : Int, first : Nat, count : Nat]

\* What the proofs need of the values.
IdentityTypeOK ==
  /\ seqFile \in Nat
  /\ stamper \in [StampProcess -> Stamper]
  /\ idFile \in Int /\ minted \in Nat
  /\ \A p \in StampProcess : stamper[p].pc \in {"truncate", "write"} => stamper[p].first > 0
  /\ \A s \in stamps : s[2] \in Nat
  /\ emptied \in BOOLEAN

\* The process at the file is the one that holds the lock.
LockHeld == \A p \in StampProcess : stamper[p].pc \in {"truncate", "write"} <=> holder = p

\* No number above b was given out.
GivenUpTo(b) ==
  /\ \A s \in stamps : s[2] <= b
  /\ \A p \in StampProcess : \A n \in Taken(p) : n <= b

\* What was given out is below the file; while the file is empty, it is below what
\* its writer has read.
FileAhead ==
  ~emptied =>
    /\ (\A p \in StampProcess : stamper[p].pc # "write") => GivenUpTo(seqFile)
    /\ \A p \in StampProcess :
         /\ stamper[p].pc = "truncate" => stamper[p].first = seqFile + 1
         /\ stamper[p].pc = "write" => GivenUpTo(stamper[p].first - 1)

\* The inductive invariant.
IdentityInv == IdentityTypeOK /\ LockHeld /\ FileAhead /\ NumbersOnce

\* It holds at the start, when nothing was given out.
LEMMA IdentityInvInit == IdentityInit => IdentityInv
  <1> SUFFICES ASSUME IdentityInit PROVE IdentityInv
    OBVIOUS
  <1> USE DEF IdentityInit, Fresh, NoId
  <1>1. IdentityTypeOK
    <2>1. \A s \in stamps : s[2] \in Nat
      OBVIOUS
    <2>2. emptied \in BOOLEAN
      OBVIOUS
    <2>3. stamper \in [StampProcess -> Stamper]
      BY DEF Stamper, Step
    <2>4. \A p \in StampProcess : stamper[p].pc = "idle"
      OBVIOUS
    <2> QED
      BY <2>1, <2>2, <2>3, <2>4 DEF IdentityTypeOK, Stamper
  <1>2. LockHeld
    BY IdentityAssumption DEF LockHeld, IdentityAssumption
  <1>3. \A p \in StampProcess : Taken(p) = {} /\ stamper[p].pc = "idle"
    BY DEF Taken
  <1>4. FileAhead /\ NumbersOnce
    BY <1>3 DEF FileAhead, NumbersOnce, GivenUpTo
  <1> QED
    BY <1>1, <1>2, <1>4 DEF IdentityInv

\* What a step writes of a process keeps its type.
LEMMA StamperStays ==
  ASSUME NEW r \in Stamper, NEW c \in Step, NEW i \in Int, NEW n \in Nat
  PROVE /\ [r EXCEPT !.pc = c] \in Stamper
        /\ [r EXCEPT !.pc = c, !.id = i] \in Stamper
        /\ [r EXCEPT !.pc = c, !.first = n] \in Stamper
        /\ [r EXCEPT !.pc = c, !.count = n] \in Stamper
  BY DEF Stamper

\* A step that gives out nothing and leaves the file and who is at it alone keeps
\* what the invariant says of the numbers.
LEMMA QuietStep ==
  ASSUME IdentityInv, IdentityTypeOK', emptied => emptied',
         UNCHANGED <<seqFile, stamps>>,
         \A p \in StampProcess : Taken(p)' \subseteq Taken(p),
         \A p \in StampProcess : stamper'[p].pc \in {"truncate", "write"} => stamper'[p] = stamper[p],
         emptied' \/ \A p \in StampProcess : stamper[p].pc = "write" => stamper'[p].pc = "write"
  PROVE FileAhead' /\ NumbersOnce'
  <1>1. \A b \in Int : GivenUpTo(b) => GivenUpTo(b)'
    BY DEF GivenUpTo
  <1>2. NumbersOnce'
    BY DEF IdentityInv, NumbersOnce
  <1>3. ASSUME ~emptied' PROVE FileAhead'
    <2>1. ~emptied
      BY <1>3 DEF IdentityInv, IdentityTypeOK, Stamper
    <2>2. ASSUME NEW p \in StampProcess, stamper'[p].pc = "write" PROVE GivenUpTo(stamper[p].first - 1)'
      BY <1>1, <2>1, <2>2 DEF IdentityInv, FileAhead, IdentityTypeOK, Stamper
    <2>3. ASSUME \A p \in StampProcess : stamper'[p].pc # "write" PROVE GivenUpTo(seqFile)'
      BY <1>1, <1>3, <2>1, <2>3 DEF IdentityInv, FileAhead, IdentityTypeOK, Stamper
    <2>4. ASSUME NEW p \in StampProcess, stamper'[p].pc = "truncate" PROVE stamper'[p].first = seqFile' + 1
      BY <2>1, <2>4 DEF IdentityInv, FileAhead
    <2> QED
      BY <2>2, <2>3, <2>4 DEF FileAhead
  <1>4. emptied' => FileAhead'
    BY DEF FileAhead
  <1> QED
    BY <1>2, <1>3, <1>4

\* Steps of a process that only change where it is, or the id it goes by, away from
\* the file of the number.
LEMMA NamingKeepsInv ==
  ASSUME IdentityInv, NEW p \in StampProcess,
         StartStamp(p) \/ LookForId(p) \/ MintId(p) \/ SaveId(p)
  PROVE IdentityInv'
  <1> USE DEF IdentityInv
  <1>1. UNCHANGED <<seqFile, stamps, emptied, holder>>
    BY DEF StartStamp, LookForId, MintId, SaveId
  <1>2. stamper' \in [StampProcess -> Stamper]
    <2>1. CASE StartStamp(p)
      BY <2>1, IdentityAssumption DEF StartStamp, IdentityAssumption, IdentityTypeOK, Stamper, Step
    <2>2. CASE LookForId(p)
      <3>1. stamper[p] \in Stamper /\ stamper[p].id \in Int /\ idFile \in Int /\ minted + 1 \in Int
        BY DEF IdentityTypeOK, Stamper
      <3>2. "stamp" \in Step /\ "mint" \in Step /\ "save" \in Step
        BY DEF Step
      <3> DEFINE found == IF stamper[p].id # NoId THEN stamper[p].id ELSE idFile
      <3>3. [stamper[p] EXCEPT !.pc = "mint"] \in Stamper
        BY <3>1, <3>2, StamperStays
      <3>4. [stamper[p] EXCEPT !.pc = "stamp", !.id = found] \in Stamper
        <4>1. found \in Int
          BY <3>1
        <4> HIDE DEF found
        <4> QED
          BY <3>1, <3>2, <4>1, StamperStays
      <3> QED
        BY <2>2, <3>2, <3>3, <3>4 DEF LookForId, Becomes, IdentityTypeOK
    <2>3. CASE MintId(p)
      <3>1. stamper[p] \in Stamper /\ stamper[p].id \in Int /\ idFile \in Int /\ minted + 1 \in Int
        BY DEF IdentityTypeOK, Stamper
      <3>2. "stamp" \in Step /\ "mint" \in Step /\ "save" \in Step
        BY DEF Step
      <3> QED
        BY <2>3, <3>1, <3>2, StamperStays DEF MintId, IdentityTypeOK
    <2>4. CASE SaveId(p)
      BY <2>4 DEF SaveId, Becomes, IdentityTypeOK, Stamper, Step
    <2> QED
      BY <2>1, <2>2, <2>3, <2>4
  <1>3. idFile' \in Int /\ minted' \in Nat
    <2>1. CASE StartStamp(p) \/ LookForId(p)
      BY <2>1 DEF StartStamp, LookForId, IdentityTypeOK
    <2>2. CASE MintId(p)
      BY <2>2 DEF MintId, IdentityTypeOK, EmptyId
    <2>3. CASE SaveId(p)
      BY <2>3 DEF SaveId, IdentityTypeOK, Stamper
    <2> QED
      BY <2>1, <2>2, <2>3
  <1>4. /\ \A q \in StampProcess \ {p} : stamper'[q] = stamper[q]
        /\ stamper[p].pc \notin {"truncate", "write"} /\ stamper'[p].pc \notin {"truncate", "write"}
    <2>1. CASE StartStamp(p)
      BY <2>1 DEF StartStamp, IdentityTypeOK, Stamper
    <2>2. CASE LookForId(p)
      BY <2>2 DEF LookForId, Becomes, IdentityTypeOK, Stamper
    <2>3. CASE MintId(p)
      BY <2>3 DEF MintId, IdentityTypeOK, Stamper
    <2>4. CASE SaveId(p)
      BY <2>4 DEF SaveId, Becomes, IdentityTypeOK, Stamper
    <2> QED
      BY <2>1, <2>2, <2>3, <2>4
  <1>5. IdentityTypeOK'
    BY <1>1, <1>2, <1>3, <1>4 DEF IdentityTypeOK
  <1>6. Taken(p)' = Taken(p)
    <2>1. CASE StartStamp(p)
      BY <2>1 DEF StartStamp, IdentityTypeOK, Stamper, Taken
    <2>2. CASE LookForId(p)
      BY <2>2 DEF LookForId, Becomes, IdentityTypeOK, Stamper, Taken
    <2>3. CASE MintId(p)
      BY <2>3 DEF MintId, IdentityTypeOK, Stamper, Taken
    <2>4. CASE SaveId(p)
      BY <2>4 DEF SaveId, Becomes, IdentityTypeOK, Stamper, Taken
    <2> QED
      BY <2>1, <2>2, <2>3, <2>4
  <1>7. \A q \in StampProcess : Taken(q)' \subseteq Taken(q)
    BY <1>4, <1>6 DEF Taken
  <1>8. LockHeld'
    BY <1>1, <1>4 DEF LockHeld
  <1>9. FileAhead' /\ NumbersOnce'
    BY <1>1, <1>5, <1>4, <1>7, QuietStep
  <1> QED
    BY <1>5, <1>8, <1>9

\* While nobody is at the file, it is ahead of all numbers; its reader takes the next.
LEMMA LockAndReadKeepsInv ==
  ASSUME IdentityInv, NEW p \in StampProcess, LockAndRead(p)
  PROVE IdentityInv'
  <1> USE DEF IdentityInv
  <1>1. IdentityTypeOK'
    <2>1. stamper[p] \in Stamper /\ seqFile + 1 \in Nat /\ "truncate" \in Step
      BY DEF IdentityTypeOK, Step
    <2>2. stamper' \in [StampProcess -> Stamper]
      BY <2>1, StamperStays DEF LockAndRead, IdentityTypeOK
    <2> QED
      BY <2>2 DEF LockAndRead, IdentityTypeOK, Stamper
  <1>2. /\ stamper'[p].pc = "truncate" /\ stamper'[p].first = seqFile + 1 /\ stamper[p].pc = "lock"
        /\ \A q \in StampProcess \ {p} : stamper'[q] = stamper[q]
    BY DEF LockAndRead, IdentityTypeOK, Stamper
  <1>3. \A q \in StampProcess : stamper[q].pc \notin {"truncate", "write"}
    BY IdentityAssumption DEF LockAndRead, MayEnter, LockHeld, IdentityAssumption
  <1>4. LockHeld'
    BY <1>2, <1>3 DEF LockAndRead, LockHeld
  <1>5. \A q \in StampProcess : Taken(q)' = Taken(q)
    BY <1>2 DEF Taken
  <1>6. NumbersOnce'
    BY <1>5 DEF LockAndRead, NumbersOnce
  <1>7. ~emptied => GivenUpTo(seqFile)'
    BY <1>3, <1>5 DEF LockAndRead, FileAhead, GivenUpTo
  <1>8. FileAhead'
    BY <1>2, <1>3, <1>7 DEF LockAndRead, FileAhead
  <1> QED
    BY <1>1, <1>4, <1>6, <1>8

\* The file is emptied by the only process that is at it, which knows what it held.
LEMMA TruncateKeepsInv ==
  ASSUME IdentityInv, NEW p \in StampProcess, TruncateSeq(p)
  PROVE IdentityInv'
  <1> USE DEF IdentityInv
  <1>1. IdentityTypeOK'
    BY DEF TruncateSeq, Becomes, IdentityTypeOK, Stamper, Step
  <1>2. /\ stamper'[p].pc = "write" /\ stamper'[p].first = stamper[p].first /\ stamper[p].pc = "truncate"
        /\ \A q \in StampProcess \ {p} : stamper'[q] = stamper[q]
    BY DEF TruncateSeq, Becomes, IdentityTypeOK, Stamper
  <1>3. \A q \in StampProcess \ {p} : stamper[q].pc \notin {"truncate", "write"}
    BY <1>2 DEF LockHeld
  <1>4. LockHeld'
    BY <1>2, <1>3 DEF TruncateSeq, LockHeld
  <1>5. \A q \in StampProcess : Taken(q)' = Taken(q)
    BY <1>2 DEF Taken
  <1>6. NumbersOnce'
    BY <1>5 DEF TruncateSeq, NumbersOnce
  <1>7. ASSUME ~emptied PROVE GivenUpTo(stamper[p].first - 1)'
    <2>1. GivenUpTo(seqFile) /\ stamper[p].first = seqFile + 1
      BY <1>2, <1>3, <1>7 DEF FileAhead
    <2>2. stamper'[p].first - 1 = seqFile
      BY <1>2, <2>1 DEF IdentityTypeOK, Stamper
    <2> QED
      BY <1>5, <2>1, <2>2 DEF TruncateSeq, GivenUpTo
  <1>8. FileAhead'
    BY <1>2, <1>3, <1>7 DEF TruncateSeq, FileAhead
  <1> QED
    BY <1>1, <1>4, <1>6, <1>8

\* The writer takes numbers above all that were given out, and writes the last.
LEMMA WriteSeqKeepsInv ==
  ASSUME IdentityInv, NEW p \in StampProcess, WriteSeq(p)
  PROVE IdentityInv'
  <1> USE DEF IdentityInv
  <1> DEFINE batch == stamper[p].first .. (stamper[p].first + stamper[p].count - 1)
  <1>1. /\ stamper'[p].pc = "name" /\ stamper'[p].first = stamper[p].first
        /\ stamper'[p].count = stamper[p].count /\ stamper[p].pc = "write"
        /\ \A q \in StampProcess \ {p} : stamper'[q] = stamper[q]
    BY DEF WriteSeq, Becomes, IdentityTypeOK, Stamper
  <1>2. holder = p /\ holder' = 0 /\ \A q \in StampProcess \ {p} : stamper[q].pc \notin {"truncate", "write"}
    BY <1>1 DEF WriteSeq, LockHeld
  <1>3. LockHeld'
    BY <1>1, <1>2, IdentityAssumption DEF LockHeld, IdentityAssumption
  <1>4. Taken(p)' = batch /\ Taken(p) = {} /\ \A q \in StampProcess \ {p} : Taken(q)' = Taken(q)
    BY <1>1 DEF Taken
  <1>5. ASSUME ~emptied PROVE GivenUpTo(stamper[p].first - 1)
    BY <1>1, <1>5 DEF FileAhead
  <1>6. ASSUME ~emptied PROVE NumbersOnce'
    <2>1. \A q \in StampProcess \ {p} : Taken(q) \cap batch = {}
      BY <1>5, <1>6 DEF GivenUpTo, IdentityTypeOK, Stamper, Taken
    <2>2. \A s \in stamps : s[2] \notin batch
      BY <1>5, <1>6 DEF GivenUpTo, IdentityTypeOK, Stamper
    <2> QED
      <3>1. \A q, r \in StampProcess : q # r => Taken(q)' \cap Taken(r)' = {}
        <4> SUFFICES ASSUME NEW q \in StampProcess, NEW r \in StampProcess, q # r
                     PROVE Taken(q)' \cap Taken(r)' = {}
          OBVIOUS
        <4>1. \A x, y \in StampProcess : x # y => Taken(x) \cap Taken(y) = {}
          BY <1>6 DEF NumbersOnce
        <4> HIDE DEF batch
        <4>2. CASE q = p
          BY <1>4, <2>1, <4>2
        <4>3. CASE r = p
          BY <1>4, <2>1, <4>3
        <4>4. CASE q # p /\ r # p
          BY <1>4, <4>1, <4>4
        <4> QED
          BY <4>2, <4>3, <4>4
      <3>2. \A q \in StampProcess : \A s \in stamps' : s[2] \notin Taken(q)'
        BY <1>4, <1>6, <2>2 DEF WriteSeq, NumbersOnce
      <3> QED
        BY <3>1, <3>2 DEF NumbersOnce
  <1>7. seqFile' = stamper[p].first + stamper[p].count - 1 /\ seqFile' \in Nat
    BY <1>1 DEF WriteSeq, LastTaken, IdentityTypeOK, Stamper
  <1>8. IdentityTypeOK'
    <2>1. stamper' \in [StampProcess -> Stamper]
      BY DEF WriteSeq, Becomes, IdentityTypeOK, Stamper, Step
    <2> QED
      BY <1>1, <1>7, <2>1 DEF WriteSeq, IdentityTypeOK, Stamper
  <1>9. ASSUME ~emptied PROVE GivenUpTo(seqFile)'
    <2>1. \A s \in stamps : s[2] <= seqFile'
      BY <1>5, <1>7, <1>9 DEF GivenUpTo, IdentityTypeOK, Stamper
    <2>2. \A n \in batch : n <= seqFile'
      BY <1>7 DEF IdentityTypeOK, Stamper
    <2>3. \A q \in StampProcess \ {p} : \A n \in Taken(q) : n <= seqFile'
      BY <1>5, <1>7, <1>9 DEF GivenUpTo, IdentityTypeOK, Stamper, Taken
    <2> QED
      BY <1>4, <2>1, <2>2, <2>3 DEF WriteSeq, GivenUpTo
  <1>10. FileAhead'
    BY <1>1, <1>2, <1>9 DEF WriteSeq, FileAhead
  <1>11. emptied => NumbersOnce'
    BY DEF WriteSeq, NumbersOnce
  <1> QED
    BY <1>3, <1>6, <1>8, <1>10, <1>11

\* The batch gets the numbers its process holds, and the process lets go of them.
LEMMA StampBatchKeepsInv ==
  ASSUME IdentityInv, NEW p \in StampProcess, StampBatch(p)
  PROVE IdentityInv'
  <1> USE DEF IdentityInv
  <1>1. /\ stamper'[p] = [Fresh EXCEPT !.id = stamper[p].id] /\ stamper[p].pc = "stamp"
        /\ \A q \in StampProcess \ {p} : stamper'[q] = stamper[q]
    BY DEF StampBatch, IdentityTypeOK
  <1>2. stamper'[p] \in Stamper /\ stamper'[p].pc = "idle"
    BY <1>1 DEF IdentityTypeOK, Stamper, Fresh, Step
  <1>3. stamper' \in [StampProcess -> Stamper]
    BY <1>1, <1>2 DEF StampBatch, IdentityTypeOK
  <1>4. Taken(p) = stamper[p].first .. (stamper[p].first + stamper[p].count - 1)
    BY <1>1 DEF Taken
  <1>5. \A s \in stamps' : s \in stamps \/ s[2] \in Taken(p)
    BY <1>4 DEF StampBatch, StampedBatch
  <1>6. \A q \in StampProcess : \A n \in Taken(q) : n \in Nat
    BY DEF Taken, IdentityTypeOK, Stamper
  <1>7. \A s \in stamps' : s[2] \in Nat
    BY <1>5, <1>6 DEF IdentityTypeOK
  <1>8. IdentityTypeOK'
    BY <1>1, <1>2, <1>3, <1>7 DEF StampBatch, IdentityTypeOK
  <1>9. LockHeld'
    BY <1>1, <1>2 DEF StampBatch, LockHeld
  <1>10. Taken(p)' = {} /\ \A q \in StampProcess \ {p} : Taken(q)' = Taken(q)
    BY <1>1, <1>2 DEF Taken
  <1>11. \A b \in Int : GivenUpTo(b) => GivenUpTo(b)'
    BY <1>5, <1>10 DEF GivenUpTo
  <1>12. FileAhead'
    <2> SUFFICES ASSUME ~emptied PROVE FileAhead'
      BY DEF StampBatch, FileAhead
    <2>0. seqFile' = seqFile
      BY DEF StampBatch
    <2>1. ASSUME \A q \in StampProcess : stamper'[q].pc # "write" PROVE GivenUpTo(seqFile)'
      <3>1. GivenUpTo(seqFile)
        BY <1>1, <2>1 DEF FileAhead
      <3> QED
        BY <1>11, <2>0, <3>1 DEF IdentityTypeOK
    <2>2. ASSUME NEW q \in StampProcess, stamper'[q].pc = "truncate" PROVE stamper'[q].first = seqFile' + 1
      BY <1>1, <1>2, <2>2 DEF StampBatch, FileAhead
    <2>3. ASSUME NEW q \in StampProcess, stamper'[q].pc = "write" PROVE GivenUpTo(stamper[q].first - 1)'
      BY <1>1, <1>2, <1>11, <2>3 DEF FileAhead, IdentityTypeOK, Stamper
    <2>4. \A q \in StampProcess : stamper'[q].pc = "write" => stamper'[q] = stamper[q]
      BY <1>1, <1>2
    <2> QED
      BY <2>1, <2>2, <2>3, <2>4, <2>0 DEF FileAhead
  <1>13. NumbersOnce'
    <2> SUFFICES ASSUME ~emptied PROVE NumbersOnce'
      BY DEF StampBatch, NumbersOnce
    <2>1. \A q, r \in StampProcess : q # r => Taken(q)' \cap Taken(r)' = {}
      BY <1>10 DEF NumbersOnce
    <2>2. \A q \in StampProcess : \A s \in stamps' : s[2] \notin Taken(q)'
      BY <1>5, <1>10 DEF NumbersOnce
    <2> QED
      BY <2>1, <2>2 DEF NumbersOnce
  <1> QED
    BY <1>8, <1>9, <1>12, <1>13

\* Whoever dies loses its numbers; only the death of the writer leaves the file empty.
LEMMA StamperDiesKeepsInv ==
  ASSUME IdentityInv, NEW p \in StampProcess, StamperDies(p)
  PROVE IdentityInv'
  <1> USE DEF IdentityInv
  <1>1. /\ stamper'[p] = Fresh
        /\ \A q \in StampProcess \ {p} : stamper'[q] = stamper[q]
    BY DEF StamperDies, IdentityTypeOK
  <1>2. Fresh \in Stamper /\ Fresh.pc = "idle"
    BY DEF Fresh, Stamper, Step, NoId
  <1>3. IdentityTypeOK'
    BY <1>1, <1>2 DEF StamperDies, IdentityTypeOK
  <1>4. LockHeld'
    BY <1>1, <1>2, IdentityAssumption DEF StamperDies, LockHeld, IdentityAssumption
  <1>5. \A q \in StampProcess : Taken(q)' \subseteq Taken(q)
    BY <1>1, <1>2 DEF Taken
  <1>6. \A q \in StampProcess : stamper'[q].pc \in {"truncate", "write"} => stamper'[q] = stamper[q]
    BY <1>1, <1>2
  <1>7. emptied' = (emptied \/ stamper[p].pc = "write")
    BY DEF StamperDies
  <1>8. emptied' \/ \A q \in StampProcess : stamper[q].pc = "write" => stamper'[q].pc = "write"
    BY <1>1, <1>7
  <1>9. emptied => emptied'
    BY <1>7
  <1>10. UNCHANGED <<seqFile, stamps>>
    BY DEF StamperDies
  <1>11. FileAhead' /\ NumbersOnce'
    BY <1>3, <1>5, <1>6, <1>8, <1>9, <1>10, QuietStep
  <1> QED
    BY <1>3, <1>4, <1>11

\* Every step keeps the invariant.
LEMMA IdentityInvNext == IdentityInv /\ [IdentityNext]_identityVars => IdentityInv'
  <1> SUFFICES ASSUME IdentityInv, [IdentityNext]_identityVars PROVE IdentityInv'
    OBVIOUS
  <1>1. ASSUME NEW p \in StampProcess, StartStamp(p) \/ LookForId(p) \/ MintId(p) \/ SaveId(p)
        PROVE IdentityInv'
    BY <1>1, NamingKeepsInv
  <1>2. ASSUME NEW p \in StampProcess, LockAndRead(p) PROVE IdentityInv'
    BY <1>2, LockAndReadKeepsInv
  <1>3. ASSUME NEW p \in StampProcess, TruncateSeq(p) PROVE IdentityInv'
    BY <1>3, TruncateKeepsInv
  <1>4. ASSUME NEW p \in StampProcess, WriteSeq(p) PROVE IdentityInv'
    BY <1>4, WriteSeqKeepsInv
  <1>5. ASSUME NEW p \in StampProcess, StampBatch(p) PROVE IdentityInv'
    BY <1>5, StampBatchKeepsInv
  <1>6. ASSUME NEW p \in StampProcess, StamperDies(p) PROVE IdentityInv'
    BY <1>6, StamperDiesKeepsInv
  <1>7. CASE UNCHANGED identityVars
    BY <1>7 DEF identityVars, IdentityInv, IdentityTypeOK, LockHeld, FileAhead, GivenUpTo, NumbersOnce, Taken
  <1> QED
    BY <1>1, <1>2, <1>3, <1>4, <1>5, <1>6, <1>7 DEF IdentityNext

\* The invariant gives what a stamp promises: when nobody has the lock, nobody is at
\* the file.
LEMMA InvGivesStampsOnce == IdentityInv => StampsOnce
  <1> SUFFICES ASSUME IdentityInv PROVE NumberKept
    BY DEF IdentityInv, StampsOnce
  <1> SUFFICES ASSUME ~emptied, holder = 0
               PROVE GivenUpTo(seqFile)
    BY DEF NumberKept, GivenUpTo
  <1>1. \A p \in StampProcess : stamper[p].pc # "write"
    BY IdentityAssumption DEF IdentityInv, LockHeld, IdentityAssumption
  <1> QED
    BY <1>1 DEF IdentityInv, FileAhead

\* No number of a machine is given out twice, whatever its processes do and whenever
\* they die, but for a death between the truncation of the file and its write; and
\* the file never falls behind (sync_meta.py, _next_seq).
THEOREM NoNumberTwice == IdentitySpec => []StampsOnce
  <1>1. IdentityInit => IdentityInv
    BY IdentityInvInit
  <1>2. IdentityInv /\ [IdentityNext]_identityVars => IdentityInv'
    BY IdentityInvNext
  <1>3. IdentityInv => StampsOnce
    BY InvGivesStampsOnce
  <1> QED
    BY <1>1, <1>2, <1>3, PTL DEF IdentitySpec

-----------------------------------------------------------------------------
(* Distill: the window of results in order.                                *)

Running == {"fill", "wait", "drain"}

\* Records 1 to w are written; those from w + 1 to next are in the buffer.
SplitAt(w) == w \in 0..next /\ written = 1..w /\ buffer = (w + 1)..next

\* A buffer that is full has been written; a run that persists has seen all records.
WrittenInOrder ==
  \E w \in 0..next :
    /\ SplitAt(w)
    /\ state \in Running => next - w < WriteSize
    /\ state = "persist" => next = N
    /\ state = "done" => w = N

\* What was handed out is in order already, has come back, or is at a worker.
NothingLost ==
  state \in Running => 1..taken = 1..next \cup ready \cup UNION flying

\* The inductive invariant.
DistillInv ==
  /\ state \in Running \cup {"compress", "persist", "done", "failed"}
  /\ next \in 0..N /\ taken \in 0..N
  /\ NothingLost /\ WrittenInOrder

Ended == IF state \in {"done", "failed"} THEN state ELSE "no"

\* It holds at the start, when nothing was written.
LEMMA DistillInvInit == DistillInit => DistillInv
  <1> SUFFICES ASSUME DistillInit PROVE DistillInv
    OBVIOUS
  <1>1. SplitAt(0) /\ 0 \in 0..next /\ next - 0 < WriteSize
    BY DistillAssumption DEF DistillInit, DistillAssumption, SplitAt
  <1>2. WrittenInOrder
    <2>1. state # "persist" /\ state # "done"
      BY DEF DistillInit
    <2> QED
      BY <1>1, <2>1 DEF WrittenInOrder
  <1>3. NothingLost
    BY DEF DistillInit, NothingLost
  <1> QED
    BY <1>2, <1>3, DistillAssumption DEF DistillInit, DistillAssumption, DistillInv, Running

\* What a step that writes nothing and moves nothing in or out of the buffer has to
\* show.
LEMMA NothingWritten ==
  ASSUME DistillInv, UNCHANGED <<next, buffer, written>>,
         state' \in Running => state \in Running,
         state' = "persist" => next = N,
         state' # "done"
  PROVE WrittenInOrder'
  <1>1. PICK w \in 0..next : SplitAt(w) /\ (state \in Running => next - w < WriteSize)
    BY DEF DistillInv, WrittenInOrder
  <1>2. w \in 0..next' /\ SplitAt(w)' /\ (state' \in Running => next' - w < WriteSize)
    BY <1>1 DEF SplitAt
  <1> QED
    BY <1>2 DEF WrittenInOrder

\* A task covers the next records, up to the last, and submitting it hands them out.
LEMMA SubmitHandsOut ==
  ASSUME DistillInv, Submit, state \in Running, UNCHANGED <<next, ready>>
  PROVE taken' \in 0..N /\ 1..taken' = 1..next' \cup ready' \cup UNION flying'
  <1>1. taken' = UpTo(taken + TaskSize) /\ taken' \in Nat /\ taken <= taken' /\ taken' <= N /\ taken \in Nat
    BY DistillAssumption DEF DistillInv, Submit, UpTo, DistillAssumption
  <1>2. 1..taken' = 1..taken \cup ((taken + 1)..taken')
    BY <1>1
  <1>3. Task = (taken + 1)..taken'
    BY <1>1 DEF Task
  <1>4. \A x : x \in UNION flying' <=> x \in UNION flying \/ x \in Task
    <2>1. flying' = flying \cup {Task}
      BY DEF Submit
    <2>2. \A x : x \in UNION flying' <=> \E u \in flying' : x \in u
      BY Z3
    <2>3. \A x : x \in UNION flying <=> \E u \in flying : x \in u
      BY Z3
    <2> QED
      BY <2>1, <2>2, <2>3, Zenon
  <1>5. 1..taken = 1..next \cup ready \cup UNION flying
    BY DEF DistillInv, NothingLost
  <1>6. 1..taken' = 1..next' \cup ready' \cup UNION flying'
    <2>1. 1..taken' = 1..taken \cup Task /\ next' = next /\ ready' = ready
      BY <1>2, <1>3
    <2>2. \A x : x \in 1..taken' <=> x \in 1..taken \/ x \in Task
      BY <2>1, Zenon
    <2>3. \A x : x \in 1..taken <=> x \in 1..next \/ x \in ready \/ x \in UNION flying
      BY <1>5, Zenon
    <2>4. \A x : x \in 1..taken' <=> x \in 1..next' \/ x \in ready' \/ x \in UNION flying'
      BY <1>4, <2>1, <2>2, <2>3, Zenon
    <2> QED
      BY <2>4, Zenon
  <1> QED
    BY <1>1, <1>6, DistillAssumption DEF DistillAssumption

\* How many records are in a buffer, and whether one more fills it.
LEMMA BufferSize ==
  ASSUME NEW w \in Nat, NEW n \in Nat, w <= n
  PROVE /\ IsFiniteSet((w + 1)..n) /\ Cardinality((w + 1)..n) = n - w
        /\ Cardinality(1..w) = w
  <1>1. IsFiniteSet((w + 1)..n) /\ Cardinality((w + 1)..n) = IF w + 1 > n THEN 0 ELSE n - (w + 1) + 1
    <2>1. w + 1 \in Int /\ n \in Int
      OBVIOUS
    <2> QED
      BY <2>1, FS_Interval
  <1>2. Cardinality(1..w) = IF 1 > w THEN 0 ELSE w - 1 + 1
    <2>1. 1 \in Int /\ w \in Int
      OBVIOUS
    <2> QED
      BY <2>1, FS_Interval
  <1> QED
    BY <1>1, <1>2

\* Handing out, waiting and dying write nothing.
LEMMA QuietStepsKeepInv ==
  ASSUME DistillInv, Fill \/ (\E t \in flying : Result(t)) \/ WorkerRaises \/ Die
  PROVE DistillInv' /\ UNCHANGED <<next, buffer, written>>
  <1>1. CASE Fill
    <2>1. UNCHANGED <<next, buffer, written, ready>> /\ state = "fill" /\ state' \in {"fill", "wait"}
      BY <1>1 DEF Fill
    <2>2. WrittenInOrder'
      BY <2>1, NothingWritten DEF Running
    <2>3. taken' \in 0..N /\ NothingLost'
      <3>1. CASE slots > 0 /\ taken < N
        BY <1>1, <2>1, <3>1, SubmitHandsOut DEF Fill, NothingLost, Running
      <3>2. CASE ~(slots > 0 /\ taken < N)
        BY <1>1, <2>1, <3>2 DEF Fill, NothingLost, Running, DistillInv
      <3> QED
        BY <3>1, <3>2
    <2> QED
      BY <2>1, <2>2, <2>3 DEF DistillInv, Running
  <1>2. ASSUME NEW t \in flying, Result(t) PROVE DistillInv' /\ UNCHANGED <<next, buffer, written>>
    <2>1. UNCHANGED <<next, buffer, written, taken>> /\ state = "wait" /\ state' = "drain"
      BY <1>2 DEF Result
    <2>2. WrittenInOrder'
      BY <2>1, NothingWritten DEF Running
    <2>3. ready' \cup UNION flying' = ready \cup UNION flying
      <3>1. flying' = flying \ {t} /\ ready' = ready \cup t
        BY <1>2 DEF Result
      <3> QED
        BY <1>2, <3>1, Zenon
    <2>4. 1..taken' = 1..next' \cup ready' \cup UNION flying'
      <3>1. 1..taken = 1..next \cup ready \cup UNION flying
        BY <2>1 DEF DistillInv, NothingLost, Running
      <3> QED
        BY <2>1, <2>3, <3>1, Zenon
    <2> QED
      BY <2>1, <2>2, <2>4 DEF DistillInv, NothingLost, Running
  <1>3. CASE WorkerRaises \/ Die
    <2>1. UNCHANGED <<next, buffer, written, taken>> /\ state' = "failed"
      BY <1>3 DEF WorkerRaises, Die
    <2>2. WrittenInOrder'
      BY <2>1, NothingWritten DEF Running
    <2> QED
      BY <2>1, <2>2 DEF DistillInv, NothingLost, Running
  <1> QED
    BY <1>1, <1>2, <1>3

\* The record that is due comes after all that were written and all in the buffer;
\* a full buffer is the next piece of the records.
LEMMA DrainOneWritesInOrder ==
  ASSUME DistillInv, DrainOne
  PROVE /\ DistillInv'
        /\ \/ UNCHANGED written
           \/ \E from, to \in 1..N : /\ written = 1..(from - 1) /\ to - from < WriteSize
                                     /\ written' = written \cup from..to
  <1> USE DistillAssumption DEF DistillAssumption
  <1>1. state = "drain" /\ state' = "drain" /\ UNCHANGED <<taken, flying>> /\ next \in Nat /\ taken \in 0..N
    BY DEF DrainOne, DistillInv
  <1>2. PICK w \in 0..next : SplitAt(w) /\ next - w < WriteSize
    BY <1>1 DEF DistillInv, WrittenInOrder, Running
  <1>3. 1..taken = 1..next \cup ready \cup UNION flying
    BY <1>1 DEF DistillInv, NothingLost, Running
  <1>4. next + 1 \in ready /\ next' = next + 1 /\ ready' = ready \ {next + 1}
    BY DEF DrainOne, Due
  <1>5. next + 1 \in 1..N
    BY <1>1, <1>3, <1>4
  <1>6. 1..taken' = 1..next' \cup ready' \cup UNION flying'
    <2>1. 1..next' = 1..next \cup {next + 1}
      BY <1>1, <1>4
    <2>2. 1..next' \cup ready' = 1..next \cup ready
      BY <1>4, <2>1
    <2> QED
      BY <1>1, <1>3, <2>2, Zenon
  <1>7. w \in Nat /\ buffer \cup {next + 1} = (w + 1)..(next + 1)
    BY <1>1, <1>2 DEF SplitAt
  <1>8. Full(buffer \cup {next + 1}) <=> next + 1 - w >= WriteSize
    <2>1. next + 1 \in Nat /\ w <= next + 1
      BY <1>1, <1>7
    <2>2. Cardinality((w + 1)..(next + 1)) = next + 1 - w
      <3>1. w + 1 \in Int /\ next + 1 \in Int /\ ~(w + 1 > next + 1)
        BY <1>7, <2>1
      <3>2. Cardinality((w + 1)..(next + 1)) = (next + 1) - (w + 1) + 1
        BY <3>1, FS_Interval
      <3>3. (next + 1) - (w + 1) + 1 = next + 1 - w
        BY <1>1, <1>7
      <3> QED
        BY <3>2, <3>3, Zenon
    <2> QED
      BY <1>7, <2>2 DEF Full
  <1>9. CASE Full(buffer \cup {next + 1})
    <2>1. written' = written \cup (w + 1)..(next + 1) /\ buffer' = {}
      <3>1. written' = written \cup buffer \cup {next + 1} /\ buffer' = {}
        BY <1>9 DEF DrainOne, Due
      <3> QED
        BY <1>7, <3>1
    <2>2. SplitAt(next)'
      <3>1. written' = 1..next' /\ buffer' = (next' + 1)..next'
        BY <1>1, <1>2, <1>4, <2>1 DEF SplitAt
      <3> QED
        BY <1>1, <1>4, <3>1 DEF SplitAt
    <2>3. WrittenInOrder'
      <3>1. next' \in 0..next' /\ next' - next' < WriteSize
        BY <1>1, <1>4
      <3> QED
        BY <1>1, <2>2, <3>1 DEF WrittenInOrder
    <2>4. w + 1 \in 1..N /\ written = 1..((w + 1) - 1) /\ (next + 1) - (w + 1) < WriteSize
      BY <1>1, <1>2, <1>5 DEF SplitAt
    <2> QED
      BY <1>1, <1>4, <1>5, <1>6, <2>1, <2>3, <2>4 DEF DistillInv, NothingLost, Running
  <1>10. CASE ~Full(buffer \cup {next + 1})
    <2>1. written' = written /\ buffer' = (w + 1)..next'
      BY <1>4, <1>7, <1>10 DEF DrainOne, Due
    <2>2. w \in 0..next' /\ SplitAt(w)' /\ next' - w < WriteSize
      BY <1>1, <1>2, <1>4, <1>7, <1>8, <1>10, <2>1 DEF SplitAt
    <2>3. WrittenInOrder'
      BY <1>1, <2>2 DEF WrittenInOrder
    <2> QED
      BY <1>1, <1>4, <1>5, <1>6, <2>1, <2>3 DEF DistillInv, NothingLost, Running
  <1> QED
    BY <1>9, <1>10

\* When nothing is due and nothing is at a worker, all records are in order.
LEMMA DrainedKeepsInv ==
  ASSUME DistillInv, Drained
  PROVE DistillInv' /\ UNCHANGED <<next, buffer, written>>
  <1> USE DistillAssumption DEF DistillAssumption
  <1>1. /\ state = "drain" /\ UNCHANGED <<next, buffer, written, ready>>
        /\ state' = IF flying' = {} THEN "persist" ELSE "wait"
    BY DEF Drained
  <1>2. taken' \in 0..N /\ 1..taken' = 1..next' \cup ready' \cup UNION flying'
    <2>1. CASE taken < N
      BY <1>1, <2>1, SubmitHandsOut DEF Drained, Refill, Running
    <2>2. CASE ~(taken < N)
      BY <1>1, <2>2 DEF Drained, Refill, DistillInv, NothingLost, Running
    <2> QED
      BY <2>1, <2>2
  <1>3. flying' = {} => next = N
    <2> SUFFICES ASSUME flying' = {} PROVE next = N
      OBVIOUS
    <2>1. ~(taken < N)
      BY DEF Drained, Refill, Submit
    <2>2. taken = N /\ UNION flying = {} /\ next \in 0..N
      <3>1. flying = {}
        BY <2>1 DEF Drained, Refill
      <3> QED
        BY <2>1, <3>1 DEF DistillInv
    <2>3. 1..N = 1..next \cup ready
      BY <1>1, <2>2 DEF DistillInv, NothingLost, Running
    <2>4. next + 1 \notin ready
      BY DEF Drained, Due
    <2> QED
      BY <2>2, <2>3, <2>4
  <1>4. WrittenInOrder'
    BY <1>1, <1>3, NothingWritten DEF Running
  <1> QED
    BY <1>1, <1>2, <1>4 DEF DistillInv, NothingLost, Running

\* A sequential run writes nothing before it has seen all records.
LEMMA CompressKeepsInv ==
  ASSUME DistillInv, Compress
  PROVE DistillInv' /\ UNCHANGED written
  <1> USE DistillAssumption DEF DistillAssumption
  <1>1. state = "compress" /\ UNCHANGED <<taken, written>> /\ next \in 0..N
    BY DEF Compress, DistillInv
  <1>2. PICK w \in 0..next : SplitAt(w)
    BY DEF DistillInv, WrittenInOrder
  <1>3. CASE next < N
    <2>1. next' = next + 1 /\ buffer' = buffer \cup {next + 1} /\ state' = "compress"
      BY <1>1, <1>3 DEF Compress
    <2>2. w \in 0..next' /\ SplitAt(w)'
      BY <1>1, <1>2, <2>1 DEF SplitAt
    <2>3. WrittenInOrder'
      BY <2>1, <2>2 DEF WrittenInOrder, Running
    <2> QED
      BY <1>1, <1>3, <2>1, <2>3 DEF DistillInv, NothingLost, Running
  <1>4. CASE ~(next < N)
    <2>1. UNCHANGED <<next, buffer>> /\ state' = "persist" /\ next = N
      BY <1>1, <1>4 DEF Compress
    <2>2. WrittenInOrder'
      BY <1>1, <2>1, NothingWritten DEF Running
    <2> QED
      BY <1>1, <2>1, <2>2 DEF DistillInv, NothingLost, Running
  <1> QED
    BY <1>3, <1>4

\* What is left in the buffer at the end is written piece by piece, and the run ends
\* when nothing is left.
LEMMA PersistWritesInOrder ==
  ASSUME DistillInv, Persist
  PROVE /\ DistillInv'
        /\ \/ /\ state' = "persist"
              /\ \E from, to \in 1..N : /\ written = 1..(from - 1) /\ to - from < WriteSize
                                        /\ written' = written \cup from..to
           \/ state' = "done" /\ written = 1..N /\ UNCHANGED written
  <1> USE DistillAssumption DEF DistillAssumption
  <1>1. state = "persist" /\ UNCHANGED <<taken, next>> /\ next = N /\ taken \in 0..N
    BY DEF Persist, DistillInv, WrittenInOrder
  <1>2. PICK w \in 0..N : SplitAt(w)
    BY <1>1 DEF DistillInv, WrittenInOrder
  <1>3. Cardinality(written) = w
    BY <1>2, BufferSize DEF SplitAt
  <1>4. NextBatch = {i \in (w + 1)..N : i < w + 1 + WriteSize}
    BY <1>1, <1>2, <1>3 DEF NextBatch, SplitAt
  <1>5. CASE w < N
    <2> DEFINE to == IF w + WriteSize < N THEN w + WriteSize ELSE N
    <2>1. to \in w + 1..N /\ to - (w + 1) < WriteSize /\ to \in Nat
      BY <1>5
    <2>2. NextBatch = (w + 1)..to
      BY <1>4, <1>5
    <2>3. NextBatch # {}
      <3>1. w + 1 \in NextBatch
        BY <1>4, <1>5
      <3> QED
        BY <3>1
    <2> HIDE DEF to
    <2>4. written' = written \cup (w + 1)..to /\ buffer' = buffer \ ((w + 1)..to) /\ state' = "persist"
      BY <1>1, <2>2, <2>3 DEF Persist
    <2>5. SplitAt(to)' /\ to \in 0..next'
      BY <1>1, <1>2, <2>1, <2>4 DEF SplitAt
    <2>6. WrittenInOrder'
      BY <1>1, <2>4, <2>5 DEF WrittenInOrder, Running
    <2>7. w + 1 \in 1..N /\ to \in 1..N /\ written = 1..((w + 1) - 1)
      BY <1>2, <1>5, <2>1 DEF SplitAt
    <2> QED
      BY <1>1, <2>1, <2>4, <2>6, <2>7 DEF DistillInv, NothingLost, Running
  <1>6. CASE ~(w < N)
    <2>1. w = N /\ NextBatch = {}
      BY <1>2, <1>4, <1>6
    <2>2. state' = "done" /\ UNCHANGED <<written, buffer>> /\ written = 1..N
      BY <1>1, <1>2, <2>1 DEF Persist, SplitAt
    <2>3. SplitAt(N)' /\ N \in 0..next'
      BY <1>1, <1>2, <2>1, <2>2 DEF SplitAt
    <2>4. WrittenInOrder'
      BY <1>1, <2>2, <2>3 DEF WrittenInOrder, Running
    <2> QED
      BY <1>1, <2>2, <2>4 DEF DistillInv, NothingLost, Running
  <1> QED
    BY <1>5, <1>6

\* Every step keeps the invariant, and is one of the abstract writer, or none of its
\* business.
LEMMA DistillStepsInOrder ==
  ASSUME DistillInv, [DistillNext]_distillVars
  PROVE DistillInv' /\ [InOrder!Next]_<<written, Ended>>
  <1> USE DEF Ended, InOrder!Next, InOrder!Write, InOrder!Finish, InOrder!Fail
  <1>1. CASE Fill \/ (\E t \in flying : Result(t))
    <2>1. DistillInv' /\ UNCHANGED written
      BY <1>1, QuietStepsKeepInv
    <2>2. Ended = "no" /\ Ended' = "no"
      BY <1>1 DEF Fill, Result
    <2> QED
      BY <2>1, <2>2
  <1>2. CASE WorkerRaises \/ Die
    <2>1. DistillInv' /\ UNCHANGED written
      BY <1>2, QuietStepsKeepInv
    <2>2. Ended = "no" /\ Ended' = "failed"
      BY <1>2 DEF WorkerRaises, Die
    <2> QED
      BY <2>1, <2>2
  <1>3. CASE DrainOne
    <2>1. Ended = "no" /\ Ended' = "no"
      BY <1>3 DEF DrainOne
    <2> QED
      BY <1>3, <2>1, DrainOneWritesInOrder
  <1>4. CASE Drained
    <2>1. DistillInv' /\ UNCHANGED written
      BY <1>4, DrainedKeepsInv
    <2>2. Ended = "no" /\ Ended' = "no"
      BY <1>4 DEF Drained
    <2> QED
      BY <2>1, <2>2
  <1>5. CASE Compress
    <2>1. DistillInv' /\ UNCHANGED written
      BY <1>5, CompressKeepsInv
    <2>2. Ended = "no" /\ Ended' = "no"
      BY <1>5 DEF Compress
    <2> QED
      BY <2>1, <2>2
  <1>6. CASE Persist
    <2>1. Ended = "no"
      BY <1>6 DEF Persist
    <2> QED
      BY <1>6, <2>1, PersistWritesInOrder
  <1>7. CASE UNCHANGED distillVars
    BY <1>7 DEF distillVars, DistillInv, NothingLost, WrittenInOrder, SplitAt, Running
  <1> QED
    BY <1>1, <1>2, <1>3, <1>4, <1>5, <1>6, <1>7 DEF DistillNext, DistillStep

\* Every run of distill (services/vault/distill.py, _parallel and _sequential) writes
\* the summaries in the order of the records, and all of them if it does not fail.
THEOREM DistillImplements == DistillSpec => ImplementsInOrder
  <1>1. DistillInit => DistillInv
    BY DistillInvInit
  <1>2. DistillInv /\ [DistillNext]_distillVars => DistillInv'
    BY DistillStepsInOrder
  <1>3. DistillInit => InOrder!Init
    BY DEF DistillInit, InOrder!Init
  <1>4. DistillInv /\ [DistillNext]_distillVars =>
          [InOrder!Next]_<<written, IF state \in {"done", "failed"} THEN state ELSE "no">>
    BY DistillStepsInOrder DEF Ended
  <1> QED
    BY <1>1, <1>2, <1>3, <1>4, PTL DEF DistillSpec, ImplementsInOrder, InOrder!Spec

-----------------------------------------------------------------------------
(* Requests: the tools of the MCP server.                                  *)

TaskPlace ==
  {"idle", "item", "add_drawer", "upsert", "diary", "delete_drawer", "bury", "log", "unbury", "collect", "log_gc",
   "done", "search", "no_such_tool", "bad_arguments"}

RequestTask ==
  [tool : Tool \cup {"none"}, at : TaskPlace, items : Seq(Content), added : SUBSET Content, twins : SUBSET Content,
   gone : SUBSET Content]

RequestAnswer ==
  [tool : Tool \cup {"none"}, is : {"none", "result", "error"}, added : SUBSET Content, twins : SUBSET Content,
   gone : SUBSET Content]

\* What the proofs need of the values.
RequestTypes ==
  /\ filed \subseteq Content /\ buried \subseteq Content /\ diary \in Nat
  /\ record \in Seq(Tool) \cup {NoSession} /\ saved \in Seq(Tool) \cup {NoSession}
  /\ task \in RequestTask /\ failures \in Nat /\ asked \in Nat
  /\ answer \in RequestAnswer
  /\ changed \subseteq Tool

\* A request has an item left when it files or deletes one, is idle only when there
\* is none, and has a name when it is not.
TaskShape ==
  /\ task.at \in {"add_drawer", "upsert", "delete_drawer"} => task.items # <<>>
  /\ task.at \in {"bury", "log", "unbury", "collect"} =>
       task.items # <<>> /\ Head(task.items) \in filed /\ task.added = {} /\ task.twins = {}
  /\ task.at = "collect" => Head(task.items) \notin buried
  /\ task.at = "delete_drawer" => task.added = {} /\ task.twins = {}
  /\ task.at \notin {"log_gc", "done", "idle"} => task.gone = {}
  /\ task.at # "idle" => task.tool \in Tool
  /\ task.at = "idle" => task = NoTask

\* The entry in the log comes before the upsert, and before the diary entry.
LoggedAhead ==
  /\ task.at = "upsert" => <<"add_drawer", Head(task.items)>> \in log \cup unlogged
  /\ task.at = "diary" => <<"diary_write", diary + 1>> \in log \cup unlogged

\* What a request has kept so far is kept, and what it has deleted is gone.
KeptSoFar ==
  /\ task.added \subseteq filed
  /\ \A c \in task.twins : HasTwin(c)
  /\ task.gone \cap (filed \cup buried) = {}

\* The request being served is in the record, and a session that has not asked has
\* changed nothing.
CallsRecorded ==
  /\ failures = 0 => saved = record
  /\ record # NoSession => changed \subseteq ToSet(record) /\ (task.at # "idle" => task.tool \in ToSet(record))
  /\ asked = 0 => changed = {} /\ task.at = "idle"

\* The inductive invariant.
RequestsInv ==
  RequestTypes /\ TaskShape /\ LoggedFirst /\ LoggedAhead /\ KeptSoFar /\ AnswersKept /\ CallsRecorded

\* No tool has the name that stands for a session without a record.
LEMMA NoSessionIsNone == NoSession \notin Seq(Tool)
  <1> SUFFICES ASSUME NoSession \in Seq(Tool) PROVE FALSE
    OBVIOUS
  <1>1. Len(NoSession) = 1 /\ NoSession[1] = "no session"
    BY DEF NoSession
  <1>2. \A s \in Seq(Tool) : Len(s) = 1 => s[1] \in Tool
    OBVIOUS
  <1> QED
    BY <1>1, <1>2 DEF Tool

\* record_call adds one call to those of the record.
LEMMA AppendedCalls ==
  ASSUME NEW s \in Seq(Tool), NEW t \in Tool
  PROVE  Append(s, t) \in Seq(Tool) /\ ToSet(Append(s, t)) = ToSet(s) \cup {t}
  <1>1. Append(s, t) \in Seq(Tool) /\ DOMAIN Append(s, t) = 1..(Len(s) + 1) /\ DOMAIN s = 1..Len(s) /\ Len(s) \in Nat
    OBVIOUS
  <1>2. \A i \in 1..(Len(s) + 1) : Append(s, t)[i] = IF i = Len(s) + 1 THEN t ELSE s[i]
    OBVIOUS
  <1>3. ASSUME NEW x PROVE x \in ToSet(Append(s, t)) <=> x \in ToSet(s) \cup {t}
    <2>1. x \in ToSet(Append(s, t)) <=> \E i \in 1..(Len(s) + 1) : x = IF i = Len(s) + 1 THEN t ELSE s[i]
      BY <1>1, <1>2 DEF ToSet
    <2>2. x \in ToSet(s) <=> \E i \in 1..Len(s) : x = s[i]
      BY <1>1 DEF ToSet
    <2> QED
      BY <1>1, <2>1, <2>2
  <1> QED
    BY <1>1, <1>3

\* The invariant holds when the first server starts.
LEMMA RequestsInvInit == RequestsInit => RequestsInv
  <1> SUFFICES ASSUME RequestsInit PROVE RequestsInv
    OBVIOUS
  <1> USE DEF RequestsInit, NoTask, NoAnswer
  <1>1. RequestTypes
    BY DEF RequestTypes, RequestTask, RequestAnswer, TaskPlace
  <1>2. TaskShape /\ LoggedAhead /\ KeptSoFar /\ AnswersKept
    BY DEF TaskShape, LoggedAhead, KeptSoFar, AnswersKept
  <1>3. LoggedFirst
    BY DEF LoggedFirst
  <1>4. CallsRecorded
    BY DEF CallsRecorded
  <1> QED
    BY <1>1, <1>2, <1>3, <1>4 DEF RequestsInv

\* While a request is served nothing is said of the answer before it.
LEMMA BusyKept == task.tool \in Tool => AnswersKept
  BY DEF AnswersKept, NoTask, Tool

\* An answer leaves nothing of the request, and says what it has kept.
LEMMA AnsweredSound ==
  ASSUME RequestTypes, KeptSoFar, NEW is \in {"result", "error"}, Answered(is), UNCHANGED <<filed, buried, diary>>
  PROVE  /\ task' \in RequestTask /\ task' = NoTask /\ AnswersKept'
         /\ answer' \in RequestAnswer
  <1>1. task' = NoTask /\ NoTask \in RequestTask
    BY DEF Answered, NoTask, RequestTask, TaskPlace
  <1>2. answer' = [tool |-> task.tool, is |-> is, added |-> task.added, twins |-> task.twins, gone |-> task.gone]
    BY DEF Answered
  <1>3. task \in RequestTask
    BY DEF RequestTypes
  <1>4. answer'.added = task.added /\ answer'.twins = task.twins /\ answer'.gone = task.gone
    BY <1>2
  <1>5. answer' \in RequestAnswer
    BY <1>2, <1>3 DEF RequestTask, RequestAnswer
  <1>6. AnswersKept'
    BY <1>4 DEF KeptSoFar, AnswersKept, HasTwin
  <1> QED
    BY <1>1, <1>5, <1>6

\* A request that is answered preserves the invariant.
LEMMA AnswerStep ==
  ASSUME RequestsInv, NEW is \in {"result", "error"}, Answered(is), failures' \in Nat, failures' >= failures,
         UNCHANGED <<filed, buried, diary, log, record, saved, asked, unlogged, changed>>
  PROVE  RequestsInv'
  <1> USE DEF RequestsInv
  <1>1. /\ task' \in RequestTask /\ task' = NoTask /\ AnswersKept'
        /\ answer' \in RequestAnswer
    BY AnsweredSound
  <1>2. RequestTypes'
    BY <1>1 DEF RequestTypes
  <1>3. TaskShape' /\ LoggedAhead' /\ KeptSoFar'
    BY <1>1 DEF TaskShape, LoggedAhead, KeptSoFar, NoTask
  <1>4. LoggedFirst'
    BY DEF LoggedFirst
  <1>5. CallsRecorded'
    BY <1>1 DEF CallsRecorded, NoTask, RequestTypes
  <1> QED
    BY <1>1, <1>2, <1>3, <1>4, <1>5

\* A call of a tool, with the arguments a client may give.
LEMMA CallStep ==
  ASSUME RequestsInv, NEW tool \in Tool, NEW items \in Seq(Content), CallTool(tool, items),
         tool \in {"add_drawer", "delete_drawer"} => items # <<>>
  PROVE  RequestsInv'
  <1> USE DEF RequestsInv
  <1>1. task' \in RequestTask /\ task'.tool = tool /\ task'.items = items /\ task'.added = {} /\ task'.twins = {}
        /\ task'.gone = {} /\ task'.at = IF tool = "checkpoint" THEN "item" ELSE tool
    BY DEF CallTool, NoTask, RequestTask, TaskPlace, Tool
  <1>2. task.at = "idle"
    BY DEF CallTool, NoTask
  <1>3. /\ record' \in Seq(Tool) \cup {NoSession} /\ saved' \in Seq(Tool) \cup {NoSession}
        /\ failures' \in Nat /\ (failures' = 0 => failures = 0 /\ saved' = record')
        /\ record' # NoSession => changed \subseteq ToSet(record') /\ tool \in ToSet(record')
    <2>1. CASE record = NoSession
      BY <2>1 DEF CallTool, Recorded, RequestTypes, CallsRecorded
    <2>2. CASE record # NoSession
      <3>1. record \in Seq(Tool)
        BY <2>2 DEF RequestTypes
      <3>2. Append(record, tool) \in Seq(Tool) /\ ToSet(Append(record, tool)) = ToSet(record) \cup {tool}
        BY <3>1, AppendedCalls
      <3>3. record' = Append(record, tool)
        BY <2>2 DEF CallTool, Recorded
      <3>4. (saved' = record' /\ failures' = failures) \/ (failures' = failures + 1 /\ saved' = saved)
        BY <2>2 DEF CallTool, Recorded
      <3>5. failures \in Nat /\ saved \in Seq(Tool) \cup {NoSession}
        BY DEF RequestTypes
      <3>6. failures = 0 => saved = record
        BY DEF CallsRecorded
      <3>7. changed \subseteq ToSet(record)
        BY <2>2 DEF CallsRecorded
      <3>8. failures' \in Nat /\ (failures' = 0 => failures = 0 /\ saved' = record')
        BY <3>4, <3>5
      <3>9. saved' \in Seq(Tool) \cup {NoSession}
        BY <3>2, <3>3, <3>4, <3>5
      <3> QED
        BY <3>2, <3>3, <3>7, <3>8, <3>9
    <2> QED
      BY <2>1, <2>2
  <1>4. asked' \in Nat /\ asked' # 0 /\ UNCHANGED <<filed, buried, diary, log, answer, unlogged, changed>>
    BY DEF CallTool, RequestTypes
  <1>5. RequestTypes'
    BY <1>1, <1>3, <1>4 DEF RequestTypes
  <1>6. TaskShape' /\ LoggedAhead' /\ KeptSoFar'
    BY <1>1 DEF TaskShape, LoggedAhead, KeptSoFar, Tool
  <1>7. LoggedFirst' /\ AnswersKept'
    BY <1>1, <1>4 DEF LoggedFirst, AnswersKept, NoTask, Tool
  <1>8. CallsRecorded'
    BY <1>1, <1>3, <1>4 DEF CallsRecorded
  <1> QED
    BY <1>5, <1>6, <1>7, <1>8

\* An entry of the log is written, or counted as a failure.
LEMMA LoggedOnce ==
  ASSUME NEW op, Logged(op), failures \in Nat
  PROVE  /\ log \cup unlogged \subseteq (log \cup unlogged)' /\ op \in (log \cup unlogged)'
         /\ failures' \in Nat /\ (failures' = 0 => failures = 0)
  BY DEF Logged

\* The rest of a request: every step of it but the answer.
LEMMA TaskStep ==
  ASSUME RequestsInv,
         CompareItem \/ LogAdd \/ FileDrawer \/ LogDiary \/ WriteDiary
  PROVE  RequestsInv'
  <1> USE DEF RequestsInv
  <1>1. CASE CompareItem
    <2> DEFINE c == Head(task.items)
    <2>1. c \in Content /\ Tail(task.items) \in Seq(Content)
      BY <1>1 DEF CompareItem, RequestTypes, RequestTask
    <2>2. \/ task' = [task EXCEPT !.items = Tail(@), !.twins = @ \cup {c}] /\ HasTwin(c) /\ failures' = failures
          \/ task' = [task EXCEPT !.at = "add_drawer"] /\ failures' \in {failures, failures + 1}
      BY <1>1 DEF CompareItem
    <2>3. task.at = "item" /\ task.items # <<>> /\
          UNCHANGED <<filed, buried, diary, log, record, saved, answer, asked, unlogged, changed>>
      BY <1>1 DEF CompareItem
    <2>4. task.tool \in Tool /\ task.gone = {}
      BY <2>3 DEF TaskShape
    <2> HIDE DEF c
    <2>5. task' \in RequestTask /\ failures' \in Nat /\ (failures' = 0 => failures = 0)
      <3>1. task \in RequestTask /\ failures \in Nat
        BY DEF RequestTypes
      <3>2. [task EXCEPT !.items = Tail(@), !.twins = @ \cup {c}] \in RequestTask
        BY <2>1, <3>1 DEF RequestTask
      <3>3. [task EXCEPT !.at = "add_drawer"] \in RequestTask
        BY <3>1 DEF RequestTask, TaskPlace
      <3> QED
        BY <2>2, <3>1, <3>2, <3>3
    <2>6. RequestTypes'
      BY <2>3, <2>5 DEF RequestTypes
    <2>7. task'.tool = task.tool /\ task'.at \in {"item", "add_drawer"} /\ task'.added = task.added /\ task'.gone = task.gone
          /\ (task'.at = "add_drawer" => task'.items = task.items)
      BY <2>2, <2>3 DEF RequestTypes, RequestTask
    <2>8. TaskShape' /\ LoggedAhead'
      BY <2>3, <2>4, <2>7 DEF TaskShape, LoggedAhead
    <2>9. KeptSoFar'
      <3>1. task'.twins = task.twins \/ (task'.twins = task.twins \cup {c} /\ HasTwin(c))
        BY <2>2 DEF RequestTypes, RequestTask
      <3>2. \A d \in task'.twins : HasTwin(d)
        BY <3>1 DEF KeptSoFar
      <3> QED
        BY <2>3, <2>7, <3>2 DEF KeptSoFar, HasTwin
    <2>10. LoggedFirst' /\ AnswersKept'
      BY <2>3, <2>4, <2>7 DEF LoggedFirst, AnswersKept, NoTask, Tool
    <2>11. CallsRecorded'
      BY <2>3, <2>5, <2>7 DEF CallsRecorded
    <2> QED
      BY <2>6, <2>8, <2>9, <2>10, <2>11
  <1>2. CASE LogAdd
    <2> DEFINE op == <<"add_drawer", Head(task.items)>>
    <2>1. task.at = "add_drawer" /\ task' = [task EXCEPT !.at = "upsert"] /\ Logged(op) /\
          UNCHANGED <<filed, buried, diary, record, saved, answer, asked, changed>>
      BY <1>2 DEF LogAdd
    <2>2. failures \in Nat
      BY DEF RequestTypes
    <2>3. /\ log \cup unlogged \subseteq (log \cup unlogged)' /\ op \in (log \cup unlogged)'
          /\ failures' \in Nat /\ (failures' = 0 => failures = 0)
      <3> HIDE DEF op
      <3> QED
        BY <2>1, <2>2, LoggedOnce
    <2>4. task' \in RequestTask /\ task'.at = "upsert" /\ task'.tool = task.tool /\ task'.items = task.items
          /\ task'.added = task.added /\ task'.twins = task.twins /\ task'.gone = task.gone
      BY <2>1 DEF RequestTypes, RequestTask, TaskPlace
    <2>5. RequestTypes'
      BY <2>1, <2>3, <2>4 DEF RequestTypes
    <2>6. TaskShape' /\ LoggedAhead'
      BY <2>1, <2>3, <2>4 DEF TaskShape, LoggedAhead
    <2>7. KeptSoFar' /\ AnswersKept'
      <3>1. task.tool \in Tool
        BY <2>1 DEF TaskShape
      <3> QED
        BY <2>1, <2>4, <3>1 DEF KeptSoFar, AnswersKept, HasTwin, NoTask, Tool, RequestTypes
    <2>8. LoggedFirst'
      BY <2>1, <2>3 DEF LoggedFirst
    <2>9. CallsRecorded'
      BY <2>1, <2>3, <2>4 DEF CallsRecorded
    <2> QED
      BY <2>5, <2>6, <2>7, <2>8, <2>9
  <1>3. CASE FileDrawer
    <2> DEFINE c == Head(task.items)
    <2>1. task.at = "upsert" /\ task.items # <<>> /\ c \in Content /\ Tail(task.items) \in Seq(Content)
          /\ filed' = filed \cup {c}
          /\ changed' \in {changed, changed \cup {task.tool}}
          /\ UNCHANGED <<buried, diary, log, record, saved, answer, asked, failures, unlogged>>
      BY <1>3 DEF FileDrawer, RequestTypes, RequestTask, TaskShape
    <2>2. task' = [task EXCEPT !.added = @ \cup {c}, !.items = Tail(@),
                               !.at = IF task.tool = "checkpoint" THEN "item" ELSE "done"]
      BY <1>3 DEF FileDrawer
    <2>3. <<"add_drawer", c>> \in log \cup unlogged
      BY <2>1 DEF LoggedAhead
    <2>4. task.tool \in Tool
      BY <2>1 DEF TaskShape
    <2> HIDE DEF c
    <2>5. task' \in RequestTask /\ task'.at \in {"item", "done"} /\ task'.tool = task.tool
          /\ task'.added = task.added \cup {c} /\ task'.twins = task.twins /\ task'.gone = {}
      BY <2>1, <2>2 DEF RequestTypes, RequestTask, TaskPlace, TaskShape
    <2>6. RequestTypes'
      BY <2>1, <2>4, <2>5 DEF RequestTypes
    <2>7. TaskShape' /\ LoggedAhead'
      BY <2>4, <2>5 DEF TaskShape, LoggedAhead
    <2>8. KeptSoFar' /\ AnswersKept'
      BY <2>1, <2>4, <2>5 DEF KeptSoFar, AnswersKept, HasTwin, NoTask, Tool
    <2>9. LoggedFirst'
      BY <2>1, <2>3 DEF LoggedFirst
    <2>10. CallsRecorded'
      BY <2>1, <2>5 DEF CallsRecorded
    <2> QED
      BY <2>6, <2>7, <2>8, <2>9, <2>10
  <1>4. CASE LogDiary
    <2> DEFINE op == <<"diary_write", diary + 1>>
    <2>1. task.at = "item" /\ task' = [task EXCEPT !.at = "diary"] /\ Logged(op) /\
          UNCHANGED <<filed, buried, diary, record, saved, answer, asked, changed>>
      BY <1>4 DEF LogDiary
    <2>2. failures \in Nat
      BY DEF RequestTypes
    <2>3. /\ log \cup unlogged \subseteq (log \cup unlogged)' /\ op \in (log \cup unlogged)'
          /\ failures' \in Nat /\ (failures' = 0 => failures = 0)
      <3> HIDE DEF op
      <3> QED
        BY <2>1, <2>2, LoggedOnce
    <2>4. task' \in RequestTask /\ task'.at = "diary" /\ task'.tool = task.tool
          /\ task'.added = task.added /\ task'.twins = task.twins /\ task'.gone = task.gone
      BY <2>1 DEF RequestTypes, RequestTask, TaskPlace
    <2>5. RequestTypes'
      BY <2>1, <2>3, <2>4 DEF RequestTypes
    <2>6. TaskShape' /\ LoggedAhead'
      BY <2>1, <2>3, <2>4 DEF TaskShape, LoggedAhead
    <2>7. KeptSoFar' /\ AnswersKept'
      <3>1. task.tool \in Tool
        BY <2>1 DEF TaskShape
      <3> QED
        BY <2>1, <2>4, <3>1 DEF KeptSoFar, AnswersKept, HasTwin, NoTask, Tool, RequestTypes
    <2>8. LoggedFirst'
      BY <2>1, <2>3 DEF LoggedFirst
    <2>9. CallsRecorded'
      BY <2>1, <2>3, <2>4 DEF CallsRecorded
    <2> QED
      BY <2>5, <2>6, <2>7, <2>8, <2>9
  <1>5. CASE WriteDiary
    <2>1. task.at = "diary" /\ task' = [task EXCEPT !.at = "done"] /\ diary' = diary + 1 /\
          changed' = changed \cup {task.tool} /\
          UNCHANGED <<filed, buried, log, record, saved, answer, asked, failures, unlogged>>
      BY <1>5 DEF WriteDiary
    <2>2. <<"diary_write", diary + 1>> \in log \cup unlogged
      BY <2>1 DEF LoggedAhead
    <2>3. task.tool \in Tool /\ diary \in Nat
      BY <2>1 DEF TaskShape, RequestTypes
    <2>4. task' \in RequestTask /\ task'.at = "done" /\ task'.tool = task.tool
          /\ task'.added = task.added /\ task'.twins = task.twins /\ task'.gone = task.gone
      BY <2>1 DEF RequestTypes, RequestTask, TaskPlace
    <2>5. RequestTypes'
      BY <2>1, <2>3, <2>4 DEF RequestTypes
    <2>6. TaskShape' /\ LoggedAhead'
      BY <2>3, <2>4 DEF TaskShape, LoggedAhead
    <2>7. KeptSoFar' /\ AnswersKept'
      <3>1. task.tool \in Tool
        BY <2>1 DEF TaskShape
      <3> QED
        BY <2>1, <2>4, <3>1 DEF KeptSoFar, AnswersKept, HasTwin, NoTask, Tool, RequestTypes
    <2>8. LoggedFirst'
      <3>1. \A n \in 1..(diary + 1) : n \in 1..diary \/ n = diary + 1
        BY <2>3
      <3> QED
        BY <2>1, <2>2, <3>1 DEF LoggedFirst
    <2>9. CallsRecorded'
      BY <2>1, <2>4 DEF CallsRecorded
    <2> QED
      BY <2>5, <2>6, <2>7, <2>8, <2>9
  <1> QED
    BY <1>1, <1>2, <1>3, <1>4, <1>5

\* The steps of a deletion.
LEMMA DeletionStep ==
  ASSUME RequestsInv,
         (FindDrawer /\ Head(task.items) \in filed) \/ Bury \/ LogBurial \/ Unbury \/ Collect \/ LogCollected
  PROVE  RequestsInv'
  <1> USE DEF RequestsInv
  <1> DEFINE c == Head(task.items)
  <1>1. /\ task \in RequestTask /\ failures \in Nat
        /\ task.at \in {"delete_drawer", "bury", "log", "unbury", "collect", "log_gc"}
        /\ UNCHANGED <<diary, record, saved, answer, asked>>
        /\ (changed' = changed \/ (changed' = changed \cup {task.tool} /\ task.tool \in Tool))
    BY DEF RequestTypes, TaskShape, FindDrawer, Bury, LogBurial, Unbury, Collect, LogCollected
  <1>2. task.tool \in Tool
    BY <1>1 DEF TaskShape
  <1>3. /\ log \cup unlogged \subseteq (log \cup unlogged)'
        /\ failures' \in Nat /\ (failures' = 0 => failures = 0)
    <2>1. CASE LogBurial \/ LogCollected
      BY <1>1, <2>1 DEF LogBurial, LogCollected, Logged
    <2>2. CASE FindDrawer \/ Bury \/ Unbury \/ Collect
      BY <1>1, <2>2 DEF FindDrawer, Bury, Unbury, Collect
    <2> QED
      BY <2>1, <2>2
  <1>4. /\ task' \in RequestTask /\ task'.tool = task.tool /\ task'.items = task.items
        /\ task'.added = task.added /\ task'.twins = task.twins
    <2>1. CASE Collect
      <3>1. task' = [task EXCEPT !.at = "log_gc", !.gone = {c}] /\ task.items # <<>>
        BY <2>1 DEF Collect, TaskShape
      <3>2. c \in Content
        BY <1>1, <3>1 DEF RequestTask
      <3> QED
        BY <1>1, <3>1, <3>2 DEF RequestTask, TaskPlace
    <2>2. CASE FindDrawer /\ Head(task.items) \in filed
      BY <1>1, <2>2 DEF FindDrawer, RequestTask, TaskPlace
    <2>3. CASE Bury \/ LogBurial \/ Unbury \/ LogCollected
      BY <1>1, <2>3 DEF Bury, LogBurial, Unbury, LogCollected, RequestTask, TaskPlace
    <2> QED
      BY <2>1, <2>2, <2>3
  <1>5. AnswersKept'
    BY <1>2, <1>4 DEF AnswersKept, NoTask, Tool
  <1>6. CallsRecorded'
    BY <1>1, <1>2, <1>3, <1>4 DEF CallsRecorded
  <1>7. CASE FindDrawer /\ Head(task.items) \in filed
    <2>1. task.at = "delete_drawer" /\ task' = [task EXCEPT !.at = "bury"] /\ UNCHANGED <<filed, buried>>
      BY <1>7 DEF FindDrawer
    <2>2. task'.at = "bury" /\ task'.gone = task.gone
      BY <1>1, <2>1 DEF RequestTask
    <2>3. TaskShape' /\ LoggedAhead' /\ KeptSoFar' /\ LoggedFirst'
      BY <1>1, <1>2, <1>3, <1>4, <1>7, <2>1, <2>2 DEF TaskShape, LoggedAhead, KeptSoFar, LoggedFirst, HasTwin
    <2>4. RequestTypes'
      BY <1>1, <1>2, <1>3, <1>4, <2>1 DEF RequestTypes
    <2> QED
      BY <1>5, <1>6, <2>3, <2>4
  <1>8. CASE Bury
    <2>1. task.at = "bury" /\ task' = [task EXCEPT !.at = "log"] /\ buried' = buried \cup {c} /\ filed' = filed
      BY <1>8 DEF Bury
    <2>2. task'.at = "log" /\ task'.gone = task.gone /\ task.gone = {} /\ c \in filed
      BY <1>1, <2>1 DEF RequestTask, TaskShape
    <2> HIDE DEF c
    <2>3. TaskShape'
      BY <1>1, <1>2, <1>4, <2>1, <2>2 DEF TaskShape
    <2>4. LoggedAhead' /\ KeptSoFar' /\ LoggedFirst'
      BY <1>1, <1>3, <1>4, <2>1, <2>2 DEF LoggedAhead, KeptSoFar, LoggedFirst, HasTwin
    <2>5. RequestTypes'
      BY <1>1, <1>2, <1>3, <1>4, <2>1, <2>2 DEF RequestTypes
    <2> QED
      BY <1>5, <1>6, <2>3, <2>4, <2>5
  <1>9. CASE LogBurial
    <2>1. task.at = "log" /\ task' = [task EXCEPT !.at = "unbury"] /\ UNCHANGED <<filed, buried>>
      BY <1>9 DEF LogBurial
    <2>2. task'.at = "unbury" /\ task'.gone = task.gone /\ task.gone = {}
      BY <1>1, <2>1 DEF RequestTask, TaskShape
    <2>3. TaskShape' /\ LoggedAhead' /\ KeptSoFar' /\ LoggedFirst'
      BY <1>1, <1>2, <1>3, <1>4, <2>1, <2>2 DEF TaskShape, LoggedAhead, KeptSoFar, LoggedFirst, HasTwin
    <2>4. RequestTypes'
      BY <1>1, <1>2, <1>3, <1>4, <2>1 DEF RequestTypes
    <2> QED
      BY <1>5, <1>6, <2>3, <2>4
  <1>10. CASE Unbury
    <2>1. task.at = "unbury" /\ task' = [task EXCEPT !.at = "collect"] /\ buried' = buried \ {c} /\ filed' = filed
      BY <1>10 DEF Unbury
    <2>2. task'.at = "collect" /\ task'.gone = task.gone /\ task.gone = {} /\ c \in filed
      BY <1>1, <2>1 DEF RequestTask, TaskShape
    <2>3. Head(task'.items) \notin buried' /\ Head(task'.items) \in filed'
      BY <1>4, <2>1, <2>2
    <2>4. TaskShape'
      BY <1>1, <1>2, <1>4, <2>1, <2>2, <2>3 DEF TaskShape
    <2> HIDE DEF c
    <2>5. LoggedAhead' /\ KeptSoFar' /\ LoggedFirst'
      BY <1>1, <1>3, <1>4, <2>1, <2>2 DEF LoggedAhead, KeptSoFar, LoggedFirst, HasTwin
    <2>6. RequestTypes'
      BY <1>1, <1>2, <1>3, <1>4, <2>1, <2>2 DEF RequestTypes
    <2> QED
      BY <1>5, <1>6, <2>4, <2>5, <2>6
  <1>11. CASE Collect
    <2>1. task.at = "collect" /\ task' = [task EXCEPT !.at = "log_gc", !.gone = {c}] /\ filed' = filed \ {c} /\ buried' = buried
      BY <1>11 DEF Collect
    <2>2. task'.at = "log_gc" /\ task'.gone = {c} /\ c \notin buried /\ task.added = {} /\ task.twins = {}
      BY <1>1, <2>1 DEF RequestTask, TaskShape
    <2> HIDE DEF c
    <2>3. TaskShape'
      BY <1>1, <1>2, <1>4, <2>1, <2>2 DEF TaskShape
    <2>4. LoggedAhead' /\ KeptSoFar' /\ LoggedFirst'
      BY <1>1, <1>3, <1>4, <2>1, <2>2 DEF LoggedAhead, KeptSoFar, LoggedFirst
    <2>5. RequestTypes'
      BY <1>1, <1>2, <1>3, <1>4, <2>1, <2>2 DEF RequestTypes
    <2> QED
      BY <1>5, <1>6, <2>3, <2>4, <2>5
  <1>12. CASE LogCollected
    <2>1. task.at = "log_gc" /\ task' = [task EXCEPT !.at = "done"] /\ UNCHANGED <<filed, buried>>
      BY <1>12 DEF LogCollected
    <2>2. task'.at = "done" /\ task'.gone = task.gone
      BY <1>1, <2>1 DEF RequestTask
    <2>3. TaskShape' /\ LoggedAhead' /\ KeptSoFar' /\ LoggedFirst'
      BY <1>1, <1>2, <1>3, <1>4, <2>1, <2>2 DEF TaskShape, LoggedAhead, KeptSoFar, LoggedFirst, HasTwin
    <2>4. RequestTypes'
      BY <1>1, <1>2, <1>3, <1>4, <2>1 DEF RequestTypes
    <2> QED
      BY <1>5, <1>6, <2>3, <2>4
  <1> QED
    BY <1>7, <1>8, <1>9, <1>10, <1>11, <1>12

\* Every step preserves the invariant.
LEMMA RequestsInvStep == RequestsInv /\ [RequestsNext]_requestVars => RequestsInv'
  <1> SUFFICES ASSUME RequestsInv, [RequestsNext]_requestVars PROVE RequestsInv'
    OBVIOUS
  <1>1. CASE CompareItem \/ LogAdd \/ FileDrawer \/ LogDiary \/ WriteDiary
    BY <1>1, TaskStep
  <1>11. CASE Bury \/ LogBurial \/ Unbury \/ Collect \/ LogCollected
    BY <1>11, DeletionStep
  <1>2. CASE FindDrawer
    <2>1. CASE Head(task.items) \in filed
      BY <1>2, <2>1, DeletionStep
    <2>2. CASE Head(task.items) \notin filed
      <3>1. Answered("result") /\ failures' \in Nat /\ failures' >= failures /\
            UNCHANGED <<filed, buried, diary, log, record, saved, asked, unlogged, changed>>
        BY <1>2, <2>2 DEF FindDrawer, RequestsInv, RequestTypes
      <3> QED
        BY <3>1, AnswerStep
    <2> QED
      BY <2>1, <2>2
  <1>3. CASE Refuse \/ Search \/ Answer
    <2>1. (Answered("error") \/ Answered("result")) /\ failures' \in Nat /\ failures' >= failures /\
          UNCHANGED <<filed, buried, diary, log, record, saved, asked, unlogged, changed>>
      BY <1>3 DEF Refuse, Search, Answer, RequestsInv, RequestTypes
    <2> QED
      BY <2>1, AnswerStep
  <1>4. CASE CallRaises
    <2>1. Answered("error") /\ failures' \in Nat /\ failures' >= failures /\
          UNCHANGED <<filed, buried, diary, log, record, saved, asked, unlogged, changed>>
      BY <1>4 DEF CallRaises, RequestsInv, RequestTypes
    <2> QED
      BY <2>1, AnswerStep
  <1>5. CASE Initialize
    <2> USE <1>5 DEF Initialize, RequestsInv
    <2>1. task.at = "idle" /\ changed = {}
      BY DEF CallsRecorded, NoTask
    <2>2. RequestTypes'
      <3>1. <<>> \in Seq(Tool)
        OBVIOUS
      <3>2. record' \in Seq(Tool) \cup {NoSession} /\ saved' \in Seq(Tool) \cup {NoSession}
        BY <3>1
      <3>3. failures' \in Nat
        BY DEF RequestTypes
      <3> QED
        BY <3>2, <3>3 DEF RequestTypes
    <2>3. (TaskShape /\ LoggedAhead /\ KeptSoFar /\ AnswersKept /\ LoggedFirst)'
      BY DEF TaskShape, LoggedAhead, KeptSoFar, AnswersKept, LoggedFirst, HasTwin
    <2>4. CallsRecorded'
      BY <2>1 DEF CallsRecorded, RequestTypes
    <2> QED
      BY <2>2, <2>3, <2>4
  <1>6. CASE NewServer
    <2> USE <1>6 DEF NewServer, RequestsInv, NoTask, NoAnswer
    <2>1. RequestTypes'
      BY DEF RequestTypes, RequestTask, RequestAnswer, TaskPlace
    <2>2. (TaskShape /\ LoggedAhead /\ KeptSoFar /\ AnswersKept)'
      BY DEF TaskShape, LoggedAhead, KeptSoFar, AnswersKept
    <2>3. LoggedFirst' /\ CallsRecorded'
      BY DEF LoggedFirst, CallsRecorded
    <2> QED
      BY <2>1, <2>2, <2>3
  <1>7. ASSUME NEW tool \in {"search", "no_such_tool", "bad_arguments"}, CallTool(tool, <<>>)
        PROVE  RequestsInv'
    <2>1. tool \in Tool /\ <<>> \in Seq(Content) /\ tool \notin {"add_drawer", "delete_drawer"}
      BY DEF Tool
    <2> QED
      BY <1>7, <2>1, CallStep
  <1>8. ASSUME NEW tool \in {"add_drawer", "delete_drawer"}, NEW c \in Content, CallTool(tool, <<c>>)
        PROVE  RequestsInv'
    <2>1. tool \in Tool /\ <<c>> \in Seq(Content) /\ <<c>> # <<>>
      BY DEF Tool
    <2> QED
      BY <1>8, <2>1, CallStep
  <1>9. ASSUME NEW items \in Saves, CallTool("checkpoint", items)
        PROVE  RequestsInv'
    <2>1. "checkpoint" \in Tool /\ items \in Seq(Content)
      BY RequestsAssumption DEF Tool, RequestsAssumption
    <2> QED
      BY <1>9, <2>1, CallStep
  <1>10. CASE UNCHANGED requestVars
    <2> USE <1>10 DEF requestVars, RequestsInv
    <2>1. RequestTypes' /\ TaskShape' /\ LoggedAhead' /\ LoggedFirst' /\ CallsRecorded'
      BY DEF RequestTypes, TaskShape, LoggedAhead, LoggedFirst, CallsRecorded
    <2>2. KeptSoFar' /\ AnswersKept'
      BY DEF KeptSoFar, AnswersKept, HasTwin
    <2> QED
      BY <2>1, <2>2
  <1> QED
    BY <1>1, <1>2, <1>3, <1>4, <1>5, <1>6, <1>7, <1>8, <1>9, <1>10, <1>11 DEF RequestsNext

\* Whatever is filed was logged before it, unless the log could not be written; an
\* answer, of a deletion too, is kept until the next request; and as long as nothing
\* failed, the tools that changed the collection are in the record of the session
\* and in its file (mcp/server.py, mcp/tools.py, wal.py, audit/adherence.py),
\* for any contents, any requests, failures and deaths.
THEOREM RequestsAreSound == RequestsSpec => [](RequestsTypeOK /\ RequestsSound)
  <1>1. RequestsInit => RequestsInv
    BY RequestsInvInit
  <1>2. RequestsInv /\ [RequestsNext]_requestVars => RequestsInv'
    BY RequestsInvStep
  <1>3. RequestsInv => RequestsTypeOK /\ RequestsSound
    <2> SUFFICES ASSUME RequestsInv PROVE RequestsTypeOK /\ RequestsSound
      OBVIOUS
    <2>1. CallsSurvive
      BY DEF RequestsInv, CallsRecorded, CallsSurvive
    <2>2. \A s \in Seq(Tool) : ToSet(s) \subseteq Tool
      BY DEF ToSet
    <2>3. RequestsTypeOK
      BY <2>2 DEF RequestsInv, RequestTypes, RequestTask, RequestAnswer, RequestsTypeOK
    <2> QED
      BY <2>1, <2>3 DEF RequestsInv, RequestsSound
  <1> QED
    BY <1>1, <1>2, <1>3, PTL DEF RequestsSpec

-----------------------------------------------------------------------------
(* Dedup: what is removed is represented.                                  *)

Removed == DedupDrawer \ present

\* What the proofs need of the values.
DedupTypes ==
  /\ doc \in [DedupDrawer -> [at : Place, size : Size]]
  /\ DedupTypeOK
  /\ unjudged \cap (kept \cup toDelete) = {}

\* What is kept is no shorter than what is yet to be judged, and nothing is when
\* the deletion begins.
LongestFirst ==
  /\ \A e \in kept, d \in unjudged : doc[e].size >= doc[d].size
  /\ dedupRun = "delete" => toDelete # {}

\* What is marked is short or has a kept near-duplicate.
MarkedRepresented ==
  \A d \in toDelete :
    doc[d].size < ShortSize \/ \E e \in kept : Distance(d, e) < Threshold /\ doc[e].size >= doc[d].size

\* What was removed, by this run or those before it, is short or lies no more
\* near-duplicates away from a drawer that is there than drawers were removed.
RemovedRepresented ==
  \A d \in Removed :
    doc[d].size < ShortSize \/
      \E e \in present : Distance(d, e) < Threshold * Cardinality(Removed) /\ doc[e].size >= doc[d].size

\* The inductive invariant.
DedupInv == DedupTypes /\ LongestFirst /\ MarkedRepresented /\ RemovedRepresented

\* Distances add up.
LEMMA Triangle ==
  ASSUME doc \in [DedupDrawer -> [at : Place, size : Size]],
         NEW d \in DedupDrawer, NEW e \in DedupDrawer, NEW f \in DedupDrawer
  PROVE  Distance(d, e) \in Nat /\ Distance(e, f) \in Nat /\ Distance(d, f) \in Nat
         /\ Distance(d, f) <= Distance(d, e) + Distance(e, f)
  <1>1. doc[d].at \in Nat /\ doc[e].at \in Nat /\ doc[f].at \in Nat
    BY DedupAssumption DEF DedupAssumption
  <1> QED
    BY <1>1 DEF Distance

\* So do thresholds.
LEMMA MoreSteps ==
  ASSUME NEW k \in Nat, NEW n \in Nat, k <= n, NEW t \in Nat
  PROVE  t * k \in Nat /\ t * n \in Nat /\ t * k <= t * n /\ t * (k + 1) = t * k + t
  <1>1. PICK j \in Nat : n = k + j
    BY n - k \in Nat, n = k + (n - k)
  <1>2. t * (k + j) = t * k + t * j /\ t * j \in Nat /\ t * k \in Nat
    OBVIOUS
  <1> QED
    BY <1>1, <1>2

\* The invariant holds before the first run.
LEMMA DedupInvInit == DedupInit => DedupInv
  BY DEF DedupInit, DedupInv, DedupTypes, DedupTypeOK, LongestFirst, MarkedRepresented, RemovedRepresented, Removed

\* A drawer is judged, or kept because its query raised.
LEMMA JudgeStep ==
  ASSUME DedupInv, NEW d \in DedupDrawer, Judge(d) \/ QueryRaises(d)
  PROVE  DedupInv'
  <1> USE DEF DedupInv
  <1>1. /\ d \in unjudged /\ d \notin kept /\ d \notin toDelete /\ d \in present /\ dedupRun = "judge"
        /\ \A e \in unjudged : doc[e].size <= doc[d].size
        /\ unjudged' = unjudged \ {d} /\ UNCHANGED <<doc, present, dedupRun>>
    BY DEF Judge, QueryRaises, Longest, DedupTypes, DedupTypeOK
  <1>2. \/ kept' = kept \cup {d} /\ toDelete' = toDelete
        \/ kept' = kept /\ toDelete' = toDelete \cup {d} /\
             (doc[d].size < ShortSize \/ \E e \in kept : Distance(d, e) < Threshold)
    <2>1. CASE Judge(d)
      BY <2>1 DEF Judge, Duplicate
    <2>2. CASE QueryRaises(d)
      BY <2>2 DEF QueryRaises
    <2> QED
      BY <2>1, <2>2
  <1>3. DedupTypes'
    BY <1>1, <1>2 DEF DedupTypes, DedupTypeOK
  <1>4. LongestFirst'
    BY <1>1, <1>2 DEF LongestFirst
  <1>5. MarkedRepresented'
    BY <1>1, <1>2 DEF MarkedRepresented, LongestFirst, Distance
  <1>6. RemovedRepresented'
    BY <1>1 DEF RemovedRepresented, Removed, Distance
  <1> QED
    BY <1>3, <1>4, <1>5, <1>6

\* A batch is deleted: what it represented is now represented one step further.
LEMMA DeleteStep ==
  ASSUME DedupInv, DeleteSome
  PROVE  DedupInv'
  <1> USE DEF DedupInv
  <1>1. PICK B \in SUBSET toDelete :
          Cardinality(B) = AtMost2(DeleteBatch, Cardinality(toDelete)) /\ present' = present \ B /\ toDelete' = toDelete \ B
    BY DEF DeleteSome
  <1>2. UNCHANGED <<doc, unjudged, kept>> /\ dedupRun' = (IF toDelete' = {} THEN "off" ELSE "delete") /\ toDelete # {}
    BY DEF DeleteSome, LongestFirst
  <1>3. unjudged \cap B = {} /\ kept \cap B = {} /\ B \subseteq present
    BY DEF DedupTypes, DedupTypeOK
  <1>4. DedupTypes'
    BY <1>1, <1>2, <1>3 DEF DedupTypes, DedupTypeOK
  <1>5. LongestFirst' /\ MarkedRepresented'
    BY <1>1, <1>2 DEF LongestFirst, MarkedRepresented, Distance
  <1>6. IsFiniteSet(toDelete) /\ IsFiniteSet(Removed) /\ IsFiniteSet(Removed') /\ IsFiniteSet(B)
    <2>1. Removed \in SUBSET DedupDrawer /\ Removed' \in SUBSET DedupDrawer /\ toDelete \in SUBSET DedupDrawer
          /\ B \in SUBSET DedupDrawer
      BY <1>1 DEF Removed, DedupTypes, DedupTypeOK
    <2> QED
      BY <2>1, DedupAssumption, FS_Subset DEF DedupAssumption
  <1>7. B # {}
    <2>1. Cardinality(toDelete) \in Nat /\ Cardinality(toDelete) # 0
      BY <1>2, <1>6, FS_CardinalityType, FS_EmptySet
    <2>2. Cardinality(B) # 0
      BY <1>1, <2>1, DedupAssumption DEF DedupAssumption, AtMost2
    <2> QED
      BY <2>2, FS_EmptySet
  <1>8. Cardinality(Removed) \in Nat /\ Cardinality(Removed') \in Nat /\ Cardinality(Removed) + 1 <= Cardinality(Removed')
    <2>1. PICK b \in B : TRUE
      BY <1>7
    <2>2. b \notin Removed /\ Removed \cup {b} \in SUBSET Removed'
      BY <1>1, <1>3, <2>1 DEF Removed, DedupTypes, DedupTypeOK
    <2>3. Cardinality(Removed \cup {b}) = Cardinality(Removed) + 1
      BY <1>6, <2>2, FS_AddElement
    <2>4. Cardinality(Removed \cup {b}) <= Cardinality(Removed')
      BY <1>6, <2>2, FS_Subset
    <2> QED
      BY <1>6, <2>3, <2>4, FS_CardinalityType
  <1> DEFINE m == Cardinality(Removed)
             n == Cardinality(Removed')
  <1>9. Threshold * m \in Nat /\ Threshold * n \in Nat /\ Threshold * m <= Threshold * n
        /\ Threshold * m + Threshold <= Threshold * n /\ Threshold \in Nat
    <2>1. Threshold \in Nat
      BY DedupAssumption DEF DedupAssumption
    <2>2. m \in Nat /\ n \in Nat /\ m + 1 <= n
      BY <1>8
    <2> HIDE DEF m, n
    <2>3. Threshold * (m + 1) = Threshold * m + Threshold /\ Threshold * m \in Nat
      BY <2>1, <2>2, MoreSteps
    <2>4. m <= n /\ m + 1 \in Nat
      BY <2>2
    <2>5. Threshold * m <= Threshold * n /\ Threshold * n \in Nat
      BY <2>1, <2>2, <2>4, MoreSteps
    <2>6. Threshold * (m + 1) <= Threshold * n
      BY <2>1, <2>2, <2>4, MoreSteps
    <2> QED
      BY <2>1, <2>3, <2>5, <2>6
  <1>10. ShortSize' = ShortSize /\ \A d, e \in DedupDrawer : Distance(d, e)' = Distance(d, e)
    BY <1>2 DEF Distance
  <1>11. ASSUME NEW d \in Removed', ~(doc[d].size < ShortSize)
         PROVE  \E e \in present' : Distance(d, e) < Threshold * n /\ doc[e].size >= doc[d].size
    <2>0. kept \subseteq present' /\ d \in DedupDrawer /\ present \subseteq DedupDrawer /\ kept \subseteq DedupDrawer
          /\ toDelete \subseteq DedupDrawer
      BY <1>1, <1>3 DEF Removed, DedupTypes, DedupTypeOK
    <2>1. CASE d \in B
      <3>1. PICK e \in kept : Distance(d, e) < Threshold /\ doc[e].size >= doc[d].size
        BY <1>11, <2>1 DEF MarkedRepresented
      <3>2. Distance(d, e) \in Nat
        BY <2>0, Triangle DEF DedupTypes
      <3>3. Distance(d, e) < Threshold * n
        BY <1>9, <3>1, <3>2
      <3> QED
        BY <2>0, <3>1, <3>3
    <2>2. CASE d \notin B
      <3>1. d \in Removed
        BY <1>1, <2>2 DEF Removed
      <3>2. PICK e \in present : Distance(d, e) < Threshold * m /\ doc[e].size >= doc[d].size
        BY <1>11, <3>1 DEF RemovedRepresented
      <3>3. Distance(d, e) \in Nat
        BY <2>0, Triangle DEF DedupTypes
      <3>4. CASE e \notin B
        <4>1. Distance(d, e) < Threshold * n
          BY <1>9, <3>2, <3>3
        <4> QED
          BY <1>1, <3>2, <3>4, <4>1
      <3>5. CASE e \in B
        <4>0. doc[e].size \in Nat /\ doc[d].size \in Nat
          BY <2>0, DedupAssumption DEF DedupTypes, DedupAssumption
        <4>1. ~(doc[e].size < ShortSize)
          BY <1>11, <3>2, <4>0, DedupAssumption DEF DedupAssumption
        <4>2. PICK f \in kept : Distance(e, f) < Threshold /\ doc[f].size >= doc[e].size
          BY <3>5, <4>1 DEF MarkedRepresented
        <4>3. doc[f].size \in Nat
          BY <2>0, DedupAssumption DEF DedupTypes, DedupAssumption
        <4>4. Distance(e, f) \in Nat /\ Distance(d, f) \in Nat /\ Distance(d, f) <= Distance(d, e) + Distance(e, f)
          BY <2>0, Triangle DEF DedupTypes
        <4>5. Distance(d, f) < Threshold * n
          BY <1>9, <3>2, <3>3, <4>2, <4>4
        <4>6. doc[f].size >= doc[d].size
          BY <3>2, <4>0, <4>2, <4>3
        <4> QED
          BY <2>0, <4>5, <4>6
      <3> QED
        BY <3>4, <3>5
    <2> QED
      BY <2>1, <2>2
  <1>12. RemovedRepresented'
    <2> SUFFICES ASSUME NEW d \in Removed', ~(doc[d].size < ShortSize)
                 PROVE  \E e \in present' : Distance(d, e)' < Threshold * n /\ doc[e].size >= doc[d].size
      BY <1>2 DEF RemovedRepresented
    <2>1. PICK e \in present' : Distance(d, e) < Threshold * n /\ doc[e].size >= doc[d].size
      BY <1>11
    <2>2. d \in DedupDrawer /\ e \in DedupDrawer
      BY <1>4 DEF Removed, DedupTypes, DedupTypeOK
    <2>3. Distance(d, e)' = Distance(d, e)
      BY <1>10, <2>2
    <2> QED
      BY <2>1, <2>3
  <1> QED
    BY <1>4, <1>5, <1>12

\* Every step preserves the invariant.
LEMMA DedupInvStep == DedupInv /\ [DedupNext]_dedupVars => DedupInv'
  <1> SUFFICES ASSUME DedupInv, [DedupNext]_dedupVars PROVE DedupInv'
    OBVIOUS
  <1>1. ASSUME NEW d \in DedupDrawer, Judge(d) \/ QueryRaises(d) PROVE DedupInv'
    BY <1>1, JudgeStep
  <1>2. CASE JudgedAll
    <2>1. dedupRun' \in {"off", "delete"} /\ (dedupRun' = "delete" => toDelete # {})
          /\ UNCHANGED <<doc, present, unjudged, kept, toDelete>>
      BY <1>2 DEF JudgedAll
    <2>2. DedupTypes' /\ LongestFirst' /\ MarkedRepresented' /\ RemovedRepresented'
      BY <2>1 DEF DedupInv, DedupTypes, DedupTypeOK, LongestFirst, MarkedRepresented, RemovedRepresented, Removed, Distance
    <2> QED
      BY <2>2 DEF DedupInv
  <1>3. CASE DeleteSome
    BY <1>3, DeleteStep
  <1>4. CASE DedupDies
    <2>1. unjudged' = present /\ kept' = {} /\ toDelete' = {} /\ dedupRun' = "judge" /\ UNCHANGED <<doc, present>>
      BY <1>4 DEF DedupDies
    <2>2. DedupTypes' /\ LongestFirst' /\ MarkedRepresented' /\ RemovedRepresented'
      BY <2>1 DEF DedupInv, DedupTypes, DedupTypeOK, LongestFirst, MarkedRepresented, RemovedRepresented, Removed, Distance
    <2> QED
      BY <2>2 DEF DedupInv
  <1>5. CASE UNCHANGED dedupVars
    BY <1>5 DEF dedupVars, DedupInv, DedupTypes, DedupTypeOK, LongestFirst, MarkedRepresented, RemovedRepresented, Removed,
       Distance
  <1> QED
    BY <1>1, <1>2, <1>3, <1>4, <1>5 DEF DedupNext

\* What was removed is represented by a drawer that is not going to be.
LEMMA RemovedKeepsLike ==
  ASSUME DedupInv, NEW d \in Removed, ~(doc[d].size < ShortSize)
  PROVE  Represented(d)
  <1> USE DEF DedupInv
  <1> DEFINE m == Cardinality(Removed)
             n == Cardinality(DedupDrawer)
  <1>0. d \in DedupDrawer /\ present \subseteq DedupDrawer /\ kept \subseteq present \ toDelete
    BY DEF Removed, DedupTypes, DedupTypeOK
  <1>1. PICK e \in present : Distance(d, e) < Threshold * m /\ doc[e].size >= doc[d].size
    BY DEF RemovedRepresented
  <1>2. m \in Nat /\ n \in Nat /\ m + 1 <= n
    <2>1. Removed \in SUBSET DedupDrawer /\ Removed \cup {e} \in SUBSET DedupDrawer /\ e \notin Removed
      BY <1>0, <1>1 DEF Removed
    <2>2. IsFiniteSet(DedupDrawer)
      BY DedupAssumption DEF DedupAssumption
    <2>3. IsFiniteSet(Removed)
      BY <2>1, <2>2, FS_Subset
    <2>4. Cardinality(Removed \cup {e}) = Cardinality(Removed) + 1
      BY <2>1, <2>3, FS_AddElement
    <2>5. Cardinality(Removed \cup {e}) <= Cardinality(DedupDrawer)
      BY <2>1, <2>2, FS_Subset
    <2> QED
      BY <2>2, <2>3, <2>4, <2>5, FS_CardinalityType
  <1>3. Threshold * m \in Nat /\ Threshold * n \in Nat /\ Threshold * m <= Threshold * n
        /\ Threshold * m + Threshold <= Threshold * n /\ Threshold \in Nat
    <2>1. Threshold \in Nat
      BY DedupAssumption DEF DedupAssumption
    <2> HIDE DEF m, n
    <2>2. Threshold * (m + 1) = Threshold * m + Threshold /\ Threshold * m \in Nat
      BY <1>2, <2>1, MoreSteps
    <2>3. m <= n /\ m + 1 \in Nat
      BY <1>2
    <2>4. Threshold * m <= Threshold * n /\ Threshold * n \in Nat
      BY <1>2, <2>1, <2>3, MoreSteps
    <2>5. Threshold * (m + 1) <= Threshold * n
      BY <1>2, <2>1, <2>3, MoreSteps
    <2> QED
      BY <2>1, <2>2, <2>4, <2>5
  <1>4. Distance(d, e) \in Nat
    BY <1>0, Triangle DEF DedupTypes
  <1>5. CASE e \notin toDelete
    <2>1. Distance(d, e) < Threshold * n
      BY <1>1, <1>3, <1>4
    <2> QED
      BY <1>1, <1>5, <2>1 DEF Represented
  <1>6. CASE e \in toDelete
    <2>1. doc[e].size \in Nat /\ doc[d].size \in Nat
      BY <1>0, DedupAssumption DEF DedupTypes, DedupAssumption
    <2>2. ~(doc[e].size < ShortSize)
      BY <1>1, <2>1, DedupAssumption DEF DedupAssumption
    <2>3. PICK f \in kept : Distance(e, f) < Threshold /\ doc[f].size >= doc[e].size
      BY <1>6, <2>2 DEF MarkedRepresented
    <2>4. f \in present /\ f \notin toDelete /\ doc[f].size \in Nat
      BY <1>0, DedupAssumption DEF DedupTypes, DedupAssumption
    <2>5. Distance(e, f) \in Nat /\ Distance(d, f) \in Nat /\ Distance(d, f) <= Distance(d, e) + Distance(e, f)
      BY <1>0, <2>4, Triangle DEF DedupTypes
    <2>6. Distance(d, f) < Threshold * n
      BY <1>1, <1>3, <1>4, <2>3, <2>5
    <2>7. doc[f].size >= doc[d].size
      BY <1>1, <2>1, <2>3, <2>4
    <2> QED
      BY <2>4, <2>6, <2>7 DEF Represented
  <1> QED
    BY <1>5, <1>6

\* Nothing worth keeping goes without a like that stays (dedup.py), for any drawers,
\* any batches, any answers of the index, and any runs that die: the like of a drawer
\* that one run marks is within Threshold, that of one removed by any run within
\* Threshold times the number of drawers; drawers shorter than ShortSize just go.
THEOREM DedupIsSafe == DedupSpec => [](DedupTypeOK /\ DedupSafe)
  <1>1. DedupInit => DedupInv
    BY DedupInvInit
  <1>2. DedupInv /\ [DedupNext]_dedupVars => DedupInv'
    BY DedupInvStep
  <1>3. DedupInv => DedupTypeOK /\ DedupSafe
    BY RemovedKeepsLike DEF DedupInv, DedupTypes, MarkedRepresented, Removed, DedupSafe
  <1> QED
    BY <1>1, <1>2, <1>3, PTL DEF DedupSpec

-----------------------------------------------------------------------------
(* The table of a PostgreSQL collection.                                   *)

PgSteps == {"idle", "schema", "create", "kind", "alter", "write", "read", "count", "index"}

\* What the proofs need of the values.
PgTypes ==
  /\ home \in [Thread -> PgProcess] /\ width \in [PgProcess -> Nat]
  /\ pgTable \in [there : BOOLEAN, width : Nat, kind : BOOLEAN, stored : Nat, indexed : BOOLEAN]
  /\ schemaReady \subseteq PgProcess /\ kindEnsured \subseteq PgProcess /\ halfway \subseteq PgProcess
  /\ thread \in [Thread -> [pc : PgSteps, writes : BOOLEAN, raw : BOOLEAN]]
  /\ outcome \in [Thread -> {"none", "ok", "dimension", "exists", "lost", "no column"}]

\* A process that has passed the look at the schema fits the table.
ReadyFits ==
  /\ \A p \in schemaReady : pgTable.there /\ pgTable.width = width[p]
  /\ \A t \in Thread :
       thread[t].pc \in {"kind", "alter", "write", "read", "count", "index"} => home[t] \in schemaReady

\* A process that has noted the migration has done it, or was cut off, or is at it.
NotedMigrates ==
  /\ \A p \in kindEnsured :
       \/ pgTable.kind \/ p \in halfway
       \/ \E u \in Thread : home[u] = p /\ thread[u].pc = "alter"
  /\ \A t \in Thread :
       thread[t].pc = "write" /\ ~thread[t].raw => pgTable.kind \/ home[t] \in kindEnsured

\* The inductive invariant.
PgInv == PgTypes /\ ReadyFits /\ NotedMigrates

\* Nobody is at work on a table that is not there, or not seen yet.
LEMMA PgInvInit == PgInit => PgInv
<1> SUFFICES ASSUME PgInit PROVE PgInv
  OBVIOUS
<1>1. /\ home \in [Thread -> PgProcess] /\ width \in [PgProcess -> Width]
      /\ pgTable \in {NoTable} \cup {[NoTable EXCEPT !.there = TRUE, !.width = w] : w \in Width}
      /\ schemaReady = {} /\ kindEnsured = {} /\ halfway = {}
      /\ thread = [t \in Thread |-> AtRest] /\ outcome = [t \in Thread |-> "none"]
  BY DEF PgInit
<1>2. pgTable \in [there : BOOLEAN, width : Nat, kind : BOOLEAN, stored : Nat, indexed : BOOLEAN]
  <2>1. CASE pgTable = NoTable
    BY <2>1 DEF NoTable
  <2>2. ASSUME NEW w \in Width, pgTable = [NoTable EXCEPT !.there = TRUE, !.width = w]
        PROVE  pgTable \in [there : BOOLEAN, width : Nat, kind : BOOLEAN, stored : Nat, indexed : BOOLEAN]
    BY <2>2, PgAssumption DEF NoTable
  <2> QED BY <1>1, <2>1, <2>2
<1>3. width \in [PgProcess -> Nat]
  BY <1>1, PgAssumption
<1> QED BY <1>1, <1>2, <1>3 DEF PgInv, PgTypes, ReadyFits, NotedMigrates, AtRest, PgSteps

\* A thread goes on to its next step.
LEMMA ThreadGoesOn ==
  ASSUME PgTypes, NEW t \in Thread, NEW pc \in PgSteps, Goes(t, pc)
  PROVE  /\ thread' \in [Thread -> [pc : PgSteps, writes : BOOLEAN, raw : BOOLEAN]]
         /\ thread'[t].pc = pc /\ thread'[t].raw = thread[t].raw
         /\ \A u \in Thread : u # t => thread'[u] = thread[u]
         /\ outcome' = outcome
<1>1. thread' = [thread EXCEPT ![t].pc = pc] /\ outcome' = outcome
  BY DEF Goes
<1>2. thread[t] \in [pc : PgSteps, writes : BOOLEAN, raw : BOOLEAN]
  BY DEF PgTypes
<1>3. thread'[t] = [thread[t] EXCEPT !.pc = pc]
  BY <1>1 DEF PgTypes
<1>4. thread'[t] \in [pc : PgSteps, writes : BOOLEAN, raw : BOOLEAN] /\ thread'[t].pc = pc /\ thread'[t].raw = thread[t].raw
  BY <1>2, <1>3
<1> QED BY <1>1, <1>4 DEF PgTypes

\* A call ends.
LEMMA CallEnds ==
  ASSUME PgTypes, NEW t \in Thread, NEW with \in {"ok", "dimension", "exists", "lost", "no column"},
         Returns(t, with)
  PROVE  /\ thread' \in [Thread -> [pc : PgSteps, writes : BOOLEAN, raw : BOOLEAN]]
         /\ thread'[t].pc = "idle"
         /\ \A u \in Thread : u # t => thread'[u] = thread[u]
         /\ outcome' \in [Thread -> {"none", "ok", "dimension", "exists", "lost", "no column"}]
         /\ outcome'[t] = with /\ \A u \in Thread : u # t => outcome'[u] = outcome[u]
<1>1. AtRest \in [pc : PgSteps, writes : BOOLEAN, raw : BOOLEAN] /\ AtRest.pc = "idle"
  BY DEF AtRest, PgSteps
<1>2. thread' = [thread EXCEPT ![t] = AtRest] /\ outcome' = [outcome EXCEPT ![t] = with]
  BY DEF Returns
<1> QED BY <1>1, <1>2 DEF PgTypes

\* What a thread's step has to see to.
LEMMA ThreadMoves ==
  ASSUME PgInv, NEW t \in Thread, UNCHANGED <<home, width>>,
         thread' \in [Thread -> [pc : PgSteps, writes : BOOLEAN, raw : BOOLEAN]],
         \A u \in Thread : u # t => thread'[u] = thread[u],
         outcome' \in [Thread -> {"none", "ok", "dimension", "exists", "lost", "no column"}],
         pgTable' \in [there : BOOLEAN, width : Nat, kind : BOOLEAN, stored : Nat, indexed : BOOLEAN],
         schemaReady' \subseteq PgProcess, kindEnsured' \subseteq PgProcess, halfway' \subseteq PgProcess,
         \A p \in schemaReady' : pgTable'.there /\ pgTable'.width = width[p],
         schemaReady \subseteq schemaReady',
         thread'[t].pc \in {"kind", "alter", "write", "read", "count", "index"} => home[t] \in schemaReady',
         pgTable.kind => pgTable'.kind, kindEnsured \subseteq kindEnsured', halfway \subseteq halfway',
         \A p \in kindEnsured' \ kindEnsured : pgTable'.kind \/ (p = home[t] /\ thread'[t].pc = "alter"),
         thread[t].pc = "alter" => thread'[t].pc = "alter" \/ pgTable'.kind \/ home[t] \in halfway',
         thread'[t].pc = "write" /\ ~thread'[t].raw => pgTable'.kind \/ home[t] \in kindEnsured'
  PROVE  PgInv'
<1>1. PgTypes'
  BY DEF PgInv, PgTypes
<1>2. ReadyFits'
  BY DEF PgInv, ReadyFits
<1>3. ASSUME NEW p \in kindEnsured'
      PROVE  pgTable'.kind \/ p \in halfway' \/ \E u \in Thread : home[u] = p /\ thread'[u].pc = "alter"
  <2>1. CASE p \notin kindEnsured
    <3>1. pgTable'.kind \/ (p = home[t] /\ thread'[t].pc = "alter")
      BY <1>3, <2>1
    <3> QED BY <3>1
  <2>2. CASE p \in kindEnsured /\ (pgTable.kind \/ p \in halfway)
    BY <2>2
  <2>3. CASE p \in kindEnsured /\ \E u \in Thread : home[u] = p /\ thread[u].pc = "alter"
    <3>1. PICK u \in Thread : home[u] = p /\ thread[u].pc = "alter"
      BY <2>3
    <3>2. CASE u = t
      BY <3>1, <3>2
    <3>3. CASE u # t
      BY <3>1, <3>3
    <3> QED BY <3>2, <3>3
  <2> QED BY <2>1, <2>2, <2>3 DEF PgInv, NotedMigrates
<1>4. ASSUME NEW u \in Thread, thread'[u].pc = "write", ~thread'[u].raw
      PROVE  pgTable'.kind \/ home[u] \in kindEnsured'
  <2>1. CASE u = t
    BY <1>4, <2>1
  <2>2. CASE u # t
    <3>1. thread[u].pc = "write" /\ ~thread[u].raw
      BY <1>4, <2>2
    <3>2. pgTable.kind \/ home[u] \in kindEnsured
      BY <3>1 DEF PgInv, NotedMigrates
    <3> QED BY <3>2
  <2> QED BY <2>1, <2>2
<1>5. NotedMigrates'
  <2>1. home' = home
    OBVIOUS
  <2>2. (\A p \in kindEnsured :
          pgTable.kind \/ p \in halfway \/ \E u \in Thread : home[u] = p /\ thread[u].pc = "alter")'
    <3>1. ASSUME NEW p \in kindEnsured'
          PROVE  pgTable'.kind \/ p \in halfway' \/ \E u \in Thread : home'[u] = p /\ thread'[u].pc = "alter"
      <4>1. pgTable'.kind \/ p \in halfway' \/ \E u \in Thread : home[u] = p /\ thread'[u].pc = "alter"
        BY <1>3, <3>1
      <4>2. CASE \E u \in Thread : home[u] = p /\ thread'[u].pc = "alter"
        <5>1. PICK u \in Thread : home[u] = p /\ thread'[u].pc = "alter"
          BY <4>2
        <5>2. home'[u] = p
          BY <2>1, <5>1
        <5> QED BY <5>1, <5>2
      <4> QED BY <4>1, <4>2
    <3> QED BY <3>1
  <2>3. (\A u \in Thread :
          thread[u].pc = "write" /\ ~thread[u].raw => pgTable.kind \/ home[u] \in kindEnsured)'
    BY <1>4, <2>1
  <2> QED BY <2>2, <2>3 DEF NotedMigrates
<1> QED BY <1>1, <1>2, <1>5 DEF PgInv

\* A step that ends a call and leaves the notes and what the table is alone.
LEMMA CallOnlyEnds ==
  ASSUME PgInv, NEW t \in Thread, thread[t].pc # "alter",
         NEW with \in {"ok", "dimension", "exists", "lost", "no column"}, Returns(t, with),
         UNCHANGED <<home, width, schemaReady, kindEnsured, halfway>>,
         pgTable' \in [there : BOOLEAN, width : Nat, kind : BOOLEAN, stored : Nat, indexed : BOOLEAN],
         pgTable'.there = pgTable.there, pgTable'.width = pgTable.width, pgTable'.kind = pgTable.kind
  PROVE  PgInv'
<1>1. PgTypes /\ ReadyFits
  BY DEF PgInv
<1>2. /\ thread' \in [Thread -> [pc : PgSteps, writes : BOOLEAN, raw : BOOLEAN]]
      /\ thread'[t].pc = "idle"
      /\ \A u \in Thread : u # t => thread'[u] = thread[u]
      /\ outcome' \in [Thread -> {"none", "ok", "dimension", "exists", "lost", "no column"}]
  BY <1>1, CallEnds
<1> QED BY <1>1, <1>2, ThreadMoves DEF PgTypes, ReadyFits

\* A step that goes on, past the look at the schema, and leaves the notes alone.
LEMMA CallGoesOn ==
  ASSUME PgInv, NEW t \in Thread, thread[t].pc # "alter",
         NEW pc \in PgSteps, Goes(t, pc),
         UNCHANGED <<home, width, schemaReady, kindEnsured, halfway>>,
         pgTable' \in [there : BOOLEAN, width : Nat, kind : BOOLEAN, stored : Nat, indexed : BOOLEAN],
         pgTable'.there = pgTable.there, pgTable'.width = pgTable.width, pgTable'.kind = pgTable.kind,
         pc \in {"kind", "alter", "write", "read", "count", "index"} => home[t] \in schemaReady,
         pc = "write" /\ ~thread[t].raw => pgTable.kind \/ home[t] \in kindEnsured
  PROVE  PgInv'
<1>1. PgTypes /\ ReadyFits
  BY DEF PgInv
<1>2. /\ thread' \in [Thread -> [pc : PgSteps, writes : BOOLEAN, raw : BOOLEAN]]
      /\ thread'[t].pc = pc /\ thread'[t].raw = thread[t].raw
      /\ \A u \in Thread : u # t => thread'[u] = thread[u]
      /\ outcome' = outcome
  BY <1>1, ThreadGoesOn
<1> QED BY <1>1, <1>2, ThreadMoves DEF PgTypes, ReadyFits

\* A step of a thread keeps the invariant.
LEMMA ThreadStep ==
  ASSUME PgInv, NEW t \in Thread,
         \/ PgCall(t) \/ LookForSchema(t) \/ CreateSchema(t) \/ LookForKind(t) \/ AddKind(t) \/ LoseConnection(t)
         \/ WriteRows(t) \/ Read(t) \/ LookForIndex(t) \/ BuildIndex(t)
  PROVE  PgInv'
<1> DEFINE Table == [there : BOOLEAN, width : Nat, kind : BOOLEAN, stored : Nat, indexed : BOOLEAN]
<1>1. PgTypes /\ ReadyFits /\ NotedMigrates /\ pgTable \in Table
  BY DEF PgInv, PgTypes
<1>2. /\ home[t] \in PgProcess /\ width[home[t]] \in Nat /\ thread[t].raw \in BOOLEAN
      /\ schemaReady \subseteq PgProcess /\ kindEnsured \subseteq PgProcess /\ halfway \subseteq PgProcess
  BY <1>1 DEF PgTypes
<1>3. /\ AfterSchema(t) \in {"read", "write", "kind"} /\ AfterSchema(t) \in PgSteps
      /\ AfterSchema(t) = "write" => thread[t].raw \/ home[t] \in kindEnsured
  BY DEF AfterSchema, PgSteps
<1>4. CASE PgCall(t)
  <2>1. PICK writes, backfills \in BOOLEAN :
          thread' = [thread EXCEPT ![t] = [pc |-> "schema", writes |-> writes, raw |-> backfills]]
    BY <1>4 DEF PgCall
  <2>2. /\ thread' \in [Thread -> [pc : PgSteps, writes : BOOLEAN, raw : BOOLEAN]]
        /\ thread'[t].pc = "schema"
        /\ \A u \in Thread : u # t => thread'[u] = thread[u]
    BY <1>1, <2>1 DEF PgTypes, PgSteps
  <2>3. /\ outcome' \in [Thread -> {"none", "ok", "dimension", "exists", "lost", "no column"}]
        /\ thread[t].pc = "idle"
        /\ UNCHANGED <<home, width, pgTable, schemaReady, kindEnsured, halfway>>
    BY <1>1, <1>4 DEF PgCall, PgTypes
  <2> QED BY <1>1, <1>2, <2>2, <2>3, ThreadMoves DEF ReadyFits
<1>5. CASE LookForSchema(t)
  <2>1. thread[t].pc = "schema" /\ UNCHANGED <<home, width, pgTable, kindEnsured, halfway>>
    BY <1>5 DEF LookForSchema
  <2>2. CASE home[t] \in schemaReady
    BY <1>1, <1>3, <1>5, <2>1, <2>2, CallGoesOn DEF LookForSchema
  <2>3. CASE home[t] \notin schemaReady /\ ~pgTable.there
    <3>1. Goes(t, "create") /\ "create" \in PgSteps /\ UNCHANGED schemaReady
      BY <1>5, <2>3 DEF LookForSchema, PgSteps
    <3> QED BY <1>1, <2>1, <3>1, CallGoesOn
  <2>4. CASE home[t] \notin schemaReady /\ pgTable.there /\ Fits(t)
    <3>1. Goes(t, AfterSchema(t)) /\ schemaReady' = schemaReady \cup {home[t]} /\ pgTable.width = width[home[t]]
      BY <1>5, <2>4 DEF LookForSchema, Fits
    <3>2. /\ thread' \in [Thread -> [pc : PgSteps, writes : BOOLEAN, raw : BOOLEAN]]
          /\ thread'[t].pc = AfterSchema(t) /\ thread'[t].raw = thread[t].raw
          /\ \A u \in Thread : u # t => thread'[u] = thread[u]
          /\ outcome' = outcome
      BY <1>1, <1>3, <3>1, ThreadGoesOn
    <3>3. /\ schemaReady' \subseteq PgProcess
          /\ \A p \in schemaReady' : pgTable'.there /\ pgTable'.width = width[p]
      BY <1>1, <1>2, <2>1, <2>4, <3>1 DEF ReadyFits
    <3> QED BY <1>1, <1>2, <1>3, <2>1, <3>1, <3>2, <3>3, ThreadMoves DEF PgTypes
  <2>5. CASE home[t] \notin schemaReady /\ pgTable.there /\ ~Fits(t)
    <3>1. Returns(t, "dimension") /\ UNCHANGED schemaReady
      BY <1>5, <2>5 DEF LookForSchema
    <3> QED BY <1>1, <2>1, <3>1, CallOnlyEnds
  <2> QED BY <2>2, <2>3, <2>4, <2>5
<1>6. CASE CreateSchema(t)
  <2>1. thread[t].pc = "create" /\ UNCHANGED <<home, width, kindEnsured, halfway>>
    BY <1>6 DEF CreateSchema
  <2>2. CASE pgTable.there
    <3>1. Returns(t, "exists") /\ UNCHANGED <<pgTable, schemaReady>>
      BY <1>6, <2>2 DEF CreateSchema
    <3> QED BY <1>1, <2>1, <3>1, CallOnlyEnds
  <2>3. CASE ~pgTable.there
    <3>1. schemaReady = {}
      BY <1>1, <2>3 DEF ReadyFits
    <3>2. /\ pgTable' = [NoTable EXCEPT !.there = TRUE, !.width = width[home[t]], !.kind = TRUE]
          /\ schemaReady' = {home[t]} /\ Goes(t, AfterSchema(t))
      BY <1>6, <2>3, <3>1 DEF CreateSchema
    <3>3. pgTable' \in Table /\ pgTable'.there /\ pgTable'.kind /\ pgTable'.width = width[home[t]]
      BY <1>2, <3>2 DEF NoTable
    <3>4. /\ thread' \in [Thread -> [pc : PgSteps, writes : BOOLEAN, raw : BOOLEAN]]
          /\ thread'[t].pc = AfterSchema(t) /\ thread'[t].raw = thread[t].raw
          /\ \A u \in Thread : u # t => thread'[u] = thread[u]
          /\ outcome' = outcome
      BY <1>1, <1>3, <3>2, ThreadGoesOn
    <3> QED BY <1>1, <1>2, <1>3, <2>1, <3>1, <3>2, <3>3, <3>4, ThreadMoves DEF PgTypes
  <2> QED BY <2>2, <2>3
<1>7. CASE LookForKind(t)
  <2>1. /\ thread[t].pc = "kind" /\ kindEnsured' = kindEnsured \cup {home[t]}
        /\ UNCHANGED <<home, width, pgTable, schemaReady, halfway>>
        /\ Goes(t, IF home[t] \in kindEnsured \/ pgTable.kind THEN "write" ELSE "alter")
    BY <1>7 DEF LookForKind
  <2>2. home[t] \in schemaReady
    BY <1>1, <2>1 DEF ReadyFits
  <2>3. PICK pc \in {"write", "alter"} :
          Goes(t, pc) /\ (pc = "write" <=> home[t] \in kindEnsured \/ pgTable.kind)
    BY <2>1
  <2>4. /\ thread' \in [Thread -> [pc : PgSteps, writes : BOOLEAN, raw : BOOLEAN]]
        /\ thread'[t].pc = pc /\ thread'[t].raw = thread[t].raw
        /\ \A u \in Thread : u # t => thread'[u] = thread[u]
        /\ outcome' = outcome
    BY <1>1, <2>3, ThreadGoesOn DEF PgSteps
  <2> QED BY <1>1, <1>2, <2>1, <2>2, <2>3, <2>4, ThreadMoves DEF PgTypes, ReadyFits
<1>8. CASE AddKind(t)
  <2>1. /\ thread[t].pc = "alter" /\ pgTable' = [pgTable EXCEPT !.kind = TRUE]
        /\ UNCHANGED <<home, width, schemaReady, kindEnsured, halfway>>
        /\ Returns(t, "exists") \/ Goes(t, "write")
    BY <1>8 DEF AddKind
  <2>2. pgTable' \in Table /\ pgTable'.kind /\ pgTable'.there = pgTable.there /\ pgTable'.width = pgTable.width
    BY <1>1, <2>1
  <2>3. home[t] \in schemaReady
    BY <1>1, <2>1 DEF ReadyFits
  <2>4. /\ thread' \in [Thread -> [pc : PgSteps, writes : BOOLEAN, raw : BOOLEAN]]
        /\ \A u \in Thread : u # t => thread'[u] = thread[u]
        /\ outcome' \in [Thread -> {"none", "ok", "dimension", "exists", "lost", "no column"}]
    <3>1. CASE Returns(t, "exists")
      BY <1>1, <3>1, CallEnds
    <3>2. CASE Goes(t, "write")
      BY <1>1, <3>2, ThreadGoesOn DEF PgSteps, PgTypes
    <3> QED BY <2>1, <3>1, <3>2
  <2> QED BY <1>1, <1>2, <2>1, <2>2, <2>3, <2>4, ThreadMoves DEF ReadyFits
<1>9. CASE LoseConnection(t)
  <2>1. /\ halfway' = halfway \cup {home[t]} /\ Returns(t, "lost")
        /\ UNCHANGED <<home, width, pgTable, schemaReady, kindEnsured>>
    BY <1>9 DEF LoseConnection
  <2>2. /\ thread' \in [Thread -> [pc : PgSteps, writes : BOOLEAN, raw : BOOLEAN]]
        /\ thread'[t].pc = "idle"
        /\ \A u \in Thread : u # t => thread'[u] = thread[u]
        /\ outcome' \in [Thread -> {"none", "ok", "dimension", "exists", "lost", "no column"}]
    BY <1>1, <2>1, CallEnds
  <2> QED BY <1>1, <1>2, <2>1, <2>2, ThreadMoves DEF ReadyFits
<1>10. CASE WriteRows(t)
  <2>1. thread[t].pc = "write" /\ UNCHANGED <<home, width, schemaReady, kindEnsured, halfway>>
    BY <1>10 DEF WriteRows
  <2>2. CASE pgTable.kind
    <3>1. pgTable' = [pgTable EXCEPT !.stored = @ + 1] /\ Goes(t, "count") /\ "count" \in PgSteps
      BY <1>10, <2>2 DEF WriteRows, PgSteps
    <3>2. /\ pgTable' \in Table /\ pgTable'.kind = pgTable.kind
          /\ pgTable'.there = pgTable.there /\ pgTable'.width = pgTable.width
      BY <1>1, <3>1
    <3>3. home[t] \in schemaReady
      BY <1>1, <2>1 DEF ReadyFits
    <3> QED BY <1>1, <2>1, <3>1, <3>2, <3>3, CallGoesOn
  <2>3. CASE ~pgTable.kind
    <3>1. Returns(t, "no column") /\ UNCHANGED pgTable
      BY <1>10, <2>3 DEF WriteRows
    <3> QED BY <1>1, <2>1, <3>1, CallOnlyEnds
  <2> QED BY <2>2, <2>3
<1>11. CASE Read(t)
  <2>1. /\ thread[t].pc = "read" /\ Returns(t, "ok")
        /\ UNCHANGED <<home, width, pgTable, schemaReady, kindEnsured, halfway>>
    BY <1>11 DEF Read
  <2> QED BY <1>1, <2>1, CallOnlyEnds
<1>12. CASE LookForIndex(t)
  <2>1. /\ thread[t].pc = "count" /\ (Goes(t, "index") \/ Returns(t, "ok"))
        /\ UNCHANGED <<home, width, pgTable, schemaReady, kindEnsured, halfway>>
    BY <1>12 DEF LookForIndex
  <2>2. home[t] \in schemaReady /\ "index" \in PgSteps /\ thread[t].pc # "alter"
    BY <1>1, <1>12 DEF LookForIndex, ReadyFits, PgSteps
  <2>3. CASE Goes(t, "index")
    BY <1>1, <1>12, <2>2, <2>3, CallGoesOn DEF LookForIndex
  <2>4. CASE Returns(t, "ok")
    BY <1>1, <1>12, <2>2, <2>4, CallOnlyEnds DEF LookForIndex
  <2> QED BY <2>3, <2>4, <1>12 DEF LookForIndex
<1>13. CASE BuildIndex(t)
  <2>1. /\ thread[t].pc = "index" /\ Returns(t, "ok") /\ pgTable' = [pgTable EXCEPT !.indexed = TRUE]
        /\ UNCHANGED <<home, width, schemaReady, kindEnsured, halfway>>
    BY <1>13 DEF BuildIndex, BuiltAlready
  <2>2. /\ pgTable' \in Table /\ pgTable'.kind = pgTable.kind
        /\ pgTable'.there = pgTable.there /\ pgTable'.width = pgTable.width
    BY <1>1, <2>1
  <2> QED BY <1>1, <2>1, <2>2, CallOnlyEnds
<1> QED BY <1>4, <1>5, <1>6, <1>7, <1>8, <1>9, <1>10, <1>11, <1>12, <1>13

\* Every step keeps the invariant.
LEMMA PgInvStep == PgInv /\ [PgNext]_pgVars => PgInv'
<1> SUFFICES ASSUME PgInv, [PgNext]_pgVars PROVE PgInv'
  OBVIOUS
<1>1. ASSUME NEW p \in PgProcess, ServerDies(p) PROVE PgInv'
  BY <1>1 DEF PgInv, PgTypes, PgSteps, ReadyFits, NotedMigrates, ServerDies, AtRest
<1>2. CASE UNCHANGED pgVars
  BY <1>2 DEF pgVars, PgInv, PgTypes, ReadyFits, NotedMigrates
<1> QED BY <1>1, <1>2, ThreadStep DEF PgNext

\* A write that finds no column is raw, or its process was cut off or is at it.
LEMMA ColumnMissed ==
  ASSUME PgInv, PgNext, NEW t \in Thread, outcome'[t] = "no column", outcome[t] # "no column"
  PROVE  \/ thread[t].raw
         \/ home[t] \in halfway
         \/ \E u \in Thread \ {t} : home[u] = home[t] /\ thread[u].pc = "alter"
<1> USE DEF PgInv, PgTypes
<1>1. ASSUME NEW u \in Thread, NEW with, Returns(u, with) PROVE u = t /\ with = "no column"
  <2>1. outcome' = [outcome EXCEPT ![u] = with]
    BY <1>1 DEF Returns
  <2> QED BY <2>1
<1> HIDE DEF PgInv, PgTypes
<1>2. ASSUME NEW p \in PgProcess, ServerDies(p) PROVE FALSE
  BY <1>2 DEF ServerDies, PgInv, PgTypes
<1>3. ASSUME NEW u \in Thread,
             \/ PgCall(u) \/ LookForSchema(u) \/ CreateSchema(u) \/ LookForKind(u) \/ AddKind(u)
             \/ LoseConnection(u) \/ Read(u) \/ LookForIndex(u) \/ BuildIndex(u)
      PROVE  FALSE
  <2>1. CASE PgCall(u)
    BY <2>1 DEF PgCall, PgInv, PgTypes
  <2>2. CASE LookForSchema(u) \/ CreateSchema(u)
    BY <1>1, <2>2 DEF LookForSchema, CreateSchema, Goes
  <2>3. CASE LookForKind(u) \/ AddKind(u) \/ LoseConnection(u)
    <3>1. ASSUME NEW pc, Goes(u, pc) PROVE FALSE
      BY <3>1 DEF Goes
    <3>2. CASE LookForKind(u)
      BY <3>1, <3>2 DEF LookForKind
    <3>3. CASE AddKind(u)
      BY <1>1, <3>1, <3>3 DEF AddKind
    <3>4. CASE LoseConnection(u)
      <4>1. Returns(u, "lost")
        BY <3>4 DEF LoseConnection
      <4>2. "lost" = "no column"
        BY <1>1, <4>1
      <4> QED BY <4>2
    <3> QED BY <2>3, <3>2, <3>3, <3>4
  <2>4. CASE Read(u) \/ LookForIndex(u) \/ BuildIndex(u)
    BY <1>1, <2>4 DEF Read, LookForIndex, BuildIndex, BuiltAlready, Goes
  <2> QED BY <1>3, <2>1, <2>2, <2>3, <2>4
<1>4. PICK u \in Thread : WriteRows(u)
  BY <1>2, <1>3 DEF PgNext
<1>5. u = t /\ ~pgTable.kind /\ thread[t].pc = "write"
  BY <1>1, <1>4 DEF WriteRows, Goes
<1> QED BY <1>5 DEF PgInv, NotedMigrates

\* PostgreSQL: only processes of the table's dimension read and write, a write that
\* is stored is answered, and none fails for want of the column without a reason.
THEOREM PgIsSound == PgSpec => PgSound
<1> DEFINE IndexAnswered == \A t \in Thread : BuildIndex(t) => outcome'[t] = "ok"
           Found == \A t \in Thread : outcome'[t] = "no column" /\ outcome[t] # "no column" =>
             \/ thread[t].raw
             \/ home[t] \in halfway
             \/ \E u \in Thread \ {t} : home[u] = home[t] /\ thread[u].pc = "alter"
<1>1. PgInv => OneDimension
  BY DEF PgInv, PgTypes, ReadyFits, OneDimension
<1>2. PgInv /\ [PgNext]_pgVars => [IndexAnswered]_pgVars
  BY DEF PgInv, PgTypes, BuildIndex, BuiltAlready, Returns
<1>3. PgInv /\ [PgNext]_pgVars => [Found]_pgVars
  BY ColumnMissed
<1> QED BY <1>1, <1>2, <1>3, PgInvInit, PgInvStep, PTL DEF PgSpec, PgSound, StoredIsAnswered, ColumnThere

-----------------------------------------------------------------------------
(* Facts: rows of a fact, and the entities they name.                      *)

EntityName == UNION {Ends(f) : f \in FactOf}
Dated == -1..MaxDay
FactRow == [fact : FactOf, from : Dated, to : Dated, beside : BOOLEAN]
Adding ==
  [at : {"idle", "subject", "object", "look", "insert"}, fact : FactOf \cup {<<>>}, from : Dated, to : Dated,
   mine : SUBSET EntityName, beside : BOOLEAN]

\* What the proofs need of the values.
FactsTypes ==
  /\ triples \in Seq(FactRow) /\ known \subseteq EntityName /\ adding \in [Writer -> Adding]
  /\ \A w \in Writer : adding[w].at # "idle" => adding[w].fact \in FactOf /\ store = "postgres"

\* A writer that is about to insert a row, and saw no change of its fact since it
\* looked, has no current row beside it.
LookedWell ==
  \A w \in Writer : adding[w].at = "insert" /\ ~adding[w].beside => CurrentRows(adding[w].fact) = {}

\* A writer has registered the ends of its fact before it looks.
Registered ==
  \A w \in Writer :
    /\ adding[w].at = "object" => adding[w].fact[1] \in known \cup adding[w].mine
    /\ adding[w].at \in {"look", "insert"} => Ends(adding[w].fact) \subseteq known \cup adding[w].mine

\* The inductive invariant.
FactsInv == FactsTypes /\ LookedWell /\ Registered /\ OneCurrent /\ NamesKnown

LEMMA DaysDated == NoDay \in Dated /\ Day \subseteq Dated /\ Dated \subseteq Int
BY FactsAssumption DEF Dated, Day, NoDay

LEMMA FactsInvInit == FactsInit => FactsInv
<1> SUFFICES ASSUME FactsInit PROVE FactsInv
  OBVIOUS
<1>1. triples = <<>> /\ known = {} /\ adding = [w \in Writer |-> NotCalled]
  BY DEF FactsInit
<1>2. NotCalled \in Adding /\ NotCalled.at = "idle"
  BY DaysDated DEF NotCalled, Adding
<1>3. triples \in Seq(FactRow) /\ Len(triples) = 0
  BY <1>1
<1>4. DOMAIN triples = {}
  BY <1>3
<1>5. FactsTypes /\ LookedWell /\ Registered
  BY <1>1, <1>2, <1>3 DEF FactsTypes, LookedWell, Registered
<1>6. OneCurrent /\ NamesKnown
  BY <1>4 DEF OneCurrent, NamesKnown, CurrentRows
<1> QED BY <1>5, <1>6 DEF FactsInv

\* What a new row has to see to.
LEMMA RowAdded ==
  ASSUME FactsInv, NEW c \in Adding, c.fact \in FactOf, triples' = AddRow(c), UNCHANGED store,
         Ends(c.fact) \subseteq known', known \subseteq known',
         CurrentRows(c.fact) = {} \/ (store = "postgres" /\ c.beside)
  PROVE  /\ triples' \in Seq(FactRow) /\ OneCurrent' /\ NamesKnown'
         /\ \A f \in FactOf \ {c.fact} : CurrentRows(f)' = CurrentRows(f)
<1> DEFINE row == [fact |-> c.fact, from |-> c.from, to |-> c.to, beside |-> c.beside]
           n == Len(triples)
<1>1. row \in FactRow /\ triples \in Seq(FactRow) /\ n \in Nat
  BY DEF FactRow, Adding, FactsInv, FactsTypes
<1>2. triples' = Append(triples, row)
  BY DEF AddRow
<1>3. row.fact = c.fact /\ row.beside = c.beside
  OBVIOUS
<1> HIDE DEF row
<1>4. /\ triples' \in Seq(FactRow) /\ DOMAIN triples = 1..n /\ DOMAIN triples' = 1..(n + 1)
      /\ \A i \in 1..n : triples'[i] = triples[i]
      /\ triples'[n + 1] = row
  BY <1>1, <1>2
<1>5. \A i \in 1..n : \A f : i \in CurrentRows(f)' <=> i \in CurrentRows(f)
  BY <1>4 DEF CurrentRows, Current
<1>6. \A f : n + 1 \in CurrentRows(f)' => f = c.fact
  BY <1>3, <1>4 DEF CurrentRows
<1>7. \A f : CurrentRows(f) \subseteq 1..n /\ CurrentRows(f)' \subseteq 1..(n + 1)
  BY <1>4 DEF CurrentRows
<1>8. OneCurrent'
  <2> SUFFICES ASSUME NEW f \in FactOf, NEW i \in CurrentRows(f)', NEW j \in CurrentRows(f)', i < j
               PROVE  store' = "postgres" /\ (triples'[i].beside \/ triples'[j].beside)
    BY DEF OneCurrent
  <2>1. i \in 1..n /\ j \in 1..(n + 1)
    BY <1>1, <1>7
  <2>2. CASE j \in 1..n
    <3>1. i \in CurrentRows(f) /\ j \in CurrentRows(f)
      BY <1>5, <2>1, <2>2
    <3>2. store = "postgres" /\ (triples[i].beside \/ triples[j].beside)
      BY <3>1 DEF FactsInv, OneCurrent
    <3> QED BY <1>4, <2>1, <2>2, <3>2
  <2>3. CASE j = n + 1
    <3>1. f = c.fact /\ i \in CurrentRows(c.fact)
      BY <1>5, <1>6, <2>1, <2>3
    <3> QED BY <1>3, <1>4, <2>3, <3>1
  <2> QED BY <1>1, <2>1, <2>2, <2>3
<1>9. NamesKnown'
  <2> SUFFICES ASSUME NEW i \in 1..(n + 1) PROVE Ends(triples'[i].fact) \subseteq known'
    BY <1>4 DEF NamesKnown
  <2>1. CASE i = n + 1
    BY <1>3, <1>4, <2>1
  <2>2. CASE i \in 1..n
    BY <1>4, <2>2 DEF FactsInv, NamesKnown
  <2> QED BY <1>1, <2>1, <2>2
<1>10. ASSUME NEW f \in FactOf \ {c.fact} PROVE CurrentRows(f)' = CurrentRows(f)
  <2>1. n + 1 \notin CurrentRows(f)'
    BY <1>6
  <2>2. \A i \in CurrentRows(f)' : i \in 1..n
    BY <1>1, <1>7, <2>1
  <2>3. \A i : i \in CurrentRows(f)' <=> i \in CurrentRows(f)
    BY <1>5, <1>7, <2>2
  <2> QED BY <2>3
<1> QED BY <1>4, <1>8, <1>9, <1>10

\* The names of a fact.
LEMMA EndsAreNames == \A f \in FactOf : Ends(f) \subseteq EntityName
BY DEF EntityName

LEMMA AddSqliteKeeps ==
  ASSUME FactsInv, NEW w \in Writer, NEW f \in FactOf, NEW from \in Dated, NEW to \in Dated, AddSqlite(w, f, from, to)
  PROVE  FactsInv'
<1>1. /\ known' = known \cup Ends(f) /\ UNCHANGED <<store, adding>> /\ store = "sqlite"
  BY DEF AddSqlite
<1>2. \A v \in Writer : adding[v].at = "idle"
  BY <1>1 DEF FactsInv, FactsTypes
<1>3. known' \subseteq EntityName
  BY <1>1, EndsAreNames DEF FactsInv, FactsTypes
<1>4. triples' \in Seq(FactRow) /\ OneCurrent' /\ NamesKnown'
  <2>1. CASE AlreadyCurrent(f)
    <3>1. triples' = triples
      BY <2>1 DEF AddSqlite
    <3> QED BY <1>1, <3>1 DEF FactsInv, FactsTypes, OneCurrent, NamesKnown, CurrentRows
  <2>2. CASE ~AlreadyCurrent(f)
    <3>1. PICK c : c = [NotCalled EXCEPT !.fact = f, !.from = from, !.to = to]
      OBVIOUS
    <3>2. c \in Adding /\ c.fact = f
      BY <3>1, DaysDated DEF NotCalled, Adding
    <3>3. triples' = AddRow(c) /\ CurrentRows(f) = {}
      BY <2>2, <3>1 DEF AddSqlite, AlreadyCurrent
    <3> QED BY <1>1, <3>2, <3>3, RowAdded
  <2> QED BY <2>1, <2>2
<1>5. FactsTypes' /\ LookedWell' /\ Registered'
  BY <1>1, <1>2, <1>3, <1>4 DEF FactsInv, FactsTypes, LookedWell, Registered
<1> QED BY <1>4, <1>5 DEF FactsInv

\* One writer goes on, and the rows stay.
LEMMA WriterMoves ==
  ASSUME FactsInv, NEW w \in Writer, NEW c \in Adding, adding' = [adding EXCEPT ![w] = c],
         UNCHANGED <<store, triples>>, known \subseteq known', known' \subseteq EntityName,
         c.at # "idle" => c.fact \in FactOf /\ store = "postgres",
         c.at = "insert" /\ ~c.beside => CurrentRows(c.fact) = {},
         c.at = "object" => c.fact[1] \in known' \cup c.mine,
         c.at \in {"look", "insert"} => Ends(c.fact) \subseteq known' \cup c.mine
  PROVE  FactsInv'
<1>1. /\ adding' \in [Writer -> Adding] /\ adding'[w] = c /\ \A v \in Writer \ {w} : adding'[v] = adding[v]
  BY DEF FactsInv, FactsTypes
<1>2. FactsTypes'
  BY <1>1 DEF FactsInv, FactsTypes
<1>3. LookedWell'
  <2> SUFFICES ASSUME NEW v \in Writer, adding'[v].at = "insert", ~adding'[v].beside
               PROVE  CurrentRows(adding'[v].fact) = {}
    BY DEF LookedWell, CurrentRows
  <2> QED BY <1>1 DEF FactsInv, LookedWell
<1>4. Registered'
  BY <1>1 DEF FactsInv, Registered
<1>5. OneCurrent' /\ NamesKnown'
  BY DEF FactsInv, OneCurrent, NamesKnown, CurrentRows
<1> QED BY <1>2, <1>3, <1>4, <1>5 DEF FactsInv

LEMMA AddPostgresKeeps ==
  ASSUME FactsInv, NEW w \in Writer, NEW f \in FactOf, NEW from \in Dated, NEW to \in Dated, AddPostgres(w, f, from, to)
  PROVE  FactsInv'
<1>1. PICK c : c = [at |-> "subject", fact |-> f, from |-> from, to |-> to, mine |-> {}, beside |-> FALSE]
  OBVIOUS
<1>2. c \in Adding /\ c.at = "subject" /\ c.fact = f
  BY <1>1 DEF Adding
<1>3. adding' = [adding EXCEPT ![w] = c] /\ UNCHANGED <<store, triples, known>> /\ store = "postgres"
  BY <1>1 DEF AddPostgres
<1>4. known \subseteq EntityName
  BY DEF FactsInv, FactsTypes
<1> QED BY <1>2, <1>3, <1>4, WriterMoves

\* A call ends; what it had registered is committed or gone.
LEMMA CallOver ==
  ASSUME FactsInv, NEW w \in Writer, adding' = [adding EXCEPT ![w] = NotCalled],
         UNCHANGED <<store, triples>>, known \subseteq known', known' \subseteq EntityName
  PROVE  FactsInv'
<1>1. NotCalled \in Adding /\ NotCalled.at = "idle"
  BY DaysDated DEF NotCalled, Adding
<1> QED BY <1>1, WriterMoves

LEMMA RegisterKeeps == ASSUME FactsInv, NEW w \in Writer, Register(w) PROVE FactsInv'
<1> DEFINE a == adding[w]
           name == Registering(w)
           mine == IF name \in known THEN a.mine ELSE a.mine \cup {name}
           at == IF a.at = "subject" THEN "object" ELSE "look"
           c == [a EXCEPT !.at = at, !.mine = mine]
<1>1. /\ a \in Adding /\ a.at \in {"subject", "object"} /\ a.fact \in FactOf /\ store = "postgres"
      /\ UNCHANGED <<store, triples, known>> /\ known \subseteq EntityName
  BY DEF Register, FactsInv, FactsTypes
<1>2. adding' = [adding EXCEPT ![w] = c]
  BY DEF Register
<1>3. name \in Ends(a.fact) /\ Ends(a.fact) \subseteq EntityName
  BY <1>1, EndsAreNames DEF Registering, Ends
<1>4. mine \in SUBSET EntityName /\ name \in known \cup mine /\ a.mine \subseteq mine
  BY <1>1, <1>3 DEF Adding
<1> HIDE DEF mine
<1>5. /\ c \in Adding /\ c.at = at /\ c.mine = mine /\ c.fact = a.fact /\ c.beside = a.beside
  BY <1>1, <1>4 DEF Adding
<1> HIDE DEF c
<1>6. CASE a.at = "subject"
  <2>1. name = a.fact[1] /\ c.at = "object"
    BY <1>5, <1>6 DEF Registering
  <2> QED BY <1>1, <1>2, <1>4, <1>5, <2>1, WriterMoves
<1>7. CASE a.at = "object"
  <2>1. name = a.fact[2] /\ c.at = "look"
    BY <1>5, <1>7 DEF Registering
  <2>2. a.fact[1] \in known \cup mine
    BY <1>4, <1>7 DEF FactsInv, Registered
  <2>3. Ends(c.fact) \subseteq known \cup c.mine
    BY <1>4, <1>5, <2>1, <2>2 DEF Ends
  <2> QED BY <1>1, <1>2, <1>5, <2>1, <2>3, WriterMoves
<1> QED BY <1>1, <1>6, <1>7

LEMMA LookKeeps == ASSUME FactsInv, NEW w \in Writer, LookForCurrent(w) PROVE FactsInv'
<1>1. /\ adding[w] \in Adding /\ adding[w].at = "look" /\ adding[w].fact \in FactOf /\ store = "postgres"
      /\ UNCHANGED <<store, triples>> /\ known \subseteq EntityName /\ adding[w].mine \subseteq EntityName
  BY DEF LookForCurrent, FactsInv, FactsTypes, Adding
<1>2. CASE AlreadyCurrent(adding[w].fact)
  <2>1. known' = known \cup adding[w].mine /\ adding' = [adding EXCEPT ![w] = NotCalled]
    BY <1>2 DEF LookForCurrent
  <2> QED BY <1>1, <2>1, CallOver
<1>3. CASE ~AlreadyCurrent(adding[w].fact)
  <2>1. PICK c : c = [adding[w] EXCEPT !.at = "insert"]
    OBVIOUS
  <2>2. c \in Adding /\ c.at = "insert" /\ c.fact = adding[w].fact /\ c.mine = adding[w].mine
    BY <1>1, <2>1 DEF Adding
  <2>3. adding' = [adding EXCEPT ![w] = c] /\ UNCHANGED known
    BY <1>3, <2>1 DEF LookForCurrent
  <2>4. CurrentRows(c.fact) = {} /\ Ends(c.fact) \subseteq known \cup c.mine
    BY <1>1, <1>3, <2>2 DEF AlreadyCurrent, FactsInv, Registered
  <2> QED BY <1>1, <2>2, <2>3, <2>4, WriterMoves
<1> QED BY <1>2, <1>3

\* After a change of a fact the others that are at it know.
LEMMA OthersKnow ==
  ASSUME FactsInv, NEW w \in Writer, NEW f \in FactOf, NEW c \in Adding, c.at = "idle",
         adding' = [Disturbed(f, w) EXCEPT ![w] = c]
  PROVE  /\ adding' \in [Writer -> Adding] /\ adding'[w] = c
         /\ \A v \in Writer \ {w} :
              /\ adding'[v].at = adding[v].at /\ adding'[v].fact = adding[v].fact /\ adding'[v].mine = adding[v].mine
              /\ adding'[v].beside <=> (adding[v].beside \/ adding[v].fact = f)
<1> DEFINE d == Disturbed(f, w)
<1>1. ASSUME NEW v \in Writer \ {w}
      PROVE  /\ d[v] \in Adding
             /\ d[v].at = adding[v].at /\ d[v].fact = adding[v].fact /\ d[v].mine = adding[v].mine
             /\ d[v].beside <=> (adding[v].beside \/ adding[v].fact = f)
  <2>1. adding[v] \in Adding /\ d[v] = IF adding[v].fact = f THEN [adding[v] EXCEPT !.beside = TRUE] ELSE adding[v]
    BY DEF FactsInv, FactsTypes, Disturbed
  <2> HIDE DEF d
  <2>2. CASE adding[v].fact = f
    BY <2>1, <2>2 DEF Adding
  <2>3. CASE adding[v].fact # f
    BY <2>1, <2>3 DEF Adding
  <2> QED BY <2>2, <2>3
<1>2. DOMAIN d = Writer /\ d[w] \in Adding
  BY DEF Disturbed, FactsInv, FactsTypes
<1>3. d \in [Writer -> Adding]
  BY <1>1, <1>2 DEF Disturbed
<1> HIDE DEF d
<1>4. adding' = [d EXCEPT ![w] = c]
  BY DEF d
<1> QED BY <1>1, <1>3, <1>4

LEMMA InsertKeeps == ASSUME FactsInv, NEW w \in Writer, InsertRow(w) PROVE FactsInv'
<1> DEFINE c == adding[w]
<1>1. /\ c \in Adding /\ c.at = "insert" /\ c.fact \in FactOf /\ store = "postgres" /\ c.mine \subseteq EntityName
      /\ triples' = AddRow(c) /\ known' = known \cup c.mine /\ UNCHANGED store
      /\ adding' = [Disturbed(c.fact, w) EXCEPT ![w] = NotCalled]
  BY DEF InsertRow, FactsInv, FactsTypes, Adding
<1>2. Ends(c.fact) \subseteq known' /\ known' \subseteq EntityName
  BY <1>1 DEF FactsInv, FactsTypes, Registered
<1>3. CurrentRows(c.fact) = {} \/ c.beside
  BY <1>1 DEF FactsInv, LookedWell
<1>4. /\ triples' \in Seq(FactRow) /\ OneCurrent' /\ NamesKnown'
      /\ \A f \in FactOf \ {c.fact} : CurrentRows(f)' = CurrentRows(f)
  BY <1>1, <1>2, <1>3, RowAdded
<1>5. NotCalled \in Adding /\ NotCalled.at = "idle"
  BY DaysDated DEF NotCalled, Adding
<1>6. /\ adding' \in [Writer -> Adding] /\ adding'[w] = NotCalled
      /\ \A v \in Writer \ {w} :
           /\ adding'[v].at = adding[v].at /\ adding'[v].fact = adding[v].fact /\ adding'[v].mine = adding[v].mine
           /\ adding'[v].beside <=> (adding[v].beside \/ adding[v].fact = c.fact)
  BY <1>1, <1>5, OthersKnow
<1> HIDE DEF c
<1>7. FactsTypes'
  BY <1>1, <1>2, <1>4, <1>5, <1>6 DEF FactsInv, FactsTypes
<1>8. LookedWell'
  <2> SUFFICES ASSUME NEW v \in Writer, adding'[v].at = "insert", ~adding'[v].beside
               PROVE  (CurrentRows(adding[v].fact) = {})'
    BY DEF LookedWell
  <2>1. v # w /\ adding[v].at = "insert" /\ ~adding[v].beside /\ adding[v].fact # c.fact
        /\ adding'[v].fact = adding[v].fact /\ adding[v].fact \in FactOf
    BY <1>5, <1>6 DEF FactsInv, FactsTypes
  <2>2. PICK f \in FactOf \ {c.fact} : f = adding[v].fact
    BY <2>1
  <2>3. CurrentRows(f)' = CurrentRows(f) /\ CurrentRows(f) = {}
    BY <1>4, <2>1, <2>2 DEF FactsInv, LookedWell
  <2> QED BY <2>1, <2>2, <2>3 DEF CurrentRows
<1>9. Registered'
  BY <1>1, <1>5, <1>6 DEF FactsInv, Registered
<1> QED BY <1>4, <1>7, <1>8, <1>9 DEF FactsInv

\* The rows of a fact that ends.
LEMMA RowsEnd ==
  ASSUME FactsInv, NEW f \in FactOf, NEW day \in Day, triples' = EndedRows(f, day)
  PROVE  /\ triples' \in Seq(FactRow) /\ DOMAIN triples' = DOMAIN triples
         /\ \A i \in DOMAIN triples :
              /\ triples'[i].fact = triples[i].fact /\ triples'[i].from = triples[i].from
              /\ triples'[i].beside = triples[i].beside
              /\ triples'[i].to = IF i \in CurrentRows(f) THEN day ELSE triples[i].to
         /\ CurrentRows(f)' = {} /\ \A g : CurrentRows(g)' \subseteq CurrentRows(g)
<1>1. triples \in Seq(FactRow) /\ Len(triples) \in Nat /\ DOMAIN triples = 1..Len(triples) /\ day \in Dated /\ day # NoDay
  BY FactsAssumption, DaysDated DEF FactsInv, FactsTypes, Day, NoDay
<1>2. /\ DOMAIN triples' = DOMAIN triples
      /\ \A i \in DOMAIN triples :
           triples'[i] = IF i \in CurrentRows(f) THEN [triples[i] EXCEPT !.to = day] ELSE triples[i]
  BY DEF EndedRows
<1>3. ASSUME NEW i \in DOMAIN triples
      PROVE  /\ triples'[i] \in FactRow
             /\ triples'[i].fact = triples[i].fact /\ triples'[i].from = triples[i].from
             /\ triples'[i].beside = triples[i].beside
             /\ triples'[i].to = IF i \in CurrentRows(f) THEN day ELSE triples[i].to
  <2>1. triples[i] \in FactRow
    BY <1>1
  <2> QED BY <1>1, <1>2, <2>1 DEF FactRow
<1>4. triples' \in Seq(FactRow)
  <2>1. triples' \in [1..Len(triples) -> FactRow]
    BY <1>1, <1>2, <1>3 DEF EndedRows
  <2> QED BY <1>1, <2>1
<1>5. CurrentRows(f)' = {} /\ \A g : CurrentRows(g)' \subseteq CurrentRows(g)
  <2>1. ASSUME NEW g, NEW i \in CurrentRows(g)' PROVE i \in CurrentRows(g) /\ i \notin CurrentRows(f)
    BY <1>1, <1>2, <1>3, <2>1 DEF CurrentRows, Current
  <2>2. \A i \in CurrentRows(f)' : FALSE
    BY <2>1
  <2> QED BY <2>1, <2>2
<1> QED BY <1>2, <1>3, <1>4, <1>5

LEMMA EndKeeps ==
  ASSUME FactsInv, NEW w \in Writer, NEW f \in FactOf, NEW day \in Day, EndFact(w, f, day)
  PROVE  FactsInv'
<1>1. /\ adding[w].at = "idle" /\ triples' = EndedRows(f, day) /\ adding' = Disturbed(f, w)
      /\ UNCHANGED <<store, known>> /\ adding[w] \in Adding
  BY DEF EndFact, FactsInv, FactsTypes
<1>2. /\ triples' \in Seq(FactRow) /\ DOMAIN triples' = DOMAIN triples
      /\ \A i \in DOMAIN triples : triples'[i].fact = triples[i].fact /\ triples'[i].beside = triples[i].beside
      /\ CurrentRows(f)' = {} /\ \A g : CurrentRows(g)' \subseteq CurrentRows(g)
  BY <1>1, RowsEnd
<1>3. PICK c \in Adding : c = adding[w] /\ c.at = "idle"
  BY <1>1
<1>10. adding' = [Disturbed(f, w) EXCEPT ![w] = c]
  BY <1>1, <1>3 DEF Disturbed
<1>4. /\ adding' \in [Writer -> Adding] /\ adding'[w] = c
      /\ \A v \in Writer \ {w} :
           /\ adding'[v].at = adding[v].at /\ adding'[v].fact = adding[v].fact /\ adding'[v].mine = adding[v].mine
           /\ adding'[v].beside <=> (adding[v].beside \/ adding[v].fact = f)
  BY <1>3, <1>10, OthersKnow
<1>5. FactsTypes'
  BY <1>1, <1>2, <1>3, <1>4 DEF FactsInv, FactsTypes
<1>6. LookedWell'
  <2> SUFFICES ASSUME NEW v \in Writer, adding'[v].at = "insert", ~adding'[v].beside
               PROVE  (CurrentRows(adding[v].fact) = {})'
    BY DEF LookedWell
  <2>1. adding[v].at = "insert" /\ ~adding[v].beside /\ adding'[v].fact = adding[v].fact
    BY <1>1, <1>3, <1>4
  <2>2. PICK g : g = adding[v].fact
    OBVIOUS
  <2>3. CurrentRows(g)' = {}
    BY <1>2, <2>1, <2>2 DEF FactsInv, LookedWell
  <2> QED BY <2>1, <2>2, <2>3 DEF CurrentRows
<1>7. Registered'
  BY <1>1, <1>3, <1>4 DEF FactsInv, Registered
<1>8. OneCurrent'
  <2> SUFFICES ASSUME NEW g \in FactOf, NEW i \in CurrentRows(g)', NEW j \in CurrentRows(g)', i < j
               PROVE  store' = "postgres" /\ (triples'[i].beside \/ triples'[j].beside)
    BY DEF OneCurrent
  <2>1. i \in CurrentRows(g) /\ j \in CurrentRows(g)
    BY <1>2
  <2>2. store = "postgres" /\ (triples[i].beside \/ triples[j].beside) /\ i \in DOMAIN triples /\ j \in DOMAIN triples
    BY <2>1 DEF FactsInv, OneCurrent, CurrentRows
  <2> QED BY <1>1, <1>2, <2>2
<1>9. NamesKnown'
  BY <1>1, <1>2 DEF FactsInv, NamesKnown
<1> QED BY <1>5, <1>6, <1>7, <1>8, <1>9 DEF FactsInv

LEMMA FactsInvStep == FactsInv /\ [FactsNext]_factVars => FactsInv'
<1> SUFFICES ASSUME FactsInv, [FactsNext]_factVars PROVE FactsInv'
  OBVIOUS
<1>1. CASE UNCHANGED factVars
  BY <1>1 DEF factVars, FactsInv, FactsTypes, LookedWell, Registered, OneCurrent, NamesKnown, CurrentRows
<1>2. ASSUME NEW w \in Writer, AddFails(w) PROVE FactsInv'
  <2>1. known \subseteq EntityName
    BY DEF FactsInv, FactsTypes
  <2> QED BY <1>2, <2>1, CallOver DEF AddFails
<1>3. ASSUME NEW w \in Writer, NEW f \in FactOf, NEW span \in Span,
             AddSqlite(w, f, span[1], span[2]) \/ AddPostgres(w, f, span[1], span[2])
      PROVE  FactsInv'
  <2>1. span[1] \in Dated /\ span[2] \in Dated
    BY FactsAssumption DEF Dated
  <2> QED BY <1>3, <2>1, AddSqliteKeeps, AddPostgresKeeps
<1> QED BY <1>1, <1>2, <1>3, RegisterKeeps, LookKeeps, InsertKeeps, EndKeeps DEF FactsNext

\* What ends on a day leaves the answers about it, and about those before it.
LEMMA EndKeepsHistory ==
  ASSUME FactsInv, NEW w \in Writer, NEW f \in FactOf, NEW end \in Day, EndFact(w, f, end)
  PROVE  /\ \A day \in 0..end : QueryRelationship(triples, day) = QueryRelationship(triples', day)
         /\ QueryRelationship(triples, NoDay) = QueryRelationship(triples', NoDay)
         /\ CurrentRows(f)' = {}
<1>1. /\ DOMAIN triples' = DOMAIN triples
      /\ \A i \in DOMAIN triples :
           /\ triples'[i].from = triples[i].from
           /\ triples'[i].to = IF i \in CurrentRows(f) THEN end ELSE triples[i].to
      /\ CurrentRows(f)' = {}
  BY RowsEnd DEF EndFact
<1>2. ASSUME NEW day \in 0..end, NEW i \in DOMAIN triples PROVE ValidOn(triples[i], day) <=> ValidOn(triples'[i], day)
  <2>1. CASE i \in CurrentRows(f)
    <3>1. triples[i].to = NoDay /\ triples'[i].to = end /\ end >= day
      BY <1>1, <2>1, FactsAssumption DEF CurrentRows, Current, Day
    <3> QED BY <1>1, <3>1 DEF ValidOn
  <2>2. CASE i \notin CurrentRows(f)
    BY <1>1, <2>2 DEF ValidOn
  <2> QED BY <2>1, <2>2
<1> QED BY <1>1, <1>2 DEF QueryRelationship

\* In a timeline, whatever its length, every dated triple comes before the undated
\* ones.
LEMMA TimelineDatedFirst == FactsTypes => DatedFirst
<1> SUFFICES ASSUME FactsTypes, NEW f \in FactOf, NEW most \in 1..Len(triples),
                    NEW r \in ToSet(Timeline(f[1], most)), r.from = NoDay,
                    NEW j \in About(f[1]), triples[j].from # NoDay
             PROVE  triples[j] \in ToSet(Timeline(f[1], most))
  BY DEF DatedFirst
<1> DEFINE A == About(f[1])
           R == ByFirstDay(f[1])
           n == Cardinality(A)
           m == IF n < most THEN n ELSE most
           at == Ordered(A, R)
<1>1. /\ triples \in Seq(FactRow) /\ Len(triples) \in Nat /\ DOMAIN triples = 1..Len(triples)
      /\ \A k \in DOMAIN triples : triples[k] \in FactRow
  BY DEF FactsTypes
<1>2. A \subseteq 1..Len(triples)
  BY <1>1 DEF About
<1>3. IsFiniteSet(A)
  <2>1. IsFiniteSet(1..Len(triples))
    BY <1>1, FS_Interval
  <2> QED BY <1>2, <2>1, FS_Subset
<1>4. \A k \in A : FirstDay(k) \in Int /\ k \in Int /\ triples[k].from \in Dated
  <2>1. \A k \in A : triples[k].from \in Dated /\ k \in Int
    BY <1>1, <1>2 DEF FactRow
  <2> QED BY <2>1, DaysDated, FactsAssumption DEF FirstDay
<1>5. \A k, l \in A : <<k, l>> \in R <=> FirstDay(k) < FirstDay(l) \/ (FirstDay(k) = FirstDay(l) /\ k < l)
  BY DEF ByFirstDay
<1>6. Timeline(f[1], most) = [k \in 1..m |-> triples[at[k]]]
  BY DEF Timeline
<1>7. \A k \in A : triples[k].from # NoDay => FirstDay(k) <= MaxDay
  BY <1>4 DEF FirstDay, Dated
<1>8. \A k \in A : triples[k].from = NoDay => FirstDay(k) > MaxDay
  BY FactsAssumption DEF FirstDay
<1> HIDE DEF A, R
<1>9. StrictOrder(A, R)
  BY <1>4, <1>5 DEF StrictOrder
<1>10. /\ n \in Nat /\ at \in [1..n -> A] /\ \A x \in A : \E i \in 1..n : at[i] = x
       /\ \A k, l \in 1..n : k < l => <<at[k], at[l]>> \in R
  BY <1>3, <1>9, OrderedRows
<1>11. m \in Nat /\ m <= n
  BY <1>1, <1>10
<1> HIDE DEF n, at, m
<1>12. PICK k \in 1..m : r = triples[at[k]]
  BY <1>6 DEF ToSet
<1>13. PICK l \in 1..n : at[l] = j
  BY <1>10 DEF A
<1>14. k \in 1..n /\ at[k] \in A /\ at[l] \in A
  BY <1>10, <1>11, <1>12
<1>15. FirstDay(at[l]) < FirstDay(at[k])
  BY <1>4, <1>7, <1>8, <1>12, <1>13, <1>14, FactsAssumption
<1>16. l < k
  <2>1. l # k
    BY <1>4, <1>14, <1>15
  <2>2. ASSUME k < l PROVE FALSE
    <3>1. <<at[k], at[l]>> \in R
      BY <1>10, <1>14, <2>2
    <3>2. FirstDay(at[k]) < FirstDay(at[l]) \/ FirstDay(at[k]) = FirstDay(at[l])
      BY <1>5, <1>14, <3>1
    <3> QED BY <1>4, <1>14, <1>15, <3>2
  <2>3. k \in Int /\ l \in Int
    BY <1>12, <1>13
  <2> QED BY <2>1, <2>2, <2>3
<1>17. l \in 1..m
  BY <1>11, <1>16
<1> QED BY <1>6, <1>13, <1>17 DEF ToSet

\* Facts: one current row, whose ends are known, which answers from both ends, and a
\* history that does not change.
THEOREM FactsAreKept == FactsSpec => FactsSound
<1> DEFINE HistoryStays == \A w \in Writer, f \in FactOf, end \in Day :
             EndFact(w, f, end) =>
               /\ \A day \in 0..end : QueryRelationship(triples, day) = QueryRelationship(triples', day)
               /\ QueryRelationship(triples, NoDay) = QueryRelationship(triples', NoDay)
               /\ CurrentRows(f)' = {}
<1>1. FactsInv => OneCurrent /\ NamesKnown /\ BothWays /\ DatedFirst
  BY TimelineDatedFirst DEF FactsInv, BothWays, QueryEntity
<1>2. FactsInv /\ [FactsNext]_factVars => [HistoryStays]_factVars
  BY EndKeepsHistory
<1> QED BY <1>1, <1>2, FactsInvInit, FactsInvStep, PTL DEF FactsSpec, FactsSound, HistoryKept

\* The values of the graph's rows, entities and writers.
THEOREM FactsTyped == FactsSpec => []FactsTypeOK
<1>1. FactsInv => FactsTypeOK
  <2> SUFFICES ASSUME FactsInv PROVE FactsTypeOK
    OBVIOUS
  <2>1. triples \in Seq(FactRow) /\ known \subseteq EntityName /\ adding \in [Writer -> Adding]
    BY DEF FactsInv, FactsTypes
  <2>2. Dated \subseteq Day \cup {NoDay}
    BY FactsAssumption DEF Dated, Day, NoDay
  <2>3. \A i \in DOMAIN triples : triples[i] \in FactRow
    BY <2>1
  <2> QED BY <2>1, <2>2, <2>3 DEF FactsTypeOK, FactRow, Adding, EntityName
<1> QED BY <1>1, FactsInvInit, FactsInvStep, PTL DEF FactsSpec

-----------------------------------------------------------------------------
(* Views: what is cached and what is filed in cards.                       *)

\* The values of a cache, and of a scan for one.
CacheRecord ==
  [is : {"none", "scan", "cached"}, read : Seq(Drawers), total : Nat,
   rules : [allow : SUBSET Tunnel, deny : SUBSET Tunnel], stale : BOOLEAN]

\* Unless somebody else has written, what a scan has read is where the collection
\* begins, and what is cached is all of it.
ReadRight(cache) ==
  /\ cache.is = "none" => cache.read = <<>>
  /\ cache.is = "cached" /\ ~cache.stale => cache.read = collection
  /\ cache.is = "scan" /\ ~cache.stale =>
       Len(cache.read) <= Len(collection) /\ \A i \in 1..Len(cache.read) : cache.read[i] = collection[i]

CachesSound ==
  /\ collection \in Seq(Drawers) /\ policy \in Policy
  /\ catalog \in CacheRecord /\ palace \in CacheRecord
  /\ ReadRight(catalog) /\ ReadRight(palace)
  /\ palace.is = "scan" /\ ~palace.stale => palace.total = Len(collection)
  /\ palace.is = "cached" /\ ~palace.stale => palace.rules = policy

\* What the proofs need of the values, and what a rebuild has written.
RebuildSound ==
  /\ cards \in [Wing -> [present : BOOLEAN, rows : SUBSET Drawers]]
  /\ rebuild.pc = "write" =>
       /\ rebuild.scope \subseteq Wing /\ rebuild.rows \subseteq Drawers
       /\ \A w \in rebuild.scope \ rebuild.left : cards[w] = Rebuilt(w)
       /\ ~touched => rebuild.rows = InCollection

\* The inductive invariant.
ViewsInv == CachesSound /\ RebuildSound

LEMMA NoneCached ==
  /\ NotCached \in CacheRecord /\ NotCached.is = "none" /\ NotCached.read = <<>> /\ NotCached.stale = FALSE
BY DEF NotCached, CacheRecord

LEMMA ViewsInvInit == ViewsInit => ViewsInv
<1> SUFFICES ASSUME ViewsInit PROVE ViewsInv
  OBVIOUS
<1>1. CachesSound
  BY NoneCached, ViewsAssumption DEF ViewsInit, CachesSound, ReadRight
<1>2. RebuildSound
  BY DEF ViewsInit, RebuildSound, NoCards, NoRebuild
<1> QED BY <1>1, <1>2 DEF ViewsInv

\* The next page begins where the last one ended, and is short at the end only.
LEMMA NextPage ==
  ASSUME collection \in Seq(Drawers), NEW read \in Seq(Drawers)
  PROVE  LET page == PageFrom(Len(read)) n == Len(collection)
         IN /\ page \in Seq(Drawers) /\ read \o page \in Seq(Drawers) /\ Len(page) \in Nat
            /\ Len(read) <= n /\ (\A i \in 1..Len(read) : read[i] = collection[i]) =>
                 /\ Len(read \o page) = Len(read) + Len(page) /\ Len(read \o page) <= n
                 /\ \A i \in 1..Len(read \o page) : (read \o page)[i] = collection[i]
                 /\ Len(page) < ViewPage \/ Len(read) + Len(page) >= n \/ page = <<>> => read \o page = collection
<1> DEFINE n == Len(collection)
           o == Len(read)
           last == IF o + ViewPage < n THEN o + ViewPage ELSE n
           page == PageFrom(o)
           whole == read \o page
<1>1. n \in Nat /\ o \in Nat /\ ViewPage \in Nat \ {0} /\ last \in Nat /\ last <= n
  BY ViewsAssumption
<1>2. page = SubSeq(collection, o + 1, last)
  BY DEF PageFrom
<1>3. page \in Seq(Drawers) /\ Len(page) \in Nat
  <2>1. CASE o <= last
    <3> HIDE DEF last, n, o
    <3>1. last <= Len(collection)
      BY <1>1 DEF n
    <3>2. SubSeq(collection, o + 1, last) \in Seq(Drawers)
      BY <1>1, <2>1, <3>1, PageRows
    <3>3. page \in Seq(Drawers)
      BY <1>2, <3>2
    <3> QED BY <3>3
  <2>2. CASE ~(o <= last)
    <3> HIDE DEF page
    <3>1. page \in Seq(Drawers)
      BY <1>1, <1>2, <2>2
    <3> QED BY <3>1
  <2> QED BY <2>1, <2>2
<1>4. /\ whole \in Seq(Drawers) /\ Len(whole) = o + Len(page)
      /\ \A i \in 1..o : whole[i] = read[i]
      /\ \A i \in 1..Len(page) : whole[o + i] = page[i]
  <2> HIDE DEF page
  <2> QED BY <1>3, JoinedRows
<1> HIDE DEF n, o, last, page, whole
<1>5. ASSUME o <= n, \A i \in 1..o : read[i] = collection[i]
      PROVE  /\ Len(whole) = o + Len(page) /\ Len(whole) <= n
             /\ \A i \in 1..Len(whole) : whole[i] = collection[i]
             /\ Len(page) < ViewPage \/ o + Len(page) >= n \/ page = <<>> => whole = collection
  <2>1. o <= last
    BY <1>1, <1>5 DEF last
  <2>2. /\ Len(page) = last - o
        /\ \A i \in 1..(last - o) : page[i] = collection[o + i]
    <3>1. last <= Len(collection)
      BY <1>1 DEF n
    <3> QED BY <1>1, <1>2, <2>1, <3>1, PageRows
  <2>3. Len(whole) = last
    BY <1>1, <1>4, <2>2
  <2>4. ASSUME NEW i \in 1..last PROVE whole[i] = collection[i]
    <3>1. CASE i <= o
      <4>1. i \in 1..o
        BY <1>1, <3>1
      <4> QED BY <1>4, <1>5, <4>1
    <3>2. CASE ~(i <= o)
      <4>1. i - o \in 1..(last - o) /\ o + (i - o) = i
        BY <1>1, <3>2
      <4> QED BY <1>4, <2>2, <4>1
    <3> QED BY <3>1, <3>2
  <2>5. ASSUME Len(page) < ViewPage \/ o + Len(page) >= n \/ page = <<>> PROVE whole = collection
    <3>1. page = <<>> => Len(page) = 0
      OBVIOUS
    <3>2. last = n
      BY <1>1, <2>1, <2>2, <2>5, <3>1 DEF last
    <3>3. Len(whole) = Len(collection) /\ \A i \in 1..Len(collection) : whole[i] = collection[i]
      BY <2>3, <2>4, <3>2 DEF n
    <3> QED BY <1>4, <3>3
  <2> QED BY <1>1, <1>4, <2>3, <2>4, <2>5
<1> QED BY <1>3, <1>4, <1>5 DEF n, o, page, whole

\* A collection after a change.
LEMMA ChangedRows ==
  ASSUME collection \in Seq(Drawers), NEW d \in Drawers, collection' \in Changed(d)
  PROVE  collection' \in Seq(Drawers)
<1>1. CASE d \in InCollection
  <2>1. PICK i \in DOMAIN collection : collection' = RemoveAt(collection, i)
    BY <1>1 DEF Changed
  <2>2. SubSeq(collection, 1, i - 1) \in Seq(Drawers) /\ SubSeq(collection, i + 1, Len(collection)) \in Seq(Drawers)
    OBVIOUS
  <2> QED BY <2>1, <2>2 DEF RemoveAt
<1>2. CASE d \notin InCollection
  BY <1>2 DEF Changed
<1> QED BY <1>1, <1>2

\* What another process does makes a cache stale.
LEMMA OutdatedRight ==
  ASSUME NEW cache \in CacheRecord, cache.is = "none" => cache.read = <<>>
  PROVE  /\ Outdated(cache) \in CacheRecord /\ Outdated(cache).read = cache.read /\ Outdated(cache).is = cache.is
         /\ Outdated(cache).is # "none" => Outdated(cache).stale
BY DEF Outdated, CacheRecord

LEMMA CachesKept == CachesSound /\ [ViewsNext]_viewsVars => CachesSound'
<1> SUFFICES ASSUME CachesSound, [ViewsNext]_viewsVars PROVE CachesSound'
  OBVIOUS
<1> USE DEF CachesSound
<1>1. ASSUME UNCHANGED <<collection, catalog, palace, policy>> PROVE CachesSound'
  BY <1>1 DEF ReadRight
<1>2. ASSUME NEW d \in Drawers, FileHere(d) PROVE CachesSound'
  <2>1. catalog' = NotCached /\ palace' = NotCached /\ policy' = policy /\ collection' \in Changed(d)
    BY <1>2 DEF FileHere, Invalidated
  <2>2. collection' \in Seq(Drawers)
    BY <2>1, ChangedRows
  <2> QED BY <2>1, <2>2, NoneCached DEF ReadRight
<1>3. ASSUME NEW d \in Drawers, FileElsewhere(d) PROVE CachesSound'
  <2>1. catalog' = Outdated(catalog) /\ palace' = Outdated(palace) /\ policy' = policy /\ collection' \in Changed(d)
    BY <1>3 DEF FileElsewhere
  <2>2. collection' \in Seq(Drawers)
    BY <2>1, ChangedRows
  <2>3. /\ catalog' \in CacheRecord /\ (catalog'.is = "none" => catalog'.read = <<>>)
        /\ catalog'.is # "none" => catalog'.stale
    BY <2>1, OutdatedRight DEF ReadRight
  <2>4. /\ palace' \in CacheRecord /\ (palace'.is = "none" => palace'.read = <<>>)
        /\ palace'.is # "none" => palace'.stale
    BY <2>1, OutdatedRight DEF ReadRight
  <2> QED BY <2>1, <2>2, <2>3, <2>4 DEF ReadRight
<1>4. CASE EditPolicy
  <2>1. /\ policy' \in Policy /\ UNCHANGED <<collection, catalog>>
        /\ palace' = [palace EXCEPT !.stale = @ \/ palace.is = "cached"]
    BY <1>4 DEF EditPolicy
  <2>2. /\ palace' \in CacheRecord /\ palace'.is = palace.is /\ palace'.read = palace.read /\ palace'.total = palace.total
        /\ palace'.rules = palace.rules /\ (palace.is = "cached" => palace'.stale) /\ (palace.stale => palace'.stale)
    BY <2>1 DEF CacheRecord
  <2> QED BY <2>1, <2>2 DEF ReadRight
<1>5. CASE ScanCatalog
  <2> DEFINE page == PageFrom(Len(catalog.read))
             whole == catalog.read \o page
             is1 == IF Len(page) < ViewPage THEN "cached" ELSE "scan"
  <2>1. catalog.is # "cached" /\ UNCHANGED <<collection, palace, policy>>
        /\ catalog' = [catalog EXCEPT !.read = whole, !.is = is1]
    BY <1>5 DEF ScanCatalog
  <2>2. catalog.read \in Seq(Drawers) /\ catalog.is \in {"none", "scan"}
    BY <2>1 DEF CacheRecord
  <2>3. /\ whole \in Seq(Drawers) /\ Len(page) \in Nat
        /\ Len(catalog.read) <= Len(collection) /\ (\A i \in 1..Len(catalog.read) : catalog.read[i] = collection[i]) =>
             /\ Len(whole) <= Len(collection) /\ \A i \in 1..Len(whole) : whole[i] = collection[i]
             /\ Len(page) < ViewPage => whole = collection
    BY <2>2, NextPage
  <2>4. catalog.stale \/ (Len(catalog.read) <= Len(collection) /\ \A i \in 1..Len(catalog.read) : catalog.read[i] = collection[i])
    <3>1. CASE catalog.is = "none"
      <4>1. catalog.read = <<>> /\ Len(catalog.read) = 0
        BY <3>1 DEF ReadRight
      <4> QED BY <4>1
    <3>2. CASE catalog.is = "scan"
      BY <3>2 DEF ReadRight
    <3> QED BY <2>2, <3>1, <3>2
  <2> HIDE DEF page, whole
  <2>5. is1 \in {"cached", "scan"} /\ (is1 = "cached" => Len(page) < ViewPage)
    OBVIOUS
  <2> HIDE DEF is1
  <2>6. catalog' \in CacheRecord /\ catalog'.read = whole /\ catalog'.is = is1 /\ catalog'.stale = catalog.stale
    BY <2>1, <2>3, <2>5 DEF CacheRecord
  <2>7. ReadRight(catalog)'
    BY <2>1, <2>3, <2>4, <2>5, <2>6 DEF ReadRight
  <2> QED BY <2>1, <2>6, <2>7 DEF ReadRight
<1>6. CASE StartPalace
  <2>1. /\ palace.is = "none" /\ UNCHANGED <<collection, catalog, policy>>
        /\ palace' = [palace EXCEPT !.is = "scan", !.total = Len(collection)]
    BY <1>6 DEF StartPalace
  <2>2. /\ palace' \in CacheRecord /\ palace'.is = "scan" /\ palace'.read = <<>> /\ palace'.total = Len(collection)
    <3>1. palace.read = <<>> /\ Len(collection) \in Nat /\ palace \in CacheRecord
      BY <2>1 DEF ReadRight
    <3> QED BY <2>1, <3>1 DEF CacheRecord
  <2>3. Len(palace'.read) = 0 /\ Len(collection) \in Nat
    BY <2>2
  <2>4. ReadRight(palace)'
    BY <2>1, <2>2, <2>3 DEF ReadRight
  <2> QED BY <2>1, <2>2, <2>4 DEF ReadRight
<1>7. CASE ScanPalace
  <2> DEFINE page == PageFrom(Len(palace.read))
             whole == palace.read \o page
             more == page # <<>> /\ Len(palace.read) + Len(page) < palace.total
  <2>1. /\ palace.is = "scan" /\ UNCHANGED <<collection, catalog, policy>>
        /\ palace' = IF more THEN [palace EXCEPT !.read = whole]
                     ELSE [palace EXCEPT !.read = whole, !.is = "cached", !.rules = policy]
    BY <1>7 DEF ScanPalace
  <2>2. palace.read \in Seq(Drawers) /\ policy \in [allow : SUBSET Tunnel, deny : SUBSET Tunnel] /\ palace.total \in Nat
    BY ViewsAssumption DEF CacheRecord
  <2>3. /\ whole \in Seq(Drawers) /\ Len(page) \in Nat
        /\ Len(palace.read) <= Len(collection) /\ (\A i \in 1..Len(palace.read) : palace.read[i] = collection[i]) =>
             /\ Len(whole) <= Len(collection) /\ \A i \in 1..Len(whole) : whole[i] = collection[i]
             /\ Len(palace.read) + Len(page) >= Len(collection) \/ page = <<>> => whole = collection
    BY <2>2, NextPage
  <2>4. palace.stale \/ (Len(palace.read) <= Len(collection) /\ \A i \in 1..Len(palace.read) : palace.read[i] = collection[i])
    BY <2>1 DEF ReadRight
  <2>5. ~more /\ ~palace.stale => Len(palace.read) + Len(page) >= Len(collection) \/ page = <<>>
    <3>1. ~palace.stale => palace.total = Len(collection)
      BY <2>1
    <3>2. Len(palace.read) \in Nat /\ Len(page) \in Nat /\ Len(collection) \in Nat
      BY <2>2, <2>3
    <3>3. ~more <=> page = <<>> \/ ~(Len(palace.read) + Len(page) < palace.total)
      OBVIOUS
    <3> HIDE DEF page, more
    <3> QED BY <3>1, <3>2, <3>3
  <2> HIDE DEF page, whole, more
  <2>6. /\ palace' \in CacheRecord /\ palace'.read = whole /\ palace'.stale = palace.stale /\ palace'.total = palace.total
        /\ palace'.is = IF more THEN "scan" ELSE "cached"
        /\ ~more => palace'.rules = policy
    BY <2>1, <2>2, <2>3 DEF CacheRecord
  <2>7. ReadRight(palace)'
    BY <2>1, <2>3, <2>4, <2>5, <2>6 DEF ReadRight
  <2> QED BY <2>1, <2>6, <2>7 DEF ReadRight
<1>8. CASE ScanRaises
  <2>1. /\ UNCHANGED <<collection, policy>> /\ catalog' \in {catalog, NotCached} /\ palace' \in {palace, NotCached}
    BY <1>8 DEF ScanRaises
  <2> QED BY <2>1, NoneCached DEF ReadRight
<1> QED
  BY <1>1, <1>2, <1>3, <1>4, <1>5, <1>6, <1>7, <1>8
  DEF ViewsNext, viewsVars, WalkStep, EndWalk, StartWalk, EndRebuild, RebuildDies, StartRebuild, RebuildWing

LEMMA RebuildKept == ViewsInv /\ [ViewsNext]_viewsVars => RebuildSound'
<1> SUFFICES ASSUME ViewsInv, [ViewsNext]_viewsVars PROVE RebuildSound'
  OBVIOUS
<1>0. RebuildSound /\ InCollection \subseteq Drawers
  BY DEF ViewsInv, CachesSound, InCollection, ToSet
<1>1. ASSUME NEW d \in Drawers, FileHere(d) \/ FileElsewhere(d) PROVE RebuildSound'
  <2>1. touched' /\ UNCHANGED <<cards, rebuild>>
    BY <1>1 DEF FileHere, FileElsewhere
  <2> QED BY <1>0, <2>1 DEF RebuildSound, Rebuilt
<1>3. ASSUME UNCHANGED <<collection, cards, rebuild, touched>> PROVE RebuildSound'
  BY <1>0, <1>3 DEF RebuildSound, Rebuilt, InCollection
<1>4. ASSUME UNCHANGED cards, rebuild' = NoRebuild PROVE RebuildSound'
  BY <1>0, <1>4 DEF RebuildSound, NoRebuild
<1>5. ASSUME NEW scope \in {Wing} \cup {{w} : w \in Wing}, StartRebuild(scope) PROVE RebuildSound'
  <2>1. /\ rebuild' = [pc |-> "write", rows |-> InCollection, scope |-> scope, left |-> scope]
        /\ UNCHANGED <<collection, cards>> /\ scope \subseteq Wing
    BY <1>5 DEF StartRebuild
  <2> QED BY <1>0, <2>1 DEF RebuildSound, InCollection
<1>6. ASSUME NEW w \in Wing, RebuildWing(w) PROVE RebuildSound'
  <2>1. /\ rebuild.pc = "write" /\ cards' = [cards EXCEPT ![w] = Rebuilt(w)]
        /\ rebuild' = [rebuild EXCEPT !.left = @ \ {w}] /\ UNCHANGED <<collection, touched>>
    BY <1>6 DEF RebuildWing
  <2>2. /\ rebuild'.pc = rebuild.pc /\ rebuild'.rows = rebuild.rows /\ rebuild'.scope = rebuild.scope
        /\ rebuild'.left = rebuild.left \ {w}
    BY <2>1
  <2>3. Rebuilt(w) \in [present : BOOLEAN, rows : SUBSET Drawers] /\ \A v : Rebuilt(v)' = Rebuilt(v)
    BY <1>0, <2>1, <2>2 DEF Rebuilt, NoCards, OfWing, RebuildSound
  <2>4. cards' \in [Wing -> [present : BOOLEAN, rows : SUBSET Drawers]]
    BY <1>0, <2>1, <2>3 DEF RebuildSound
  <2>5. \A v \in rebuild.scope \ (rebuild.left \ {w}) : cards'[v] = Rebuilt(v)'
    BY <1>0, <2>1, <2>3 DEF RebuildSound
  <2> QED BY <1>0, <2>1, <2>2, <2>4, <2>5 DEF RebuildSound, InCollection
<1> QED BY <1>1, <1>3, <1>4, <1>5, <1>6
        DEF ViewsNext, viewsVars, WalkStep, EndWalk, StartWalk, EndRebuild, RebuildDies, EditPolicy, ScanCatalog,
            StartPalace, ScanPalace, ScanRaises

LEMMA ViewsInvStep == ViewsInv /\ [ViewsNext]_viewsVars => ViewsInv'
BY CachesKept, RebuildKept DEF ViewsInv

\* What the invariant says of the answers.
LEMMA CachesAnswer == ViewsInv => CacheFresh /\ TunnelsSound
<1> SUFFICES ASSUME ViewsInv PROVE CacheFresh /\ TunnelsSound
  OBVIOUS
<1>1. CacheFresh
  BY DEF ViewsInv, CachesSound, ReadRight, CacheFresh
<1>2. TunnelsSound
  <2> SUFFICES ASSUME palace.is = "cached", ~palace.stale, NEW t \in Curated
               PROVE  t \notin policy.deny /\ (t \in policy.allow \/ \A w \in t[2] : <<w, t[1]>> \in InCollection)
    BY DEF TunnelsSound
  <2>1. palace.read = collection /\ palace.rules = policy
    BY DEF ViewsInv, CachesSound, ReadRight
  <2> QED BY <2>1 DEF Curated, WingsOf, InCollection
<1> QED BY <1>1, <1>2

\* Views: what a process has cached is the collection unless another process has
\* written since the scan began, a tunnel is allowed, or leads between two wings with
\* drawers in its room, and is not denied, and an undisturbed rebuild leaves the
\* cards of the collection.
THEOREM ViewsAreFresh == ViewsSpec => [](CacheFresh /\ TunnelsSound) /\ CardsMatch
<1> DEFINE Match == EndRebuild /\ ~touched =>
             \A w \in rebuild.scope :
               LET own == OfWing(InCollection, w) IN cards[w] = [present |-> own # {}, rows |-> own]
<1>2. ViewsInv /\ [ViewsNext]_viewsVars => [Match]_viewsVars
  BY DEF ViewsInv, RebuildSound, EndRebuild, Rebuilt, NoCards
<1> QED BY CachesAnswer, <1>2, ViewsInvInit, ViewsInvStep, PTL DEF ViewsSpec, CardsMatch

-----------------------------------------------------------------------------
(* Views: the walk from room to room.                                      *)

\* What is reached in one hop more.
OneHop(S) == S \cup {s \in Nodes : \E t \in S : Connected(t, s)}

\* The rooms reached in k hops are those reached in k - 1, and their neighbours.
LEMMA ReachedHops ==
  ASSUME NEW r
  PROVE  /\ Reached(r, 0) = {r}
         /\ \A k \in 1..MaxHops : Reached(r, k) = OneHop(Reached(r, k - 1))
<1> DEFINE IsReach(g, m) == g = [n \in 0..m |-> IF n = 0 THEN {r} ELSE OneHop(g[n - 1])]
           P == {m \in 0..MaxHops : \E g : IsReach(g, m)}
<1>1. 0 \in P
  <2>1. IsReach([n \in 0..0 |-> {r}], 0)
    OBVIOUS
  <2>2. 0 \in 0..MaxHops
    BY ViewsAssumption
  <2> HIDE DEF IsReach
  <2> QED BY <2>1, <2>2
<1>2. ASSUME NEW m \in 1..MaxHops, m - 1 \in P PROVE m \in P
  <2>1. PICK g : IsReach(g, m - 1)
    BY <1>2
  <2> DEFINE h == [n \in 0..m |-> IF n = m THEN OneHop(g[m - 1]) ELSE g[n]]
  <2>2. m \in Nat /\ m > 0
    BY ViewsAssumption
  <2>3. \A n \in 0..(m - 1) : g[n] = IF n = 0 THEN {r} ELSE OneHop(g[n - 1])
    <3>1. g = [n \in 0..(m - 1) |-> IF n = 0 THEN {r} ELSE OneHop(g[n - 1])]
      BY <2>1
    <3> HIDE DEF IsReach
    <3> QED BY <3>1
  <2>4. ASSUME NEW n \in 0..m PROVE h[n] = IF n = 0 THEN {r} ELSE OneHop(h[n - 1])
    <3>1. CASE n = m
      <4>1. h[n] = OneHop(g[m - 1]) /\ h[n - 1] = g[m - 1] /\ n # 0
        BY <2>2, <3>1
      <4> QED BY <4>1
    <3>2. CASE n # m /\ n # 0
      <4>1. n \in 0..(m - 1) /\ n - 1 \in 0..m /\ n - 1 # m
        BY <2>2, <3>2
      <4>2. h[n] = g[n] /\ h[n - 1] = g[n - 1]
        BY <3>2, <4>1
      <4> QED BY <2>3, <3>2, <4>1, <4>2
    <3>3. CASE n # m /\ n = 0
      <4>1. n \in 0..(m - 1)
        BY <2>2, <3>3
      <4>2. h[n] = g[n]
        BY <3>3
      <4> QED BY <2>3, <3>3, <4>1, <4>2
    <3> QED BY <3>1, <3>2, <3>3
  <2>5. DOMAIN h = 0..m /\ h = [n \in 0..m |-> h[n]]
    OBVIOUS
  <2> HIDE DEF h
  <2>6. IsReach(h, m)
    BY <2>4, <2>5
  <2>7. m \in 0..MaxHops
    BY ViewsAssumption
  <2> HIDE DEF IsReach
  <2> QED BY <2>6, <2>7
<1>3. MaxHops \in P
  <2>1. MaxHops \in Nat /\ MaxHops \in 0..MaxHops
    BY ViewsAssumption
  <2> HIDE DEF P
  <2> QED BY <1>1, <1>2, <2>1, PlaceByPlace
<1> DEFINE reach == CHOOSE g : IsReach(g, MaxHops)
<1>4. IsReach(reach, MaxHops)
  <2> HIDE DEF IsReach
  <2>1. \E g : IsReach(g, MaxHops)
    BY <1>3
  <2> QED BY <2>1
<1>5. \A k : Reached(r, k) = reach[k]
  BY DEF Reached, OneHop
<1>6. \A k \in 0..MaxHops : reach[k] = IF k = 0 THEN {r} ELSE OneHop(reach[k - 1])
  <2>1. reach = [k \in 0..MaxHops |-> IF k = 0 THEN {r} ELSE OneHop(reach[k - 1])]
    BY <1>4
  <2> HIDE DEF reach
  <2> QED BY <2>1
<1> HIDE DEF reach
<1>7. 0 \in 0..MaxHops /\ \A k \in 1..MaxHops : k \in 0..MaxHops /\ k # 0
  BY ViewsAssumption
<1> QED BY <1>5, <1>6, <1>7

\* The walk so far: where it stands, and that it holds rooms of the graph only.
HopsOf == (UNION {[X -> 0..MaxHops] : X \in SUBSET Room}) \cup {<<>>}
WalkRecord ==
  [pc : {"off", "on"}, hops : 0..MaxHops, start : Room \cup {General}, frontier : Seq(Room), hop : HopsOf]

\* The rooms to be expanded come in the order of their hops, which differ by one at
\* most; a room that has been expanded has its neighbours listed, one hop further at
\* most; and every room but the first was found from one that is a hop nearer.
Surveyed(h, H, F, r0, n) ==
  /\ r0 \in H /\ h[r0] = 0 /\ H \subseteq Nodes
  /\ \A r \in H : h[r] \in 0..n
  /\ ToSet(F) \subseteq H
  /\ \A i, j \in DOMAIN F : i <= j => h[F[i]] <= h[F[j]]
  /\ F # <<>> => \A r \in H : h[r] <= h[F[1]] + 1
  /\ \A r \in H \ ToSet(F) : h[r] < n => \A s \in Nodes : Connected(r, s) => s \in H /\ h[s] <= h[r] + 1
  /\ \A r \in H : r = r0 \/ \E p \in H : Connected(p, r) /\ h[r] = h[p] + 1
WalkSound(wk) == Surveyed(wk.hop, DOMAIN wk.hop, wk.frontier, wk.start, wk.hops)

\* Only a cached graph is walked.
WalkInv ==
  /\ walk \in WalkRecord
  /\ walk = NoWalk \/ walk.pc = "on"
  /\ walk.pc = "on" => palace.is = "cached" /\ WalkSound(walk)

\* A walk that has come to its end has found the rooms within its hops, and their
\* distances.
LEMMA WalkFinds == ViewsInv /\ WalkInv => WalkIsDistance
<1> SUFFICES ASSUME WalkInv, walk.pc = "on", walk.frontier = <<>>
             PROVE  /\ DOMAIN walk.hop = Reached(walk.start, walk.hops)
                    /\ \A r \in DOMAIN walk.hop : \A k \in 0..walk.hops :
                         r \in Reached(walk.start, k) <=> walk.hop[r] <= k
  BY DEF WalkIsDistance
<1> DEFINE H == DOMAIN walk.hop
           h == walk.hop
           r0 == walk.start
           n == walk.hops
           R(k) == Reached(r0, k)
<1>1. /\ n \in 0..MaxHops /\ MaxHops \in Nat /\ r0 \in H /\ h[r0] = 0 /\ H \subseteq Nodes
      /\ \A r \in H : h[r] \in 0..n
      /\ \A r \in H : h[r] < n => \A s \in Nodes : Connected(r, s) => s \in H /\ h[s] <= h[r] + 1
      /\ \A r \in H : r = r0 \/ \E p \in H : Connected(p, r) /\ h[r] = h[p] + 1
  <2>1. ToSet(walk.frontier) = {}
    BY DEF ToSet
  <2>2. WalkSound(walk) /\ walk \in WalkRecord
    BY DEF WalkInv
  <2>3. n \in 0..MaxHops /\ MaxHops \in Nat
    BY <2>2, ViewsAssumption DEF WalkRecord
  <2> QED BY <2>1, <2>2, <2>3 DEF WalkSound, Surveyed
<1>2. R(0) = {r0} /\ \A k \in 1..n : R(k) = OneHop(R(k - 1))
  <2>1. \A k \in 1..n : k \in 1..MaxHops
    BY <1>1
  <2> QED BY <2>1, ReachedHops
<1> HIDE DEF H, h, r0, n, R
<1> DEFINE Exact(k) == R(k) = {r \in H : h[r] <= k}
           P == {k \in 0..n : Exact(k)}
<1>3. 0 \in P
  <2>1. 0 \in 0..n
    BY <1>1
  <2>2. \A r \in H : h[r] <= 0 <=> r = r0
    <3> SUFFICES ASSUME NEW r \in H, h[r] <= 0, r # r0 PROVE FALSE
      BY <1>1
    <3>1. PICK p \in H : h[r] = h[p] + 1
      BY <1>1
    <3> QED BY <1>1, <3>1
  <2> QED BY <1>1, <1>2, <2>1, <2>2
<1>4. ASSUME NEW k \in 1..n, k - 1 \in P PROVE k \in P
  <2>1. k \in 0..n /\ k - 1 \in 0..n /\ k \in Int
    BY <1>1
  <2>2. R(k - 1) = {r \in H : h[r] <= k - 1}
    BY <1>4
  <2>3. ASSUME NEW r \in OneHop(R(k - 1)) PROVE r \in H /\ h[r] <= k
    <3>1. CASE r \in R(k - 1)
      BY <1>1, <2>1, <2>2, <3>1
    <3>2. CASE r \notin R(k - 1)
      <4>1. r \in Nodes /\ \E t \in R(k - 1) : Connected(t, r)
        BY <2>3, <3>2 DEF OneHop
      <4>2. PICK t \in R(k - 1) : Connected(t, r)
        BY <4>1
      <4>3. t \in H /\ h[t] <= k - 1 /\ h[t] \in 0..n
        BY <1>1, <2>2
      <4>4. h[t] < n
        BY <1>1, <2>1, <4>3
      <4>5. r \in H /\ h[r] <= h[t] + 1
        BY <1>1, <4>1, <4>2, <4>3, <4>4
      <4>6. h[r] \in 0..n
        BY <1>1, <4>5
      <4> QED BY <1>1, <2>1, <4>3, <4>5, <4>6
    <3> QED BY <3>1, <3>2
  <2>4. ASSUME NEW r \in H, h[r] <= k PROVE r \in OneHop(R(k - 1))
    <3>1. CASE h[r] <= k - 1
      BY <2>2, <3>1 DEF OneHop
    <3>2. CASE h[r] = k
      <4>1. r # r0
        BY <1>1, <3>2
      <4>2. PICK p \in H : Connected(p, r) /\ h[r] = h[p] + 1
        BY <1>1, <4>1
      <4>3. h[p] \in 0..n
        BY <1>1
      <4>4. p \in R(k - 1)
        BY <1>1, <2>1, <2>2, <3>2, <4>2, <4>3
      <4>5. r \in Nodes
        BY <1>1
      <4> QED BY <4>2, <4>4, <4>5 DEF OneHop
    <3>3. h[r] \in 0..n
      BY <1>1
    <3> QED BY <1>1, <2>1, <2>4, <3>1, <3>2, <3>3
  <2> QED BY <1>2, <2>1, <2>3, <2>4
<1>5. \A k \in 0..n : Exact(k)
  <2>1. n \in Nat
    BY <1>1
  <2> HIDE DEF P
  <2>2. 0..n \subseteq P
    BY <1>3, <1>4, <2>1, PlaceByPlace
  <2> QED BY <2>2 DEF P
<1>6. H = R(n)
  <2>1. n \in 0..n /\ \A r \in H : h[r] <= n
    BY <1>1
  <2>2. R(n) = {r \in H : h[r] <= n}
    BY <1>5, <2>1
  <2> QED BY <2>1, <2>2
<1>7. \A r \in H : \A k \in 0..n : r \in R(k) <=> h[r] <= k
  BY <1>5
<1> QED BY <1>6, <1>7 DEF H, h, r0, n, R

\* While the graph stays, what has been surveyed stays so.
LEMMA SameGraph ==
  ASSUME palace'.read = palace.read, WalkSound(walk')
  PROVE  WalkSound(walk)'
BY DEF WalkSound, Surveyed, Nodes, Connected, WingsOf

LEMMA WalkStarts == ViewsInit => WalkInv
<1> SUFFICES ASSUME ViewsInit PROVE WalkInv
  OBVIOUS
<1>1. walk = NoWalk
  BY DEF ViewsInit
<1>2. NoWalk \in WalkRecord /\ NoWalk.pc = "off"
  BY ViewsAssumption DEF NoWalk, WalkRecord, HopsOf
<1> QED BY <1>1, <1>2 DEF WalkInv

\* The first room is listed, with no hop.
LEMMA WalkBegins ==
  ASSUME WalkInv, NEW r \in Room, NEW hops \in 0..MaxHops, StartWalk(r, hops)
  PROVE  WalkInv'
<1> DEFINE F == <<r>>
           hop == [s \in {r} |-> 0]
<1>1. /\ walk' = [pc |-> "on", hops |-> hops, start |-> r, frontier |-> F, hop |-> hop]
      /\ palace.is = "cached" /\ r \in Nodes /\ palace' = palace
  BY DEF StartWalk
<1>2. /\ F \in Seq(Room) /\ Len(F) = 1 /\ F[1] = r /\ DOMAIN F = {1} /\ F # <<>>
      /\ DOMAIN hop = {r} /\ hop[r] = 0
  OBVIOUS
<1>3. ToSet(F) = {r}
  BY <1>2 DEF ToSet
<1>4. hop \in HopsOf
  <2>1. {r} \in SUBSET Room /\ hop \in [{r} -> 0..MaxHops]
    BY ViewsAssumption
  <2> QED BY <2>1 DEF HopsOf
<1> HIDE DEF F, hop
<1>5. walk' \in WalkRecord
  BY <1>1, <1>2, <1>4 DEF WalkRecord
<1>6. WalkSound(walk')
  BY <1>1, <1>2, <1>3 DEF WalkSound, Surveyed
<1>8. palace' = palace
  BY <1>1
<1>7. WalkSound(walk)'
  BY <1>6, <1>8, SameGraph
<1> QED BY <1>1, <1>5, <1>7 DEF WalkInv

\* The last room with too many hops is left behind.
LEMMA WalkPasses ==
  ASSUME WalkInv, walk.pc = "on", walk.frontier # <<>>, UNCHANGED palace,
         walk.hop[Head(walk.frontier)] >= walk.hops,
         walk' = [walk EXCEPT !.frontier = Tail(walk.frontier)]
  PROVE  WalkInv'
<1> DEFINE F == walk.frontier
           rest == Tail(F)
           H == DOMAIN walk.hop
           h == walk.hop
<1>1. walk \in WalkRecord /\ WalkSound(walk) /\ palace.is = "cached"
  BY DEF WalkInv
<1>2. F \in Seq(Room) /\ walk.hops \in 0..MaxHops /\ walk.hop \in HopsOf
  BY <1>1 DEF WalkRecord
<1>3. /\ rest \in Seq(Room) /\ Len(rest) = Len(F) - 1 /\ Len(F) \in Nat /\ Len(F) > 0 /\ F[1] = Head(F)
      /\ \A i \in 1..Len(F) - 1 : rest[i] = F[i + 1]
      /\ DOMAIN F = 1..Len(F) /\ DOMAIN rest = 1..Len(F) - 1
      /\ ToSet(F) = {F[1]} \cup ToSet(rest)
  BY <1>2, HeadAndTail
<1>4. /\ walk'.pc = "on" /\ walk'.hops = walk.hops /\ walk'.start = walk.start /\ walk'.hop = walk.hop
      /\ walk'.frontier = rest /\ walk' \in WalkRecord
  <2> HIDE DEF rest
  <2> QED BY <1>1, <1>3 DEF WalkRecord, rest
<1>5. /\ walk.start \in H /\ h[walk.start] = 0 /\ H \subseteq Nodes /\ ToSet(F) \subseteq H
      /\ \A r \in H : h[r] \in 0..walk.hops
      /\ \A i, j \in DOMAIN F : i <= j => h[F[i]] <= h[F[j]]
      /\ \A r \in H : h[r] <= h[F[1]] + 1
      /\ \A r \in H \ ToSet(F) : h[r] < walk.hops => \A s \in Nodes : Connected(r, s) => s \in H /\ h[s] <= h[r] + 1
      /\ \A r \in H : r = walk.start \/ \E p \in H : Connected(p, r) /\ h[r] = h[p] + 1
  BY <1>1 DEF WalkSound, Surveyed
<1> HIDE DEF rest, H
<1>6. \A i, j \in DOMAIN rest : i <= j => h[rest[i]] <= h[rest[j]]
  <2> SUFFICES ASSUME NEW i \in DOMAIN rest, NEW j \in DOMAIN rest, i <= j PROVE h[rest[i]] <= h[rest[j]]
    OBVIOUS
  <2>1. i + 1 \in DOMAIN F /\ j + 1 \in DOMAIN F /\ i + 1 <= j + 1 /\ rest[i] = F[i + 1] /\ rest[j] = F[j + 1]
    BY <1>3
  <2> QED BY <1>5, <2>1
<1>7. rest # <<>> => \A r \in H : h[r] <= h[rest[1]] + 1
  <2> SUFFICES ASSUME rest # <<>>, NEW r \in H PROVE h[r] <= h[rest[1]] + 1
    OBVIOUS
  <2>1. 1 \in DOMAIN rest /\ 1 \in DOMAIN F /\ 2 \in DOMAIN F /\ rest[1] = F[2]
    BY <1>3
  <2>2. h[F[1]] <= h[F[2]] /\ F[1] \in H /\ F[2] \in H
    <3>1. \A i \in DOMAIN F : F[i] \in ToSet(F)
      BY DEF ToSet
    <3>2. F[1] \in ToSet(F) /\ F[2] \in ToSet(F)
      BY <2>1, <3>1
    <3>3. F[1] \in H /\ F[2] \in H
      BY <1>5, <3>2
    <3>4. 1 <= 2
      OBVIOUS
    <3> QED BY <1>5, <2>1, <3>3, <3>4
  <2>3. h[r] \in Int /\ h[F[1]] \in Int /\ h[F[2]] \in Int
    BY <1>5, <2>2
  <2> QED BY <1>5, <2>1, <2>2, <2>3
<1>8. \A r \in H \ ToSet(rest) : h[r] < walk.hops => \A s \in Nodes : Connected(r, s) => s \in H /\ h[s] <= h[r] + 1
  <2> SUFFICES ASSUME NEW r \in H \ ToSet(rest), h[r] < walk.hops
               PROVE  \A s \in Nodes : Connected(r, s) => s \in H /\ h[s] <= h[r] + 1
    OBVIOUS
  <2>1. h[F[1]] \in Int /\ walk.hops \in Int /\ F[1] \in H
    BY <1>2, <1>3, <1>5
  <2>2. r # F[1]
    BY <1>3, <2>1
  <2> QED BY <1>3, <1>5, <2>2
<1>11. ToSet(rest) \subseteq H
  BY <1>3, <1>5
<1> HIDE DEF h, F
<1>9. WalkSound(walk')
  <2>1. Surveyed(h, H, rest, walk.start, walk.hops)
    BY <1>5, <1>6, <1>7, <1>8, <1>11 DEF Surveyed
  <2>2. walk'.hop = h /\ DOMAIN walk'.hop = H
    BY <1>4 DEF h, H
  <2> QED BY <1>4, <2>1, <2>2 DEF WalkSound
<1>10. WalkSound(walk)'
  BY <1>9, SameGraph
<1> QED BY <1>1, <1>4, <1>10 DEF WalkInv

\* The neighbours of the first room are listed, and wait behind the others.
Grows(h, H, F, fresh, k, G, n) ==
  /\ F # <<>> /\ n \in Nat /\ h[F[1]] < n /\ fresh \subseteq Nodes
  /\ F \in Seq(Room) /\ G \in Seq(Room)
  /\ \A s \in fresh : Connected(F[1], s) /\ s \notin H
  /\ \A s \in Nodes : Connected(F[1], s) => s \in H \cup fresh
  /\ (\A r \in H : k[r] = h[r]) /\ \A r \in fresh : k[r] = h[F[1]] + 1
  /\ Len(F) - 1 <= Len(G) /\ \A i \in 1..(Len(F) - 1) : G[i] = F[i + 1]
  /\ \A i \in DOMAIN G : i > Len(F) - 1 => G[i] \in fresh
  /\ h[F[1]] + 1 < n => fresh \subseteq ToSet(G)

LEMMA SurveyGrows ==
  ASSUME NEW h, NEW H, NEW F, NEW r0, NEW n, Surveyed(h, H, F, r0, n),
         NEW fresh, NEW k, NEW G, Grows(h, H, F, fresh, k, G, n)
  PROVE  Surveyed(k, H \cup fresh, G, r0, n) /\ \A r \in H \cup fresh : k[r] \in 0..n
<1> DEFINE depth == h[F[1]]
           All == H \cup fresh
           m == Len(F) - 1
<1>1. /\ F # <<>> /\ n \in Nat /\ depth < n /\ fresh \subseteq Nodes
      /\ F \in Seq(Room) /\ G \in Seq(Room)
      /\ \A s \in fresh : Connected(F[1], s) /\ s \notin H
      /\ \A s \in Nodes : Connected(F[1], s) => s \in All
      /\ (\A r \in H : k[r] = h[r]) /\ \A r \in fresh : k[r] = depth + 1
      /\ m <= Len(G) /\ \A i \in 1..m : G[i] = F[i + 1]
      /\ \A i \in DOMAIN G : i > m => G[i] \in fresh
      /\ depth + 1 < n => fresh \subseteq ToSet(G)
  BY DEF Grows
<1>2. m = Len(F) - 1 /\ depth = h[F[1]] /\ All = H \cup fresh
  OBVIOUS
<1> HIDE DEF m, depth, All
<1>3. /\ m \in Nat /\ Len(F) \in Nat /\ Len(F) > 0 /\ DOMAIN F = 1..Len(F) /\ Len(G) \in Nat /\ DOMAIN G = 1..Len(G)
      /\ \A i \in DOMAIN F : F[i] \in ToSet(F)
  BY <1>1, <1>2 DEF ToSet
<1>4. /\ r0 \in H /\ h[r0] = 0 /\ H \subseteq Nodes /\ ToSet(F) \subseteq H
      /\ \A r \in H : h[r] \in 0..n
      /\ \A i, j \in DOMAIN F : i <= j => h[F[i]] <= h[F[j]]
      /\ \A r \in H : h[r] <= h[F[1]] + 1
      /\ \A r \in H \ ToSet(F) : h[r] < n => \A s \in Nodes : Connected(r, s) => s \in H /\ h[s] <= h[r] + 1
      /\ \A r \in H : r = r0 \/ \E p \in H : Connected(p, r) /\ h[r] = h[p] + 1
  BY <1>1, <1>2 DEF Surveyed
<1>5. 1 \in DOMAIN F /\ F[1] \in H
  BY <1>1, <1>2, <1>3, <1>4
<1>8. depth \in Nat /\ \A r \in H : h[r] \in 0..n /\ h[r] <= depth + 1
  BY <1>1, <1>2, <1>4, <1>5
<1>11. \A r \in All : k[r] \in 0..n /\ k[r] <= depth + 1
  <2> SUFFICES ASSUME NEW r \in All PROVE k[r] \in 0..n /\ k[r] <= depth + 1
    OBVIOUS
  <2>1. CASE r \in H
    BY <1>1, <1>2, <1>8, <2>1
  <2>2. CASE r \in fresh
    BY <1>1, <1>2, <1>8, <2>2
  <2> QED BY <1>1, <1>2, <2>1, <2>2
<1>12. \A i \in 1..m : G[i] = F[i + 1] /\ i + 1 \in DOMAIN F /\ F[i + 1] \in ToSet(F) /\ F[i + 1] \in H
  BY <1>1, <1>2, <1>3, <1>4
<1>13. ToSet(G) \subseteq All /\ \A i \in DOMAIN G : G[i] \in All
  <2>1. ASSUME NEW i \in DOMAIN G PROVE G[i] \in All
    <3>1. CASE i \in 1..m
      BY <1>1, <1>2, <1>12, <3>1
    <3>2. i \in 1..m \/ i > m
      BY <1>1, <1>2, <1>3
    <3> QED BY <1>1, <1>2, <3>1, <3>2
  <2> QED BY <1>1, <1>2, <2>1 DEF ToSet
<1>14. \A i \in 1..m : h[G[i]] >= depth /\ G[i] \in H
  <2> SUFFICES ASSUME NEW i \in 1..m PROVE h[G[i]] >= depth /\ G[i] \in H
    OBVIOUS
  <2>1. h[F[1]] <= h[F[i + 1]]
    <3>1. 1 <= i + 1
      BY <1>1, <1>2, <1>3
    <3> QED BY <1>1, <1>2, <1>4, <1>5, <1>12, <3>1
  <2>2. h[F[i + 1]] \in 0..n
    BY <1>1, <1>2, <1>4, <1>12
  <2> QED BY <1>1, <1>2, <1>8, <1>12, <2>1, <2>2
<1>15. \A i, j \in DOMAIN G : i <= j => k[G[i]] <= k[G[j]]
  <2> SUFFICES ASSUME NEW i \in DOMAIN G, NEW j \in DOMAIN G, i <= j PROVE k[G[i]] <= k[G[j]]
    OBVIOUS
  <2>1. CASE j \in 1..m
    <3>1. i \in 1..m /\ i + 1 <= j + 1
      BY <1>1, <1>2, <1>3, <2>1
    <3>2. k[G[i]] = h[F[i + 1]] /\ k[G[j]] = h[F[j + 1]] /\ i + 1 \in DOMAIN F /\ j + 1 \in DOMAIN F
      BY <1>1, <1>2, <1>12, <1>14, <2>1, <3>1
    <3> QED BY <1>1, <1>2, <1>4, <3>1, <3>2
  <2>2. CASE j > m
    <3>1. G[j] \in fresh /\ G[i] \in All
      BY <1>1, <1>2, <1>3, <1>13, <2>2
    <3>2. k[G[j]] = depth + 1
      BY <1>1, <1>2, <3>1
    <3> QED BY <1>1, <1>2, <1>11, <3>1, <3>2
  <2>3. j \in 1..m \/ j > m
    BY <1>1, <1>2, <1>3
  <2> QED BY <1>1, <1>2, <2>1, <2>2, <2>3
<1>16. ASSUME G # <<>> PROVE \A r \in All : k[r] <= k[G[1]] + 1
  <2>1. 1 \in DOMAIN G
    BY <1>1, <1>2, <1>3, <1>16
  <2>2. k[G[1]] >= depth /\ k[G[1]] \in Int
    <3>1. CASE 1 \in 1..m
      <4>1. G[1] \in H /\ h[G[1]] >= depth
        BY <1>1, <1>2, <1>14, <3>1
      <4>2. k[G[1]] = h[G[1]] /\ h[G[1]] \in 0..n
        BY <1>1, <1>2, <1>4, <4>1
      <4> QED BY <1>1, <1>2, <4>1, <4>2
    <3>2. CASE 1 > m
      <4>1. k[G[1]] = depth + 1
        BY <1>1, <1>2, <1>3, <2>1, <3>2
      <4> QED BY <1>1, <1>2, <1>8, <4>1
    <3>3. 1 \in 1..m \/ 1 > m
      BY <1>1, <1>2, <1>3
    <3> QED BY <1>1, <1>2, <3>1, <3>2, <3>3
  <2>3. \A r \in All : k[r] <= depth + 1 /\ k[r] \in Int /\ depth \in Int
    BY <1>1, <1>2, <1>8, <1>11
  <2> QED BY <1>1, <1>2, <2>2, <2>3
<1>21. \A i \in 1..m : F[i + 1] \in ToSet(G)
  <2>1. \A i \in 1..m : i \in DOMAIN G
    BY <1>1, <1>2, <1>3
  <2> QED BY <1>1, <1>2, <2>1, <1>12 DEF ToSet
<1>22. \A r \in H : r \notin ToSet(G) /\ r # F[1] => r \notin ToSet(F)
  <2> SUFFICES ASSUME NEW r \in H, r # F[1], r \in ToSet(F) PROVE r \in ToSet(G)
    OBVIOUS
  <2>1. PICK i \in DOMAIN F : r = F[i]
    BY <1>1, <1>2 DEF ToSet
  <2>2. i - 1 \in 1..m /\ i = (i - 1) + 1
    BY <1>1, <1>2, <1>3, <2>1
  <2> QED BY <1>1, <1>2, <1>21, <2>1, <2>2
<1>17. \A r \in All \ ToSet(G) : k[r] < n => \A s \in Nodes : Connected(r, s) => s \in All /\ k[s] <= k[r] + 1
  <2> SUFFICES ASSUME NEW r \in All \ ToSet(G), k[r] < n, NEW s \in Nodes, Connected(r, s)
               PROVE  s \in All /\ k[s] <= k[r] + 1
    OBVIOUS
  <2>1. r \in H
    BY <1>1, <1>2, <1>8
  <2>2. CASE r = F[1]
    <3>1. s \in All /\ k[r] = depth
      BY <1>1, <1>2, <2>1, <2>2
    <3> QED BY <1>1, <1>2, <1>8, <1>11, <3>1
  <2>3. CASE r # F[1]
    <3>1. r \notin ToSet(F)
      BY <1>1, <1>2, <1>22, <2>1, <2>3
    <3>2. s \in H /\ h[s] <= h[r] + 1
      BY <1>1, <1>2, <1>4, <2>1, <3>1
    <3> QED BY <1>1, <1>2, <2>1, <3>2
  <2> QED BY <1>1, <1>2, <2>2, <2>3
<1>18. \A r \in All : r = r0 \/ \E p \in All : Connected(p, r) /\ k[r] = k[p] + 1
  <2> SUFFICES ASSUME NEW r \in All, r # r0 PROVE \E p \in All : Connected(p, r) /\ k[r] = k[p] + 1
    OBVIOUS
  <2>1. CASE r \in fresh
    <3>1. Connected(F[1], r) /\ k[r] = k[F[1]] + 1 /\ F[1] \in All
      BY <1>1, <1>2, <1>5, <2>1
    <3> QED BY <1>1, <1>2, <3>1
  <2>2. CASE r \in H
    <3>1. PICK p \in H : Connected(p, r) /\ h[r] = h[p] + 1
      BY <1>1, <1>2, <1>4, <2>2
    <3>2. k[r] = k[p] + 1 /\ p \in All
      BY <1>1, <1>2, <2>2, <3>1
    <3> QED BY <1>1, <1>2, <3>1, <3>2
  <2> QED BY <1>1, <1>2, <2>1, <2>2
<1>19. r0 \in All /\ k[r0] = 0 /\ All \subseteq Nodes
  BY <1>1, <1>2, <1>4, <1>5
<1>20. Surveyed(k, All, G, r0, n)
  BY <1>1, <1>2, <1>11, <1>13, <1>15, <1>16, <1>17, <1>18, <1>19 DEF Surveyed
<1> QED BY <1>1, <1>2, <1>11, <1>20

\* The neighbours of the room that is expanded which are not listed yet, the rooms
\* that wait afterwards, and the hops.
Unlisted == {r \in Nodes : Connected(Head(walk.frontier), r) /\ r \notin DOMAIN walk.hop}
Waiting(order) ==
  IF walk.hop[Head(walk.frontier)] + 1 < walk.hops THEN Tail(walk.frontier) \o order ELSE Tail(walk.frontier)
Distances ==
  [r \in DOMAIN walk.hop \cup Unlisted |-> IF r \in Unlisted THEN walk.hop[Head(walk.frontier)] + 1 ELSE walk.hop[r]]

\* A room is expanded: its neighbours are listed, behind those that wait.
LEMMA WalkExpands ==
  ASSUME WalkInv, walk.pc = "on", walk.frontier # <<>>, UNCHANGED palace,
         walk.hop[Head(walk.frontier)] < walk.hops, NEW order \in SetToSeqs(Unlisted),
         walk' = [walk EXCEPT !.frontier = Waiting(order), !.hop = Distances]
  PROVE  WalkInv'
<1> DEFINE F == walk.frontier
           room == Head(F)
           rest == Tail(F)
           H == DOMAIN walk.hop
           h == walk.hop
           n == walk.hops
           depth == h[room]
           m == Len(rest)
           All == H \cup Unlisted
           G == Waiting(order)
           k == Distances
<1>1. walk \in WalkRecord /\ WalkSound(walk) /\ palace.is = "cached"
  BY DEF WalkInv
<1>2. F \in Seq(Room) /\ n \in 0..MaxHops /\ h \in HopsOf /\ MaxHops \in Nat
  BY <1>1, ViewsAssumption DEF WalkRecord
<1>3. /\ rest \in Seq(Room) /\ m = Len(F) - 1 /\ Len(F) \in Nat /\ Len(F) > 0 /\ F[1] = room
      /\ \A i \in 1..m : rest[i] = F[i + 1]
      /\ DOMAIN F = 1..Len(F) /\ DOMAIN rest = 1..m
      /\ ToSet(F) = {room} \cup ToSet(rest)
  BY <1>2, HeadAndTail
<1>4. /\ walk.start \in H /\ h[walk.start] = 0 /\ H \subseteq Nodes /\ ToSet(F) \subseteq H
      /\ \A r \in H : h[r] \in 0..n
      /\ \A i, j \in DOMAIN F : i <= j => h[F[i]] <= h[F[j]]
      /\ \A r \in H : h[r] <= h[F[1]] + 1
      /\ \A r \in H \ ToSet(F) : h[r] < n => \A s \in Nodes : Connected(r, s) => s \in H /\ h[s] <= h[r] + 1
      /\ \A r \in H : r = walk.start \/ \E p \in H : Connected(p, r) /\ h[r] = h[p] + 1
  BY <1>1 DEF WalkSound, Surveyed
<1>5. Unlisted \subseteq Nodes /\ Unlisted \subseteq Room /\ IsFiniteSet(Unlisted)
  <2>1. Unlisted \subseteq Nodes /\ Nodes \subseteq Room
    BY DEF Unlisted, Nodes
  <2>2. IsFiniteSet(Room) /\ Unlisted \subseteq Room
    BY <2>1, ViewsAssumption
  <2>3. IsFiniteSet(Unlisted)
    BY <2>2, FS_Subset, Zenon
  <2> QED BY <2>1, <2>2, <2>3
<1>6. order \in Seq(Unlisted) /\ ToSet(order) = Unlisted
  BY <1>5, EachOnce
<1>7. order \in Seq(Room)
  BY <1>5, <1>6
<1>8. /\ room \in H /\ depth \in Nat /\ n \in Nat /\ depth < n /\ \A r \in H : h[r] \in 0..n /\ h[r] <= depth + 1
  BY <1>2, <1>3, <1>4
<1>9. /\ \A s \in Unlisted : s \in Nodes /\ Connected(room, s) /\ s \notin H
      /\ \A s \in Nodes : Connected(room, s) => s \in All
  BY <1>5 DEF Unlisted
<1>10. /\ DOMAIN k = All /\ (\A r \in H : k[r] = h[r]) /\ \A r \in Unlisted : k[r] = depth + 1
  BY <1>9 DEF Distances
<1>12. /\ G \in Seq(Room) /\ ToSet(rest) \subseteq ToSet(G) /\ ToSet(G) \subseteq ToSet(rest) \cup Unlisted
       /\ m \in Nat /\ Len(G) \in Nat /\ m <= Len(G) /\ DOMAIN G = 1..Len(G)
       /\ \A i \in 1..m : G[i] = rest[i]
       /\ \A i \in DOMAIN G : i > m => G[i] \in Unlisted
       /\ depth + 1 < n => Unlisted \subseteq ToSet(G)
  <2>1. CASE depth + 1 < n
    <3>1. G = rest \o order
      BY <2>1 DEF Waiting
    <3>2. /\ G \in Seq(Room) /\ Len(G) = m + Len(order) /\ (\A i \in 1..m : G[i] = rest[i])
          /\ (\A i \in 1..Len(order) : G[m + i] = order[i]) /\ ToSet(G) = ToSet(rest) \cup ToSet(order)
      <4>1. rest \in Seq(Room) /\ order \in Seq(Room)
        BY <1>3, <1>7
      <4> HIDE DEF rest
      <4>2. /\ rest \o order \in Seq(Room) /\ Len(rest \o order) = Len(rest) + Len(order)
            /\ (\A i \in 1..Len(rest) : (rest \o order)[i] = rest[i])
            /\ (\A i \in 1..Len(order) : (rest \o order)[Len(rest) + i] = order[i])
            /\ ToSet(rest \o order) = ToSet(rest) \cup ToSet(order)
        BY <4>1, JoinedRows
      <4> QED BY <3>1, <4>2
    <3>3. Len(order) \in Nat /\ m \in Nat /\ \A i \in 1..Len(order) : order[i] \in Unlisted
      BY <1>3, <1>6
    <3>4. ASSUME NEW i \in 1..Len(G), i > m PROVE G[i] \in Unlisted
      <4>1. i - m \in 1..Len(order) /\ i = m + (i - m)
        BY <3>2, <3>3, <3>4
      <4> QED BY <3>2, <3>3, <4>1
    <3> QED BY <1>6, <3>2, <3>3, <3>4
  <2>2. CASE ~(depth + 1 < n)
    <3>1. G = rest
      BY <2>2 DEF Waiting
    <3> QED BY <1>3, <2>2, <3>1
  <2> QED BY <2>1, <2>2
<1>13. \A i \in 1..m : G[i] = F[i + 1]
  BY <1>3, <1>12
<1>20. Surveyed(k, All, G, walk.start, n) /\ \A r \in All : k[r] \in 0..n
  <2>1. Surveyed(h, H, F, walk.start, n)
    BY <1>1 DEF WalkSound
  <2>2. F # <<>> /\ F[1] = room
    BY <1>3
  <2>3. depth = h[F[1]] /\ All = H \cup Unlisted
    BY <2>2
  <2> HIDE DEF h, H, F, n, m, All, rest, depth, room, G, k
  <2>4. F \in Seq(Room) /\ G \in Seq(Room) /\ n \in Nat /\ depth < n /\ Unlisted \subseteq Nodes
    BY <1>2, <1>5, <1>8, <1>12
  <2>5. /\ \A s \in Unlisted : Connected(F[1], s) /\ s \notin H
        /\ \A s \in Nodes : Connected(F[1], s) => s \in All
    BY <1>9, <2>2
  <2>6. (\A r \in H : k[r] = h[r]) /\ \A r \in Unlisted : k[r] = depth + 1
    BY <1>10
  <2>7. m = Len(F) - 1 /\ m <= Len(G) /\ \A i \in 1..m : G[i] = F[i + 1]
    BY <1>3, <1>12, <1>13
  <2>8. (\A i \in DOMAIN G : i > m => G[i] \in Unlisted) /\ (depth + 1 < n => Unlisted \subseteq ToSet(G))
    BY <1>12
  <2>9. Grows(h, H, F, Unlisted, k, G, n)
    BY <2>2, <2>3, <2>4, <2>5, <2>6, <2>7, <2>8 DEF Grows
  <2>10. Surveyed(k, H \cup Unlisted, G, walk.start, n) /\ \A r \in H \cup Unlisted : k[r] \in 0..n
    BY <2>1, <2>9, SurveyGrows
  <2> QED BY <2>3, <2>10
<1> HIDE DEF All, G, k
<1>21. k \in HopsOf
  <2>1. All \subseteq Room
    BY <1>4, <1>5 DEF Nodes, All
  <2>2. k \in [All -> 0..MaxHops]
    <3>1. k = [r \in All |-> k[r]]
      BY DEF Distances, All, H, k
    <3>2. \A r \in All : k[r] \in 0..MaxHops
      <4>1. n \in Nat /\ n <= MaxHops /\ MaxHops \in Nat
        BY <1>2
      <4> HIDE DEF n
      <4> QED BY <1>20, <4>1
    <3> QED BY <3>1, <3>2
  <2> QED BY <2>1, <2>2 DEF HopsOf
<1>22. /\ walk' \in WalkRecord /\ walk'.pc = "on" /\ walk'.hop = k /\ walk'.frontier = G
       /\ walk'.start = walk.start /\ walk'.hops = n
  BY <1>1, <1>12, <1>21 DEF WalkRecord, G, k
<1>23. WalkSound(walk')
  BY <1>10, <1>20, <1>22 DEF WalkSound
<1>24. WalkSound(walk)'
  BY <1>23, SameGraph
<1> QED BY <1>1, <1>22, <1>24 DEF WalkInv

\* No walk is under way.
LEMMA NoWalkKeeps ==
  ASSUME walk' = NoWalk
  PROVE  WalkInv'
<1>1. NoWalk \in WalkRecord /\ NoWalk.pc = "off"
  BY ViewsAssumption DEF NoWalk, WalkRecord, HopsOf
<1>2. walk' \in WalkRecord /\ walk'.pc = "off"
  BY <1>1
<1> QED BY <1>2 DEF WalkInv

LEMMA WalkKept == ViewsInv /\ WalkInv /\ [ViewsNext]_viewsVars => WalkInv'
<1> SUFFICES ASSUME ViewsInv, WalkInv, [ViewsNext]_viewsVars PROVE WalkInv'
  OBVIOUS
<1>1. CASE palace'.read = palace.read /\ palace'.is = palace.is /\ UNCHANGED walk
  <2>1. walk' = walk /\ palace'.read = palace.read /\ palace'.is = palace.is
    BY <1>1
  <2>2. walk.pc = "on" => WalkSound(walk')
    BY <2>1 DEF WalkInv
  <2>3. walk.pc = "on" => WalkSound(walk)'
    BY <2>1, <2>2, SameGraph
  <2> QED BY <2>1, <2>3 DEF WalkInv
<1>2. CASE walk' = NoWalk
  BY <1>2, NoWalkKeeps
<1>3. ASSUME NEW r \in Room, NEW hops \in 0..MaxHops, StartWalk(r, hops) PROVE WalkInv'
  BY <1>3, WalkBegins
<1>4. CASE WalkStep
  <2> DEFINE room == Head(walk.frontier)
  <2>1. walk.pc = "on" /\ walk.frontier # <<>> /\ palace' = palace
    BY <1>4 DEF WalkStep
  <2>2. CASE walk.hop[room] >= walk.hops
    <3>1. walk' = [walk EXCEPT !.frontier = Tail(walk.frontier)]
      BY <1>4, <2>2 DEF WalkStep
    <3> QED BY <2>1, <2>2, <3>1, WalkPasses
  <2>3. CASE ~(walk.hop[room] >= walk.hops)
    <3>1. PICK order \in SetToSeqs(Unlisted) :
            walk' = [walk EXCEPT !.frontier = Waiting(order), !.hop = Distances]
      BY <1>4, <2>3 DEF WalkStep, Unlisted, Waiting, Distances
    <3>2. walk.hop[room] < walk.hops
      <4>1. walk.frontier \in Seq(Room) /\ walk.hops \in Nat /\ WalkSound(walk)
        BY <2>1, ViewsAssumption DEF WalkInv, WalkRecord
      <4>2. room \in ToSet(walk.frontier)
        BY <2>1, <4>1, HeadAndTail
      <4>3. walk.hop[room] \in 0..walk.hops
        BY <4>1, <4>2 DEF WalkSound, Surveyed
      <4> QED BY <2>3, <4>1, <4>3
    <3> QED BY <2>1, <3>1, <3>2, WalkExpands
  <2> QED BY <2>2, <2>3
<1>5. ASSUME NEW d \in Drawers, FileHere(d) PROVE WalkInv'
  <2>1. walk' = NoWalk
    BY <1>5 DEF FileHere, Idle
  <2> QED BY <2>1, NoWalkKeeps
<1>6. ASSUME NEW d \in Drawers, FileElsewhere(d) PROVE WalkInv'
  <2>1. palace' = [palace EXCEPT !.stale = palace.is # "none"] /\ walk' = walk
    BY <1>6 DEF FileElsewhere, Outdated
  <2>2. palace'.read = palace.read /\ palace'.is = palace.is
    BY <2>1 DEF ViewsInv, CachesSound, CacheRecord
  <2> QED BY <1>1, <2>1, <2>2
<1>7. CASE EditPolicy
  <2>1. palace' = [palace EXCEPT !.stale = @ \/ palace.is = "cached"] /\ walk' = walk
    BY <1>7 DEF EditPolicy
  <2>2. palace'.read = palace.read /\ palace'.is = palace.is
    BY <2>1 DEF ViewsInv, CachesSound, CacheRecord
  <2> QED BY <1>1, <2>1, <2>2
<1>8. CASE StartPalace \/ ScanPalace \/ ScanRaises
  <2>1. CASE palace' = palace /\ walk' = walk
    BY <1>1, <2>1
  <2>2. CASE palace.is # "cached" /\ walk' = walk
    <3>1. walk' = NoWalk
      BY <2>2 DEF WalkInv
    <3> QED BY <3>1, NoWalkKeeps
  <2> QED BY <1>8, <2>1, <2>2 DEF StartPalace, ScanPalace, ScanRaises
<1>9. ASSUME NEW order \in SetToSeqs(DOMAIN walk.hop), EndWalk(order) PROVE WalkInv'
  BY <1>2, <1>9 DEF EndWalk
<1> QED
  BY <1>1, <1>2, <1>3, <1>4, <1>5, <1>6, <1>7, <1>8, <1>9
  DEF ViewsNext, viewsVars, ScanCatalog, EndRebuild, RebuildDies, StartRebuild, RebuildWing

\* The rooms that are returned are the nearest.
LEMMA ShowsNearest ==
  ASSUME ViewsInv, WalkInv, NEW order \in SetToSeqs(DOMAIN walk.hop), EndWalk(order)
  PROVE  LET shown == ToSet(Returned(order))
         IN /\ shown \subseteq Reached(walk.start, walk.hops)
            /\ Cardinality(shown) <= WalkShown
            /\ \A s \in Reached(walk.start, walk.hops) \ shown :
                 /\ Cardinality(shown) = WalkShown
                 /\ \A r \in shown, k \in 0..walk.hops : s \in Reached(walk.start, k) => r \in Reached(walk.start, k)
<1> DEFINE H == DOMAIN walk.hop
           h == walk.hop
           m == IF Len(order) <= WalkShown THEN Len(order) ELSE WalkShown
           shown == ToSet(Returned(order))
<1>1. /\ H = Reached(walk.start, walk.hops)
      /\ \A r \in H : \A k \in 0..walk.hops : r \in Reached(walk.start, k) <=> h[r] <= k
  <2>1. walk.pc = "on" /\ walk.frontier = <<>>
    BY DEF EndWalk
  <2> QED BY <2>1, WalkFinds DEF WalkIsDistance
<1>2. walk \in WalkRecord /\ \A r \in H : h[r] \in 0..walk.hops
  <2>1. walk.pc = "on"
    BY DEF EndWalk
  <2> QED BY <2>1 DEF WalkInv, WalkSound, Surveyed
<1>3. walk.hops \in Nat
  BY <1>2, ViewsAssumption DEF WalkRecord
<1>4. IsFiniteSet(H)
  <2>1. H \subseteq Room
    <3>1. walk.hop \in HopsOf
      BY <1>2 DEF WalkRecord
    <3> QED BY <3>1 DEF HopsOf
  <2> QED BY <2>1, ViewsAssumption, FS_Subset, Zenon
<1>5. order \in Seq(H) /\ ToSet(order) = H /\ \A i, j \in 1..Len(order) : order[i] = order[j] => i = j
  <2>1. order \in Seq(H) /\ ToSet(order) = H
    BY <1>4, EachOnce
  <2>2. order \in [1..Cardinality(H) -> H] /\ \A i, j \in 1..Cardinality(H) : i # j => order[i] # order[j]
    BY <1>4, FS_CardinalityType DEF SetToSeqs
  <2>3. Cardinality(H) \in Nat
    BY <1>4, FS_CardinalityType
  <2> HIDE DEF H
  <2>4. Len(order) = Cardinality(H)
    BY <2>1, <2>2, <2>3
  <2> QED BY <2>1, <2>2, <2>4
<1>6. m \in Nat /\ m <= Len(order) /\ m <= WalkShown /\ WalkShown \in Nat /\ Len(order) \in Nat
      /\ (m < Len(order) => m = WalkShown)
  BY <1>5, ViewsAssumption
<1>7. shown = {order[i] : i \in 1..m}
  <2>1. Returned(order) = SubSeq(order, 1, m)
    BY DEF Returned
  <2> HIDE DEF m, H
  <2>2. /\ SubSeq(order, 0 + 1, m) \in Seq(H) /\ Len(SubSeq(order, 0 + 1, m)) = m - 0
        /\ \A i \in 1..(m - 0) : SubSeq(order, 0 + 1, m)[i] = order[0 + i]
    BY <1>5, <1>6, PageRows
  <2>5. 0 + 1 = 1 /\ m - 0 = m /\ \A i \in 1..m : 0 + i = i
    BY <1>6
  <2>3. DOMAIN Returned(order) = 1..m /\ \A i \in 1..m : Returned(order)[i] = order[i]
    BY <2>1, <2>2, <2>5
  <2> QED BY <2>3 DEF ToSet
<1> HIDE DEF m, shown
<1>8. Cardinality(shown) = m
  <2>1. \A i, j \in 1..m : order[i] = order[j] => i = j
    BY <1>5, <1>6
  <2> HIDE DEF H
  <2> QED BY <1>6, <1>7, <2>1, DistinctCount
<1>9. shown \subseteq H
  BY <1>5, <1>6, <1>7
<1>10. ASSUME NEW s \in H \ shown
       PROVE  m = WalkShown /\ \A r \in shown : h[r] <= h[s]
  <2>1. PICK j \in DOMAIN order : s = order[j]
    BY <1>5 DEF ToSet
  <2>2. DOMAIN order = 1..Len(order)
    BY <1>5
  <2>3. j \in 1..Len(order) /\ ~(j <= m)
    BY <1>6, <1>7, <2>1, <2>2
  <2>4. m < Len(order)
    BY <1>6, <2>3
  <2>5. ASSUME NEW r \in shown PROVE h[r] <= h[s]
    <3>1. PICK i \in 1..m : r = order[i]
      BY <1>7
    <3>2. i <= j /\ i \in DOMAIN order
      BY <1>6, <2>2, <2>3, <3>1
    <3> QED BY <2>1, <3>1, <3>2 DEF EndWalk
  <2> QED BY <1>6, <2>4, <2>5
<1>11. ASSUME NEW s \in H \ shown, NEW r \in shown, NEW k \in 0..walk.hops, s \in Reached(walk.start, k)
       PROVE  r \in Reached(walk.start, k)
  <2>1. h[s] <= k /\ h[r] <= h[s] /\ r \in H
    BY <1>1, <1>9, <1>10, <1>11
  <2>2. h[r] \in Nat /\ h[s] \in Nat /\ k \in Nat
    BY <1>2, <1>3, <2>1
  <2>3. h[r] <= k
    BY <2>1, <2>2
  <2> QED BY <1>1, <2>1, <2>3
<1>12. /\ shown \subseteq Reached(walk.start, walk.hops) /\ Cardinality(shown) <= WalkShown
       /\ \A s \in Reached(walk.start, walk.hops) \ shown :
            /\ Cardinality(shown) = WalkShown
            /\ \A r \in shown, k \in 0..walk.hops : s \in Reached(walk.start, k) => r \in Reached(walk.start, k)
  <2> HIDE DEF H, h
  <2> QED BY <1>1, <1>6, <1>8, <1>9, <1>10, <1>11
<1> QED BY <1>12 DEF shown

\* Views: what a process answers from its caches is right for the collection, unless
\* others have written; traverse returns the nearest of the rooms within its hops,
\* as many as it shows; an undisturbed rebuild leaves the cards of the collection.
THEOREM ViewsAreSound == ViewsSpec => ViewsSound
<1> DEFINE Nearest == \A order \in SetToSeqs(DOMAIN walk.hop) : EndWalk(order) =>
             LET shown == ToSet(Returned(order))
             IN /\ shown \subseteq Reached(walk.start, walk.hops)
                /\ Cardinality(shown) <= WalkShown
                /\ \A s \in Reached(walk.start, walk.hops) \ shown :
                     /\ Cardinality(shown) = WalkShown
                     /\ \A r \in shown, k \in 0..walk.hops : s \in Reached(walk.start, k) => r \in Reached(walk.start, k)
<1>1. ViewsInv /\ WalkInv => CachedAnswers
  BY CachesAnswer, WalkFinds DEF CachedAnswers
<1>2. ViewsInit => ViewsInv /\ WalkInv
  BY ViewsInvInit, WalkStarts
<1>3. (ViewsInv /\ WalkInv) /\ [ViewsNext]_viewsVars => (ViewsInv /\ WalkInv)'
  BY ViewsInvStep, WalkKept
<1>4. ViewsInv /\ WalkInv => Nearest
  BY ShowsNearest
<1>5. ViewsSpec => [](ViewsInv /\ WalkInv)
  BY <1>2, <1>3, PTL DEF ViewsSpec
<1>6. (ViewsInv /\ WalkInv) /\ [ViewsNext]_viewsVars => [Nearest]_viewsVars
  BY <1>4
<1>7. ViewsSpec => WalkShowsNearest
  BY <1>2, <1>3, <1>6, PTL DEF ViewsSpec, WalkShowsNearest
<1> QED BY <1>1, <1>5, <1>7, ViewsAreFresh, PTL DEF ViewsSound

\* The values of what is cached, of the cards and of a rebuild.
ViewsTypes ==
  /\ \A w \in Wing : cards[w].rows \subseteq OfWing(Drawers, w)
  /\ rebuild.left \subseteq Wing

THEOREM ViewsTyped == ViewsSpec => []ViewsTypeOK
<1>1. ViewsInit => ViewsTypes
  BY DEF ViewsInit, ViewsTypes, NoCards, NoRebuild
<1>2. ViewsInv /\ ViewsTypes /\ [ViewsNext]_viewsVars => ViewsTypes'
  <2> SUFFICES ASSUME ViewsInv, ViewsTypes, [ViewsNext]_viewsVars PROVE ViewsTypes'
    OBVIOUS
  <2>1. cards \in [Wing -> [present : BOOLEAN, rows : SUBSET Drawers]]
    BY DEF ViewsInv, RebuildSound
  <2>2. CASE UNCHANGED <<cards, rebuild>>
    BY <2>2 DEF ViewsTypes
  <2>5. ASSUME NEW scope \in {Wing} \cup {{w} : w \in Wing}, StartRebuild(scope) PROVE ViewsTypes'
    <3>1. rebuild'.left = scope /\ scope \subseteq Wing /\ UNCHANGED cards
      BY <2>5 DEF StartRebuild
    <3> QED BY <3>1 DEF ViewsTypes
  <2>6. CASE EndRebuild \/ RebuildDies
    BY <2>6 DEF EndRebuild, RebuildDies, NoRebuild, ViewsTypes
  <2>7. ASSUME NEW w \in Wing, RebuildWing(w) PROVE ViewsTypes'
    <3>1. /\ cards' = [cards EXCEPT ![w] = Rebuilt(w)] /\ rebuild' = [rebuild EXCEPT !.left = @ \ {w}]
          /\ rebuild.pc = "write"
      BY <2>7 DEF RebuildWing
    <3>2. rebuild'.left \subseteq Wing
      BY <3>1 DEF ViewsTypes
    <3>3. Rebuilt(w).rows \subseteq OfWing(Drawers, w)
      BY <3>1 DEF Rebuilt, OfWing, NoCards, ViewsInv, RebuildSound
    <3>4. \A v \in Wing : cards'[v] = IF v = w THEN Rebuilt(w) ELSE cards[v]
      BY <2>1, <3>1
    <3> QED BY <3>1, <3>2, <3>3, <3>4 DEF ViewsTypes, OfWing
  <2> QED
    BY <2>2, <2>5, <2>6, <2>7
    DEF ViewsNext, viewsVars, WalkStep, EndWalk, StartWalk, FileHere, FileElsewhere, EditPolicy, ScanCatalog,
        StartPalace, ScanPalace, ScanRaises
<1>3. ViewsInv /\ ViewsTypes /\ WalkInv => ViewsTypeOK
  <2> SUFFICES ASSUME ViewsInv, ViewsTypes, WalkInv PROVE ViewsTypeOK
    OBVIOUS
  <2>1. DOMAIN walk.hop \subseteq Room
    <3>1. walk.hop \in HopsOf
      BY DEF WalkInv, WalkRecord
    <3> QED BY <3>1 DEF HopsOf
  <2> QED BY <2>1 DEF ViewsTypeOK, ViewsTypes, ViewsInv, CachesSound, CacheRecord
<1>4. ViewsSpec => [](ViewsInv /\ WalkInv /\ ViewsTypes)
  BY <1>1, <1>2, ViewsInvInit, ViewsInvStep, WalkStarts, WalkKept, PTL DEF ViewsSpec
<1> QED BY <1>3, <1>4, PTL
-----------------------------------------------------------------------------
(* Filters: three translations of one clause.                              *)

FiltersInv ==
  /\ meta \in Metas /\ clause \in Clause
  /\ answered # <<>> =>
       \E inLance \in InLance, inPostgres \in InPostgres :
         answered = [memory |-> InMemory, lance |-> inLance, postgres |-> inPostgres]

LEMMA FiltersInvStep == FiltersInv /\ [AskBackends]_filterVars => FiltersInv'
<1> SUFFICES ASSUME FiltersInv, [AskBackends]_filterVars PROVE FiltersInv'
  OBVIOUS
<1>1. meta' = meta /\ clause' = clause
  BY DEF AskBackends, filterVars
<1>2. InMemory' = InMemory
  BY <1>1 DEF InMemory, MemoryRaises, MemoryHolds, Has
<1>3. LanceParts' = LanceParts
  BY <1>1 DEF LanceParts
<1>4. InLance' = InLance
  BY <1>1, <1>3 DEF InLance, LanceSelects, QuotesNumber, Joined, Column, Has
<1>5. InPostgres' = InPostgres
  BY <1>1 DEF InPostgres, CastFails, Casts, PostgresHolds, Joined, Column, Has
<1>6. \/ answered' = answered
      \/ \E inLance \in InLance, inPostgres \in InPostgres :
           answered' = [memory |-> InMemory, lance |-> inLance, postgres |-> inPostgres]
  BY DEF AskBackends, filterVars
<1> QED BY <1>1, <1>2, <1>4, <1>5, <1>6 DEF FiltersInv

\* The conditions of a clause are conditions, with values that their fields have.
LEMMA ConditionTyped ==
  \A c \in Condition :
    c.field \in Field /\ c.op \in Op /\ c.value \in FieldValue[c.field] /\ c.value \in Value /\ c.value.n > 0
<1> SUFFICES ASSUME NEW c \in Condition
             PROVE  c.field \in Field /\ c.op \in Op /\ c.value \in FieldValue[c.field] /\ c.value \in Value /\ c.value.n > 0
  OBVIOUS
<1>1. PICK f \in Field : c \in [field : {f}, op : Op, value : FieldValue[f]]
  BY DEF Condition
<1> QED BY <1>1, FiltersAssumption

LEMMA ClauseTyped ==
  ASSUME FiltersInv
  PROVE  /\ clause.parts \in Seq(Condition) /\ clause.join \in {"$and", "$or"}
         /\ \A i \in DOMAIN clause.parts : clause.parts[i] \in Condition
<1>1. clause \in Clause
  BY DEF FiltersInv
<1>2. clause.join \in {"$and", "$or"} /\ clause.parts \in {<<>>} \cup {<<c>> : c \in Condition} \cup (Paired \X Paired)
  BY <1>1 DEF Clause
<1>3. CASE clause.parts = <<>>
  BY <1>2, <1>3
<1>4. ASSUME NEW c \in Condition, clause.parts = <<c>> PROVE clause.parts \in Seq(Condition)
  BY <1>4
<1>5. ASSUME clause.parts \in Paired \X Paired PROVE clause.parts \in Seq(Condition)
  <2>1. PICK c \in Paired : \E d \in Paired : clause.parts = <<c, d>>
    BY <1>5
  <2>2. PICK d \in Paired : clause.parts = <<c, d>>
    BY <2>1
  <2>3. c \in Condition /\ d \in Condition
    BY FiltersAssumption
  <2>4. <<c, d>> \in Seq(Condition)
    BY <2>3
  <2> QED BY <2>2, <2>4
<1>6. clause.parts \in Seq(Condition)
  BY <1>2, <1>3, <1>4, <1>5
<1> QED BY <1>2, <1>6

\* What a record holds of a field.
LEMMA MetaTyped ==
  ASSUME FiltersInv, NEW f, Has(f)
  PROVE  f \in Field /\ meta[f] \in FieldValue[f] /\ meta[f] \in Value /\ meta[f].n > 0
<1>1. PICK fields \in SUBSET Field :
        meta \in {m \in [fields -> UNION {FieldValue[g] : g \in fields}] : \A g \in fields : m[g] \in FieldValue[g]}
  BY DEF FiltersInv, Metas
<1>2. DOMAIN meta = fields /\ \A g \in fields : meta[g] \in FieldValue[g]
  BY <1>1
<1> QED BY <1>2, FiltersAssumption DEF Has

\* Where Python can compare, memory answers what the conditions say, joined.
LEMMA MemoryJoins ==
  ASSUME FiltersInv, \A i \in DOMAIN clause.parts : ~MemoryRaises(clause.parts[i])
  PROVE  InMemory = Says(Joined(clause.join, clause.parts, MemoryHolds))
<1> DEFINE P == clause.parts
           D == {i \in DOMAIN P : MemoryRaises(P[i]) \/ MemoryHolds(P[i]) # (clause.join = "$and")}
<1>1. P \in Seq(Condition)
  BY ClauseTyped
<1>2. D \subseteq 1..Len(P) /\ Len(P) \in Nat /\ DOMAIN P = 1..Len(P)
  BY <1>1
<1>3. InMemory = IF D = {} THEN Says(clause.join = "$and")
                 ELSE IF MemoryRaises(P[Min(D)]) THEN "raises" ELSE Says(clause.join # "$and")
  BY DEF InMemory
<1>4. \A i \in DOMAIN P : MemoryHolds(P[i]) \in BOOLEAN /\ (i \in D <=> MemoryHolds(P[i]) # (clause.join = "$and"))
  BY DEF MemoryHolds
<1>5. Joined(clause.join, P, MemoryHolds) <=>
        IF clause.join = "$and" THEN \A i \in DOMAIN P : MemoryHolds(P[i]) ELSE \E i \in DOMAIN P : MemoryHolds(P[i])
  BY DEF Joined
<1>11. IsFiniteSet(D) /\ D \in SUBSET Int
  <2> HIDE DEF D
  <2>1. 1 \in Int /\ Len(P) \in Int /\ D \subseteq 1..Len(P)
    BY <1>2
  <2>2. IsFiniteSet(1..Len(P))
    BY <2>1, FS_Interval
  <2>3. IsFiniteSet(D)
    BY <2>1, <2>2, FS_Subset
  <2> QED BY <2>1, <2>3
<1>6. D # {} => Min(D) \in D /\ Min(D) \in DOMAIN P
  <2> HIDE DEF D
  <2> QED BY <1>2, <1>11, LeastAndGreatest
<1> HIDE DEF D, P
<1>7. ~\E i \in DOMAIN P : MemoryRaises(P[i])
  BY DEF P
<1>8. InMemory = IF D = {} THEN Says(clause.join = "$and") ELSE Says(clause.join # "$and")
  BY <1>3, <1>6, <1>7
<1>9. CASE D = {}
  <2>1. Joined(clause.join, P, MemoryHolds) <=> clause.join = "$and"
    BY <1>4, <1>5, <1>9
  <2> QED BY <1>8, <1>9, <2>1 DEF Says, P
<1>10. CASE D # {}
  <2>0. D \subseteq DOMAIN P
    BY <1>2
  <2>1. Joined(clause.join, P, MemoryHolds) <=> clause.join # "$and"
    BY <1>4, <1>5, <1>10, <2>0
  <2> QED BY <1>8, <1>10, <2>1 DEF Says, P
<1> QED BY <1>9, <1>10

\* Where a clause has no unknown operator LanceDB is asked for all its conditions.
LEMMA LanceAsksAll ==
  ASSUME FiltersInv, EachPart(LAMBDA c : c.op # "$regex")
  PROVE  /\ (LanceParts = <<>>) <=> (clause.parts = <<>>)
         /\ \A i \in DOMAIN clause.parts : \E j \in DOMAIN LanceParts : LanceParts[j] = clause.parts[i]
         /\ \A j \in DOMAIN LanceParts : \E i \in DOMAIN clause.parts : LanceParts[j] = clause.parts[i]
<1> DEFINE P == clause.parts
           K == {i \in DOMAIN P : P[i].op # "$regex"}
           L == LanceParts
<1>1. P \in Seq(Condition)
  BY ClauseTyped
<1>2. K = 1..Len(P) /\ Len(P) \in Nat /\ DOMAIN P = 1..Len(P)
  BY <1>1 DEF EachPart
<1>3. L = Picked(P, K)
  BY DEF LanceParts
<1> HIDE DEF P, K, L
<1>4. /\ Cardinality(K) \in Nat /\ L \in Seq(Condition) /\ Len(L) = Cardinality(K)
      /\ Ascending(K) \in [1..Cardinality(K) -> K]
      /\ \A i \in 1..Cardinality(K) : L[i] = P[Ascending(K)[i]]
      /\ \A k \in K : \E i \in 1..Cardinality(K) : Ascending(K)[i] = k
  <2>1. K \in SUBSET (1..Len(P))
    BY <1>2
  <2> QED BY <1>1, <1>3, <2>1, PickedRows
<1>5. DOMAIN L = 1..Cardinality(K)
  BY <1>4
<1>6. \A i \in DOMAIN P : \E j \in DOMAIN L : L[j] = P[i]
  <2> SUFFICES ASSUME NEW i \in DOMAIN P PROVE \E j \in DOMAIN L : L[j] = P[i]
    OBVIOUS
  <2>1. i \in K
    BY <1>2
  <2>2. PICK j \in 1..Cardinality(K) : Ascending(K)[j] = i
    BY <1>4, <2>1
  <2> QED BY <1>4, <1>5, <2>2
<1>7. \A j \in DOMAIN L : \E i \in DOMAIN P : L[j] = P[i]
  BY <1>2, <1>4, <1>5
<1>8. L = <<>> <=> P = <<>>
  <2>1. L = <<>> <=> DOMAIN L = {}
    BY <1>4
  <2>2. P = <<>> <=> DOMAIN P = {}
    BY <1>1
  <2> QED BY <1>6, <1>7, <2>1, <2>2
<1> QED BY <1>6, <1>7, <1>8 DEF P, L

\* A clause on the columns of both databases selects what its conditions say of the
\* columns.
SqlHolds(c) == Compare(c.op, Column(c.field), c.value)

LEMMA SqlAnswers ==
  ASSUME FiltersInv, EachPart(OnColumns)
  PROVE  /\ InLance = {Says(clause.parts = <<>> \/ Joined(clause.join, clause.parts, SqlHolds))}
         /\ InPostgres = {Says(clause.parts = <<>> \/ Joined(clause.join, clause.parts, SqlHolds))}
<1>1. \A i \in DOMAIN clause.parts :
        /\ clause.parts[i].field \in PgColumned /\ clause.parts[i].field \in LanceColumned
        /\ clause.parts[i].op # "$regex" /\ ~QuotesNumber(clause.parts[i])
  BY FiltersAssumption DEF EachPart, OnColumns, QuotesNumber, Ordering
<1>2. EachPart(LAMBDA c : c.op # "$regex")
  BY <1>1 DEF EachPart
<1>3. /\ (LanceParts = <<>>) <=> (clause.parts = <<>>)
      /\ \A i \in DOMAIN clause.parts : \E j \in DOMAIN LanceParts : LanceParts[j] = clause.parts[i]
      /\ \A j \in DOMAIN LanceParts : \E i \in DOMAIN clause.parts : LanceParts[j] = clause.parts[i]
  BY <1>2, LanceAsksAll
<1>4. LanceSelects <=> (clause.parts = <<>> \/ Joined(clause.join, clause.parts, SqlHolds))
  <2>1. CASE clause.join = "$and"
    BY <1>3, <2>1 DEF LanceSelects, Joined, SqlHolds
  <2>2. CASE clause.join # "$and"
    BY <1>3, <2>2 DEF LanceSelects, Joined, SqlHolds
  <2> QED BY <2>1, <2>2
<1>5. InLance = {Says(LanceSelects)}
  BY <1>1, <1>3 DEF InLance
<1>6. \A i \in DOMAIN clause.parts : ~CastFails(clause.parts[i])
  BY <1>1 DEF CastFails, Casts
<1>7. Joined(clause.join, clause.parts, PostgresHolds) <=> Joined(clause.join, clause.parts, SqlHolds)
  BY <1>1 DEF Joined, PostgresHolds, SqlHolds
<1>8. InPostgres = {Says(clause.parts = <<>> \/ Joined(clause.join, clause.parts, PostgresHolds))}
  BY <1>1, <1>6 DEF InPostgres
<1> QED BY <1>4, <1>5, <1>7, <1>8 DEF Says

\* What an operator says of two values.
LEMMA Comparisons ==
  ASSUME NEW op \in {"$eq", "$ne", "$gt", "$gte", "$in"}, NEW a, NEW v
  PROVE  Compare(op, a, v) <=> \/ op \in {"$eq", "$in"} /\ a = v
                               \/ op = "$ne" /\ a # v
                               \/ op = "$gt" /\ a.n > v.n
                               \/ op = "$gte" /\ a.n >= v.n
<1>1. CASE op = "$eq"
  BY <1>1 DEF Compare
<1>2. CASE op = "$in"
  BY <1>2 DEF Compare
<1>3. CASE op = "$ne"
  BY <1>3 DEF Compare
<1>4. CASE op = "$gt"
  BY <1>4 DEF Compare
<1>5. CASE op = "$gte"
  BY <1>5 DEF Compare
<1> QED BY <1>1, <1>2, <1>3, <1>4, <1>5

\* What a portable condition says of the columns it says of the record.
LEMMA PortableHolds ==
  ASSUME FiltersInv, NEW c \in Condition, Portable(c)
  PROVE  ~MemoryRaises(c) /\ (MemoryHolds(c) <=> SqlHolds(c))
<1>1. /\ c.field \in Field /\ c.value \in FieldValue[c.field] /\ c.value \in Value /\ c.value.n > 0
      /\ c.field \in PgColumned /\ c.field \in LanceColumned
  BY ConditionTyped, FiltersAssumption DEF Portable
<1>2. c.value.is = Kind(c.field) /\ ColumnDefault[c.field] \in Value /\ ColumnDefault[c.field].n = 0
  BY <1>1, FiltersAssumption DEF Portable
<1>3. Has(c.field) => meta[c.field] \in Value /\ meta[c.field].is = Kind(c.field)
  BY <1>1, MetaTyped, FiltersAssumption
<1>4. ~MemoryRaises(c)
  BY <1>2, <1>3 DEF MemoryRaises
<1>5. c.op \in {"$eq", "$ne", "$gt", "$gte", "$in"}
  BY DEF Portable
<1>6. \A v \in Value : v.n \in Nat
  BY DEF Value
<1>7. c.value # ColumnDefault[c.field]
  BY <1>1, <1>2
<1>8. CASE Has(c.field)
  <2>1. Column(c.field) = meta[c.field]
    BY <1>8 DEF Column
  <2>2. CASE c.op = "$ne"
    <3>1. Compare(c.op, meta[c.field], c.value) <=> meta[c.field] # c.value
      BY <2>2, Comparisons
    <3> QED BY <1>4, <1>8, <2>1, <2>2, <3>1 DEF MemoryHolds, SqlHolds
  <2>3. CASE c.op # "$ne"
    BY <1>4, <1>5, <1>8, <2>1, <2>3 DEF MemoryHolds, SqlHolds
  <2> QED BY <2>2, <2>3
<1>9. CASE ~Has(c.field)
  <2> DEFINE d == ColumnDefault[c.field]
             v == c.value
  <2>1. Column(c.field) = d /\ d.n = 0 /\ v.n \in Nat /\ v.n > 0 /\ v # d
    BY <1>1, <1>2, <1>6, <1>7, <1>9 DEF Column
  <2> HIDE DEF d, v
  <2>2. Compare(c.op, d, v) <=> \/ c.op \in {"$eq", "$in"} /\ d = v
                                \/ c.op = "$ne" /\ d # v
                                \/ c.op = "$gt" /\ d.n > v.n
                                \/ c.op = "$gte" /\ d.n >= v.n
    BY <1>5, Comparisons
  <2>3. Compare(c.op, d, v) <=> c.op = "$ne"
    BY <1>5, <2>1, <2>2
  <2>4. SqlHolds(c) <=> c.op = "$ne"
    BY <2>1, <2>3 DEF SqlHolds, v
  <2>5. MemoryHolds(c) <=> c.op = "$ne"
    BY <1>5, <1>9 DEF MemoryHolds
  <2> QED BY <1>4, <2>4, <2>5
<1> QED BY <1>4, <1>8, <1>9

LEMMA AnswersAgree == FiltersInv => BackendsAgree
<1> SUFFICES ASSUME FiltersInv, answered # <<>>, EachPart(Portable), clause.parts # <<>>
             PROVE  answered.memory = answered.lance /\ answered.lance = answered.postgres
  BY DEF BackendsAgree
<1>1. EachPart(OnColumns)
  BY DEF EachPart, Portable, OnColumns, Ordering
<1>2. \A i \in DOMAIN clause.parts :
        ~MemoryRaises(clause.parts[i]) /\ (MemoryHolds(clause.parts[i]) <=> SqlHolds(clause.parts[i]))
  BY ClauseTyped, PortableHolds DEF EachPart
<1>3. Joined(clause.join, clause.parts, MemoryHolds) <=> Joined(clause.join, clause.parts, SqlHolds)
  BY <1>2 DEF Joined
<1>4. InMemory = Says(Joined(clause.join, clause.parts, MemoryHolds))
  BY <1>2, MemoryJoins
<1>5. /\ InLance = {Says(clause.parts = <<>> \/ Joined(clause.join, clause.parts, SqlHolds))}
      /\ InPostgres = {Says(clause.parts = <<>> \/ Joined(clause.join, clause.parts, SqlHolds))}
  BY <1>1, SqlAnswers
<1>6. InMemory = Says(clause.parts = <<>> \/ Joined(clause.join, clause.parts, SqlHolds))
  BY <1>3, <1>4 DEF Says
<1> HIDE DEF InMemory, InLance, InPostgres
<1>7. PICK inLance \in InLance : \E inPostgres \in InPostgres :
        answered = [memory |-> InMemory, lance |-> inLance, postgres |-> inPostgres]
  BY DEF FiltersInv
<1>8. PICK inPostgres \in InPostgres : answered = [memory |-> InMemory, lance |-> inLance, postgres |-> inPostgres]
  BY <1>7
<1> QED BY <1>5, <1>6, <1>8

LEMMA SqlAgree == FiltersInv => SqlAgrees
<1> SUFFICES ASSUME FiltersInv, answered # <<>>, EachPart(OnColumns) PROVE answered.lance = answered.postgres
  BY DEF SqlAgrees
<1>1. InLance = InPostgres /\ \A x, y \in InLance : x = y
  BY SqlAnswers
<1>2. PICK inLance \in InLance : \E inPostgres \in InPostgres :
        answered = [memory |-> InMemory, lance |-> inLance, postgres |-> inPostgres]
  BY DEF FiltersInv
<1>3. PICK inPostgres \in InPostgres : answered = [memory |-> InMemory, lance |-> inLance, postgres |-> inPostgres]
  BY <1>2
<1> QED BY <1>1, <1>3

\* What decides in memory is what raises there, or decides for what is joined.
LEMMA MemoryDecides ==
  ASSUME FiltersInv
  PROVE  /\ clause.join # "$and" /\ (\E i \in DOMAIN clause.parts : MemoryHolds(clause.parts[i])) => InMemory # "no"
         /\ clause.join = "$and" /\ (\A i \in DOMAIN clause.parts : MemoryHolds(clause.parts[i])) => InMemory # "no"
<1> DEFINE P == clause.parts
           D == {i \in DOMAIN P : MemoryRaises(P[i]) \/ MemoryHolds(P[i]) # (clause.join = "$and")}
<1>1. P \in Seq(Condition)
  BY ClauseTyped
<1>2. D \subseteq 1..Len(P) /\ Len(P) \in Nat
  BY <1>1
<1>3. InMemory = IF D = {} THEN Says(clause.join = "$and")
                 ELSE IF MemoryRaises(P[Min(D)]) THEN "raises" ELSE Says(clause.join # "$and")
  BY DEF InMemory
<1>4. \A i \in DOMAIN P : MemoryHolds(P[i]) \in BOOLEAN
  BY DEF MemoryHolds
<1>8. IsFiniteSet(D) /\ D \in SUBSET Int
  <2> HIDE DEF D
  <2>1. 1 \in Int /\ Len(P) \in Int /\ D \subseteq 1..Len(P)
    BY <1>2
  <2>2. IsFiniteSet(1..Len(P))
    BY <2>1, FS_Interval
  <2>3. IsFiniteSet(D)
    BY <2>1, <2>2, FS_Subset
  <2> QED BY <2>1, <2>3
<1>5. D # {} => Min(D) \in D
  <2> HIDE DEF D
  <2> QED BY <1>2, <1>8, LeastAndGreatest
<1>6. ASSUME clause.join # "$and", NEW i \in DOMAIN P, MemoryHolds(P[i]) PROVE InMemory # "no"
  <2>1. i \in D
    BY <1>6
  <2> HIDE DEF D
  <2> QED BY <1>3, <1>6, <2>1 DEF Says
<1>7. ASSUME clause.join = "$and", \A i \in DOMAIN P : MemoryHolds(P[i]) PROVE InMemory # "no"
  <2>1. \A i \in D : MemoryRaises(P[i])
    BY <1>4, <1>7
  <2> HIDE DEF D
  <2> QED BY <1>3, <1>5, <1>7, <2>1 DEF Says
<1> QED BY <1>6, <1>7

LEMMA JsonAgree == FiltersInv => JsonAgrees
<1> DEFINE Castless(c) == c.op \notin {"$ne", "$nin"} /\ ~CastFails(c)
           P == clause.parts
<1> SUFFICES ASSUME FiltersInv, answered # <<>>, EachPart(InJson), P # <<>>
             PROVE  /\ answered.postgres = "yes" => answered.memory # "no"
                    /\ EachPart(Castless) => answered.postgres = answered.memory
  BY DEF JsonAgrees
<1>1. \A i \in DOMAIN P : P[i] \in Condition /\ P[i].field \notin PgColumned /\ P[i].op # "$regex"
  BY ClauseTyped DEF EachPart, InJson
<1>2. clause.join \in {"$and", "$or"}
  BY ClauseTyped
<1>3. ASSUME NEW i \in DOMAIN P PROVE PostgresHolds(P[i]) => MemoryHolds(P[i])
  <2>1. P[i].op \in Op
    BY <1>1, ConditionTyped
  <2> QED BY <1>1, <2>1 DEF PostgresHolds, MemoryHolds, Compare, Op, Ordering
<1>4. \A i \in DOMAIN P : PostgresHolds(P[i]) \in BOOLEAN
  <2> SUFFICES ASSUME NEW i \in DOMAIN P PROVE PostgresHolds(P[i]) \in BOOLEAN
    OBVIOUS
  <2>1. PostgresHolds(P[i]) = (Has(P[i].field) /\ Compare(P[i].op, meta[P[i].field], P[i].value))
    BY <1>1 DEF PostgresHolds
  <2> QED BY <2>1
<1>5. PICK inLance \in InLance : \E inPostgres \in InPostgres :
        answered = [memory |-> InMemory, lance |-> inLance, postgres |-> inPostgres]
  BY DEF FiltersInv
<1>6. PICK inPostgres \in InPostgres : answered = [memory |-> InMemory, lance |-> inLance, postgres |-> inPostgres]
  BY <1>5
<1>7. answered.memory = InMemory /\ answered.postgres = inPostgres
  BY <1>6
<1> DEFINE D == {i \in DOMAIN P : ~CastFails(P[i]) /\ PostgresHolds(P[i]) # (clause.join = "$and")}
           J == Joined(clause.join, P, PostgresHolds)
<1>8. InPostgres = IF \E i \in DOMAIN P : CastFails(P[i])
                   THEN {"raises"} \cup (IF D = {} THEN {} ELSE {Says(clause.join # "$and")})
                   ELSE {Says(P = <<>> \/ J)}
  BY <1>1 DEF InPostgres
<1>9. J <=> IF clause.join = "$and" THEN \A i \in DOMAIN P : PostgresHolds(P[i]) ELSE \E i \in DOMAIN P : PostgresHolds(P[i])
  BY DEF Joined
<1>10. \A i \in D : i \in DOMAIN P /\ (clause.join # "$and" => PostgresHolds(P[i]))
  BY <1>4
<1> HIDE DEF D, J
<1>11. ASSUME inPostgres = "yes" PROVE InMemory # "no"
  <2>1. CASE \E i \in DOMAIN P : CastFails(P[i])
    <3>1. D # {} /\ clause.join # "$and"
      BY <1>8, <1>11, <2>1 DEF Says
    <3>2. PICK i \in D : TRUE
      BY <3>1
    <3>3. i \in DOMAIN P /\ MemoryHolds(P[i])
      BY <1>3, <1>10, <3>1, <3>2
    <3> QED BY <3>1, <3>3, MemoryDecides
  <2>2. CASE ~\E i \in DOMAIN P : CastFails(P[i])
    <3>1. J
      BY <1>8, <1>11, <2>2 DEF Says
    <3> QED BY <1>3, <1>9, <3>1, MemoryDecides
  <2> QED BY <2>1, <2>2
<1>12. ASSUME EachPart(Castless) PROVE inPostgres = InMemory
  <2>1. \A i \in DOMAIN P : P[i].op \notin {"$ne", "$nin"} /\ ~CastFails(P[i])
    BY <1>12 DEF EachPart
  <2>2. ASSUME NEW i \in DOMAIN P PROVE MemoryHolds(P[i]) <=> PostgresHolds(P[i])
    <3>1. P[i].op \in Op
      BY <1>1, ConditionTyped
    <3> QED BY <1>1, <2>1, <3>1 DEF PostgresHolds, MemoryHolds, Compare, Op, Ordering
  <2>3. ASSUME NEW i \in DOMAIN P PROVE ~MemoryRaises(P[i])
    <3> SUFFICES ASSUME P[i].op \in Ordering, Has(P[i].field) PROVE meta[P[i].field].is = P[i].value.is
      BY DEF MemoryRaises
    <3>1. P[i].value \in Value /\ meta[P[i].field] \in Value
      BY <1>1, ConditionTyped, MetaTyped
    <3>2. P[i].value.is # "text" /\ meta[P[i].field].is # "text"
      BY <1>1, <2>1 DEF CastFails, Casts
    <3> QED BY <3>1, <3>2 DEF Value
  <2>4. InMemory = Says(Joined(clause.join, P, MemoryHolds))
    BY <2>3, MemoryJoins
  <2>5. Joined(clause.join, P, MemoryHolds) <=> J
    BY <1>9, <2>2 DEF Joined
  <2>6. inPostgres = Says(P = <<>> \/ J)
    BY <1>8, <2>1
  <2> QED BY <2>4, <2>5, <2>6 DEF Says
<1> QED BY <1>7, <1>11, <1>12

\* Filters: a clause of portable conditions selects the same in memory, in LanceDB and
\* in PostgreSQL (storage/memory.py, lance.py, postgres.py); on the columns of both
\* databases they agree on more; and on other fields PostgreSQL, which raises where it
\* would cast a text, never selects what memory refuses; for any fields and values.
THEOREM FiltersAreSound == FiltersSpec => [](FiltersTypeOK /\ FiltersSound)
<1>1. FiltersInit => FiltersInv
  BY DEF FiltersInit, FiltersInv
<1>2. FiltersInv => FiltersTypeOK
  <2> SUFFICES ASSUME FiltersInv PROVE FiltersTypeOK
    OBVIOUS
  <2>1. InMemory \in {"yes", "no", "raises"} /\ InLance \subseteq {"yes", "no"} /\ InPostgres \subseteq {"yes", "no", "raises"}
    BY DEF InMemory, InLance, InPostgres, Says
  <2>2. answered = <<>> \/ answered \in [{"memory", "lance", "postgres"} -> {"yes", "no", "raises"}]
    <3>1. [memory : {"yes", "no", "raises"}, lance : {"yes", "no", "raises"}, postgres : {"yes", "no", "raises"}]
            \subseteq [{"memory", "lance", "postgres"} -> {"yes", "no", "raises"}]
      OBVIOUS
    <3> HIDE DEF InMemory, InLance, InPostgres
    <3>2. answered # <<>> =>
            answered \in [memory : {"yes", "no", "raises"}, lance : {"yes", "no", "raises"}, postgres : {"yes", "no", "raises"}]
      BY <2>1 DEF FiltersInv
    <3> QED BY <3>1, <3>2
  <2>3. DOMAIN meta \subseteq Field
    BY MetaTyped DEF Has
  <2> QED BY <2>2, <2>3 DEF FiltersInv, FiltersTypeOK
<1> QED BY <1>1, <1>2, FiltersInvStep, AnswersAgree, SqlAgree, JsonAgree, PTL DEF FiltersSpec, FiltersSound

-----------------------------------------------------------------------------
\* The places of the window are free or taken by a task, each of records that were
\* handed out; while results are taken in order one place is free.
WindowInv ==
  /\ IsFiniteSet(flying) /\ \A t \in flying : t \subseteq 1..taken
  /\ slots \in Nat /\ slots + Cardinality(flying) = Window
  /\ state = "drain" => slots > 0
  /\ ready \subseteq 1..N

LEMMA SubmitTakesPlace ==
  ASSUME DistillInv, WindowInv, Submit, taken < N
  PROVE  /\ IsFiniteSet(flying') /\ (\A t \in flying' : t \subseteq 1..taken')
         /\ slots' + Cardinality(flying') = Window /\ slots' = slots - 1 /\ taken' \in 0..N
<1>1. /\ taken \in 0..N /\ N \in Nat /\ TaskSize \in Nat \ {0} /\ Window \in Nat
      /\ IsFiniteSet(flying) /\ (\A t \in flying : t \subseteq 1..taken)
      /\ slots \in Nat /\ slots + Cardinality(flying) = Window
  BY DistillAssumption DEF DistillInv, WindowInv
<1>2. taken' = UpTo(taken + TaskSize) /\ flying' = flying \cup {Task} /\ slots' = slots - 1
  BY DEF Submit
<1>3. taken' \in Nat /\ taken < taken' /\ taken' <= N
  BY <1>1, <1>2 DEF UpTo
<1>4. Task = (taken + 1)..taken'
  BY <1>2 DEF Task
<1>5. Task \notin flying
  <2>1. taken + 1 \in Task /\ taken + 1 \notin 1..taken
    BY <1>1, <1>3, <1>4
  <2> QED BY <1>1, <2>1
<1>6. Cardinality(flying') = Cardinality(flying) + 1 /\ IsFiniteSet(flying')
  BY <1>1, <1>2, <1>5, FS_AddElement
<1>7. Cardinality(flying) \in Nat
  BY <1>1, FS_CardinalityType
<1>8. ASSUME NEW t \in flying' PROVE t \subseteq 1..taken'
  <2>1. CASE t \in flying
    <3>1. t \subseteq 1..taken
      BY <1>1, <2>1
    <3>2. 1..taken \subseteq 1..taken'
      BY <1>1, <1>3
    <3> QED BY <3>1, <3>2
  <2>2. CASE t = Task
    BY <1>1, <1>3, <1>4, <2>2
  <2> QED BY <1>2, <2>1, <2>2
<1> QED BY <1>1, <1>2, <1>3, <1>6, <1>7, <1>8

LEMMA WindowKept == DistillInv /\ WindowInv /\ [DistillNext]_distillVars => WindowInv'
<1> SUFFICES ASSUME DistillInv, WindowInv, [DistillNext]_distillVars PROVE WindowInv'
  OBVIOUS
<1>1. CASE Fill
  <2>1. CASE slots > 0 /\ taken < N
    <3>1. Submit /\ state' = "fill" /\ ready' = ready
      BY <1>1, <2>1 DEF Fill
    <3>2. slots' \in Nat
      BY <2>1, <3>1, SubmitTakesPlace DEF WindowInv
    <3> QED BY <2>1, <3>1, <3>2, SubmitTakesPlace DEF WindowInv
  <2>2. CASE ~(slots > 0 /\ taken < N)
    BY <1>1, <2>2 DEF Fill, WindowInv
  <2> QED BY <2>1, <2>2
<1>2. ASSUME NEW t \in flying, Result(t) PROVE WindowInv'
  <2>1. flying' = flying \ {t} /\ slots' = slots + 1 /\ ready' = ready \cup t /\ taken' = taken
    BY <1>2 DEF Result
  <2>2. Cardinality(flying') = Cardinality(flying) - 1 /\ IsFiniteSet(flying') /\ Cardinality(flying) \in Nat
    BY <2>1, FS_RemoveElement, FS_CardinalityType DEF WindowInv
  <2>3. t \subseteq 1..N
    <3>1. t \subseteq 1..taken /\ taken \in 0..N /\ N \in Nat
      BY DistillAssumption DEF WindowInv, DistillInv
    <3> QED BY <3>1
  <2> QED BY <2>1, <2>2, <2>3, DistillAssumption DEF WindowInv
<1>3. CASE DrainOne
  BY <1>3 DEF DrainOne, WindowInv
<1>4. CASE Drained
  <2>1. CASE taken < N
    <3>1. Submit /\ state' # "drain" /\ ready' = ready /\ slots > 0
      BY <1>4, <2>1 DEF Drained, Refill, WindowInv
    <3>2. slots' \in Nat
      BY <2>1, <3>1, SubmitTakesPlace DEF WindowInv
    <3> QED BY <2>1, <3>1, <3>2, SubmitTakesPlace DEF WindowInv
  <2>2. CASE ~(taken < N)
    BY <1>4, <2>2 DEF Drained, Refill, WindowInv
  <2> QED BY <2>1, <2>2
<1>5. CASE Compress \/ Persist \/ WorkerRaises \/ Die
  BY <1>5 DEF Compress, Persist, WorkerRaises, Die, WindowInv
<1>6. CASE UNCHANGED distillVars
  BY <1>6 DEF distillVars, WindowInv
<1> QED BY <1>1, <1>2, <1>3, <1>4, <1>5, <1>6 DEF DistillNext, DistillStep

\* Distill: for any records, tasks and windows, no more tasks are at the workers than
\* the window has places.
THEOREM DistillTyped == DistillInit /\ [][DistillNext]_distillVars => [](DistillTypeOK /\ WithinWindow)
<1>1. DistillInit => WindowInv
  BY FS_EmptySet, DistillAssumption DEF DistillInit, WindowInv
<1>2. DistillInv /\ WindowInv => DistillTypeOK /\ WithinWindow
  <2> SUFFICES ASSUME DistillInv, WindowInv PROVE DistillTypeOK /\ WithinWindow
    OBVIOUS
  <2>1. Cardinality(flying) \in Nat /\ slots \in Nat /\ slots + Cardinality(flying) = Window /\ Window \in Nat
    BY FS_CardinalityType, DistillAssumption DEF WindowInv
  <2>2. buffer \subseteq 1..N /\ written \subseteq 1..N
    BY DistillAssumption DEF DistillInv, WrittenInOrder, SplitAt
  <2>3. flying \subseteq SUBSET (1..N)
    <3>1. taken \in 0..N /\ N \in Nat /\ \A t \in flying : t \subseteq 1..taken
      BY DistillAssumption DEF DistillInv, WindowInv
    <3>2. 1..taken \subseteq 1..N
      BY <3>1
    <3> QED BY <3>1, <3>2
  <2> QED BY <2>1, <2>2, <2>3 DEF DistillInv, WindowInv, DistillTypeOK, WithinWindow, Running
<1> QED BY <1>1, <1>2, DistillInvInit, DistillStepsInOrder, WindowKept, PTL

-----------------------------------------------------------------------------
(* Digest: what is shown of a project.                                     *)

ShelfNote == [id : Nat, room : Nat, time : Nat]
DigestRead ==
  [pc : {"off", "scan", "rank", "get", "done"}, known : BOOLEAN, fresh : BOOLEAN, offset : Nat, read : Seq(ShelfNote), newest : Seq(ShelfNote),
   lines : Seq([id : Nat, text : BOOLEAN])]

DigestTypes ==
  /\ shelf \in Seq(ShelfNote) /\ moved \in Nat
  /\ reading \in DigestRead

\* The catalog: unless others have written since its scan began it is the shelf, as far
\* as it has been read.
ListInv ==
  /\ shelf \in Seq(ShelfNote)
  /\ \A i, j \in 1..Len(shelf) : shelf[i].id = shelf[j].id => i = j
  /\ inventory \in [is : {"none", "scan", "cached"}, read : Seq(ShelfNote), stale : BOOLEAN]
  /\ inventory.is = "none" => inventory.read = <<>>
  /\ inventory.is = "cached" /\ ~inventory.stale => inventory.read = shelf
  /\ inventory.is = "scan" /\ ~inventory.stale =>
       Len(inventory.read) <= Len(shelf) /\ \A i \in 1..Len(inventory.read) : inventory.read[i] = shelf[i]

\* The newest of what was read, each once.
NewestOf(read, newest) ==
  /\ \A k, l \in DOMAIN newest : k # l => newest[k].id # newest[l].id
  /\ \A k \in DOMAIN newest : \E i \in DOMAIN read : newest[k] = read[i]
  /\ \A i \in DOMAIN read :
       read[i].time > 0 /\ read[i] \notin ToSet(newest) =>
         Len(newest) = NewestShown /\ \A e \in ToSet(newest) : Later(e, read[i])

\* As long as drawers are only filed, what was read is where the scan began, up to the
\* offset; and once the scan has ended that is all that was there at the start.
ScanInv ==
  moved = 0 =>
    /\ \A i, j \in 1..Len(shelf) : shelf[i].id = shelf[j].id => i = j
    /\ reading.pc # "off" => atStart \subseteq ToSet(shelf)
    /\ reading.offset <= Len(shelf) /\ Len(reading.read) = reading.offset
    /\ \A i \in 1..reading.offset : reading.read[i] = shelf[i]
    /\ reading.pc \in {"rank", "get", "done"} /\ reading.known => atStart \subseteq ToSet(reading.read)
    /\ reading.pc \in {"get", "done"} => NewestOf(reading.read, reading.newest)
    /\ reading.pc = "done" => \A k \in DOMAIN reading.lines : reading.lines[k].text

\* A digest without a section of its project is of a project without drawers, unless the
\* catalog was older than its drawers.
UnknownEmpty ==
  /\ reading.pc = "off" => reading.offset = 0 /\ reading.read = <<>> /\ reading.newest = <<>> /\ reading.lines = <<>>
  /\ reading.pc # "off" /\ ~reading.known /\ reading.fresh => atStart = {}
  /\ reading.pc # "off" /\ ~reading.known => reading.newest = <<>> /\ reading.pc = "done"

DigestInv == DigestTypes /\ ScanInv /\ UnknownEmpty /\ RoomsAddUp /\ CapsHold

\* The bytes of joined lines are a number, none for no lines.
LEMMA Bytes ==
  ASSUME NEW lines \in Seq(Nat)
  PROVE  JoinedBytes(lines) \in Nat /\ (lines = <<>> => JoinedBytes(lines) = 0)
<1> DEFINE size == Len(lines)
           step == [nv \in (1..size) \X Nat |-> nv[2] + lines[nv[1]] + (IF nv[1] = 1 THEN 0 ELSE 1)]
           Is(f) == f = [n \in 0..size |-> IF n = 0 THEN 0 ELSE f[n - 1] + lines[n] + (IF n = 1 THEN 0 ELSE 1)]
           upto == CHOOSE f : Is(f)
<1>1. size \in Nat /\ \A n \in 1..size : lines[n] \in Nat
  OBVIOUS
<1> HIDE DEF size
<1>3. \A n \in 1..size : \A v \in Nat : step[<<n, v>>] = v + lines[n] + (IF n = 1 THEN 0 ELSE 1)
  OBVIOUS
<1>2. \A n \in 1..size : \A v \in Nat : step[<<n, v>>] \in Nat
  <2> SUFFICES ASSUME NEW n \in 1..size, NEW v \in Nat PROVE step[<<n, v>>] \in Nat
    OBVIOUS
  <2>1. step[<<n, v>>] = v + lines[n] + (IF n = 1 THEN 0 ELSE 1) /\ lines[n] \in Nat
    BY <1>1, <1>3
  <2> HIDE DEF step
  <2> QED BY <2>1
<1> HIDE DEF step
<1>4. PICK f \in [0..size -> Nat] : f[0] = 0 /\ \A n \in 1..size : f[n] = step[<<n, f[n - 1]>>]
  <2>1. GoesOn(size, Nat, 0, step)
    BY <1>1, <1>2 DEF GoesOn
  <2> QED BY <2>1, StepByStep
<1>5. \A n \in 0..size : f[n] = IF n = 0 THEN 0 ELSE f[n - 1] + lines[n] + (IF n = 1 THEN 0 ELSE 1)
  <2> SUFFICES ASSUME NEW n \in 0..size, n # 0 PROVE f[n] = f[n - 1] + lines[n] + (IF n = 1 THEN 0 ELSE 1)
    BY <1>4
  <2>1. n \in 1..size /\ n - 1 \in 0..size
    BY <1>1
  <2> QED BY <1>3, <1>4, <2>1
<1>6. Is(f)
  BY <1>5
<1>7. Is(upto)
  <2> HIDE DEF Is
  <2> QED BY <1>6
<1>8. \A n \in 0..size : upto[n] = IF n = 0 THEN 0 ELSE upto[n - 1] + lines[n] + (IF n = 1 THEN 0 ELSE 1)
  <2>1. upto = [n \in 0..size |-> IF n = 0 THEN 0 ELSE upto[n - 1] + lines[n] + (IF n = 1 THEN 0 ELSE 1)]
    BY <1>7
  <2> HIDE DEF upto
  <2> QED BY <2>1
<1>9. JoinedBytes(lines) = upto[size]
  BY DEF JoinedBytes, size
<1> HIDE DEF upto, Is
<1> DEFINE P == {n \in 0..size : upto[n] \in Nat}
<1>10. 0 \in P
  BY <1>1, <1>8
<1>11. \A n \in 1..size : n - 1 \in P => n \in P
  <2> SUFFICES ASSUME NEW n \in 1..size, n - 1 \in P PROVE n \in P
    OBVIOUS
  <2>1. n \in 0..size /\ n # 0 /\ lines[n] \in Nat
    BY <1>1
  <2> QED BY <1>8, <2>1
<1> HIDE DEF P
<1>12. 0..size \subseteq P
  BY <1>1, <1>10, <1>11, PlaceByPlace
<1>13. upto[size] \in Nat
  BY <1>1, <1>12 DEF P
<1>14. ASSUME lines = <<>> PROVE upto[size] = 0
  <2>1. size = 0
    BY <1>14 DEF size
  <2> QED BY <1>8, <2>1
<1> QED BY <1>9, <1>13, <1>14

LEMMA DigestInvInit == DigestInit => DigestInv
<1> SUFFICES ASSUME DigestInit PROVE DigestInv
  OBVIOUS
<1>1. /\ shelf \in Seq(ShelfNote) /\ atStart = {} /\ moved = 0
      /\ reading = [pc |-> "off", known |-> FALSE, fresh |-> FALSE, offset |-> 0, read |-> <<>>, newest |-> <<>>, lines |-> <<>>]
      /\ \A i, j \in DOMAIN shelf : shelf[i].id = shelf[j].id => i = j
  BY DigestAssumption DEF DigestInit, ShelfNote
<1>2. DigestTypes
  BY <1>1 DEF DigestTypes, DigestRead
<1>3. ScanInv
  <2>1. DOMAIN shelf = 1..Len(shelf) /\ Len(shelf) \in Nat
    BY <1>1
  <2>2. reading.offset = 0 /\ reading.pc = "off" /\ reading.read = <<>> /\ Len(reading.read) = 0
    BY <1>1
  <2> QED BY <1>1, <2>1, <2>2 DEF ScanInv
<1>4. RoomsAddUp /\ UnknownEmpty
  BY <1>1 DEF RoomsAddUp, UnknownEmpty
<1>5. CapsHold
  <2>1. printed.lines = <<>> /\ printed.whole = <<>> /\ printed.marked = FALSE
    BY DEF DigestInit
  <2>2. JoinedBytes(<<>>) = 0
    <3>1. <<>> \in Seq(Nat)
      OBVIOUS
    <3> QED BY <3>1, Bytes, Zenon
  <2> QED BY <2>1, <2>2, DigestAssumption DEF CapsHold
<1> QED BY <1>2, <1>3, <1>4, <1>5 DEF DigestInv

LEMMA ListInvInit == DigestInit => ListInv
<1> SUFFICES ASSUME DigestInit PROVE ListInv
  OBVIOUS
<1>1. shelf \in Seq(ShelfNote) /\ \A i, j \in DOMAIN shelf : shelf[i].id = shelf[j].id => i = j
  BY DigestAssumption DEF DigestInit, ShelfNote
<1>2. DOMAIN shelf = 1..Len(shelf)
  BY <1>1
<1> QED BY <1>1, <1>2 DEF DigestInit, ListInv, NoInventory

\* A page of the shelf, where it follows on what has been read of it.
LEMMA NotesPage ==
  ASSUME shelf \in Seq(ShelfNote), NEW read \in Seq(ShelfNote)
  PROVE  LET page == NotesFrom(Len(read)) n == Len(shelf)
         IN /\ page \in Seq(ShelfNote) /\ read \o page \in Seq(ShelfNote) /\ Len(page) \in Nat
            /\ Len(read) <= n /\ (\A i \in 1..Len(read) : read[i] = shelf[i]) =>
                 /\ Len(read \o page) = Len(read) + Len(page) /\ Len(read \o page) <= n
                 /\ \A i \in 1..Len(read \o page) : (read \o page)[i] = shelf[i]
                 /\ Len(page) < ScanPage => read \o page = shelf
<1> DEFINE n == Len(shelf)
           o == Len(read)
           last == IF o + ScanPage < n THEN o + ScanPage ELSE n
           page == NotesFrom(o)
           whole == read \o page
<1>1. n \in Nat /\ o \in Nat /\ ScanPage \in Nat \ {0} /\ last \in Nat /\ last <= n
  BY DigestAssumption
<1>2. page = SubSeq(shelf, o + 1, last)
  BY DEF NotesFrom
<1>3. page \in Seq(ShelfNote) /\ Len(page) \in Nat
  <2>1. CASE o <= last
    <3> HIDE DEF last, n, o
    <3>1. last <= Len(shelf)
      BY <1>1 DEF n
    <3>2. SubSeq(shelf, o + 1, last) \in Seq(ShelfNote)
      BY <1>1, <2>1, <3>1, PageRows
    <3>3. page \in Seq(ShelfNote)
      BY <1>2, <3>2
    <3> QED BY <3>3
  <2>2. CASE ~(o <= last)
    <3> HIDE DEF page
    <3>1. page \in Seq(ShelfNote)
      BY <1>1, <1>2, <2>2
    <3> QED BY <3>1
  <2> QED BY <2>1, <2>2
<1>4. /\ whole \in Seq(ShelfNote) /\ Len(whole) = o + Len(page)
      /\ \A i \in 1..o : whole[i] = read[i]
      /\ \A i \in 1..Len(page) : whole[o + i] = page[i]
  <2> HIDE DEF page
  <2> QED BY <1>3, JoinedRows
<1> HIDE DEF n, o, last, page, whole
<1>5. ASSUME o <= n, \A i \in 1..o : read[i] = shelf[i]
      PROVE  /\ Len(whole) = o + Len(page) /\ Len(whole) <= n
             /\ \A i \in 1..Len(whole) : whole[i] = shelf[i]
             /\ Len(page) < ScanPage => whole = shelf
  <2>1. o <= last
    BY <1>1, <1>5 DEF last
  <2>2. /\ Len(page) = last - o
        /\ \A i \in 1..(last - o) : page[i] = shelf[o + i]
    <3>1. last <= Len(shelf)
      BY <1>1 DEF n
    <3> QED BY <1>1, <1>2, <2>1, <3>1, PageRows
  <2>3. Len(whole) = last
    BY <1>1, <1>4, <2>2
  <2>4. ASSUME NEW i \in 1..last PROVE whole[i] = shelf[i]
    <3>1. CASE i <= o
      <4>1. i \in 1..o
        BY <1>1, <3>1
      <4> QED BY <1>4, <1>5, <4>1
    <3>2. CASE ~(i <= o)
      <4>1. i - o \in 1..(last - o) /\ o + (i - o) = i
        BY <1>1, <3>2
      <4> QED BY <1>4, <2>2, <4>1
    <3> QED BY <3>1, <3>2
  <2>5. ASSUME Len(page) < ScanPage PROVE whole = shelf
    <3>2. last = n
      BY <1>1, <2>1, <2>2, <2>5 DEF last
    <3>3. Len(whole) = Len(shelf) /\ \A i \in 1..Len(shelf) : whole[i] = shelf[i]
      BY <2>3, <2>4, <3>2 DEF n
    <3> QED BY <1>4, <3>3
  <2> QED BY <1>1, <1>4, <2>3, <2>4, <2>5
<1> QED BY <1>3, <1>4, <1>5 DEF n, o, page, whole

\* A writer leaves the catalog right, or stale.
LEMMA WrittenRight ==
  ASSUME ListInv, NEW here \in BOOLEAN, Wrote(here)
  PROVE  /\ inventory' \in [is : {"none", "scan", "cached"}, read : Seq(ShelfNote), stale : BOOLEAN]
         /\ inventory'.is = "none" => inventory'.read = <<>>
         /\ inventory'.is # "none" => inventory'.stale
<1>1. CASE here
  <2>1. inventory' = NoInventory
    BY <1>1 DEF Wrote
  <2> QED BY <2>1 DEF NoInventory
<1>2. CASE ~here
  <2>1. inventory' = [inventory EXCEPT !.stale = inventory.is # "none"]
    BY <1>2 DEF Wrote
  <2> QED BY <2>1 DEF ListInv
<1> QED BY <1>1, <1>2

\* Notes that are joined.
LEMMA JoinedNotes ==
  \A s, t \in Seq(ShelfNote) :
    /\ s \o t \in Seq(ShelfNote) /\ Len(s \o t) = Len(s) + Len(t)
    /\ \A k \in 1..Len(s) : (s \o t)[k] = s[k]
    /\ \A k \in 1..Len(t) : (s \o t)[Len(s) + k] = t[k]
<1> SUFFICES ASSUME NEW s \in Seq(ShelfNote), NEW t \in Seq(ShelfNote)
    PROVE /\ s \o t \in Seq(ShelfNote) /\ Len(s \o t) = Len(s) + Len(t)
          /\ \A k \in 1..Len(s) : (s \o t)[k] = s[k]
          /\ \A k \in 1..Len(t) : (s \o t)[Len(s) + k] = t[k]
  OBVIOUS
<1> QED BY JoinedRows

LEMMA ListInvStep == ListInv /\ [DigestNext]_digestVars => ListInv'
<1> SUFFICES ASSUME ListInv, [DigestNext]_digestVars PROVE ListInv'
  OBVIOUS
<1>1. CASE UNCHANGED <<shelf, inventory>>
  BY <1>1 DEF ListInv
<1>2. ASSUME NEW here \in BOOLEAN, FileNote(here) PROVE ListInv'
  <2>1. PICK d \in Note : d.id \notin OnShelf /\ shelf' = Append(shelf, d)
    BY <1>2 DEF FileNote
  <2> DEFINE n == Len(shelf)
  <2>2. d \in ShelfNote /\ shelf \in Seq(ShelfNote)
    BY DigestAssumption DEF ShelfNote, ListInv
  <2>3. /\ shelf' \in Seq(ShelfNote) /\ Len(shelf') = n + 1 /\ n \in Nat
        /\ \A i \in 1..n : shelf'[i] = shelf[i]
        /\ shelf'[n + 1] = d /\ DOMAIN shelf = 1..n
    BY <2>1, <2>2
  <2>4. \A i \in 1..n : shelf[i].id # d.id
    BY <2>1, <2>3 DEF OnShelf
  <2> HIDE DEF n
  <2>5. \A i, j \in 1..n : shelf[i].id = shelf[j].id => i = j
    BY DEF ListInv, n
  <2>6. \A i, j \in 1..(n + 1) : shelf'[i].id = shelf'[j].id => i = j
    <3> SUFFICES ASSUME NEW i \in 1..(n + 1), NEW j \in 1..(n + 1), shelf'[i].id = shelf'[j].id PROVE i = j
      OBVIOUS
    <3>1. (i \in 1..n \/ i = n + 1) /\ (j \in 1..n \/ j = n + 1)
      BY <2>3
    <3> QED BY <2>3, <2>4, <2>5, <3>1
  <2> QED BY <1>2, <2>3, <2>6, WrittenRight DEF FileNote, ListInv
<1>3. ASSUME NEW here \in BOOLEAN, MoveNote(here) PROVE ListInv'
  <2>1. PICK i \in DOMAIN shelf : \E again \in BOOLEAN :
          shelf' = IF again THEN Append(RemoveAt(shelf, i), shelf[i]) ELSE RemoveAt(shelf, i)
    BY <1>3 DEF MoveNote
  <2> DEFINE n == Len(shelf)
             left == RemoveAt(shelf, i)
             front == SubSeq(shelf, 1, i - 1)
             back == SubSeq(shelf, i + 1, n)
             old == [k \in 1..n |-> IF k < i THEN k ELSE k + 1]
  <2>2. shelf \in Seq(ShelfNote) /\ i \in 1..n /\ n \in Nat /\ shelf[i] \in ShelfNote
        /\ \A k, l \in 1..n : shelf[k].id = shelf[l].id => k = l
    BY <2>1 DEF ListInv
  <2>3. /\ front \in Seq(ShelfNote) /\ Len(front) = i - 1 /\ \A k \in 1..(i - 1) : front[k] = shelf[k]
        /\ back \in Seq(ShelfNote) /\ Len(back) = n - i /\ \A k \in 1..(n - i) : back[k] = shelf[i + k]
    BY <2>2
  <2>4. /\ left \in Seq(ShelfNote) /\ Len(left) = n - 1
        /\ \A k \in 1..(i - 1) : left[k] = shelf[k]
        /\ \A k \in 1..(n - i) : left[(i - 1) + k] = shelf[i + k]
    <3>1. left = front \o back
      BY DEF RemoveAt
    <3> HIDE DEF front, back, left, n
    <3>2. front \in Seq(ShelfNote) /\ back \in Seq(ShelfNote) /\ Len(front) = i - 1 /\ Len(back) = n - i
      BY <2>3
    <3>3. /\ front \o back \in Seq(ShelfNote) /\ Len(front \o back) = Len(front) + Len(back)
          /\ \A k \in 1..Len(front) : (front \o back)[k] = front[k]
          /\ \A k \in 1..Len(back) : (front \o back)[Len(front) + k] = back[k]
      BY <3>2, JoinedNotes
    <3>4. left \in Seq(ShelfNote) /\ Len(left) = n - 1
      BY <2>2, <3>1, <3>2, <3>3
    <3>5. \A k \in 1..(i - 1) : left[k] = shelf[k]
      BY <2>3, <3>1, <3>2, <3>3
    <3>6. \A k \in 1..(n - i) : left[(i - 1) + k] = shelf[i + k]
      BY <2>3, <3>1, <3>2, <3>3
    <3> QED BY <3>4, <3>5, <3>6
  <2> HIDE DEF left, front, back, n
  <2>5. ASSUME NEW k \in 1..(n - 1) PROVE old[k] \in 1..n /\ old[k] # i /\ left[k] = shelf[old[k]]
    <3>1. CASE k < i
      <4>1. old[k] = k /\ k \in 1..(i - 1) /\ k \in 1..n
        BY <2>2, <3>1
      <4> HIDE DEF old
      <4> QED BY <2>2, <2>4, <3>1, <4>1
    <3>2. CASE ~(k < i)
      <4>1. k - (i - 1) \in 1..(n - i) /\ (i - 1) + (k - (i - 1)) = k /\ i + (k - (i - 1)) = k + 1
        BY <2>2, <3>2
      <4>2. left[k] = shelf[k + 1]
        BY <2>4, <4>1
      <4> QED BY <2>2, <3>2, <4>2
    <3> QED BY <3>1, <3>2
  <2>6. \A k, l \in 1..(n - 1) : old[k] = old[l] => k = l
    BY <2>2
  <2> HIDE DEF old
  <2>7. \A k, l \in 1..(n - 1) : left[k].id = left[l].id => k = l
    BY <2>2, <2>5, <2>6
  <2>8. \A k \in 1..(n - 1) : left[k].id # shelf[i].id
    BY <2>2, <2>5
  <2>9. shelf' \in Seq(ShelfNote) /\ \A k, l \in 1..Len(shelf') : shelf'[k].id = shelf'[l].id => k = l
    <3>1. CASE shelf' = left
      BY <2>4, <2>7, <3>1
    <3>2. CASE shelf' = Append(left, shelf[i])
      <4>1. /\ shelf' \in Seq(ShelfNote) /\ Len(shelf') = n /\ shelf'[n] = shelf[i]
            /\ \A k \in 1..(n - 1) : shelf'[k] = left[k]
        BY <2>2, <2>4, <3>2
      <4>2. ASSUME NEW k \in 1..n, NEW l \in 1..n, shelf'[k].id = shelf'[l].id PROVE k = l
        <5>1. (k \in 1..(n - 1) \/ k = n) /\ (l \in 1..(n - 1) \/ l = n)
          BY <2>2
        <5> QED BY <2>7, <2>8, <4>1, <4>2, <5>1
      <4> QED BY <4>1, <4>2
    <3> QED BY <2>1, <3>1, <3>2 DEF left
  <2> QED BY <1>3, <2>9, WrittenRight DEF MoveNote, ListInv
<1>4. CASE ListNotes
  <2> DEFINE page == NotesFrom(Len(inventory.read))
             whole == inventory.read \o page
             is1 == IF Len(page) < ScanPage THEN "cached" ELSE "scan"
  <2>1. inventory.is # "cached" /\ shelf' = shelf /\ inventory' = [inventory EXCEPT !.read = whole, !.is = is1]
    BY <1>4 DEF ListNotes
  <2>2. inventory.read \in Seq(ShelfNote) /\ inventory.is \in {"none", "scan"} /\ shelf \in Seq(ShelfNote)
    BY <2>1 DEF ListInv
  <2>3. /\ whole \in Seq(ShelfNote) /\ Len(page) \in Nat
        /\ Len(inventory.read) <= Len(shelf) /\ (\A i \in 1..Len(inventory.read) : inventory.read[i] = shelf[i]) =>
             /\ Len(whole) <= Len(shelf) /\ \A i \in 1..Len(whole) : whole[i] = shelf[i]
             /\ Len(page) < ScanPage => whole = shelf
    BY <2>2, NotesPage
  <2>4. inventory.stale \/ (Len(inventory.read) <= Len(shelf) /\ \A i \in 1..Len(inventory.read) : inventory.read[i] = shelf[i])
    <3>1. CASE inventory.is = "none"
      <4>1. inventory.read = <<>> /\ Len(inventory.read) = 0 /\ Len(shelf) \in Nat
        BY <2>2, <3>1 DEF ListInv
      <4> QED BY <4>1
    <3>2. CASE inventory.is = "scan"
      BY <3>2 DEF ListInv
    <3> QED BY <2>2, <3>1, <3>2
  <2> HIDE DEF page, whole
  <2>5. is1 \in {"cached", "scan"} /\ (is1 = "cached" => Len(page) < ScanPage)
    OBVIOUS
  <2> HIDE DEF is1
  <2>6. /\ inventory' \in [is : {"none", "scan", "cached"}, read : Seq(ShelfNote), stale : BOOLEAN]
        /\ inventory'.read = whole /\ inventory'.is = is1 /\ inventory'.stale = inventory.stale
    BY <2>1, <2>3, <2>5 DEF ListInv
  <2> QED BY <2>1, <2>3, <2>4, <2>5, <2>6 DEF ListInv
<1> QED BY <1>1, <1>2, <1>3, <1>4 DEF DigestNext, digestVars, StartDigest, ScanNotes, RankNewest, GetNewest, TrimDigest

\* A drawer is filed: it comes behind the others.
LEMMA FilingKeeps == ASSUME DigestInv, NEW here \in BOOLEAN, FileNote(here) PROVE DigestInv'
<1>1. PICK d \in Note : d.id \notin OnShelf /\ shelf' = Append(shelf, d)
  BY DEF FileNote
<1>2. UNCHANGED <<atStart, reading, overflow, printed, moved>>
  BY DEF FileNote
<1>3. d \in ShelfNote /\ shelf \in Seq(ShelfNote)
  BY DigestAssumption DEF ShelfNote, DigestInv, DigestTypes
<1> DEFINE n == Len(shelf)
<1>4. /\ shelf' \in Seq(ShelfNote) /\ Len(shelf') = n + 1 /\ n \in Nat
      /\ \A i \in 1..n : shelf'[i] = shelf[i]
      /\ shelf'[n + 1] = d
      /\ DOMAIN shelf = 1..n /\ DOMAIN shelf' = 1..(n + 1)
  BY <1>1, <1>3
<1> HIDE DEF n
<1>5. DigestTypes'
  BY <1>2, <1>4 DEF DigestInv, DigestTypes
<1>6. ScanInv'
  <2> SUFFICES ASSUME moved = 0 PROVE ScanInv'
    BY <1>2 DEF ScanInv
  <2>1. /\ \A i, j \in 1..n : shelf[i].id = shelf[j].id => i = j
        /\ reading.pc # "off" => atStart \subseteq ToSet(shelf)
        /\ reading.offset <= n /\ Len(reading.read) = reading.offset
        /\ \A i \in 1..reading.offset : reading.read[i] = shelf[i]
    BY <1>2 DEF DigestInv, ScanInv, n
  <2>2. \A i \in 1..n : shelf[i].id # d.id
    BY <1>1, <1>4 DEF OnShelf
  <2>3. \A i, j \in 1..(n + 1) : shelf'[i].id = shelf'[j].id => i = j
    <3> SUFFICES ASSUME NEW i \in 1..(n + 1), NEW j \in 1..(n + 1), shelf'[i].id = shelf'[j].id PROVE i = j
      OBVIOUS
    <3>1. (i \in 1..n \/ i = n + 1) /\ (j \in 1..n \/ j = n + 1)
      BY <1>4
    <3> QED BY <1>4, <2>1, <2>2, <3>1
  <2>4. ToSet(shelf) \subseteq ToSet(shelf')
    BY <1>4 DEF ToSet
  <2>5. reading.offset \in Nat
    BY DEF DigestInv, DigestTypes, DigestRead
  <2>6. reading.offset <= n + 1 /\ \A i \in 1..reading.offset : i \in 1..n /\ reading.read[i] = shelf'[i]
    BY <1>4, <2>1, <2>5
  <2>7. NewestOf(reading.read, reading.newest)' <=> NewestOf(reading.read, reading.newest)
    BY <1>2 DEF NewestOf
  <2> QED BY <1>2, <1>4, <2>1, <2>3, <2>4, <2>6, <2>7 DEF DigestInv, ScanInv
<1> QED BY <1>2, <1>5, <1>6 DEF DigestInv, RoomsAddUp, CapsHold, UnknownEmpty

\* After a drawer has moved nothing is promised of the newest.
LEMMA MovingKeeps == ASSUME DigestInv, NEW here \in BOOLEAN, MoveNote(here) PROVE DigestInv'
<1>1. UNCHANGED <<atStart, reading, overflow, printed>> /\ moved' = moved + 1 /\ moved \in Nat
  BY DEF MoveNote, DigestInv, DigestTypes
<1>2. PICK i \in DOMAIN shelf : \E again \in BOOLEAN :
        shelf' = IF again THEN Append(RemoveAt(shelf, i), shelf[i]) ELSE RemoveAt(shelf, i)
  BY DEF MoveNote
<1>3. shelf \in Seq(ShelfNote) /\ i \in 1..Len(shelf) /\ Len(shelf) \in Nat
  BY <1>2 DEF DigestInv, DigestTypes
<1>4. SubSeq(shelf, 1, i - 1) \in Seq(ShelfNote) /\ SubSeq(shelf, i + 1, Len(shelf)) \in Seq(ShelfNote)
  BY <1>3
<1>5. RemoveAt(shelf, i) \in Seq(ShelfNote) /\ shelf[i] \in ShelfNote
  BY <1>3, <1>4 DEF RemoveAt
<1>6. shelf' \in Seq(ShelfNote)
  <2>1. Append(RemoveAt(shelf, i), shelf[i]) \in Seq(ShelfNote)
    BY <1>5
  <2> QED BY <1>2, <1>5, <2>1
<1>7. DigestTypes'
  BY <1>1, <1>6 DEF DigestInv, DigestTypes
<1>8. ScanInv'
  <2>1. moved' # 0
    BY <1>1
  <2> QED BY <2>1 DEF ScanInv
<1>9. RoomsAddUp' /\ CapsHold' /\ UnknownEmpty'
  BY <1>1 DEF DigestInv, RoomsAddUp, CapsHold, UnknownEmpty
<1> QED BY <1>7, <1>8, <1>9 DEF DigestInv

\* The rooms in the order of their drawers are all the rooms, each once.
LEMMA RoomsRanked ==
  ASSUME ListInv
  PROVE  IsFiniteSet(Rooms) /\ Cardinality(Rooms) \in Nat /\ Ordered(Rooms, MoreUsed) \in Seq(Rooms)
         /\ Len(Ordered(Rooms, MoreUsed)) = Cardinality(Rooms)
<1>1. inventory.read \in Seq(ShelfNote) /\ Len(inventory.read) \in Nat /\ DOMAIN inventory.read = 1..Len(inventory.read)
      /\ \A i \in 1..Len(inventory.read) : inventory.read[i] \in ShelfNote
  BY DEF ListInv
<1>2. IsFiniteSet(DOMAIN inventory.read)
  <2>1. 1 \in Int /\ Len(inventory.read) \in Int
    BY <1>1
  <2> QED BY <1>1, <2>1, FS_Interval
<1>3. IsFiniteSet(Rooms)
  <2> DEFINE f == [i \in DOMAIN inventory.read |-> inventory.read[i].room]
  <2>1. f \in [DOMAIN inventory.read -> Rooms] /\ \A r \in Rooms : \E i \in DOMAIN inventory.read : f[i] = r
    BY DEF Rooms
  <2> HIDE DEF f
  <2>2. f \in Surjection(DOMAIN inventory.read, Rooms)
    BY <2>1 DEF Surjection
  <2> QED BY <1>2, <2>2, FS_Surjection
<1>4. \A r \in Rooms : r \in Nat /\ RoomCount(r) \in Nat
  <2> SUFFICES ASSUME NEW r \in Rooms PROVE r \in Nat /\ RoomCount(r) \in Nat
    OBVIOUS
  <2>1. r \in Nat
    BY <1>1 DEF Rooms, ShelfNote
  <2>2. IsFiniteSet({i \in DOMAIN inventory.read : inventory.read[i].room = r})
    <3>1. {i \in DOMAIN inventory.read : inventory.read[i].room = r} \subseteq DOMAIN inventory.read
      OBVIOUS
    <3> QED BY <1>2, <3>1, FS_Subset, Zenon
  <2> QED BY <2>1, <2>2, FS_CardinalityType DEF RoomCount
<1>5. \A r, s \in Rooms : <<r, s>> \in MoreUsed <=>
        RoomCount(r) > RoomCount(s) \/ (RoomCount(r) = RoomCount(s) /\ r < s)
  BY DEF MoreUsed
<1>6. StrictOrder(Rooms, MoreUsed)
  BY <1>4, <1>5 DEF StrictOrder
<1>7. Cardinality(Rooms) \in Nat /\ Ordered(Rooms, MoreUsed) \in [1..Cardinality(Rooms) -> Rooms]
  BY <1>3, <1>6, OrderedRows
<1> QED BY <1>3, <1>7

LEMMA StartingKeeps == DigestInv /\ ListInv /\ StartDigest => DigestInv'
<1> SUFFICES ASSUME DigestInv, ListInv, StartDigest PROVE DigestInv'
  OBVIOUS
<1> DEFINE ranked == Ordered(Rooms, MoreUsed)
           left == Len(ranked) - RoomsShown
           upto == IF left > 0 THEN RoomsShown ELSE Len(ranked)
           pc1 == IF inventory.read = <<>> THEN "done" ELSE "scan"
<1>1. /\ reading.pc = "off" /\ inventory.is = "cached" /\ atStart' = ToSet(shelf) /\ moved' = 0
      /\ reading' = [reading EXCEPT !.pc = pc1, !.known = inventory.read # <<>>, !.fresh = ~inventory.stale]
      /\ UNCHANGED <<shelf, inventory, printed, added>>
      /\ overflow' = [shown |-> SubSeq(ranked, 1, upto), more |-> IF left > 0 THEN left ELSE 0]
  BY DEF StartDigest, RoomsLeft
<1>2. reading \in DigestRead /\ DigestTypes
  BY DEF DigestInv, DigestTypes
<1>3. /\ reading' \in DigestRead /\ reading'.pc = pc1 /\ reading'.offset = 0 /\ reading'.read = <<>>
      /\ reading'.newest = <<>> /\ reading'.lines = <<>>
      /\ reading'.known = (inventory.read # <<>>) /\ reading'.fresh = ~inventory.stale
  BY <1>1, <1>2 DEF DigestRead, DigestInv, UnknownEmpty
<1>4. DigestTypes'
  BY <1>1, <1>2, <1>3 DEF DigestTypes
<1>5. ScanInv'
  <2>1. \A i, j \in 1..Len(shelf) : shelf[i].id = shelf[j].id => i = j
    BY DEF ListInv
  <2>2. Len(shelf) \in Nat
    BY DEF ListInv
  <2>3. Len(<<>>) = 0 /\ DOMAIN <<>> = {} /\ 1..0 = {}
    OBVIOUS
  <2>4. NewestOf(reading.read, reading.newest)'
    BY <1>3, <2>3 DEF NewestOf
  <2>5. (pc1 = "scan" \/ pc1 = "done") /\ (pc1 = "done" => ~reading'.known)
    BY <1>3
  <2>6. shelf' = shelf /\ atStart' \subseteq ToSet(shelf')
    BY <1>1
  <2> HIDE DEF pc1
  <2>7. reading'.offset <= Len(shelf') /\ Len(reading'.read) = reading'.offset
    BY <1>3, <2>2, <2>3, <2>6
  <2>8. \A i \in 1..reading'.offset : reading'.read[i] = shelf'[i]
    BY <1>3, <2>3
  <2>9. reading'.pc \in {"rank", "get", "done"} => ~reading'.known
    BY <1>3, <2>5
  <2>10. \A k \in DOMAIN reading'.lines : reading'.lines[k].text
    BY <1>3, <2>3
  <2>11. \A i, j \in 1..Len(shelf') : shelf'[i].id = shelf'[j].id => i = j
    BY <2>1, <2>6
  <2> QED BY <2>4, <2>6, <2>7, <2>8, <2>9, <2>10, <2>11 DEF ScanInv
<1>6. RoomsAddUp'
  <2>1. /\ Cardinality(Rooms) \in Nat /\ ranked \in Seq(Rooms) /\ Len(ranked) = Cardinality(Rooms)
    BY RoomsRanked
  <2> HIDE DEF ranked
  <2>2. RoomsShown \in Nat \ {0}
    BY DigestAssumption
  <2>3. upto \in Nat /\ upto <= Len(ranked) /\ Len(SubSeq(ranked, 1, upto)) = upto
    BY <2>1, <2>2
  <2>4. ASSUME reading'.fresh PROVE Rooms = {d.room : d \in atStart'}
    <3>1. inventory.read = shelf
      BY <1>1, <1>3, <2>4 DEF ListInv
    <3>2. Rooms = {shelf[i].room : i \in DOMAIN shelf} /\ atStart' = {shelf[i] : i \in DOMAIN shelf}
      BY <1>1, <3>1 DEF Rooms, ToSet
    <3>3. \A r : r \in {shelf[i].room : i \in DOMAIN shelf} <=> r \in {d.room : d \in {shelf[i] : i \in DOMAIN shelf}}
      BY Zenon
    <3> QED BY <3>2, <3>3
  <2>5. Len(overflow'.shown) = upto /\ overflow'.more = IF left > 0 THEN left ELSE 0
    BY <1>1, <2>3
  <2>6. upto <= RoomsShown /\ upto + (IF left > 0 THEN left ELSE 0) = Cardinality(Rooms)
    BY <2>1, <2>2
  <2> QED BY <2>4, <2>5, <2>6 DEF RoomsAddUp
<1>7. CapsHold'
  BY <1>1 DEF CapsHold, DigestInv
<1>8. UnknownEmpty'
  <2>1. ASSUME reading'.fresh, ~reading'.known PROVE atStart' = {}
    <3>1. inventory.read = <<>> /\ shelf = inventory.read
      BY <1>1, <1>3, <2>1 DEF ListInv
    <3> QED BY <1>1, <3>1 DEF ToSet
  <2> QED BY <1>3, <2>1 DEF UnknownEmpty
<1> QED BY <1>4, <1>5, <1>6, <1>7, <1>8 DEF DigestInv

\* A page follows on those before it.
LEMMA ScanningKeeps == DigestInv /\ ScanNotes => DigestInv'
<1> SUFFICES ASSUME DigestInv, ScanNotes PROVE DigestInv'
  OBVIOUS
<1> DEFINE n == Len(shelf)
           o == reading.offset
           last == IF o + ScanPage < n THEN o + ScanPage ELSE n
           page == SubSeq(shelf, o + 1, last)
           read == reading.read
           pc1 == IF Len(page) < ScanPage THEN "rank" ELSE "scan"
<1>1. /\ reading.pc = "scan" /\ UNCHANGED <<shelf, atStart, overflow, printed, added, moved>>
      /\ reading' = [reading EXCEPT !.read = read \o page, !.offset = o + Len(page), !.pc = pc1]
  BY DEF ScanNotes, NotesFrom
<1>2. /\ shelf \in Seq(ShelfNote) /\ reading \in DigestRead /\ n \in Nat /\ o \in Nat /\ read \in Seq(ShelfNote)
      /\ ScanPage \in Nat \ {0} /\ DOMAIN shelf = 1..n /\ DOMAIN read = 1..Len(read)
  BY DigestAssumption DEF DigestInv, DigestTypes, DigestRead
<1>4. last \in Nat /\ last <= n
  BY <1>2
<1>3. /\ page \in Seq(ShelfNote) /\ Len(page) = (IF o <= last THEN last - o ELSE 0)
      /\ \A i \in 1..Len(page) : page[i] = shelf[o + i]
  <2> HIDE DEF last
  <2>1. CASE o <= last
    <3>1. /\ page \in Seq(ShelfNote) /\ Len(page) = last - o
          /\ \A i \in 1..(last - o) : page[i] = shelf[o + i]
      BY <1>2, <1>4, <2>1, PageRows
    <3> QED BY <2>1, <3>1
  <2>2. CASE ~(o <= last)
    <3>1. page \in Seq(ShelfNote) /\ Len(page) = 0
      BY <1>2, <1>4, <2>2
    <3> QED BY <2>2, <3>1
  <2> QED BY <2>1, <2>2
<1>5. read \o page \in Seq(ShelfNote) /\ o + Len(page) \in Nat
  BY <1>2, <1>3, <1>4
<1> DEFINE r1 == read \o page
           o1 == o + Len(page)
<1>6. r1 \in Seq(ShelfNote) /\ o1 \in Nat /\ pc1 \in {"rank", "scan"}
  BY <1>5
<1> HIDE DEF r1, o1, pc1
<1>7. /\ reading' \in DigestRead /\ reading'.pc = pc1 /\ reading'.offset = o1 /\ reading'.read = r1
  BY <1>1, <1>2, <1>6 DEF DigestRead, r1, o1
<1>8. DigestTypes'
  BY <1>1, <1>7 DEF DigestTypes, DigestInv
<1>9. ScanInv'
  <2> SUFFICES ASSUME moved = 0 PROVE ScanInv'
    BY <1>1 DEF ScanInv
  <2>1. /\ \A i, j \in 1..n : shelf[i].id = shelf[j].id => i = j
        /\ atStart \subseteq ToSet(shelf)
        /\ o <= n /\ Len(read) = o
        /\ \A i \in 1..o : read[i] = shelf[i]
    BY <1>1 DEF DigestInv, ScanInv
  <2>2. o <= last /\ Len(page) = last - o
    BY <1>2, <1>3, <2>1
  <2>3. o1 = last /\ Len(r1) = last
    BY <1>2, <1>3, <1>4, <2>1, <2>2 DEF o1, r1
  <2>4. ASSUME NEW i \in 1..last PROVE r1[i] = shelf[i]
    <3>3. /\ \A k \in 1..Len(read) : r1[k] = read[k]
          /\ \A k \in 1..Len(page) : r1[Len(read) + k] = page[k]
      <4> HIDE DEF page, read
      <4> QED BY <1>2, <1>3, JoinedRows DEF r1
    <3>1. CASE i <= o
      <4>1. r1[i] = read[i]
        BY <1>2, <1>4, <2>1, <3>1, <3>3
      <4> QED BY <1>2, <1>4, <2>1, <3>1, <4>1
    <3>2. CASE ~(i <= o)
      <4>1. i - o \in 1..Len(page) /\ o + (i - o) = i
        BY <1>2, <1>4, <2>2, <3>2
      <4>2. r1[i] = page[i - o]
        BY <2>1, <3>3, <4>1
      <4> QED BY <1>3, <4>1, <4>2
    <3> QED BY <3>1, <3>2
  <2>5. ASSUME pc1 = "rank" PROVE atStart \subseteq ToSet(r1)
    <3>1. last = n
      BY <1>2, <2>1, <2>2, <2>5 DEF pc1
    <3>2. ToSet(shelf) \subseteq ToSet(r1)
      <4>1. DOMAIN r1 = 1..n
        BY <1>6, <2>3, <3>1
      <4> QED BY <1>2, <2>4, <3>1, <4>1 DEF ToSet
    <3> QED BY <2>1, <3>2
  <2> HIDE DEF last
  <2> QED BY <1>1, <1>4, <1>6, <1>7, <2>1, <2>3, <2>4, <2>5 DEF ScanInv
<1>10. RoomsAddUp' /\ UnknownEmpty'
  <2>1. reading'.known = reading.known /\ reading'.fresh = reading.fresh /\ reading'.pc # "off"
    BY <1>1, <1>2, <1>6, <1>7 DEF DigestRead
  <2> QED BY <1>1, <2>1 DEF RoomsAddUp, UnknownEmpty, DigestInv
<1>11. CapsHold'
  BY <1>1 DEF CapsHold, DigestInv
<1> QED BY <1>8, <1>9, <1>10, <1>11 DEF DigestInv

\* What comes later than what is newest.
LEMMA RankingKeeps == DigestInv /\ RankNewest => DigestInv'
<1> SUFFICES ASSUME DigestInv, RankNewest PROVE DigestInv'
  OBVIOUS
<1> DEFINE read == reading.read
           K == DatedRead
           c == Cardinality(K)
           at == Ordered(K, Newer)
           most == IF c < NewestShown THEN c ELSE NewestShown
           newest == [k \in 1..most |-> read[at[k]]]
<1>1. /\ reading.pc = "rank" /\ UNCHANGED <<shelf, atStart, overflow, printed, added, moved>>
      /\ reading' = [reading EXCEPT !.pc = "get", !.newest = newest]
  BY DEF RankNewest
<1>2. /\ reading \in DigestRead /\ read \in Seq(ShelfNote) /\ NewestShown \in Nat \ {0}
      /\ DOMAIN read = 1..Len(read) /\ Len(read) \in Nat /\ \A i \in 1..Len(read) : read[i] \in ShelfNote
  BY DigestAssumption DEF DigestInv, DigestTypes, DigestRead
<1>3. K \subseteq 1..Len(read) /\ \A i \in 1..Len(read) : i \in K <=> read[i].time > 0
  BY <1>2 DEF DatedRead
<1>4. IsFiniteSet(K)
  <2>1. 1 \in Int /\ Len(read) \in Int
    BY <1>2
  <2>2. IsFiniteSet(1..Len(read))
    BY <2>1, FS_Interval
  <2> QED BY <1>3, <2>2, FS_Subset, Zenon
<1>5. \A i, j \in K : <<i, j>> \in Newer <=> Later(read[i], read[j]) \/ (~Later(read[j], read[i]) /\ i < j)
  BY DEF Newer
<1>6. \A i \in K : i \in Int /\ read[i].time \in Int /\ read[i].id \in Int
  BY <1>2, <1>3 DEF ShelfNote
<1> HIDE DEF K
<1>7. StrictOrder(K, Newer)
  BY <1>5, <1>6 DEF StrictOrder, Later
<1>8. /\ c \in Nat /\ at \in [1..c -> K] /\ \A x \in K : \E i \in 1..c : at[i] = x
      /\ \A k, l \in 1..c : k < l => <<at[k], at[l]>> \in Newer
  BY <1>4, <1>7, OrderedRows
<1> HIDE DEF c, at
<1>9. most \in Nat /\ most <= c /\ (most < c => most = NewestShown)
  BY <1>2, <1>8
<1> HIDE DEF most
<1>10. newest \in Seq(ShelfNote) /\ DOMAIN newest = 1..most /\ Len(newest) = most
       /\ \A k \in 1..most : newest[k] = read[at[k]] /\ at[k] \in K /\ k \in 1..c
  <2>1. \A k \in 1..most : k \in 1..c /\ at[k] \in K /\ read[at[k]] \in ShelfNote
    <3> SUFFICES ASSUME NEW k \in 1..most PROVE k \in 1..c /\ at[k] \in K /\ read[at[k]] \in ShelfNote
      OBVIOUS
    <3>1. k \in 1..c
      BY <1>8, <1>9
    <3>2. at[k] \in K
      BY <1>8, <3>1
    <3>3. at[k] \in 1..Len(read)
      BY <1>3, <3>2
    <3> HIDE DEF read
    <3> QED BY <1>2, <3>1, <3>2, <3>3
  <2> QED BY <1>9, <2>1
<1> HIDE DEF newest
<1>11. reading' \in DigestRead /\ reading'.pc = "get" /\ reading'.newest = newest
       /\ reading'.read = read /\ reading'.offset = reading.offset
  BY <1>1, <1>2, <1>10 DEF DigestRead
<1>12. DigestTypes'
  BY <1>1, <1>11 DEF DigestTypes, DigestInv
<1>13. ASSUME moved = 0 PROVE NewestOf(read, newest)
  <2>1. /\ \A i, j \in 1..Len(shelf) : shelf[i].id = shelf[j].id => i = j
        /\ reading.offset <= Len(shelf) /\ Len(read) = reading.offset
        /\ \A i \in 1..reading.offset : read[i] = shelf[i]
        /\ Len(shelf) \in Nat
    BY <1>13 DEF DigestInv, ScanInv, DigestTypes
  <2>2. \A i, j \in 1..Len(read) : read[i].id = read[j].id => i = j
    <3> SUFFICES ASSUME NEW i \in 1..Len(read), NEW j \in 1..Len(read), read[i].id = read[j].id PROVE i = j
      OBVIOUS
    <3>1. i \in 1..Len(shelf) /\ j \in 1..Len(shelf) /\ read[i] = shelf[i] /\ read[j] = shelf[j]
      BY <1>2, <2>1
    <3> QED BY <2>1, <3>1
  <2>3. ASSUME NEW k \in 1..c, NEW l \in 1..c, k < l PROVE Later(read[at[k]], read[at[l]]) /\ at[k] # at[l]
    <3>1. at[k] \in K /\ at[l] \in K /\ <<at[k], at[l]>> \in Newer
      BY <1>8, <2>3
    <3>2. at[k] # at[l]
      BY <1>7, <3>1 DEF StrictOrder
    <3>3. read[at[k]].id # read[at[l]].id
      BY <1>3, <2>2, <3>1, <3>2
    <3>4. Later(read[at[k]], read[at[l]]) \/ ~Later(read[at[l]], read[at[k]])
      BY <1>5, <3>1
    <3>5. /\ read[at[k]].id \in Int /\ read[at[l]].id \in Int /\ read[at[k]].time \in Int /\ read[at[l]].time \in Int
      BY <1>6, <3>1
    <3> QED BY <3>2, <3>3, <3>4, <3>5 DEF Later
  <2>4. ASSUME NEW k \in DOMAIN newest, NEW l \in DOMAIN newest, k # l PROVE newest[k].id # newest[l].id
    <3>1. k \in 1..c /\ l \in 1..c /\ newest[k] = read[at[k]] /\ newest[l] = read[at[l]] /\ at[k] \in K /\ at[l] \in K
      BY <1>10
    <3>2. k < l \/ l < k
      BY <1>8, <2>4, <3>1
    <3>3. at[k] # at[l]
      BY <2>3, <3>1, <3>2
    <3> QED BY <1>3, <2>2, <3>1, <3>3
  <2>5. \A k \in DOMAIN newest : \E i \in DOMAIN read : newest[k] = read[i]
    BY <1>2, <1>3, <1>10
  <2>6. ASSUME NEW i \in DOMAIN read, read[i].time > 0, read[i] \notin ToSet(newest)
        PROVE  Len(newest) = NewestShown /\ \A e \in ToSet(newest) : Later(e, read[i])
    <3>1. i \in K
      BY <1>2, <1>3, <2>6
    <3>2. PICK l \in 1..c : at[l] = i
      BY <1>8, <3>1
    <3>3. l \notin 1..most
      <4>1. \A k \in 1..most : read[at[k]] \in ToSet(newest)
        BY <1>10 DEF ToSet
      <4> QED BY <2>6, <3>2, <4>1
    <3>4. most < l /\ most < c
      BY <1>8, <1>9, <3>2, <3>3
    <3>5. ASSUME NEW e \in ToSet(newest) PROVE Later(e, read[i])
      <4>1. PICK k \in 1..most : e = newest[k]
        BY <1>10 DEF ToSet
      <4>2. k \in 1..c /\ k < l /\ e = read[at[k]]
        BY <1>8, <1>9, <1>10, <3>2, <3>4, <4>1
      <4> QED BY <2>3, <3>2, <4>2
    <3> QED BY <1>9, <1>10, <3>4, <3>5
  <2> QED BY <2>4, <2>5, <2>6 DEF NewestOf
<1> HIDE DEF read
<1>14. ScanInv'
  <2> SUFFICES ASSUME moved = 0 PROVE ScanInv'
    BY <1>1 DEF ScanInv
  <2>1. NewestOf(reading.read, reading.newest)'
    BY <1>11, <1>13 DEF NewestOf
  <2> QED BY <1>1, <1>11, <2>1 DEF ScanInv, DigestInv, read
<1>15. RoomsAddUp' /\ UnknownEmpty'
  <2>1. reading'.known = reading.known /\ reading'.fresh = reading.fresh
    BY <1>1, <1>2 DEF DigestRead
  <2> QED BY <1>1, <1>11, <2>1 DEF RoomsAddUp, UnknownEmpty, DigestInv
<1>16. CapsHold'
  BY <1>1 DEF CapsHold, DigestInv
<1> QED BY <1>12, <1>14, <1>15, <1>16 DEF DigestInv

\* What was read is still there.
LEMMA GettingKeeps == DigestInv /\ GetNewest => DigestInv'
<1> SUFFICES ASSUME DigestInv, GetNewest PROVE DigestInv'
  OBVIOUS
<1> DEFINE newest == reading.newest
           lines == [k \in DOMAIN newest |-> [id |-> newest[k].id, text |-> newest[k].id \in OnShelf]]
<1>1. /\ reading.pc = "get" /\ UNCHANGED <<shelf, atStart, overflow, printed, added, moved>>
      /\ reading' = [reading EXCEPT !.pc = "done", !.lines = lines]
  BY DEF GetNewest
<1>2. reading \in DigestRead /\ newest \in Seq(ShelfNote) /\ DOMAIN newest = 1..Len(newest) /\ Len(newest) \in Nat
  BY DEF DigestInv, DigestTypes, DigestRead
<1>3. lines \in Seq([id : Nat, text : BOOLEAN]) /\ DOMAIN lines = DOMAIN newest
  <2> SUFFICES ASSUME NEW k \in 1..Len(newest) PROVE newest[k].id \in Nat
    BY <1>2
  <2>1. newest[k] \in ShelfNote
    BY <1>2
  <2> QED BY <2>1 DEF ShelfNote
<1>4. \A k \in DOMAIN lines : lines[k].text = (newest[k].id \in OnShelf)
  OBVIOUS
<1> HIDE DEF lines
<1>5. reading' \in DigestRead /\ reading'.pc = "done" /\ reading'.newest = newest /\ reading'.lines = lines
       /\ reading'.read = reading.read /\ reading'.offset = reading.offset
  BY <1>1, <1>2, <1>3 DEF DigestRead
<1>6. DigestTypes'
  BY <1>1, <1>5 DEF DigestTypes, DigestInv
<1>7. ScanInv'
  <2> SUFFICES ASSUME moved = 0 PROVE ScanInv'
    BY <1>1 DEF ScanInv
  <2>1. NewestOf(reading.read, newest) /\ ScanInv
    BY <1>1 DEF ScanInv, DigestInv
  <2>2. ASSUME NEW k \in DOMAIN lines PROVE lines[k].text
    <3>1. PICK i \in DOMAIN reading.read : newest[k] = reading.read[i]
      BY <1>3, <2>1 DEF NewestOf
    <3>2. i \in 1..reading.offset /\ reading.offset <= Len(shelf) /\ reading.offset \in Nat /\ Len(shelf) \in Nat
          /\ DOMAIN shelf = 1..Len(shelf)
      BY <1>2, <2>1 DEF ScanInv, DigestRead, DigestInv, DigestTypes
    <3>3. reading.read[i] = shelf[i] /\ i \in DOMAIN shelf
      BY <2>1, <3>2 DEF ScanInv
    <3>4. newest[k].id \in OnShelf
      BY <3>1, <3>3 DEF OnShelf
    <3> QED BY <1>4, <3>4
  <2>3. NewestOf(reading.read, reading.newest)'
    BY <1>5, <2>1 DEF NewestOf
  <2> QED BY <1>1, <1>5, <2>1, <2>2, <2>3 DEF ScanInv
<1>8. RoomsAddUp' /\ UnknownEmpty'
  <2>1. reading'.known = reading.known /\ reading'.fresh = reading.fresh
    BY <1>1, <1>2 DEF DigestRead
  <2> QED BY <1>1, <1>5, <2>1 DEF RoomsAddUp, UnknownEmpty, DigestInv
<1>9. CapsHold'
  BY <1>1 DEF CapsHold, DigestInv
<1> QED BY <1>6, <1>7, <1>8, <1>9 DEF DigestInv

\* What is cut is within the caps with its marker.
LEMMA TrimmedFits ==
  ASSUME NEW lines \in Seq(Nat)
  PROVE  /\ Len(Trimmed(lines).lines) + (IF Trimmed(lines).marked THEN 2 ELSE 0) <= LinesCap
         /\ JoinedBytes(Trimmed(lines).lines) + (IF Trimmed(lines).marked THEN MarkerBytes ELSE 0) <= BytesCap
         /\ ~Trimmed(lines).marked => Trimmed(lines).lines = lines
         /\ Len(lines) <= LinesCap /\ JoinedBytes(lines) <= BytesCap => ~Trimmed(lines).marked
<1> DEFINE t == Trimmed(lines)
<1>1. CASE Len(lines) <= LinesCap /\ JoinedBytes(lines) <= BytesCap
  <2>1. t.lines = lines /\ t.marked = FALSE
    BY <1>1 DEF Trimmed
  <2>2. JoinedBytes(lines) \in Nat /\ Len(lines) \in Nat
    BY Bytes
  <2> QED BY <1>1, <2>1, <2>2
<1>2. CASE ~(Len(lines) <= LinesCap /\ JoinedBytes(lines) <= BytesCap)
  <2> DEFINE size == IF Len(lines) < LinesLeft THEN Len(lines) ELSE LinesLeft
             cut == SubSeq(lines, 1, size)
             fits == {n \in 0..Len(cut) : JoinedBytes(SubSeq(cut, 1, n)) <= BytesCap - MarkerBytes}
             m == Max(fits)
  <2>1. t.lines = SubSeq(cut, 1, m) /\ t.marked = TRUE
    BY <1>2 DEF Trimmed
  <2>2. LinesLeft \in Nat /\ LinesLeft = LinesCap - 2 /\ LinesCap \in Nat /\ BytesCap \in Nat /\ MarkerBytes \in Nat
        /\ MarkerBytes <= BytesCap
    BY DigestAssumption DEF LinesLeft
  <2>3. size \in Nat /\ size <= LinesLeft /\ size <= Len(lines)
    BY <2>2
  <2>4. cut \in Seq(Nat) /\ Len(cut) = size
    BY <2>3
  <2> HIDE DEF cut, size
  <2>5. \A n \in 0..Len(cut) : SubSeq(cut, 1, n) \in Seq(Nat) /\ Len(SubSeq(cut, 1, n)) = n
    BY <2>3, <2>4
  <2>6. 0 \in fits
    <3>1. 0 \in 0..Len(cut)
      BY <2>3, <2>4
    <3>2. SubSeq(cut, 1, 0) = <<>>
      BY <2>4
    <3>3. JoinedBytes(SubSeq(cut, 1, 0)) = 0
      BY <2>5, <3>1, <3>2, Bytes
    <3> QED BY <2>2, <3>1, <3>3
  <2>7. fits \in SUBSET Int /\ IsFiniteSet(fits)
    <3>1. 0 \in Int /\ Len(cut) \in Int
      BY <2>3, <2>4
    <3>2. IsFiniteSet(0..Len(cut))
      BY <3>1, FS_Interval
    <3>3. fits \subseteq 0..Len(cut)
      OBVIOUS
    <3>4. IsFiniteSet(fits)
      BY <3>2, <3>3, FS_Subset, Zenon
    <3> QED BY <3>3, <3>4
  <2>8. \A n \in fits : n \in 0..Len(cut) /\ JoinedBytes(SubSeq(cut, 1, n)) <= BytesCap - MarkerBytes
    OBVIOUS
  <2> HIDE DEF fits
  <2>9. m \in fits
    BY <2>6, <2>7, LeastAndGreatest
  <2> HIDE DEF m
  <2>10. Len(t.lines) = m /\ m <= LinesLeft /\ m \in Nat
    BY <2>1, <2>2, <2>3, <2>4, <2>5, <2>8, <2>9
  <2>11. JoinedBytes(t.lines) \in Nat /\ JoinedBytes(t.lines) <= BytesCap - MarkerBytes
    BY <2>1, <2>5, <2>8, <2>9, Bytes
  <2> HIDE DEF t
  <2>12. Len(t.lines) + 2 <= LinesCap
    BY <2>2, <2>10
  <2>13. JoinedBytes(t.lines) + MarkerBytes <= BytesCap
    BY <2>2, <2>11
  <2> QED BY <1>2, <2>1, <2>12, <2>13 DEF t
<1> QED BY <1>1, <1>2

LEMMA TrimmingKeeps == DigestInv /\ TrimDigest => DigestInv'
<1> SUFFICES ASSUME DigestInv, TrimDigest PROVE DigestInv'
  OBVIOUS
<1>1. UNCHANGED <<shelf, atStart, reading, overflow, added, moved>>
  BY DEF TrimDigest
<1>2. PICK lines \in Lengths :
        printed' = [whole |-> lines, lines |-> Trimmed(lines).lines, marked |-> Trimmed(lines).marked]
  BY DEF TrimDigest
<1>3. lines \in Seq(Nat)
  BY DigestAssumption
<1>4. printed'.whole = lines /\ printed'.lines = Trimmed(lines).lines /\ printed'.marked = Trimmed(lines).marked
  BY <1>2
<1>5. CapsHold'
  BY <1>3, <1>4, TrimmedFits DEF CapsHold
<1>6. NewestOf(reading.read, reading.newest)' <=> NewestOf(reading.read, reading.newest)
  BY <1>1 DEF NewestOf
<1> QED BY <1>1, <1>5, <1>6 DEF DigestInv, DigestTypes, ScanInv, RoomsAddUp, UnknownEmpty

LEMMA DigestInvStep == DigestInv /\ ListInv /\ [DigestNext]_digestVars => DigestInv'
<1> SUFFICES ASSUME DigestInv, ListInv, [DigestNext]_digestVars PROVE DigestInv'
  OBVIOUS
<1>1. CASE UNCHANGED <<shelf, atStart, reading, overflow, printed, added, moved>>
  <2>1. NewestOf(reading.read, reading.newest)' <=> NewestOf(reading.read, reading.newest)
    BY <1>1 DEF NewestOf
  <2> QED BY <1>1, <2>1 DEF DigestInv, DigestTypes, ScanInv, RoomsAddUp, CapsHold, UnknownEmpty
<1> QED BY <1>1, FilingKeeps, MovingKeeps, StartingKeeps, ScanningKeeps, RankingKeeps, GettingKeeps, TrimmingKeeps
       DEF DigestNext, ListNotes, digestVars

\* Digest: for any project, caps and pages, the lines are the newest of its drawers as
\* long as drawers are only filed during the digest and the catalog knows the project;
\* the rooms add up if nobody else has written since the catalog was scanned for; and
\* no digest is over its caps, nor cut when it is within them.
THEOREM DigestsAreSound == DigestSpec => []DigestSound
<1>1. DigestInv => DigestSound
  <2> SUFFICES ASSUME DigestInv PROVE DigestSound
    OBVIOUS
  <2>1. ASSUME reading.pc = "done", moved = 0
        PROVE  NewestOf(reading.read, reading.newest) /\ (reading.known => atStart \subseteq ToSet(reading.read))
    BY <2>1 DEF DigestInv, ScanInv
  <2>2. NewestShownFirst
    <3>1. ASSUME reading.pc = "done", moved = 0, reading.known, NEW d \in atStart, d.time > 0, d \notin ToSet(reading.newest)
          PROVE  Len(reading.newest) = NewestShown /\ \A e \in ToSet(reading.newest) : Later(e, d)
      <4>1. PICK i \in DOMAIN reading.read : reading.read[i] = d
        BY <2>1, <3>1 DEF ToSet
      <4> QED BY <2>1, <3>1, <4>1 DEF NewestOf
    <3>2. reading.pc = "done" /\ ~reading.known /\ reading.fresh => atStart = {}
      BY DEF DigestInv, UnknownEmpty
    <3> QED BY <2>1, <3>1, <3>2 DEF NewestShownFirst, NewestOf
  <2>3. GoneHaveNoText
    BY DEF GoneHaveNoText, DigestInv, ScanInv
  <2> QED BY <2>2, <2>3 DEF DigestSound, DigestInv
<1>2. DigestInit => DigestInv /\ ListInv
  BY DigestInvInit, ListInvInit
<1>3. (DigestInv /\ ListInv) /\ [DigestNext]_digestVars => (DigestInv /\ ListInv)'
  BY DigestInvStep, ListInvStep
<1> QED BY <1>1, <1>2, <1>3, PTL DEF DigestSpec

-----------------------------------------------------------------------------
(* Sanitizer: what is searched for.                                        *)

\* A part of a part of a sequence.
LEMMA PageOfPage ==
  ASSUME NEW T, NEW s \in Seq(T), NEW o \in Nat, NEW n \in Nat, o + n <= Len(s),
         NEW p \in Nat, NEW m \in Nat, p + m <= n
  PROVE  SubSeq(SubSeq(s, o + 1, o + n), p + 1, p + m) = SubSeq(s, o + p + 1, o + p + m)
<1> DEFINE x == SubSeq(s, o + 1, o + n)
           y == SubSeq(x, p + 1, p + m)
           z == SubSeq(s, o + p + 1, o + p + m)
<1>1. x \in Seq(T) /\ Len(x) = n /\ \A i \in 1..n : x[i] = s[o + i]
  <2> DEFINE e == o + n
  <2>1. s \in Seq(T) /\ e \in Nat /\ o <= e /\ e <= Len(s) /\ e - o = n
    OBVIOUS
  <2>2. x = SubSeq(s, o + 1, e)
    OBVIOUS
  <2> HIDE DEF e, x
  <2>3. /\ SubSeq(s, o + 1, e) \in Seq(T) /\ Len(SubSeq(s, o + 1, e)) = e - o
        /\ \A i \in 1..(e - o) : SubSeq(s, o + 1, e)[i] = s[o + i]
    BY ONLY <2>1, o \in Nat, PageRows
  <2> QED BY <2>1, <2>2, <2>3
<1> HIDE DEF x
<1>2. y \in Seq(T) /\ Len(y) = m /\ \A i \in 1..m : y[i] = x[p + i]
  <2> DEFINE e == p + m
  <2>1. x \in Seq(T) /\ e \in Nat /\ p <= e /\ e <= Len(x) /\ e - p = m
    BY <1>1
  <2>2. y = SubSeq(x, p + 1, e)
    OBVIOUS
  <2> HIDE DEF e, y
  <2>3. /\ SubSeq(x, p + 1, e) \in Seq(T) /\ Len(SubSeq(x, p + 1, e)) = e - p
        /\ \A i \in 1..(e - p) : SubSeq(x, p + 1, e)[i] = x[p + i]
    BY ONLY <2>1, p \in Nat, PageRows
  <2> QED BY <2>1, <2>2, <2>3
<1> HIDE DEF y
<1>3. z \in Seq(T) /\ Len(z) = m /\ \A i \in 1..m : z[i] = s[o + p + i]
  <2> DEFINE q == o + p
             e == o + p + m
  <2>1. q \in Nat /\ e \in Nat /\ q <= e /\ e - q = m /\ e <= Len(s) /\ s \in Seq(T)
    OBVIOUS
  <2>2. z = SubSeq(s, q + 1, e) /\ \A i \in 1..m : s[q + i] = s[o + p + i]
    OBVIOUS
  <2> HIDE DEF q, e, z
  <2>3. /\ SubSeq(s, q + 1, e) \in Seq(T) /\ Len(SubSeq(s, q + 1, e)) = e - q
        /\ \A i \in 1..(e - q) : SubSeq(s, q + 1, e)[i] = s[q + i]
    BY ONLY <2>1, PageRows
  <2> QED BY <2>1, <2>2, <2>3
<1> HIDE DEF z
<1>4. ASSUME NEW i \in 1..m PROVE y[i] = z[i]
  <2>1. p + i \in 1..n /\ o + (p + i) = o + p + i
    OBVIOUS
  <2> QED BY <1>1, <1>2, <1>3, <2>1
<1>5. y = [i \in 1..m |-> y[i]] /\ z = [i \in 1..m |-> z[i]]
  BY <1>2, <1>3
<1> QED BY <1>4, <1>5 DEF y, z, x

\* A piece of the query.
PartOfQuery(x) == \E o, n \in 0..Len(raw) : o + n <= Len(raw) /\ x = SubSeq(raw, o + 1, o + n)

LEMMA PartTyped ==
  ASSUME raw \in Seq(STRING), NEW x, PartOfQuery(x)
  PROVE  x \in Seq(STRING) /\ Len(x) \in 0..Len(raw)
<1>1. PICK o, n \in 0..Len(raw) : o + n <= Len(raw) /\ x = SubSeq(raw, o + 1, o + n)
  BY DEF PartOfQuery
<1>2. o \in Nat /\ n \in Nat /\ o + n \in Nat /\ o <= o + n /\ (o + n) - o = n
  BY <1>1
<1> QED BY <1>1, <1>2, PageRows

LEMMA PartOfPart ==
  ASSUME raw \in Seq(STRING), NEW x, PartOfQuery(x), NEW p \in Nat, NEW m \in Nat, p + m <= Len(x)
  PROVE  PartOfQuery(SubSeq(x, p + 1, p + m))
<1>1. PICK o, n \in 0..Len(raw) : o + n <= Len(raw) /\ x = SubSeq(raw, o + 1, o + n)
  BY DEF PartOfQuery
<1>2. o \in Nat /\ n \in Nat /\ o + n \in Nat /\ o <= o + n /\ (o + n) - o = n
  BY <1>1
<1>3. Len(x) = n
  BY <1>1, <1>2, PageRows
<1>4. SubSeq(x, p + 1, p + m) = SubSeq(raw, (o + p) + 1, (o + p) + m)
  BY <1>1, <1>2, <1>3, PageOfPage
<1>5. o + p \in 0..Len(raw) /\ m \in 0..Len(raw) /\ (o + p) + m <= Len(raw)
  BY <1>2, <1>3, <1>1
<1> QED BY <1>4, <1>5 DEF PartOfQuery

LEMMA NothingIsPart == raw \in Seq(STRING) => PartOfQuery(<<>>)
<1> SUFFICES ASSUME raw \in Seq(STRING) PROVE PartOfQuery(<<>>)
  OBVIOUS
<1>1. 0 \in 0..Len(raw) /\ 0 + 0 <= Len(raw) /\ SubSeq(raw, 0 + 1, 0 + 0) = <<>>
  OBVIOUS
<1> QED BY <1>1 DEF PartOfQuery

LEMMA QueryIsPart == raw \in Seq(STRING) => PartOfQuery(raw)
<1> SUFFICES ASSUME raw \in Seq(STRING) PROVE PartOfQuery(raw)
  OBVIOUS
<1>1. 0 \in 0..Len(raw) /\ Len(raw) \in 0..Len(raw) /\ 0 + Len(raw) <= Len(raw) /\ SubSeq(raw, 0 + 1, 0 + Len(raw)) = raw
  OBVIOUS
<1> QED BY <1>1 DEF PartOfQuery

\* A piece from one place to another.
LEMMA PieceIsPart ==
  ASSUME raw \in Seq(STRING), NEW a \in 1..Len(raw) + 1, NEW b \in 0..Len(raw)
  PROVE  PartOfQuery(SubSeq(raw, a, b))
<1>1. CASE a <= b
  <2>1. a - 1 \in 0..Len(raw) /\ b - (a - 1) \in 0..Len(raw) /\ (a - 1) + (b - (a - 1)) = b /\ (a - 1) + 1 = a
    BY <1>1
  <2> DEFINE o == a - 1
             n == b - (a - 1)
  <2>2. o \in 0..Len(raw) /\ n \in 0..Len(raw) /\ o + n <= Len(raw) /\ SubSeq(raw, a, b) = SubSeq(raw, o + 1, o + n)
    BY <2>1
  <2> HIDE DEF o, n
  <2> QED BY <2>2 DEF PartOfQuery
<1>2. CASE ~(a <= b)
  <2>1. SubSeq(raw, a, b) = <<>>
    BY <1>2
  <2> QED BY <2>1, NothingIsPart
<1> QED BY <1>1, <1>2

\* Where strip cuts: behind the blanks at the start, before those at the end.
LEMMA StripCuts ==
  ASSUME NEW x \in Seq(STRING)
  PROVE  \/ Strip(x) = <<>> /\ \A i \in 1..Len(x) : x[i] = Blank
         \/ \E p, m \in Nat : /\ p + m <= Len(x) /\ m > 0 /\ Strip(x) = SubSeq(x, p + 1, p + m)
                              /\ x[p + 1] # Blank /\ x[p + m] # Blank
                              /\ \A i \in 1..Len(x) : i > p + m => x[i] = Blank
<1> DEFINE solid == {i \in DOMAIN x : x[i] # Blank}
<1>1. DOMAIN x = 1..Len(x) /\ Len(x) \in Nat
  OBVIOUS
<1>2. CASE solid = {}
  <2>1. Strip(x) = <<>>
    BY <1>2 DEF Strip
  <2>2. \A i \in 1..Len(x) : x[i] = Blank
    BY <1>1, <1>2
  <2> QED BY <2>1, <2>2
<1>3. CASE solid # {}
  <2>1. solid \in SUBSET Int /\ IsFiniteSet(solid)
    <3>1. 1 \in Int /\ Len(x) \in Int
      BY <1>1
    <3>2. IsFiniteSet(1..Len(x))
      BY <3>1, FS_Interval
    <3>3. solid \subseteq 1..Len(x)
      BY <1>1
    <3>4. IsFiniteSet(solid)
      BY <3>2, <3>3, FS_Subset, Zenon
    <3> QED BY <3>3, <3>4
  <2>2. \A i \in 1..Len(x) : i \in solid <=> x[i] # Blank
    BY <1>1
  <2>3. solid \subseteq 1..Len(x)
    BY <1>1
  <2>4. Strip(x) = SubSeq(x, Min(solid), Max(solid))
    BY <1>3 DEF Strip
  <2> HIDE DEF solid
  <2>5. Min(solid) \in solid /\ Max(solid) \in solid /\ \A i \in solid : Min(solid) <= i /\ i <= Max(solid)
    BY <1>3, <2>1, LeastAndGreatest
  <2> DEFINE p == Min(solid) - 1
             m == Max(solid) - p
  <2>6. /\ p \in Nat /\ m \in Nat /\ m > 0 /\ p + m <= Len(x) /\ p + 1 = Min(solid) /\ p + m = Max(solid)
    <3>1. Min(solid) \in 1..Len(x) /\ Max(solid) \in 1..Len(x) /\ Min(solid) <= Max(solid)
      BY <2>3, <2>5
    <3> QED BY <1>1, <3>1
  <2>7. \A i \in 1..Len(x) : i > p + m => x[i] = Blank
    BY <2>2, <2>5, <2>6
  <2>8. x[p + 1] # Blank /\ x[p + m] # Blank
    BY <2>2, <2>3, <2>5, <2>6
  <2>9. Strip(x) = SubSeq(x, p + 1, p + m)
    BY <2>4, <2>6
  <2> HIDE DEF p, m
  <2> QED BY <2>6, <2>7, <2>8, <2>9
<1> QED BY <1>2, <1>3

LEMMA StripIsPart ==
  ASSUME raw \in Seq(STRING), NEW x, PartOfQuery(x)
  PROVE  PartOfQuery(Strip(x))
<1>1. x \in Seq(STRING)
  BY PartTyped
<1>2. CASE Strip(x) = <<>>
  BY <1>2, NothingIsPart
<1>3. ASSUME NEW p \in Nat, NEW m \in Nat, p + m <= Len(x), Strip(x) = SubSeq(x, p + 1, p + m) PROVE PartOfQuery(Strip(x))
  BY <1>3, PartOfPart
<1> QED BY <1>1, <1>2, <1>3, StripCuts

\* The last part has the end of a text, and all of a short one.
LEMMA LastPartCuts ==
  ASSUME NEW x \in Seq(STRING)
  PROVE  \E p, m \in Nat : /\ p + m = Len(x) /\ LastPart(x) = SubSeq(x, p + 1, p + m)
                           /\ m <= MaxLength /\ (Len(x) > 0 => m > 0) /\ (Len(x) <= MaxLength => LastPart(x) = x)
<1>1. Len(x) \in Nat /\ MaxLength \in Nat \ {0}
  BY SanitizerAssumption
<1>2. CASE Len(x) > MaxLength
  <2> DEFINE p == Len(x) - MaxLength
  <2>1. p \in Nat /\ p + MaxLength = Len(x) /\ LastPart(x) = SubSeq(x, p + 1, p + MaxLength)
    BY <1>1, <1>2 DEF LastPart
  <2> HIDE DEF p
  <2>2. /\ p + MaxLength = Len(x) /\ LastPart(x) = SubSeq(x, p + 1, p + MaxLength)
        /\ MaxLength <= MaxLength /\ (Len(x) > 0 => MaxLength > 0) /\ (Len(x) <= MaxLength => LastPart(x) = x)
    BY <1>1, <1>2, <2>1
  <2> QED BY <1>1, <2>1, <2>2
<1>3. CASE ~(Len(x) > MaxLength)
  <2>1. LastPart(x) = SubSeq(x, 1, Len(x)) /\ SubSeq(x, 1, Len(x)) = x
    BY <1>1, <1>3 DEF LastPart
  <2> DEFINE p == 0
             m == Len(x)
  <2>2. p \in Nat /\ m \in Nat /\ p + m = Len(x) /\ SubSeq(x, p + 1, p + m) = SubSeq(x, 1, Len(x))
    BY <1>1
  <2>3. m <= MaxLength /\ (Len(x) > 0 => m > 0) /\ LastPart(x) = x
    BY <1>1, <1>3, <2>1
  <2> HIDE DEF p, m
  <2> QED BY <2>1, <2>2, <2>3
<1> QED BY <1>2, <1>3

LEMMA LastPartIsPart ==
  ASSUME raw \in Seq(STRING), NEW x, PartOfQuery(x)
  PROVE  /\ PartOfQuery(LastPart(x)) /\ Len(LastPart(x)) <= MaxLength
         /\ Len(x) > 0 => Len(LastPart(x)) > 0
<1>1. x \in Seq(STRING)
  BY PartTyped
<1>2. PICK p, m \in Nat : /\ p + m = Len(x) /\ LastPart(x) = SubSeq(x, p + 1, p + m)
                          /\ m <= MaxLength /\ (Len(x) > 0 => m > 0)
  BY <1>1, LastPartCuts
<1>3. PartOfQuery(LastPart(x))
  <2>1. p + m <= Len(x)
    BY <1>1, <1>2
  <2> QED BY <1>2, <2>1, PartOfPart
<1>4. Len(LastPart(x)) = m
  <2>1. p + m \in Nat /\ p <= p + m /\ (p + m) - p = m /\ p + m <= Len(x)
    BY <1>1, <1>2
  <2> QED BY <1>1, <1>2, <2>1, PageRows
<1> QED BY <1>2, <1>3, <1>4

\* Nothing that is taken from a query changes while it is not asked again.
LEMMA SameQuery ==
  ASSUME raw' = raw
  PROVE  /\ LabeledTail' = LabeledTail /\ (Labeled' <=> Labeled)
         /\ Questions' = Questions /\ (AsksLast' <=> AsksLast)
         /\ LongSegments' = LongSegments /\ Segments' = Segments
         /\ Piece(LastOf(Questions))' = Piece(LastOf(Questions))
         /\ Piece(LastOf(Segments))' = Piece(LastOf(Segments))
         /\ Piece(LastOf(LongSegments))' = Piece(LastOf(LongSegments))
         /\ Tagged("<query>", "</query>")' = Tagged("<query>", "</query>")
<1>1. Segments' = Segments
  BY DEF Segments
<1>2. Questions' = Questions /\ LongSegments' = LongSegments
  BY <1>1 DEF Questions, LongSegments, Piece
<1>3. LastOf(Questions)' = LastOf(Questions) /\ LastOf(Segments)' = LastOf(Segments) /\ LastOf(LongSegments)' = LastOf(LongSegments)
  BY <1>1, <1>2
<1>4. /\ Piece(LastOf(Questions))' = Piece(LastOf(Questions))
      /\ Piece(LastOf(Segments))' = Piece(LastOf(Segments))
      /\ Piece(LastOf(LongSegments))' = Piece(LastOf(LongSegments))
  BY <1>3 DEF Piece
<1>5. AsksLast' <=> AsksLast
  BY <1>2, <1>4 DEF AsksLast
<1>6. Tagged("<query>", "</query>")' = Tagged("<query>", "</query>")
      /\ Tagged("<user_query>", "</user_query>")' = Tagged("<user_query>", "</user_query>")
  BY DEF Tagged
<1> DEFINE labels == {i \in DOMAIN raw : raw[i] = "label" /\ Strip(SubSeq(raw, i + 1, Len(raw))) # <<>>}
<1>7. labels' = labels
  OBVIOUS
<1>8. LabeledTail' = LabeledTail
  BY <1>6, <1>7 DEF LabeledTail, TaggedText
<1> QED BY <1>1, <1>2, <1>4, <1>5, <1>6, <1>8 DEF Labeled

\* What a sanitized query is, by the method that was found.
SanitizerInv ==
  /\ raw \in Seq(STRING) /\ (raw # <<>> => raw[Len(raw)] # Blank)
  /\ how \in {"no", "passthrough", "labeled_tail", "question_extraction", "tail_sentence", "tail_truncation"}
  /\ how = "passthrough" => Len(raw) <= SafeLength /\ clean = raw
  /\ how = "labeled_tail" => Labeled /\ clean = LastPart(LabeledTail)
  /\ how = "question_extraction" => ~Labeled /\ AsksLast /\ clean = LastPart(Piece(LastOf(Questions)))
  /\ how = "tail_sentence" =>
       ~Labeled /\ ~AsksLast /\ LongSegments # {} /\ clean = LastPart(Piece(LastOf(LongSegments)))
  /\ how = "tail_truncation" =>
       Len(raw) > SafeLength /\ ~Labeled /\ ~AsksLast /\ LongSegments = {} /\ clean = Strip(LastPart(raw))

LEMMA SanitizerInvInit == SanitizerInit => SanitizerInv
<1> SUFFICES ASSUME SanitizerInit PROVE SanitizerInv
  OBVIOUS
<1>1. PICK text \in RawQuery : raw = Strip(text)
  BY DEF SanitizerInit
<1>2. text \in Seq(STRING)
  BY SanitizerAssumption
<1>3. how = "no"
  BY DEF SanitizerInit
<1>4. raw \in Seq(STRING) /\ (raw # <<>> => raw[Len(raw)] # Blank)
  <2>1. CASE raw = <<>>
    BY <2>1
  <2>2. ASSUME NEW p \in Nat, NEW m \in Nat, p + m <= Len(text), m > 0, raw = SubSeq(text, p + 1, p + m),
               text[p + m] # Blank
        PROVE  raw \in Seq(STRING) /\ raw[Len(raw)] # Blank
    <3>1. p + m \in Nat /\ p <= p + m /\ (p + m) - p = m /\ m \in 1..m
      BY <2>2
    <3>2. raw \in Seq(STRING) /\ Len(raw) = m /\ \A i \in 1..m : raw[i] = text[p + i]
      BY <1>2, <2>2, <3>1, PageRows
    <3> QED BY <2>2, <3>1, <3>2
  <2> QED BY <1>1, <1>2, <2>1, <2>2, StripCuts
<1> QED BY <1>3, <1>4 DEF SanitizerInv

LEMMA SanitizerInvStep == SanitizerInv /\ [SanitizerNext]_sanitizerVars => SanitizerInv'
<1> SUFFICES ASSUME SanitizerInv, [SanitizerNext]_sanitizerVars PROVE SanitizerInv'
  OBVIOUS
<1>1. raw' = raw
  BY DEF SanitizerNext, Passthrough, TakeLabeled, TakeQuestion, TakeTail, Truncate, Answers, sanitizerVars
<1>2. /\ LabeledTail' = LabeledTail /\ (Labeled' <=> Labeled) /\ (AsksLast' <=> AsksLast)
      /\ LongSegments' = LongSegments
      /\ Piece(LastOf(Questions))' = Piece(LastOf(Questions))
      /\ Piece(LastOf(LongSegments))' = Piece(LastOf(LongSegments))
  BY <1>1, SameQuery
<1>3. CASE UNCHANGED sanitizerVars
  BY <1>1, <1>2, <1>3 DEF SanitizerInv, sanitizerVars
<1>4. CASE Passthrough
  BY <1>1, <1>2, <1>4 DEF SanitizerInv, Passthrough, Answers
<1>5. CASE TakeLabeled
  BY <1>1, <1>2, <1>5 DEF SanitizerInv, TakeLabeled, Answers
<1>6. CASE TakeQuestion
  BY <1>1, <1>2, <1>6 DEF SanitizerInv, TakeQuestion, Answers
<1>7. CASE TakeTail
  BY <1>1, <1>2, <1>7 DEF SanitizerInv, TakeTail, Answers
<1>8. CASE Truncate
  BY <1>1, <1>2, <1>8 DEF SanitizerInv, Truncate, Answers
<1> QED BY <1>3, <1>4, <1>5, <1>6, <1>7, <1>8 DEF SanitizerNext

\* Of pairs of places there is one that begins last.
LEMMA LastBegins ==
  ASSUME raw \in Seq(STRING), NEW S \in SUBSET ((DOMAIN raw) \X (DOMAIN raw)), S # {}
  PROVE  LastOf(S) \in S /\ \A t \in S : t[1] <= LastOf(S)[1]
<1> DEFINE F == {t[1] : t \in S}
<1>1. DOMAIN raw = 1..Len(raw) /\ Len(raw) \in Nat
  OBVIOUS
<1>2. F \subseteq 1..Len(raw) /\ F # {}
  BY <1>1
<1>3. IsFiniteSet(F) /\ F \in SUBSET Int
  <2>1. 1 \in Int /\ Len(raw) \in Int
    BY <1>1
  <2>2. IsFiniteSet(1..Len(raw))
    BY <2>1, FS_Interval
  <2>3. IsFiniteSet(F)
    BY <1>2, <2>2, FS_Subset, Zenon
  <2> QED BY <1>2, <2>3
<1>4. \A t \in S : t[1] \in F
  OBVIOUS
<1>5. \A f \in F : \E t \in S : t[1] = f
  OBVIOUS
<1> HIDE DEF F
<1>6. Max(F) \in F /\ \A f \in F : f <= Max(F)
  BY <1>2, <1>3, LeastAndGreatest
<1>7. \E s \in S : \A t \in S : t[1] <= s[1]
  BY <1>4, <1>5, <1>6
<1> QED BY <1>7 DEF LastOf

\* A line is a piece of the query.
LEMMA SegmentIsPart ==
  ASSUME raw \in Seq(STRING), NEW s \in (DOMAIN raw) \X (DOMAIN raw)
  PROVE  PartOfQuery(Piece(s))
<1>1. s[1] \in 1..Len(raw) + 1 /\ s[2] \in 0..Len(raw)
  OBVIOUS
<1> QED BY <1>1, PieceIsPart DEF Piece

\* What is labeled is a piece of the query.
LEMMA LabeledIsPart == raw \in Seq(STRING) => PartOfQuery(LabeledTail)
<1> SUFFICES ASSUME raw \in Seq(STRING) PROVE PartOfQuery(LabeledTail)
  OBVIOUS
<1> DEFINE queries == Tagged("<query>", "</query>")
           users == Tagged("<user_query>", "</user_query>")
           labels == {i \in DOMAIN raw : raw[i] = "label" /\ Strip(SubSeq(raw, i + 1, Len(raw))) # <<>>}
           tail == IF queries # {} THEN TaggedText(queries)
                   ELSE IF users # {} THEN TaggedText(users)
                   ELSE IF labels # {} THEN SubSeq(raw, Min(labels) + 1, Len(raw))
                   ELSE <<>>
<1>1. LabeledTail = Strip(tail)
  BY DEF LabeledTail
<1>2. DOMAIN raw = 1..Len(raw) /\ Len(raw) \in Nat
  OBVIOUS
<1>3. ASSUME NEW S \in SUBSET ((DOMAIN raw) \X (DOMAIN raw)), S # {} PROVE PartOfQuery(TaggedText(S))
  <2>1. LastOf(S) \in S
    BY <1>3, LastBegins
  <2>2. LastOf(S)[1] + 1 \in 1..Len(raw) + 1 /\ LastOf(S)[2] - 1 \in 0..Len(raw)
    BY <1>2, <2>1
  <2>3. TaggedText(S) = SubSeq(raw, LastOf(S)[1] + 1, LastOf(S)[2] - 1)
    BY DEF TaggedText
  <2> QED BY <2>2, <2>3, PieceIsPart
<1>4. queries \in SUBSET ((DOMAIN raw) \X (DOMAIN raw)) /\ users \in SUBSET ((DOMAIN raw) \X (DOMAIN raw))
  BY DEF Tagged
<1>5. ASSUME labels # {} PROVE PartOfQuery(SubSeq(raw, Min(labels) + 1, Len(raw)))
  <2>1. labels \subseteq 1..Len(raw)
    BY <1>2
  <2>2. IsFiniteSet(labels) /\ labels \in SUBSET Int
    <3>1. 1 \in Int /\ Len(raw) \in Int
      BY <1>2
    <3>2. IsFiniteSet(1..Len(raw))
      BY <3>1, FS_Interval
    <3>3. IsFiniteSet(labels)
      BY <2>1, <3>2, FS_Subset, Zenon
    <3> QED BY <2>1, <3>3
  <2> HIDE DEF labels
  <2>3. Min(labels) \in labels
    BY <1>5, <2>2, LeastAndGreatest
  <2>4. Min(labels) + 1 \in 1..Len(raw) + 1 /\ Len(raw) \in 0..Len(raw)
    <3>1. Min(labels) \in 1..Len(raw)
      BY <2>1, <2>3
    <3> QED BY <1>2, <3>1
  <2> QED BY <2>4, PieceIsPart
<1> HIDE DEF queries, users, labels
<1>6. PartOfQuery(tail)
  BY <1>3, <1>4, <1>5, NothingIsPart
<1> QED BY <1>1, <1>6, StripIsPart

\* A query behind others, which has the tags of its own.
LEMMA TaggedTextIs ==
  ASSUME raw \in Seq(STRING), NEW t \in Tagged("<query>", "</query>"),
         \A u \in Tagged("<query>", "</query>") : u[1] <= t[1]
  PROVE  LabeledTail = Strip(SubSeq(raw, t[1] + 1, t[2] - 1))
<1> DEFINE Q == Tagged("<query>", "</query>")
           s == LastOf(Q)
<1>1. Q \in SUBSET ((DOMAIN raw) \X (DOMAIN raw)) /\ Q # {}
  BY DEF Tagged
<1>2. \A u \in Q : /\ u[1] \in 1..Len(raw) /\ u[2] \in 1..Len(raw) /\ u[1] < u[2] /\ raw[u[2]] = "</query>"
                   /\ \A k \in u[1] + 1..u[2] - 1 : raw[k] # "</query>"
  BY DEF Tagged
<1>3. t \in Q /\ \A u \in Q : u[1] <= t[1]
  OBVIOUS
<1>4. LabeledTail = Strip(SubSeq(raw, s[1] + 1, s[2] - 1))
  BY <1>1 DEF LabeledTail, TaggedText
<1> HIDE DEF Q
<1>5. s \in Q /\ \A u \in Q : u[1] <= s[1]
  BY <1>1, LastBegins
<1> HIDE DEF s
<1>6. s[1] = t[1]
  BY <1>2, <1>3, <1>5
<1>7. s[2] = t[2]
  <2>1. /\ s[1] < s[2] /\ t[1] < t[2] /\ raw[s[2]] = "</query>" /\ raw[t[2]] = "</query>"
        /\ s[2] \in Int /\ t[2] \in Int /\ s[1] \in Int
        /\ \A k \in s[1] + 1..s[2] - 1 : raw[k] # "</query>"
        /\ \A k \in t[1] + 1..t[2] - 1 : raw[k] # "</query>"
    BY <1>2, <1>3, <1>5
  <2>2. ~(s[2] < t[2])
    BY <1>6, <2>1
  <2>3. ~(t[2] < s[2])
    BY <1>6, <2>1
  <2> QED BY <2>1, <2>2, <2>3
<1> QED BY <1>4, <1>6, <1>7

\* Nothing is labeled in a query without labels and tags.
LEMMA NothingLabeled ==
  ASSUME raw \in Seq(STRING), ~(\E i \in DOMAIN raw : raw[i] \in {"label", "<query>", "<user_query>"})
  PROVE  ~Labeled
<1>1. Tagged("<query>", "</query>") = {} /\ Tagged("<user_query>", "</user_query>") = {}
  BY DEF Tagged
<1>2. {i \in DOMAIN raw : raw[i] = "label" /\ Strip(SubSeq(raw, i + 1, Len(raw))) # <<>>} = {}
  OBVIOUS
<1>3. LabeledTail = Strip(<<>>)
  BY <1>1, <1>2 DEF LabeledTail
<1>4. Strip(<<>>) = <<>>
  <2>1. {i \in DOMAIN <<>> : <<>>[i] # Blank} = {}
    OBVIOUS
  <2> QED BY <2>1 DEF Strip
<1> QED BY <1>3, <1>4, SanitizerAssumption DEF Labeled, LongEnough

\* A text without blanks at its end keeps its end.
LEMMA StripKeepsEnd ==
  ASSUME NEW x \in Seq(STRING), x # <<>>, x[Len(x)] # Blank
  PROVE  \E p, m \in Nat : p + m = Len(x) /\ m > 0 /\ Strip(x) = SubSeq(x, p + 1, p + m)
<1>1. Len(x) \in Nat /\ Len(x) > 0 /\ Len(x) \in 1..Len(x)
  OBVIOUS
<1>2. PICK p, m \in Nat : /\ p + m <= Len(x) /\ m > 0 /\ Strip(x) = SubSeq(x, p + 1, p + m)
                          /\ \A i \in 1..Len(x) : i > p + m => x[i] = Blank
  BY <1>1, StripCuts
<1>3. p + m = Len(x)
  BY <1>1, <1>2
<1> QED BY <1>2, <1>3

\* The last of a query, without blanks at its start.
LEMMA TruncatedEnds ==
  ASSUME SanitizerInv, raw # <<>>
  PROVE  \E o, n \in Nat : /\ o + n = Len(raw) /\ n > 0 /\ n <= MaxLength
                           /\ Strip(LastPart(raw)) = SubSeq(raw, o + 1, o + n)
<1>1. raw \in Seq(STRING) /\ raw[Len(raw)] # Blank /\ Len(raw) \in Nat /\ Len(raw) > 0
  BY DEF SanitizerInv
<1>2. PICK p, m \in Nat : /\ p + m = Len(raw) /\ LastPart(raw) = SubSeq(raw, p + 1, p + m) /\ m <= MaxLength /\ m > 0
  BY <1>1, LastPartCuts
<1> DEFINE x == LastPart(raw)
<1>3. x \in Seq(STRING) /\ Len(x) = m /\ \A i \in 1..m : x[i] = raw[p + i]
  <2>1. p + m \in Nat /\ p <= p + m /\ (p + m) - p = m /\ p + m <= Len(raw)
    BY <1>1, <1>2
  <2> QED BY <1>1, <1>2, <2>1, PageRows
<1> HIDE DEF x
<1>4. x # <<>> /\ x[Len(x)] # Blank
  <2>1. m \in 1..m /\ x[m] = raw[p + m]
    BY <1>2, <1>3
  <2> QED BY <1>1, <1>2, <1>3, <2>1
<1>5. PICK q, n \in Nat : q + n = Len(x) /\ n > 0 /\ Strip(x) = SubSeq(x, q + 1, q + n)
  BY <1>3, <1>4, StripKeepsEnd
<1>6. Strip(x) = SubSeq(raw, p + q + 1, p + q + n)
  <2>1. p + m <= Len(raw) /\ q + n <= m
    BY <1>1, <1>2, <1>3, <1>5
  <2>2. SubSeq(SubSeq(raw, p + 1, p + m), q + 1, q + n) = SubSeq(raw, p + q + 1, p + q + n)
    <3>1. raw \in Seq(STRING) /\ p \in Nat /\ m \in Nat /\ q \in Nat /\ n \in Nat
      BY <1>1, <1>2, <1>5
    <3> QED BY ONLY <3>1, <2>1, PageOfPage
  <2>3. x = SubSeq(raw, p + 1, p + m)
    BY <1>2 DEF x
  <2> QED BY <1>5, <2>2, <2>3
<1> DEFINE o == p + q
<1>7. o \in Nat /\ o + n = Len(raw) /\ n <= MaxLength /\ Strip(LastPart(raw)) = SubSeq(raw, o + 1, o + n)
  BY <1>2, <1>3, <1>5, <1>6, SanitizerAssumption DEF x
<1> HIDE DEF o
<1> QED BY <1>5, <1>7

LEMMA CleanParts == SanitizerInv => CleanIsPiece
<1> SUFFICES ASSUME SanitizerInv, how # "no", raw # <<>>
             PROVE  /\ clean # <<>> /\ Len(clean) <= MaxLength
                    /\ \E i \in DOMAIN raw : i + Len(clean) - 1 <= Len(raw) /\ clean = SubSeq(raw, i, i + Len(clean) - 1)
  BY DEF CleanIsPiece
<1>1. raw \in Seq(STRING) /\ Len(raw) \in Nat /\ Len(raw) > 0 /\ DOMAIN raw = 1..Len(raw)
      /\ {SafeLength, MinLength, MaxLength} \subseteq Nat \ {0} /\ SafeLength <= MaxLength
  BY SanitizerAssumption DEF SanitizerInv
<1>2. PartOfQuery(clean) /\ Len(clean) > 0 /\ Len(clean) <= MaxLength
  <2>1. CASE how = "passthrough"
    BY <1>1, <2>1, QueryIsPart DEF SanitizerInv
  <2>2. CASE how = "labeled_tail"
    <3>1. PartOfQuery(LabeledTail) /\ Len(LabeledTail) >= MinLength /\ clean = LastPart(LabeledTail)
      BY <1>1, <2>2, LabeledIsPart DEF SanitizerInv, Labeled, LongEnough
    <3>2. Len(LabeledTail) > 0
      BY <1>1, <3>1, PartTyped
    <3> QED BY <1>1, <3>1, <3>2, LastPartIsPart
  <2>3. ASSUME NEW S \in SUBSET ((DOMAIN raw) \X (DOMAIN raw)), S # {}, LongEnough(Piece(LastOf(S))),
               clean = LastPart(Piece(LastOf(S)))
        PROVE  PartOfQuery(clean) /\ Len(clean) > 0 /\ Len(clean) <= MaxLength
    <3>1. LastOf(S) \in (DOMAIN raw) \X (DOMAIN raw)
      BY <1>1, <2>3, LastBegins
    <3>2. PartOfQuery(Piece(LastOf(S)))
      BY <1>1, <3>1, SegmentIsPart
    <3>3. Len(Piece(LastOf(S))) > 0
      BY <1>1, <2>3, <3>2, PartTyped DEF LongEnough
    <3> QED BY <1>1, <2>3, <3>2, <3>3, LastPartIsPart
  <2>4. CASE how = "question_extraction"
    <3>1. Questions \in SUBSET ((DOMAIN raw) \X (DOMAIN raw))
      BY DEF Questions, Segments
    <3> QED BY <2>3, <2>4, <3>1 DEF SanitizerInv, AsksLast
  <2>5. CASE how = "tail_sentence"
    <3>1. LongSegments \in SUBSET ((DOMAIN raw) \X (DOMAIN raw))
      BY DEF LongSegments, Segments
    <3>2. LongSegments # {} /\ clean = LastPart(Piece(LastOf(LongSegments)))
      BY <2>5 DEF SanitizerInv
    <3>3. LastOf(LongSegments) \in LongSegments
      BY <1>1, <3>1, <3>2, LastBegins
    <3>4. LongEnough(Piece(LastOf(LongSegments)))
      BY <3>3 DEF LongSegments
    <3> QED BY <2>3, <3>1, <3>2, <3>4
  <2>6. CASE how = "tail_truncation"
    <3>1. PICK o, n \in Nat : /\ o + n = Len(raw) /\ n > 0 /\ n <= MaxLength /\ clean = SubSeq(raw, o + 1, o + n)
      BY <2>6, TruncatedEnds DEF SanitizerInv
    <3>2. o \in 0..Len(raw) /\ n \in 0..Len(raw) /\ o + n <= Len(raw)
      BY <1>1, <3>1
    <3>3. PartOfQuery(clean)
      BY <3>1, <3>2 DEF PartOfQuery
    <3>4. Len(clean) = n
      <4>1. o + n \in Nat /\ o <= o + n /\ (o + n) - o = n
        BY <3>1
      <4> QED BY <1>1, <3>1, <3>2, <4>1, PageRows
    <3> QED BY <3>1, <3>3, <3>4
  <2> QED BY <2>1, <2>2, <2>4, <2>5, <2>6 DEF SanitizerInv
<1>3. PICK o, n \in 0..Len(raw) : o + n <= Len(raw) /\ clean = SubSeq(raw, o + 1, o + n)
  BY <1>2 DEF PartOfQuery
<1>4. o \in Nat /\ n \in Nat /\ o + n \in Nat /\ o <= o + n /\ (o + n) - o = n
  BY <1>1, <1>3
<1>5. Len(clean) = n /\ clean \in Seq(STRING)
  BY <1>1, <1>3, <1>4, PageRows
<1> DEFINE i == o + 1
<1>6. i \in DOMAIN raw /\ i + Len(clean) - 1 = o + n /\ i + Len(clean) - 1 <= Len(raw)
  BY <1>1, <1>2, <1>3, <1>4, <1>5
<1>7. clean = SubSeq(raw, i, i + Len(clean) - 1)
  BY <1>3, <1>6
<1>8. clean # <<>>
  BY <1>2, <1>5
<1> HIDE DEF i
<1> QED BY <1>2, <1>6, <1>7, <1>8

\* A piece that is short enough is taken whole.
LEMMA TakenWhole ==
  ASSUME raw \in Seq(STRING), NEW x, PartOfQuery(x), Len(x) <= MaxLength
  PROVE  LastPart(x) = x
  BY PartTyped, LastPartCuts

LEMMA QuestionsFound == SanitizerInv => LastQuestionFound
<1> DEFINE q == Piece(LastOf(Questions))
<1> SUFFICES ASSUME SanitizerInv, how # "no", Questions # {},
                    ~(\E i \in DOMAIN raw : raw[i] \in {"label", "<query>", "<user_query>"}),
                    LongEnough(q), Len(q) <= MaxLength, Len(raw) > SafeLength
             PROVE  clean = q
  BY DEF LastQuestionFound
<1>1. raw \in Seq(STRING) /\ Len(raw) \in Nat /\ SafeLength \in Nat
  BY SanitizerAssumption DEF SanitizerInv
<1>2. ~Labeled /\ AsksLast
  BY <1>1, NothingLabeled DEF AsksLast
<1>3. how # "passthrough"
  BY <1>1 DEF SanitizerInv
<1>4. clean = LastPart(q)
  BY <1>2, <1>3 DEF SanitizerInv
<1>5. PartOfQuery(q)
  <2>1. Questions \in SUBSET ((DOMAIN raw) \X (DOMAIN raw))
    BY DEF Questions, Segments
  <2>2. LastOf(Questions) \in (DOMAIN raw) \X (DOMAIN raw)
    BY <1>1, <2>1, LastBegins
  <2> QED BY <1>1, <2>2, SegmentIsPart
<1> HIDE DEF q
<1> QED BY <1>1, <1>4, <1>5, TakenWhole

LEMMA MarkedFound == SanitizerInv => MarkedQueryFound
<1> SUFFICES ASSUME SanitizerInv, how # "no", Len(raw) > SafeLength,
                    NEW t \in Tagged("<query>", "</query>"),
                    \A u \in Tagged("<query>", "</query>") : u[1] <= t[1],
                    LongEnough(Strip(SubSeq(raw, t[1] + 1, t[2] - 1))),
                    Len(Strip(SubSeq(raw, t[1] + 1, t[2] - 1))) <= MaxLength
             PROVE  clean = Strip(SubSeq(raw, t[1] + 1, t[2] - 1))
  BY DEF MarkedQueryFound
<1>1. raw \in Seq(STRING) /\ Len(raw) \in Nat /\ SafeLength \in Nat
  BY SanitizerAssumption DEF SanitizerInv
<1>2. LabeledTail = Strip(SubSeq(raw, t[1] + 1, t[2] - 1))
  BY <1>1, TaggedTextIs
<1>3. Labeled
  BY <1>2 DEF Labeled
<1>4. how # "passthrough"
  BY <1>1 DEF SanitizerInv
<1>5. clean = LastPart(LabeledTail)
  BY <1>3, <1>4 DEF SanitizerInv
<1>6. LastPart(LabeledTail) = LabeledTail
  BY <1>1, <1>2, LabeledIsPart, TakenWhole
<1> QED BY <1>2, <1>5, <1>6

LEMMA TailFound == SanitizerInv => TailReached
<1> SUFFICES ASSUME SanitizerInv, how \in {"tail_sentence", "tail_truncation"}
             PROVE  \E i \in Len(clean)..Len(raw) :
                      /\ clean = SubSeq(raw, i - Len(clean) + 1, i)
                      /\ \A s \in Segments : s[1] > i => ~LongEnough(Piece(s))
  BY DEF TailReached
<1>1. raw \in Seq(STRING) /\ Len(raw) \in Nat /\ DOMAIN raw = 1..Len(raw)
  BY DEF SanitizerInv
<1>2. CASE how = "tail_sentence"
  <2> DEFINE L == LongSegments
             s0 == LastOf(L)
             x == Piece(s0)
  <2>1. L \in SUBSET ((DOMAIN raw) \X (DOMAIN raw)) /\ L # {} /\ L \subseteq Segments /\ clean = LastPart(x)
    BY <1>2 DEF SanitizerInv, LongSegments, Segments
  <2>2. \A s \in Segments : LongEnough(Piece(s)) => s \in L
    BY DEF LongSegments
  <2>3. s0 \in L /\ \A t \in L : t[1] <= s0[1]
    BY <1>1, <2>1, LastBegins
  <2>4. \A s \in Segments : s[1] \in 1..Len(raw) /\ s[2] \in 1..Len(raw) /\ s[1] <= s[2]
    BY <1>1 DEF Segments
  <2> HIDE DEF L, s0
  <2> DEFINE o == s0[1] - 1
             i == s0[2]
             n == i - o
  <2>5. /\ i \in 1..Len(raw) /\ o \in Nat /\ n \in Nat /\ n > 0 /\ o + n = i /\ s0[1] = o + 1
    BY <2>1, <2>3, <2>4
  <2>6. x = SubSeq(raw, o + 1, o + n)
    BY <2>5 DEF Piece
  <2>7. \A s \in Segments : s[1] > i => ~LongEnough(Piece(s))
    <3> SUFFICES ASSUME NEW s \in Segments, s[1] > i, LongEnough(Piece(s)) PROVE FALSE
      OBVIOUS
    <3>1. s[1] <= s0[1] /\ s0[1] <= i /\ s[1] \in Int /\ s0[1] \in Int
      BY <2>1, <2>2, <2>3, <2>4
    <3> QED BY <2>5, <3>1
  <2> HIDE DEF x, o, i, n
  <2>8. x \in Seq(STRING) /\ Len(x) = n
    <3>1. o + n \in Nat /\ o <= o + n /\ (o + n) - o = n /\ o + n <= Len(raw)
      BY <1>1, <2>5
    <3> QED BY <1>1, <2>5, <2>6, <3>1, PageRows
  <2>9. PICK p, m \in Nat : p + m = Len(x) /\ LastPart(x) = SubSeq(x, p + 1, p + m)
    BY <2>8, LastPartCuts
  <2>10. clean = SubSeq(raw, o + p + 1, o + p + m)
    <3>1. o + n <= Len(raw) /\ p + m <= n
      BY <1>1, <2>5, <2>8, <2>9
    <3>2. SubSeq(SubSeq(raw, o + 1, o + n), p + 1, p + m) = SubSeq(raw, o + p + 1, o + p + m)
      <4>1. raw \in Seq(STRING) /\ o \in Nat /\ n \in Nat /\ p \in Nat /\ m \in Nat
        BY <1>1, <2>5, <2>9
      <4> QED BY ONLY <3>1, <4>1, PageOfPage
    <3>3. clean = SubSeq(x, p + 1, p + m)
      BY <2>1, <2>9
    <3> QED BY <2>6, <3>2, <3>3
  <2>11. o + p \in Nat /\ o + p + m = i /\ i \in Nat /\ o + p <= i /\ i - (o + p) = m /\ i <= Len(raw)
    BY <1>1, <2>5, <2>8, <2>9
  <2>12. Len(clean) = m
    BY <1>1, <2>10, <2>11, PageRows
  <2>13. i \in Len(clean)..Len(raw) /\ i - Len(clean) + 1 = o + p + 1
    BY <1>1, <2>5, <2>9, <2>11, <2>12
  <2>14. clean = SubSeq(raw, i - Len(clean) + 1, i)
    BY <2>10, <2>11, <2>13
  <2> QED BY <2>7, <2>13, <2>14
<1>3. CASE how = "tail_truncation"
  <2>1. Len(raw) > SafeLength /\ LongSegments = {} /\ clean = Strip(LastPart(raw))
    BY <1>3 DEF SanitizerInv
  <2>2. raw # <<>>
    BY <1>1, <2>1, SanitizerAssumption
  <2>3. PICK o, n \in Nat : o + n = Len(raw) /\ clean = SubSeq(raw, o + 1, o + n)
    BY <2>1, <2>2, TruncatedEnds
  <2>4. Len(clean) = n
    <3>1. o + n \in Nat /\ o <= o + n /\ (o + n) - o = n /\ o + n <= Len(raw)
      BY <1>1, <2>3
    <3> QED BY <1>1, <2>3, <3>1, PageRows
  <2>5. Len(raw) \in Len(clean)..Len(raw) /\ Len(raw) - Len(clean) + 1 = o + 1
    BY <1>1, <2>3, <2>4
  <2>6. clean = SubSeq(raw, Len(raw) - Len(clean) + 1, Len(raw))
    BY <2>3, <2>5
  <2>7. \A s \in Segments : ~LongEnough(Piece(s))
    BY <2>1 DEF LongSegments
  <2> QED BY <2>5, <2>6, <2>7
<1> QED BY <1>2, <1>3

\* Sanitizer: whatever an agent puts around its question, something short enough is
\* searched for, and it is the marked query, the last question or the last line.
THEOREM SanitizerIsSound == SanitizerSpec => []SanitizerSound
<1>1. SanitizerInv => SanitizerSound
  BY CleanParts, QuestionsFound, MarkedFound, TailFound DEF SanitizerSound
<1> QED BY <1>1, SanitizerInvInit, SanitizerInvStep, PTL DEF SanitizerSpec

-----------------------------------------------------------------------------
(* Retrieval: the answer of a search.                                      *)

\* The least of two and of three numbers.
LEMMA LeastOfTwo ==
  ASSUME NEW a \in Int, NEW b \in Int
  PROVE  Min({a, b}) \in {a, b} /\ Min({a, b}) <= a /\ Min({a, b}) <= b
<1>1. IsFiniteSet({a}) /\ IsFiniteSet({b})
  BY FS_Singleton
<1>2. IsFiniteSet({a} \cup {b})
  BY <1>1, FS_Union
<1>3. {a} \cup {b} = {a, b} /\ {a, b} # {} /\ {a, b} \in SUBSET Int
  OBVIOUS
<1> QED BY <1>2, <1>3, LeastAndGreatest

LEMMA LeastOfThree ==
  ASSUME NEW a \in Int, NEW b \in Int, NEW c \in Int
  PROVE  Min({a, b, c}) \in {a, b, c} /\ Min({a, b, c}) <= a /\ Min({a, b, c}) <= b /\ Min({a, b, c}) <= c
<1>1. IsFiniteSet({a}) /\ IsFiniteSet({b}) /\ IsFiniteSet({c})
  BY FS_Singleton
<1>2. IsFiniteSet(({a} \cup {b}) \cup {c})
  BY <1>1, FS_Union
<1>3. ({a} \cup {b}) \cup {c} = {a, b, c} /\ {a, b, c} # {} /\ {a, b, c} \in SUBSET Int
  OBVIOUS
<1> QED BY <1>2, <1>3, LeastAndGreatest

\* The first rows of a query: so many, and each comes before every row that is left out.
LEMMA FirstRows ==
  ASSUME NEW S, IsFiniteSet(S), NEW R, StrictOrder(S, R), NEW n \in Nat, n <= Cardinality(S)
  PROVE  /\ {Ordered(S, R)[i] : i \in 1..n} \subseteq S
         /\ Cardinality({Ordered(S, R)[i] : i \in 1..n}) = n
         /\ \A x \in S \ {Ordered(S, R)[i] : i \in 1..n} : \A i \in 1..n : <<Ordered(S, R)[i], x>> \in R
<1> DEFINE f == Ordered(S, R)
           c == Cardinality(S)
<1>1. /\ c \in Nat /\ f \in [1..c -> S]
      /\ \A i, j \in 1..c : i < j => <<f[i], f[j]>> \in R
      /\ \A x \in S : \E i \in 1..c : f[i] = x
  BY OrderedRows
<1>2. n <= c
  OBVIOUS
<1> HIDE DEF f, c
<1>3. {f[i] : i \in 1..n} \subseteq S
  BY <1>1, <1>2
<1>4. ASSUME NEW i \in 1..n, NEW j \in 1..n, f[i] = f[j] PROVE i = j
  <2>1. ASSUME i < j PROVE FALSE
    <3>1. <<f[i], f[j]>> \in R /\ f[i] \in S
      BY <1>1, <1>2, <2>1
    <3> QED BY <1>4, <3>1 DEF StrictOrder
  <2>2. ASSUME j < i PROVE FALSE
    <3>1. <<f[j], f[i]>> \in R /\ f[i] \in S
      BY <1>1, <1>2, <2>2
    <3> QED BY <1>4, <3>1 DEF StrictOrder
  <2> QED BY <2>1, <2>2
<1>5. Cardinality({f[i] : i \in 1..n}) = n
  BY <1>4, DistinctCount
<1>6. ASSUME NEW x \in S \ {f[i] : i \in 1..n}, NEW i \in 1..n PROVE <<f[i], x>> \in R
  <2>1. PICK k \in 1..c : f[k] = x
    BY <1>1
  <2>2. k \notin 1..n
    BY <2>1
  <2>3. i \in 1..c /\ i < k
    BY <1>1, <1>2, <2>2
  <2> QED BY <1>1, <2>1, <2>3
<1> QED BY <1>3, <1>5, <1>6 DEF f

-----------------------------------------------------------------------------

\* The drawers scanned so far are in the heap, or it is full of better ones.
Covered(d) == d \in heap \/ (Cardinality(heap) >= Fetched /\ \A e \in heap : shared[e] >= shared[d])

Candidate == [drawer : Drawer, lexical : -1..2]

RetrievalTyped ==
  /\ castle \subseteq Drawer /\ heap \subseteq Drawer
  /\ near \in [Drawer -> 0..2] /\ shared \in [Drawer -> 0..2]
  /\ ask \in [limit : 1..MostHits, way : Way]
  /\ stage \in {"dense", "scan", "merge", "rank", "done", "raised"}
  /\ scanned \in 0..ScanLimit /\ disturbances \in Nat
  /\ candidates \in Seq(Candidate) /\ hits \in Seq(Drawer)

\* What is known in each stage of a search.
StagesAgree ==
  /\ stage = "dense" => candidates = <<>> /\ heap = {} /\ scanned = 0 /\ disturbances = 0
  /\ stage # "done" => hits = <<>>
  /\ stage \in {"scan", "merge", "raised"} => ask.way = "hybrid"
  /\ ask.way # "hybrid" => disturbances = 0

\* No drawer is a candidate twice, and there are as many as were asked for or as there are.
CandidatesDistinct ==
  /\ \A i, j \in 1..Len(candidates) : candidates[i].drawer = candidates[j].drawer => i = j
  /\ stage # "dense" /\ disturbances = 0 => Len(candidates) >= Fetched \/ Len(candidates) >= Cardinality(castle)

\* The candidates of a search by similarity are the nearest.
NearestFound ==
  stage # "dense" /\ ask.way = "dense" =>
    /\ Len(candidates) <= ask.limit
    /\ \A i, j \in 1..Len(candidates) : i < j => near[candidates[i].drawer] >= near[candidates[j].drawer]
    /\ \A d \in castle \ Dense : \A i \in 1..Len(candidates) : near[d] <= near[candidates[i].drawer]

\* The scan has come to a place, and its best is in the heap, then among the candidates.
ScanCovers ==
  /\ disturbances = 0 => scanned <= Cardinality(castle) /\ \A i \in 1..scanned :
       shared[Ascending(castle)[i]] > 0 => Covered(Ascending(castle)[i])
  /\ stage \in {"merge", "rank", "done"} /\ ask.way = "hybrid" /\ disturbances = 0 =>
       scanned = Cardinality(castle) \/ scanned >= ScanLimit
  /\ stage \in {"rank", "done"} /\ ask.way = "hybrid" => heap \subseteq Dense

RetrievalInv ==
  RetrievalTyped /\ StagesAgree /\ CandidatesDistinct /\ NearestFound /\ ScanCovers /\ SearchSound

LEMMA FetchedTyped == RetrievalTyped => Fetched \in Nat /\ ask.limit \in Nat /\ Fetched >= ask.limit /\ ask.limit > 0
<1> SUFFICES ASSUME RetrievalTyped PROVE Fetched \in Nat /\ ask.limit \in Nat /\ Fetched >= ask.limit /\ ask.limit > 0
  OBVIOUS
<1>1. ask.limit \in 1..MostHits /\ MostHits \in Nat
  BY RetrievalAssumption DEF RetrievalTyped
<1>2. Widened[ask.limit] \in Nat /\ Widened[ask.limit] >= ask.limit
  BY <1>1, RetrievalAssumption
<1> QED BY <1>1, <1>2 DEF Fetched

LEMMA DrawersFinite == \A S \in SUBSET Drawer : IsFiniteSet(S) /\ Cardinality(S) \in Nat
<1> SUFFICES ASSUME NEW S \in SUBSET Drawer PROVE IsFiniteSet(S) /\ Cardinality(S) \in Nat
  OBVIOUS
<1>1. IsFiniteSet(S)
  BY RetrievalAssumption, FS_Subset
<1> QED BY <1>1, FS_CardinalityType

\* Drawers by a value, and as the heap lets them go: at one place each.
LEMMA HighestOrders ==
  ASSUME NEW S \in SUBSET Drawer, NEW value \in [Drawer -> 0..2]
  PROVE  StrictOrder(S, Highest(S, value))
<1>1. \A d \in S : d \in Int /\ value[d] \in Int
  BY RetrievalAssumption
<1>2. \A d, e \in S : <<d, e>> \in Highest(S, value) <=> value[d] > value[e] \/ (value[d] = value[e] /\ d < e)
  BY DEF Highest
<1>3. \A d \in S : <<d, d>> \notin Highest(S, value)
  BY <1>1, <1>2
<1>4. \A d, e, f \in S : <<d, e>> \in Highest(S, value) /\ <<e, f>> \in Highest(S, value) => <<d, f>> \in Highest(S, value)
  BY <1>1, <1>2
<1>5. \A d, e \in S : d # e => <<d, e>> \in Highest(S, value) \/ <<e, d>> \in Highest(S, value)
  BY <1>1, <1>2
<1> QED BY <1>3, <1>4, <1>5 DEF StrictOrder

LEMMA LastingOrders ==
  ASSUME RetrievalTyped, NEW S \in SUBSET Drawer
  PROVE  StrictOrder(S, Lasting(S))
<1>1. \A d \in S : d \in Int /\ shared[d] \in Int
  BY RetrievalAssumption DEF RetrievalTyped
<1>2. \A d, e \in S : <<d, e>> \in Lasting(S) <=> shared[d] > shared[e] \/ (shared[d] = shared[e] /\ d > e)
  BY DEF Lasting
<1>3. \A d \in S : <<d, d>> \notin Lasting(S)
  BY <1>1, <1>2
<1>4. \A d, e, f \in S : <<d, e>> \in Lasting(S) /\ <<e, f>> \in Lasting(S) => <<d, f>> \in Lasting(S)
  BY <1>1, <1>2
<1>5. \A d, e \in S : d # e => <<d, e>> \in Lasting(S) \/ <<e, d>> \in Lasting(S)
  BY <1>1, <1>2
<1> QED BY <1>3, <1>4, <1>5 DEF StrictOrder

\* What the heap keeps, and what it lets go.
LEMMA KeptBest ==
  ASSUME RetrievalTyped, NEW S \in SUBSET Drawer
  PROVE  /\ Kept(S) \subseteq S
         /\ \A d \in S \ Kept(S) : Cardinality(Kept(S)) >= Fetched /\ \A e \in Kept(S) : shared[e] >= shared[d]
         /\ \A H \in SUBSET S : Cardinality(H) >= Fetched =>
              /\ Cardinality(Kept(S)) >= Fetched
              /\ \A e \in Kept(S) \ H : \E h \in H : shared[e] >= shared[h]
<1> DEFINE R == Lasting(S)
           c == Cardinality(S)
           n == Min({Fetched, c})
           f == Ordered(S, R)
           K == {f[i] : i \in 1..n}
<1>1. Fetched \in Nat /\ c \in Nat /\ IsFiniteSet(S) /\ StrictOrder(S, R)
  BY FetchedTyped, DrawersFinite, LastingOrders
<1>2. n \in Nat /\ n <= c /\ n <= Fetched /\ (n = c \/ n = Fetched)
  <2>1. Fetched \in Int /\ c \in Int
    BY <1>1
  <2> HIDE DEF c
  <2>2. n \in {Fetched, c} /\ n <= Fetched /\ n <= c
    BY <2>1, LeastOfTwo
  <2> QED BY <1>1, <2>2
<1>3. /\ K \subseteq S /\ Cardinality(K) = n
      /\ \A x \in S \ K : \A i \in 1..n : <<f[i], x>> \in R
  <2>1. IsFiniteSet(S) /\ StrictOrder(S, R) /\ n \in Nat /\ n <= Cardinality(S)
    BY <1>1, <1>2
  <2> HIDE DEF n, R
  <2> QED BY ONLY <2>1, FirstRows DEF f, K
<1>4. K = Kept(S)
  BY DEF Kept
<1>5. /\ f \in [1..c -> S] /\ \A x \in S : \E i \in 1..c : f[i] = x
  BY <1>1, OrderedRows
<1> HIDE DEF n, c, f
<1>6. ASSUME NEW x \in S \ K PROVE n = Fetched /\ \A e \in K : shared[e] >= shared[x]
  <2>1. n # c
    <3>1. PICK i \in 1..c : f[i] = x
      BY <1>5
    <3> QED BY <3>1
  <2>2. ASSUME NEW e \in K PROVE shared[e] >= shared[x]
    <3>1. <<e, x>> \in R
      BY <1>3
    <3>2. shared[e] > shared[x] \/ shared[e] = shared[x]
      BY <3>1 DEF Lasting
    <3>3. shared[e] \in Int /\ shared[x] \in Int
      BY <1>3 DEF RetrievalTyped
    <3> QED BY <3>2, <3>3
  <2> QED BY <1>2, <2>1, <2>2
<1>7. ASSUME NEW H \in SUBSET S, Cardinality(H) >= Fetched
      PROVE  n = Fetched /\ \A e \in K \ H : \E h \in H : shared[e] >= shared[h]
  <2>1. IsFiniteSet(H) /\ Cardinality(H) \in Nat
    BY DrawersFinite
  <2>2. Cardinality(H) <= c
    BY <1>1, FS_Subset DEF c
  <2>3. n = Fetched
    BY <1>1, <1>2, <1>7, <2>1, <2>2
  <2>4. ASSUME NEW e \in K \ H PROVE \E h \in H : shared[e] >= shared[h]
    <3>1. CASE H \subseteq K
      <4>1. IsFiniteSet(K)
        BY <1>1, <1>3, FS_Subset
      <4>2. K \ {e} \in SUBSET K /\ H \subseteq K \ {e}
        BY <3>1
      <4>3. IsFiniteSet(K \ {e}) /\ Cardinality(K \ {e}) = n - 1
        BY <1>3, <4>1, FS_RemoveElement
      <4>4. Cardinality(H) <= n - 1
        BY <4>2, <4>3, FS_Subset
      <4> QED BY <1>1, <1>7, <2>1, <2>3, <4>4
    <3>2. CASE ~(H \subseteq K)
      <4>1. PICK h \in H : h \notin K
        BY <3>2
      <4>2. h \in S \ K
        BY <4>1
      <4> QED BY <1>6, <4>2
    <3> QED BY <3>1, <3>2
  <2> QED BY <2>3, <2>4
<1> HIDE DEF K
<1> QED BY <1>1, <1>3, <1>4, <1>6, <1>7

\* Before a search has ended it has no answer.
LEMMA RetrievalInvInit == RetrievalInit => RetrievalInv
<1> SUFFICES ASSUME RetrievalInit PROVE RetrievalInv
  OBVIOUS
<1>1. RetrievalTyped
  BY RetrievalAssumption DEF RetrievalInit, RetrievalTyped
<1>2. StagesAgree /\ CandidatesDistinct /\ NearestFound
  BY DEF RetrievalInit, StagesAgree, CandidatesDistinct, NearestFound
<1>3. ScanCovers
  <2>1. Cardinality(castle) \in Nat
    BY <1>1, DrawersFinite DEF RetrievalTyped
  <2> QED BY <2>1 DEF RetrievalInit, ScanCovers
<1>4. SearchSound
  <2>1. ask.limit \in Nat
    BY <1>1, FetchedTyped
  <2> QED BY <2>1 DEF RetrievalInit, SearchSound, HitsOrdered, BestFound, FullAnswer
<1> QED BY <1>1, <1>2, <1>3, <1>4 DEF RetrievalInv

LEMMA DenseSearchKeeps == RetrievalInv /\ DenseSearch => RetrievalInv'
<1> SUFFICES ASSUME RetrievalInv, DenseSearch PROVE RetrievalInv'
  OBVIOUS
<1> DEFINE R == Highest(castle, near)
           c == Cardinality(castle)
           n == Min({Fetched, c})
           f == Ordered(castle, R)
           K == {f[i] : i \in 1..n}
<1>1. RetrievalTyped /\ castle \in SUBSET Drawer /\ near \in [Drawer -> 0..2] /\ shared \in [Drawer -> 0..2]
  BY DEF RetrievalInv, RetrievalTyped
<1>2. Fetched \in Nat /\ ask.limit \in Nat /\ c \in Nat /\ IsFiniteSet(castle) /\ StrictOrder(castle, R)
  BY <1>1, FetchedTyped, DrawersFinite, HighestOrders
<1>3. n \in Nat /\ n <= c /\ n <= Fetched /\ (n = c \/ n = Fetched)
  <2>1. Fetched \in Int /\ c \in Int
    BY <1>2
  <2> HIDE DEF c
  <2>2. n \in {Fetched, c} /\ n <= Fetched /\ n <= c
    BY <2>1, LeastOfTwo
  <2> QED BY <1>2, <2>2
<1>4. /\ K \subseteq castle /\ Cardinality(K) = n
      /\ \A x \in castle \ K : \A i \in 1..n : <<f[i], x>> \in R
  <2>1. IsFiniteSet(castle) /\ StrictOrder(castle, R) /\ n \in Nat /\ n <= Cardinality(castle)
    BY <1>2, <1>3
  <2> HIDE DEF n, R
  <2> QED BY ONLY <2>1, FirstRows DEF f, K
<1>5. f \in [1..c -> castle] /\ \A i, j \in 1..c : i < j => <<f[i], f[j]>> \in R
  BY <1>2, OrderedRows
<1>6. /\ candidates' = [i \in 1..n |-> [drawer |-> f[i], lexical |-> -1]]
      /\ stage = "dense" /\ stage' \in {"scan", "rank"} /\ (stage' = "scan" <=> ask.way = "hybrid")
      /\ UNCHANGED <<castle, near, shared, ask, scanned, heap, hits, disturbances>>
  BY DEF DenseSearch, Unscored
<1>7. \A d, e \in castle : <<d, e>> \in R => near[d] >= near[e]
  BY <1>1 DEF Highest
<1> HIDE DEF R, c, n, f
<1>8. /\ candidates' \in Seq(Candidate) /\ Len(candidates') = n
      /\ \A i \in 1..n : candidates'[i].drawer = f[i] /\ f[i] \in castle
  <2>1. \A i \in 1..n : f[i] \in castle /\ f[i] \in Drawer
    BY <1>1, <1>3, <1>5, <1>2
  <2>2. \A i \in 1..n : [drawer |-> f[i], lexical |-> -1] \in Candidate
    BY <2>1 DEF Candidate
  <2> QED BY <1>3, <1>6, <2>1, <2>2
<1>9. Dense' = K
  BY <1>3, <1>8 DEF Dense
<1>10. Fetched' = Fetched
  BY <1>6 DEF Fetched
<1>11. RetrievalTyped'
  BY <1>6, <1>8 DEF RetrievalInv, RetrievalTyped
<1>12. StagesAgree'
  BY <1>6 DEF RetrievalInv, StagesAgree
<1>13. CandidatesDistinct'
  <2>1. ASSUME NEW i \in 1..n, NEW j \in 1..n, f[i] = f[j] PROVE i = j
    <3>1. i \in 1..c /\ j \in 1..c /\ f[i] \in castle
      BY <1>2, <1>3, <1>5
    <3>2. <<f[i], f[i]>> \notin R
      BY <1>2, <3>1 DEF StrictOrder
    <3> QED BY <1>5, <2>1, <3>1, <3>2, <1>3
  <2>2. n >= Fetched \/ n >= Cardinality(castle)
    BY <1>2, <1>3 DEF c
  <2> QED BY <1>6, <1>8, <1>10, <2>1, <2>2 DEF CandidatesDistinct
<1>14. NearestFound'
  <2> SUFFICES ASSUME ask.way = "dense"
               PROVE  /\ n <= ask.limit
                      /\ \A i, j \in 1..n : i < j => near[f[i]] >= near[f[j]]
                      /\ \A d \in castle \ K : \A i \in 1..n : near[d] <= near[f[i]]
    BY <1>6, <1>8, <1>9 DEF NearestFound
  <2>1. n <= ask.limit
    BY <1>3 DEF Fetched
  <2>2. \A i \in 1..n : i \in 1..c /\ f[i] \in castle
    BY <1>2, <1>3, <1>5
  <2>3. \A i, j \in 1..n : i < j => near[f[i]] >= near[f[j]]
    BY <1>5, <1>7, <2>2
  <2>4. ASSUME NEW d \in castle \ K, NEW i \in 1..n PROVE near[d] <= near[f[i]]
    <3>1. <<f[i], d>> \in R /\ f[i] \in castle /\ d \in castle
      BY <1>4, <2>2
    <3>2. near[f[i]] >= near[d] /\ near[d] \in Int /\ near[f[i]] \in Int
      BY <1>1, <1>7, <3>1
    <3> QED BY <3>2
  <2> QED BY <2>1, <2>3, <2>4
<1>15. ScanCovers'
  BY <1>2, <1>6 DEF RetrievalInv, StagesAgree, ScanCovers, c
<1>16. SearchSound'
  BY <1>2, <1>6 DEF RetrievalInv, StagesAgree, SearchSound, HitsOrdered, BestFound, FullAnswer
<1> QED BY <1>11, <1>12, <1>13, <1>14, <1>15, <1>16 DEF RetrievalInv

LEMMA ScanKeeps == RetrievalInv /\ Scan => RetrievalInv'
<1> SUFFICES ASSUME RetrievalInv, Scan PROVE RetrievalInv'
  OBVIOUS
<1> DEFINE c == Cardinality(castle)
           at == Ascending(castle)
           reached == Min({scanned + ScanBatch, ScanLimit, c})
           page == {at[i] : i \in scanned + 1..reached}
           S == heap \cup {d \in page : WorthKeeping(d)}
<1>1. /\ RetrievalTyped /\ castle \in SUBSET Drawer /\ heap \in SUBSET Drawer /\ scanned \in Nat
      /\ shared \in [Drawer -> 0..2] /\ ScanLimit \in Nat /\ ScanBatch \in Nat /\ ScanBatch > 0
  BY RetrievalAssumption DEF RetrievalInv, RetrievalTyped
<1>2. Fetched \in Nat /\ ask.limit \in Nat /\ c \in Nat /\ IsFiniteSet(castle) /\ Cardinality(heap) \in Nat
  BY <1>1, FetchedTyped, DrawersFinite
<1>3. /\ at \in [1..c -> castle]
      /\ \A k \in castle : \E i \in 1..c : at[i] = k
  <2>1. castle \in SUBSET Int
    BY <1>1, RetrievalAssumption
  <2> QED BY <1>2, <2>1, AscendingNumbers
<1>4. /\ reached \in Int /\ reached <= scanned + ScanBatch /\ reached <= ScanLimit /\ reached <= c
      /\ reached \in {scanned + ScanBatch, ScanLimit, c}
  <2>1. scanned + ScanBatch \in Int /\ ScanLimit \in Int /\ c \in Int
    BY <1>1, <1>2
  <2> HIDE DEF c
  <2> QED BY <2>1, LeastOfThree
<1>5. stage = "scan" /\ scanned < ScanLimit /\ UNCHANGED <<castle, near, shared, ask, candidates, hits, disturbances>>
  BY DEF Scan
<1>6. Fetched' = Fetched /\ Dense' = Dense
  BY <1>5 DEF Fetched, Dense
<1>7. NearestFound' /\ SearchSound'
  <2>1. ask.way = "hybrid" /\ hits = <<>> /\ stage' # "done"
    BY <1>5 DEF RetrievalInv, StagesAgree, Scan
  <2> QED BY <1>2, <1>5, <2>1 DEF NearestFound, SearchSound, HitsOrdered, BestFound, FullAnswer
<1>8. CandidatesDistinct'
  BY <1>5, <1>6 DEF RetrievalInv, CandidatesDistinct, Scan
<1>9. CASE page = {}
  <2>1. stage' = "merge" /\ UNCHANGED <<scanned, heap>>
    BY <1>9 DEF Scan
  <2>2. ~(scanned < c)
    <3> SUFFICES ASSUME scanned < c PROVE FALSE
      OBVIOUS
    <3>1. scanned + 1 \in scanned + 1..reached
      BY <1>1, <1>2, <1>4, <1>5
    <3> QED BY <1>9, <3>1
  <2>3. RetrievalTyped' /\ StagesAgree'
    BY <1>5, <2>1 DEF RetrievalInv, RetrievalTyped, StagesAgree
  <2>4. ScanCovers'
    <3>1. disturbances = 0 => scanned <= c /\ scanned = c
      BY <1>1, <1>2, <2>2 DEF RetrievalInv, ScanCovers
    <3>2. \A d : Covered(d)' <=> Covered(d)
      BY <1>5, <1>6, <2>1 DEF Covered
    <3> QED BY <1>5, <2>1, <3>1, <3>2 DEF RetrievalInv, ScanCovers
  <2> QED BY <1>7, <1>8, <2>3, <2>4 DEF RetrievalInv
<1>10. CASE page # {}
  <2>1. stage' = stage /\ heap' = Kept(S) /\ scanned' = reached
    BY <1>10 DEF Scan
  <2>2. PICK i0 \in scanned + 1..reached : TRUE
    BY <1>10
  <2>3. reached \in Nat /\ scanned < reached
    BY <1>1, <1>4, <2>2
  <2>4. S \in SUBSET Drawer
    <3>1. page \subseteq castle
      BY <1>1, <1>2, <1>3, <1>4, <2>3
    <3> QED BY <1>1, <3>1
  <2>5. /\ Kept(S) \subseteq S
        /\ \A d \in S \ Kept(S) : Cardinality(Kept(S)) >= Fetched /\ \A e \in Kept(S) : shared[e] >= shared[d]
        /\ \A H \in SUBSET S : Cardinality(H) >= Fetched =>
              /\ Cardinality(Kept(S)) >= Fetched
              /\ \A e \in Kept(S) \ H : \E h \in H : shared[e] >= shared[h]
    BY <1>1, <2>4, KeptBest
  <2>6. \A i \in scanned + 1..reached : WorthKeeping(at[i]) => at[i] \in S
    OBVIOUS
  <2> HIDE DEF page, reached, at
  <2>7. RetrievalTyped' /\ StagesAgree'
    <3>1. heap' \subseteq Drawer
      BY <2>1, <2>4, <2>5
    <3> QED BY <1>4, <1>5, <2>1, <2>3, <3>1 DEF RetrievalInv, RetrievalTyped, StagesAgree
  <2>8. ASSUME disturbances = 0, NEW i \in 1..reached, shared[at[i]] > 0 PROVE Covered(at[i])'
    <3> DEFINE d == at[i]
    <3>1. d \in castle /\ d \in Drawer
      BY <1>1, <1>2, <1>3, <1>4, <2>3
    <3>2. SUFFICES d \in Kept(S) \/ (Cardinality(Kept(S)) >= Fetched /\ \A e \in Kept(S) : shared[e] >= shared[d])
      BY <1>5, <1>6, <2>1 DEF Covered, at
    <3>3. CASE d \in S
      BY <2>5, <3>3
    <3>4. CASE d \notin S
      <4>1. ~(i \in scanned + 1..reached)
        BY <2>6, <2>8, <3>4 DEF WorthKeeping
      <4>2. i \in 1..scanned
        BY <1>1, <2>3, <4>1
      <4>3. Covered(at[i])
        BY <2>8, <4>2 DEF RetrievalInv, ScanCovers, at
      <4>4. Cardinality(heap) >= Fetched /\ \A e \in heap : shared[e] >= shared[d]
        BY <3>4, <4>3 DEF Covered
      <4>5. heap \in SUBSET S
        OBVIOUS
      <4>6. Cardinality(Kept(S)) >= Fetched /\ \A e \in Kept(S) \ heap : \E h \in heap : shared[e] >= shared[h]
        BY <2>5, <4>4, <4>5
      <4>7. ASSUME NEW e \in Kept(S) PROVE shared[e] >= shared[d]
        <5>1. CASE e \in heap
          BY <4>4, <5>1
        <5>2. CASE e \notin heap
          <6>1. PICK h \in heap : shared[e] >= shared[h]
            BY <4>6, <5>2
          <6>2. shared[h] >= shared[d]
            BY <4>4
          <6>3. e \in Drawer /\ h \in Drawer
            BY <1>1, <2>4, <2>5
          <6>4. shared[e] \in Int /\ shared[h] \in Int /\ shared[d] \in Int
            BY <1>1, <3>1, <6>3
          <6> HIDE DEF d
          <6> QED BY <6>1, <6>2, <6>4
        <5> QED BY <5>1, <5>2
      <4> QED BY <4>6, <4>7
    <3> QED BY <3>3, <3>4
  <2>9. ScanCovers'
    BY <1>4, <1>5, <2>1, <2>8 DEF ScanCovers, at, c
  <2> QED BY <1>7, <1>8, <2>7, <2>9 DEF RetrievalInv
<1> QED BY <1>9, <1>10

LEMMA ScanEndsKeeps == RetrievalInv /\ ScanEnds => RetrievalInv'
<1> SUFFICES ASSUME RetrievalInv, ScanEnds PROVE RetrievalInv'
  OBVIOUS
<1>1. /\ stage = "scan" /\ scanned >= ScanLimit /\ stage' = "merge"
      /\ UNCHANGED <<castle, near, shared, ask, scanned, heap, candidates, hits, disturbances>>
  BY DEF ScanEnds
<1>2. Fetched' = Fetched /\ Dense' = Dense /\ \A d : Covered(d)' <=> Covered(d)
  BY <1>1 DEF Fetched, Dense, Covered
<1>3. RetrievalTyped' /\ StagesAgree' /\ CandidatesDistinct'
  BY <1>1, <1>2 DEF RetrievalInv, RetrievalTyped, StagesAgree, CandidatesDistinct
<1>4. ScanCovers'
  BY <1>1, <1>2 DEF RetrievalInv, ScanCovers
<1>5. NearestFound' /\ SearchSound'
  <2>1. ask.way = "hybrid" /\ hits = <<>> /\ ask.limit \in Nat
    BY <1>1, FetchedTyped DEF RetrievalInv, StagesAgree
  <2> QED BY <1>1, <2>1 DEF NearestFound, SearchSound, HitsOrdered, BestFound, FullAnswer
<1> QED BY <1>3, <1>4, <1>5 DEF RetrievalInv

LEMMA MergeKeeps == RetrievalInv /\ Merge => RetrievalInv'
<1> SUFFICES ASSUME RetrievalInv, Merge PROVE RetrievalInv'
  OBVIOUS
<1>1. /\ stage = "merge" /\ stage' \in {"rank", "raised"}
      /\ UNCHANGED <<castle, near, shared, ask, scanned, heap, hits, disturbances>>
  BY DEF Merge
<1>2. ask.way = "hybrid" /\ hits = <<>> /\ ask.limit \in Nat /\ Fetched' = Fetched /\ \A d : Covered(d)' <=> Covered(d)
  BY <1>1, FetchedTyped DEF RetrievalInv, StagesAgree, Fetched, Covered
<1>3. NearestFound' /\ SearchSound'
  BY <1>1, <1>2 DEF NearestFound, SearchSound, HitsOrdered, BestFound, FullAnswer
<1>4. CASE Dense \cap heap # {}
  <2>1. stage' = "raised" /\ candidates' = candidates
    BY <1>4 DEF Merge
  <2>2. RetrievalTyped' /\ StagesAgree' /\ CandidatesDistinct' /\ ScanCovers'
    BY <1>1, <1>2, <2>1 DEF RetrievalInv, RetrievalTyped, StagesAgree, CandidatesDistinct, ScanCovers
  <2> QED BY <1>3, <2>2 DEF RetrievalInv
<1>5. CASE Dense \cap heap = {}
  <2> DEFINE R == Highest(heap, shared)
             m == Cardinality(heap)
             g == Ordered(heap, R)
             L == Len(candidates)
             new == [i \in 1..m |-> [drawer |-> g[i], lexical |-> shared[g[i]]]]
  <2>1. /\ RetrievalTyped /\ heap \in SUBSET Drawer /\ shared \in [Drawer -> 0..2]
        /\ candidates \in Seq(Candidate) /\ L \in Nat
    BY DEF RetrievalInv, RetrievalTyped
  <2>2. IsFiniteSet(heap) /\ m \in Nat /\ StrictOrder(heap, R)
    BY <2>1, DrawersFinite, HighestOrders
  <2>3. /\ g \in [1..m -> heap] /\ \A i, j \in 1..m : i < j => <<g[i], g[j]>> \in R
        /\ \A d \in heap : \E i \in 1..m : g[i] = d
    BY <2>2, OrderedRows
  <2>4. stage' = "rank" /\ candidates' = candidates \o new
    BY <1>5 DEF Merge
  <2> HIDE DEF R, m, g
  <2>5. ASSUME NEW i \in 1..m, NEW j \in 1..m, g[i] = g[j] PROVE i = j
    <3>1. g[i] \in heap /\ <<g[i], g[i]>> \notin R
      BY <2>2, <2>3 DEF StrictOrder
    <3>2. ~(i < j) /\ ~(j < i)
      BY <2>3, <2>5, <3>1
    <3> QED BY <2>2, <3>2
  <2>6. new \in Seq(Candidate) /\ Len(new) = m /\ \A i \in 1..m : new[i].drawer = g[i] /\ g[i] \in heap
    <3>1. \A i \in 1..m : g[i] \in heap /\ g[i] \in Drawer /\ shared[g[i]] \in 0..2
      BY <2>1, <2>3
    <3>2. \A i \in 1..m : [drawer |-> g[i], lexical |-> shared[g[i]]] \in Candidate
      BY <3>1 DEF Candidate
    <3> QED BY <2>2, <3>1, <3>2
  <2> HIDE DEF new
  <2>7. /\ candidates' \in Seq(Candidate) /\ Len(candidates') = L + m
        /\ \A i \in 1..L : candidates'[i] = candidates[i]
        /\ \A i \in 1..m : candidates'[L + i] = new[i]
    <3>1. /\ candidates \o new \in Seq(Candidate) /\ Len(candidates \o new) = L + Len(new)
          /\ \A i \in 1..L : (candidates \o new)[i] = candidates[i]
          /\ \A i \in 1..Len(new) : (candidates \o new)[L + i] = new[i]
      <4>1. candidates \in Seq(Candidate) /\ new \in Seq(Candidate)
        BY <2>1, <2>6
      <4> HIDE DEF Candidate
      <4> QED BY ONLY <4>1, JoinedRows
    <3> QED BY <2>4, <2>6, <3>1
  <2>8. \A i \in 1..L : candidates[i].drawer \in Dense
    BY <2>1 DEF Dense
  <2>9. ASSUME NEW i \in 1..L + m PROVE \/ i \in 1..L /\ candidates'[i].drawer = candidates[i].drawer
                                        \/ \E k \in 1..m : i = L + k /\ candidates'[i].drawer = g[k]
    <3>1. CASE i \in 1..L
      BY <2>7, <3>1
    <3>2. CASE i \notin 1..L
      <4>1. i - L \in 1..m /\ i = L + (i - L)
        BY <2>1, <2>2, <3>2
      <4> QED BY <2>6, <2>7, <4>1
    <3> QED BY <3>1, <3>2
  <2>10. CandidatesDistinct'
    <3>1. ASSUME NEW i \in 1..L + m, NEW j \in 1..L + m, candidates'[i].drawer = candidates'[j].drawer PROVE i = j
      <4>1. CASE i \in 1..L /\ j \in 1..L
        BY <2>7, <3>1, <4>1 DEF RetrievalInv, CandidatesDistinct
      <4>2. CASE i \in 1..L /\ j \notin 1..L
        <5>1. PICK k \in 1..m : j = L + k /\ candidates'[j].drawer = g[k]
          BY <2>9, <4>2
        <5>2. candidates[i].drawer = g[k] /\ g[k] \in heap /\ candidates[i].drawer \in Dense
          BY <2>6, <2>7, <2>8, <3>1, <4>2, <5>1
        <5> QED BY <1>5, <5>2
      <4>3. CASE i \notin 1..L /\ j \in 1..L
        <5>1. PICK k \in 1..m : i = L + k /\ candidates'[i].drawer = g[k]
          BY <2>9, <4>3
        <5>2. candidates[j].drawer = g[k] /\ g[k] \in heap /\ candidates[j].drawer \in Dense
          BY <2>6, <2>7, <2>8, <3>1, <4>3, <5>1
        <5> QED BY <1>5, <5>2
      <4>4. CASE i \notin 1..L /\ j \notin 1..L
        <5>1. PICK k \in 1..m : i = L + k /\ candidates'[i].drawer = g[k]
          BY <2>9, <4>4
        <5>2. PICK l \in 1..m : j = L + l /\ candidates'[j].drawer = g[l]
          BY <2>9, <4>4
        <5>3. k = l
          BY <2>5, <3>1, <5>1, <5>2
        <5> QED BY <5>1, <5>2, <5>3
      <4> QED BY <4>1, <4>2, <4>3, <4>4
    <3>2. disturbances = 0 => L >= Fetched \/ L >= Cardinality(castle)
      BY <1>1 DEF RetrievalInv, CandidatesDistinct
    <3>3. Fetched \in Nat /\ Cardinality(castle) \in Nat
      BY <2>1, FetchedTyped, DrawersFinite DEF RetrievalTyped
    <3>4. disturbances' = 0 => L + m >= Fetched' \/ L + m >= Cardinality(castle')
      BY <1>1, <1>2, <2>1, <2>2, <3>2, <3>3
    <3> QED BY <2>7, <3>1, <3>4 DEF CandidatesDistinct
  <2>11. heap' \subseteq Dense'
    <3> SUFFICES ASSUME NEW d \in heap PROVE d \in Dense'
      BY <1>1
    <3>1. PICK k \in 1..m : g[k] = d
      BY <2>3
    <3>2. L + k \in 1..L + m /\ candidates'[L + k].drawer = d
      BY <2>1, <2>2, <2>6, <2>7, <3>1
    <3> QED BY <2>7, <3>2 DEF Dense
  <2>12. ScanCovers'
    BY <1>1, <1>2, <2>11 DEF RetrievalInv, ScanCovers
  <2>13. RetrievalTyped' /\ StagesAgree'
    BY <1>1, <2>4, <2>7 DEF RetrievalInv, RetrievalTyped, StagesAgree
  <2> QED BY <1>3, <2>10, <2>12, <2>13 DEF RetrievalInv
<1> QED BY <1>4, <1>5

\* The ranking puts every candidate at one place, and never one before a better one.
LEMMA RankingOrders ==
  ASSUME RetrievalTyped
  PROVE  /\ StrictOrder(ToSet(candidates), Ranking)
         /\ \A cd \in Ranking : shared[cd[1].drawer] >= shared[cd[2].drawer]
<1> DEFINE C == ToSet(candidates)
           place == [c \in C |-> CHOOSE i \in DOMAIN candidates : candidates[i] = c]
           sim == [c \in C |-> Similarity(c)]
           words == [c \in C |-> shared[c.drawer]]
<1>1. \A c \in C : c \in Candidate /\ place[c] \in DOMAIN candidates /\ candidates[place[c]] = c
  BY DEF RetrievalTyped, ToSet
<1>2. \A c \in C : place[c] \in Int
  <2>1. DOMAIN candidates \subseteq Int
    BY DEF RetrievalTyped
  <2> HIDE DEF place
  <2> QED BY <1>1, <2>1
<1>3. \A c \in C : words[c] \in Int /\ words[c] = shared[c.drawer]
  <2>1. \A c \in C : c.drawer \in Drawer
    BY <1>1 DEF Candidate
  <2> QED BY <2>1 DEF RetrievalTyped
<1>4. \A c \in C : sim[c] \in Int /\ sim[c] = Similarity(c)
  <2>1. \A c \in C : c.drawer \in Drawer
    BY <1>1 DEF Candidate
  <2>2. \A c \in C : near[c.drawer] \in Int
    BY <2>1 DEF RetrievalTyped
  <2> QED BY <2>2 DEF Similarity
<1>5. \A c, d \in C : RankedBefore(c, d) <=> words[c] > words[d] \/ (words[c] = words[d] /\ sim[c] > sim[d])
  BY <1>3, <1>4 DEF RankedBefore
<1>6. Ranking = {cd \in C \X C : RankedBefore(cd[1], cd[2]) \/ (~RankedBefore(cd[2], cd[1]) /\ place[cd[1]] < place[cd[2]])}
  BY DEF Ranking
<1>7. \A c, d \in C : <<c, d>> \in Ranking <=>
        RankedBefore(c, d) \/ (~RankedBefore(d, c) /\ place[c] < place[d])
  BY <1>6
<1>8. \A c, d \in C : c # d => place[c] # place[d]
  BY <1>1
<1> HIDE DEF place, sim, words
<1>9. \A c, d \in C : <<c, d>> \in Ranking <=>
        \/ words[c] > words[d]
        \/ words[c] = words[d] /\ (sim[c] > sim[d] \/ (sim[c] = sim[d] /\ place[c] < place[d]))
  <2> SUFFICES ASSUME NEW c \in C, NEW d \in C
               PROVE  <<c, d>> \in Ranking <=>
                        \/ words[c] > words[d]
                        \/ words[c] = words[d] /\ (sim[c] > sim[d] \/ (sim[c] = sim[d] /\ place[c] < place[d]))
    OBVIOUS
  <2>1. /\ RankedBefore(c, d) <=> words[c] > words[d] \/ (words[c] = words[d] /\ sim[c] > sim[d])
        /\ RankedBefore(d, c) <=> words[d] > words[c] \/ (words[d] = words[c] /\ sim[d] > sim[c])
    BY <1>5
  <2>2. <<c, d>> \in Ranking <=> RankedBefore(c, d) \/ (~RankedBefore(d, c) /\ place[c] < place[d])
    BY <1>7
  <2>3. words[c] \in Int /\ words[d] \in Int /\ sim[c] \in Int /\ sim[d] \in Int /\ place[c] \in Int /\ place[d] \in Int
    BY <1>2, <1>3, <1>4
  <2>5. CASE RankedBefore(c, d)
    BY <2>1, <2>2, <2>5
  <2>6. CASE ~RankedBefore(c, d) /\ RankedBefore(d, c)
    <3>1. <<c, d>> \notin Ranking
      BY <2>2, <2>6
    <3>2. words[d] > words[c] \/ (words[d] = words[c] /\ sim[d] > sim[c])
      BY <2>1, <2>6
    <3> QED BY <2>3, <3>1, <3>2
  <2>7. CASE ~RankedBefore(c, d) /\ ~RankedBefore(d, c)
    <3>1. <<c, d>> \in Ranking <=> place[c] < place[d]
      BY <2>2, <2>7
    <3>2. words[c] = words[d] /\ sim[c] = sim[d]
      <4>1. /\ ~(words[c] > words[d] \/ (words[c] = words[d] /\ sim[c] > sim[d]))
            /\ ~(words[d] > words[c] \/ (words[d] = words[c] /\ sim[d] > sim[c]))
        BY <2>1, <2>7
      <4> QED BY <2>3, <4>1
    <3> QED BY <2>3, <3>1, <3>2
  <2> QED BY <2>5, <2>6, <2>7
<1>10. \A c \in C : <<c, c>> \notin Ranking
  BY <1>2, <1>3, <1>4, <1>9
<1>11. \A c, d, e \in C : <<c, d>> \in Ranking /\ <<d, e>> \in Ranking => <<c, e>> \in Ranking
  BY <1>2, <1>3, <1>4, <1>9
<1>12. \A c, d \in C : c # d => <<c, d>> \in Ranking \/ <<d, c>> \in Ranking
  BY <1>2, <1>3, <1>4, <1>8, <1>9
<1>13. StrictOrder(C, Ranking)
  BY <1>10, <1>11, <1>12 DEF StrictOrder
<1>14. ASSUME NEW cd \in Ranking PROVE shared[cd[1].drawer] >= shared[cd[2].drawer]
  <2>1. cd[1] \in C /\ cd[2] \in C /\ cd = <<cd[1], cd[2]>>
    BY <1>6
  <2>2. words[cd[1]] >= words[cd[2]]
    BY <1>3, <1>9, <2>1
  <2> QED BY <1>3, <2>1, <2>2
<1> QED BY <1>13, <1>14

\* The candidates as they are answered: each at one place, in the order asked for, and
\* the first of them before the others.
RankedInOrder(order) ==
  /\ order \in [1..Len(candidates) -> ToSet(candidates)]
  /\ \A i, j \in 1..Len(candidates) : order[i].drawer = order[j].drawer => i = j
  /\ \A d \in Dense : \E i \in 1..Len(candidates) : order[i].drawer = d
  /\ \A i, j \in 1..Len(candidates) : i < j =>
       IF ask.way = "dense" THEN near[order[i].drawer] >= near[order[j].drawer]
       ELSE shared[order[i].drawer] >= shared[order[j].drawer]

LEMMA RankedAnswers ==
  ASSUME RetrievalInv, stage # "dense"
  PROVE  RankedInOrder(IF ask.way = "dense" THEN candidates ELSE Ordered(ToSet(candidates), Ranking))
<1> DEFINE C == ToSet(candidates)
           L == Len(candidates)
           f == Ordered(C, Ranking)
<1>1. RetrievalTyped /\ L \in Nat /\ DOMAIN candidates = 1..L /\ candidates \in [1..L -> C]
  BY DEF RetrievalInv, RetrievalTyped, ToSet
<1>2. \A i, j \in 1..L : candidates[i].drawer = candidates[j].drawer => i = j
  BY DEF RetrievalInv, CandidatesDistinct
<1>3. Dense = {candidates[i].drawer : i \in 1..L}
  BY <1>1 DEF Dense
<1>4. CASE ask.way = "dense"
  <2>1. \A i, j \in 1..L : i < j => near[candidates[i].drawer] >= near[candidates[j].drawer]
    BY <1>4 DEF RetrievalInv, NearestFound
  <2>2. RankedInOrder(candidates)
    BY <1>1, <1>2, <1>3, <1>4, <2>1 DEF RankedInOrder
  <2> QED BY <1>4, <2>2
<1>5. CASE ask.way # "dense"
  <2>1. IsFiniteSet(C) /\ Cardinality(C) = L
    <3>1. C = {candidates[i] : i \in 1..L}
      BY <1>1 DEF ToSet
    <3>2. \A i, j \in 1..L : candidates[i] = candidates[j] => i = j
      BY <1>2
    <3>3. Cardinality({candidates[i] : i \in 1..L}) = L
      BY <1>1, <3>2, DistinctCount
    <3>4. Surjection(1..L, C) # {}
      BY <1>1, <3>1 DEF Surjection
    <3>5. IsFiniteSet(1..L)
      <4>1. 1 \in Int /\ L \in Int
        BY <1>1
      <4> QED BY <4>1, FS_Interval
    <3>6. IsFiniteSet(C)
      BY <3>4, <3>5, FS_Surjection
    <3> QED BY <3>1, <3>3, <3>6
  <2>2. StrictOrder(C, Ranking) /\ \A cd \in Ranking : shared[cd[1].drawer] >= shared[cd[2].drawer]
    BY <1>1, RankingOrders
  <2>3. /\ f \in [1..L -> C] /\ \A i, j \in 1..L : i < j => <<f[i], f[j]>> \in Ranking
        /\ \A c \in C : \E i \in 1..L : f[i] = c
    BY <2>1, <2>2, OrderedRows
  <2> HIDE DEF f, L
  <2>4. \A i, j \in 1..L : i < j => shared[f[i].drawer] >= shared[f[j].drawer]
    BY <2>2, <2>3
  <2>5. ASSUME NEW i \in 1..L, NEW j \in 1..L, f[i].drawer = f[j].drawer PROVE i = j
    <3>1. PICK k, l \in 1..L : candidates[k] = f[i] /\ candidates[l] = f[j]
      <4>1. f[i] \in C /\ f[j] \in C
        BY <2>3
      <4> QED BY <1>1, <4>1 DEF ToSet
    <3>2. f[i] = f[j] /\ f[i] \in C
      BY <1>2, <2>3, <2>5, <3>1
    <3>3. <<f[i], f[i]>> \notin Ranking
      BY <2>2, <3>2 DEF StrictOrder
    <3> QED BY <1>1, <2>3, <3>2, <3>3
  <2>6. \A d \in Dense : \E i \in 1..L : f[i].drawer = d
    <3> SUFFICES ASSUME NEW d \in Dense PROVE \E i \in 1..L : f[i].drawer = d
      OBVIOUS
    <3>1. PICK k \in 1..L : candidates[k].drawer = d
      BY <1>3
    <3>2. candidates[k] \in C
      BY <1>1
    <3> QED BY <2>3, <3>1, <3>2
  <2>7. RankedInOrder(f)
    BY <1>5, <2>3, <2>4, <2>5, <2>6 DEF RankedInOrder, L
  <2> QED BY <1>5, <2>7 DEF f
<1> QED BY <1>4, <1>5

LEMMA RankKeeps == RetrievalInv /\ Rank => RetrievalInv'
<1> SUFFICES ASSUME RetrievalInv, Rank PROVE RetrievalInv'
  OBVIOUS
<1> DEFINE order == IF ask.way = "dense" THEN candidates ELSE Ordered(ToSet(candidates), Ranking)
           L == Len(candidates)
           m == Min({ask.limit, L})
           H == {order[i].drawer : i \in 1..m}
<1>1. /\ stage = "rank" /\ stage' = "done" /\ hits' = [i \in 1..m |-> order[i].drawer]
      /\ UNCHANGED <<castle, near, shared, ask, scanned, heap, candidates, disturbances>>
  BY DEF Rank
<1>2. /\ RetrievalTyped /\ L \in Nat /\ castle \in SUBSET Drawer /\ heap \in SUBSET Drawer
      /\ near \in [Drawer -> 0..2] /\ shared \in [Drawer -> 0..2] /\ candidates \in Seq(Candidate)
  BY DEF RetrievalInv, RetrievalTyped
<1>3. /\ Fetched \in Nat /\ ask.limit \in Nat /\ Fetched >= ask.limit /\ ScanLimit \in Nat /\ scanned \in Nat
      /\ Cardinality(castle) \in Nat /\ IsFiniteSet(heap) /\ Cardinality(heap) \in Nat
  BY <1>2, FetchedTyped, DrawersFinite, RetrievalAssumption DEF RetrievalTyped
<1>4. m \in Nat /\ m <= L /\ m <= ask.limit /\ (m = L \/ m = ask.limit)
  <2>1. ask.limit \in Int /\ L \in Int
    BY <1>2, <1>3
  <2> HIDE DEF L
  <2>2. m \in {ask.limit, L} /\ m <= ask.limit /\ m <= L
    BY <2>1, LeastOfTwo
  <2> QED BY <1>2, <1>3, <2>2 DEF L
<1>5. RankedInOrder(order)
  BY <1>1, RankedAnswers
<1> HIDE DEF order, m
<1>6. \A i \in 1..L : order[i] \in Candidate /\ order[i].drawer \in Drawer /\ order[i].drawer \in Dense
  <2> SUFFICES ASSUME NEW i \in 1..L
               PROVE  order[i] \in Candidate /\ order[i].drawer \in Drawer /\ order[i].drawer \in Dense
    OBVIOUS
  <2>1. order[i] \in ToSet(candidates)
    BY <1>5 DEF RankedInOrder
  <2>2. PICK k \in DOMAIN candidates : candidates[k] = order[i]
    BY <2>1 DEF ToSet
  <2>3. candidates[k] \in Candidate
    BY <1>2
  <2> QED BY <2>2, <2>3 DEF Candidate, Dense
<1>7. /\ hits' \in Seq(Drawer) /\ Len(hits') = m /\ DOMAIN hits' = 1..m
      /\ \A i \in 1..m : hits'[i] = order[i].drawer /\ i \in 1..L
  <2>1. \A i \in 1..m : i \in 1..L
    BY <1>2, <1>4
  <2>2. \A i \in 1..m : order[i].drawer \in Drawer
    BY <1>6, <2>1
  <2> QED BY <1>1, <1>4, <2>1, <2>2
<1>8. ToSet(hits') = H
  BY <1>7 DEF ToSet
<1>9. Fetched' = Fetched /\ Dense' = Dense /\ (\A d : Covered(d)' <=> Covered(d)) /\ ToSet(hits)' = ToSet(hits')
  BY <1>1 DEF Fetched, Dense, Covered
<1>10. RetrievalTyped' /\ StagesAgree' /\ CandidatesDistinct'
  BY <1>1, <1>7, <1>9 DEF RetrievalInv, RetrievalTyped, StagesAgree, CandidatesDistinct
<1>11. NearestFound' /\ ScanCovers'
  BY <1>1, <1>9 DEF RetrievalInv, NearestFound, ScanCovers
<1>12. HitsOrdered'
  <2>1. Len(hits') <= ask.limit
    BY <1>4, <1>7
  <2>2. ASSUME NEW i \in 1..m, NEW j \in 1..m, i < j
        PROVE  /\ hits'[i] # hits'[j]
               /\ IF ask.way = "dense" THEN near[hits'[i]] >= near[hits'[j]] ELSE shared[hits'[i]] >= shared[hits'[j]]
    <3>1. i \in 1..L /\ j \in 1..L /\ hits'[i] = order[i].drawer /\ hits'[j] = order[j].drawer /\ i # j
      BY <1>4, <1>7, <2>2
    <3> QED BY <1>5, <2>2, <3>1 DEF RankedInOrder
  <2>3. ask' = ask /\ near' = near /\ shared' = shared
    BY <1>1
  <2> QED BY <1>7, <2>1, <2>2, <2>3 DEF HitsOrdered
<1>13. FullAnswer'
  <2> SUFFICES ASSUME disturbances = 0 PROVE m >= Min({ask.limit, Cardinality(castle)})
    BY <1>1, <1>7 DEF FullAnswer
  <2>1. L >= Fetched \/ L >= Cardinality(castle)
    BY <1>1 DEF RetrievalInv, CandidatesDistinct
  <2>2. Min({ask.limit, Cardinality(castle)}) <= ask.limit /\ Min({ask.limit, Cardinality(castle)}) <= Cardinality(castle)
        /\ Min({ask.limit, Cardinality(castle)}) \in Int
    <3>1. ask.limit \in Int /\ Cardinality(castle) \in Int
      BY <1>3
    <3>2. Min({ask.limit, Cardinality(castle)}) \in {ask.limit, Cardinality(castle)}
          /\ Min({ask.limit, Cardinality(castle)}) <= ask.limit /\ Min({ask.limit, Cardinality(castle)}) <= Cardinality(castle)
      BY <3>1, LeastOfTwo
    <3> QED BY <3>1, <3>2
  <2> QED BY <1>2, <1>3, <1>4, <2>1, <2>2
\* A drawer left out is worth no more than an answer, by what the order looks at.
<1>14. ASSUME NEW d \in Dense, d \notin H, NEW i \in 1..m
       PROVE  IF ask.way = "dense" THEN near[order[i].drawer] >= near[d] ELSE shared[order[i].drawer] >= shared[d]
  <2>1. PICK k \in 1..L : order[k].drawer = d
    BY <1>5 DEF RankedInOrder
  <2>2. k \notin 1..m
    BY <1>14, <2>1
  <2>3. i \in 1..L /\ i < k
    BY <1>2, <1>4, <2>2
  <2> QED BY <1>5, <2>1, <2>3 DEF RankedInOrder
<1>15. BestFound'
  <2> SUFFICES ASSUME disturbances = 0, NEW d \in castle, d \notin H, NEW i \in 1..m
               PROVE  /\ ask.way = "dense" => near[d] <= near[order[i].drawer]
                      /\ ask.way = "lexical" /\ d \in Dense => shared[d] <= shared[order[i].drawer]
                      /\ ask.way = "hybrid" /\ Cardinality(castle) <= ScanLimit => shared[d] <= shared[order[i].drawer]
    BY <1>1, <1>8, <1>9 DEF BestFound
  <2> DEFINE e == order[i].drawer
  <2>1. d \in Drawer /\ e \in Drawer /\ i \in 1..L
    BY <1>2, <1>6, <1>7
  <2> HIDE DEF e
  <2>2. near[d] \in Int /\ near[e] \in Int /\ shared[d] \in Int /\ shared[e] \in Int
    BY <1>2, <2>1
  <2>3. d \in Dense => IF ask.way = "dense" THEN near[e] >= near[d] ELSE shared[e] >= shared[d]
    BY <1>14 DEF e
  <2>4. ask.way = "dense" => near[d] <= near[e]
    <3> SUFFICES ASSUME ask.way = "dense" PROVE near[d] <= near[e]
      OBVIOUS
    <3>1. CASE d \in Dense
      BY <2>2, <2>3, <3>1
    <3>2. CASE d \notin Dense
      <4>1. d \in castle \ Dense /\ \A j \in 1..L : near[d] <= near[candidates[j].drawer]
        BY <1>1, <3>2 DEF RetrievalInv, NearestFound
      <4>2. e \in Dense
        BY <1>6, <2>1 DEF e
      <4>3. PICK j \in DOMAIN candidates : candidates[j].drawer = e
        BY <4>2 DEF Dense
      <4>4. j \in 1..L
        BY <1>2
      <4> QED BY <4>1, <4>3, <4>4
    <3> QED BY <3>1, <3>2
  <2>5. ask.way = "lexical" /\ d \in Dense => shared[d] <= shared[e]
    BY <2>2, <2>3
  <2>6. ask.way = "hybrid" /\ Cardinality(castle) <= ScanLimit => shared[d] <= shared[e]
    <3> SUFFICES ASSUME ask.way = "hybrid", Cardinality(castle) <= ScanLimit, shared[d] > shared[e] PROVE FALSE
      BY <2>2
    <3>1. d \notin Dense
      BY <2>2, <2>3
    <3>2. heap \subseteq Dense /\ d \notin heap
      BY <1>1, <3>1 DEF RetrievalInv, ScanCovers
    <3>3. scanned = Cardinality(castle)
      <4>1. scanned <= Cardinality(castle) /\ (scanned = Cardinality(castle) \/ scanned >= ScanLimit)
        BY <1>1 DEF RetrievalInv, ScanCovers
      <4> QED BY <1>3, <4>1
    <3>4. PICK k \in 1..Cardinality(castle) : Ascending(castle)[k] = d
      <4>1. castle \in SUBSET Int /\ IsFiniteSet(castle)
        BY <1>2, RetrievalAssumption, DrawersFinite
      <4> QED BY <4>1, AscendingNumbers
    <3>5. shared[d] > 0
      <4>1. shared[e] \in 0..2
        BY <1>2, <2>1
      <4> QED BY <2>2, <4>1
    <3>6. Covered(d)
      <4>1. shared[Ascending(castle)[k]] > 0 => Covered(Ascending(castle)[k])
        BY <3>3 DEF RetrievalInv, ScanCovers
      <4> QED BY <3>4, <3>5, <4>1
    <3>7. Cardinality(heap) >= Fetched /\ \A h \in heap : shared[h] >= shared[d]
      BY <3>2, <3>6 DEF Covered
    <3>8. e \notin heap
      BY <2>2, <3>7
    <3>9. ASSUME NEW h \in heap PROVE h \in H
      <4> SUFFICES ASSUME h \notin H PROVE FALSE
        OBVIOUS
      <4>1. shared[e] >= shared[h]
        BY <1>14, <3>2 DEF e
      <4>2. shared[h] \in Int /\ shared[h] >= shared[d]
        BY <1>2, <3>7
      <4> QED BY <2>2, <4>1, <4>2
    <3>10. e \in H
      BY DEF e
    <3>11. IsFiniteSet(H) /\ Cardinality(H) = m
      <4> DEFINE f == [j \in 1..m |-> order[j].drawer]
      <4>1. \A j, l \in 1..m : f[j] = f[l] => j = l
        <5>1. \A j \in 1..m : j \in 1..L /\ f[j] = order[j].drawer
          BY <1>7
        <5> QED BY <1>5, <5>1 DEF RankedInOrder
      <4>2. H = {f[j] : j \in 1..m}
        OBVIOUS
      <4> HIDE DEF f, H
      <4>3. Cardinality(H) = m
        BY <1>4, <4>1, <4>2, DistinctCount
      <4>4. H \subseteq Drawer
        <5>1. \A j \in 1..m : f[j] \in Drawer
          BY <1>6, <1>7 DEF f
        <5> QED BY <4>2, <5>1
      <4> QED BY <4>3, <4>4, DrawersFinite
    <3>12. IsFiniteSet(heap \cup {e}) /\ Cardinality(heap \cup {e}) = Cardinality(heap) + 1
      BY <1>3, <3>8, FS_AddElement
    <3> HIDE DEF H
    <3>13. heap \cup {e} \subseteq H
      BY <3>9, <3>10
    <3>14. Cardinality(heap \cup {e}) <= Cardinality(H)
      BY <3>11, <3>13, FS_Subset
    <3> QED BY <1>3, <1>4, <3>7, <3>11, <3>12, <3>14
  <2> QED BY <2>4, <2>5, <2>6 DEF e
<1> QED BY <1>10, <1>11, <1>12, <1>13, <1>15 DEF RetrievalInv, SearchSound

LEMMA WrittenKeeps == RetrievalInv /\ (\E d \in Drawer : CastleWritten(d)) => RetrievalInv'
<1> SUFFICES ASSUME RetrievalInv, NEW d \in Drawer, CastleWritten(d) PROVE RetrievalInv'
  OBVIOUS
<1>1. /\ stage = "scan" /\ disturbances' = disturbances + 1
      /\ castle' \subseteq castle \cup {d}
      /\ UNCHANGED <<near, shared, ask, stage, scanned, heap, candidates, hits>>
  BY DEF CastleWritten
<1>2. ask.way = "hybrid" /\ hits = <<>> /\ ask.limit \in Nat /\ disturbances' \in Nat /\ disturbances' # 0
  BY <1>1, FetchedTyped DEF RetrievalInv, StagesAgree, RetrievalTyped
<1>3. RetrievalTyped' /\ StagesAgree'
  BY <1>1, <1>2 DEF RetrievalInv, RetrievalTyped, StagesAgree
<1>4. CandidatesDistinct' /\ NearestFound' /\ ScanCovers'
  BY <1>1, <1>2 DEF RetrievalInv, CandidatesDistinct, NearestFound, ScanCovers
<1>5. SearchSound'
  BY <1>1, <1>2 DEF SearchSound, HitsOrdered, BestFound, FullAnswer
<1> QED BY <1>3, <1>4, <1>5 DEF RetrievalInv

LEMMA RetrievalInvStep == RetrievalInv /\ [RetrievalNext]_retrievalVars => RetrievalInv'
<1> SUFFICES ASSUME RetrievalInv, [RetrievalNext]_retrievalVars PROVE RetrievalInv'
  OBVIOUS
<1>1. CASE RetrievalNext
  BY <1>1, DenseSearchKeeps, ScanKeeps, ScanEndsKeeps, MergeKeeps, RankKeeps, WrittenKeeps
     DEF RetrievalNext, RetrievalStep
<1>2. CASE UNCHANGED retrievalVars
  <2>1. UNCHANGED <<castle, near, shared, ask, stage, scanned, heap, candidates, hits, disturbances>>
    BY <1>2 DEF retrievalVars
  <2>2. Fetched' = Fetched /\ Dense' = Dense /\ (\A d : Covered(d)' <=> Covered(d)) /\ ToSet(hits') = ToSet(hits)
    BY <2>1 DEF Fetched, Dense, Covered
  <2>3. RetrievalTyped' /\ StagesAgree' /\ CandidatesDistinct'
    BY <2>1, <2>2 DEF RetrievalInv, RetrievalTyped, StagesAgree, CandidatesDistinct
  <2>4. NearestFound' /\ ScanCovers'
    BY <2>1, <2>2 DEF RetrievalInv, NearestFound, ScanCovers
  <2>5. HitsOrdered' /\ BestFound' /\ FullAnswer'
    BY <2>1, <2>2 DEF RetrievalInv, SearchSound, HitsOrdered, BestFound, FullAnswer
  <2> QED BY <2>3, <2>4, <2>5 DEF RetrievalInv, SearchSound
<1> QED BY <1>1, <1>2

\* Retrieval: the types.
LEMMA RetrievalTypes == RetrievalInv => RetrievalTypeOK
<1> SUFFICES ASSUME RetrievalInv PROVE RetrievalTypeOK
  OBVIOUS
<1>1. RetrievalTyped
  BY DEF RetrievalInv
<1>2. \A i \in DOMAIN candidates : candidates[i] \in Candidate
  BY <1>1 DEF RetrievalTyped
<1>3. ToSet(hits) \subseteq Drawer
  BY <1>1 DEF RetrievalTyped, ToSet
<1> QED BY <1>1, <1>2, <1>3 DEF RetrievalTyped, RetrievalTypeOK, Candidate

\* Retrieval: a search answers with the best drawers, in the order asked for, each once,
\* and with as many as there are.
THEOREM SearchesAreSound == RetrievalSpec => [](RetrievalTypeOK /\ SearchSound)
<1>1. RetrievalInv => RetrievalTypeOK /\ SearchSound
  BY RetrievalTypes DEF RetrievalInv
<1> QED BY <1>1, RetrievalInvInit, RetrievalInvStep, PTL DEF RetrievalSpec

=============================================================================
