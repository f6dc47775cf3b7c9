----------------------------- MODULE IntakeProofs -----------------------------
(*****************************************************************************)
(* Proofs about what fills a castle from outside, whatever the palace, the   *)
(* number of transcripts and of processes:                                   *)
(*   MigrationIsSafe    a migration overwrites nothing and loses nothing     *)
(*   HooksAreSound      saves are asked for in time, a digest is whole when  *)
(*                      its builder had the temporary file to itself         *)
(*   IngestIsSound      what is mined of a file is one content of it, and    *)
(*                      the present one when a run leaves it undisturbed     *)
(*   ConvosAreSound     a transcript that is skipped is stored as it is, if  *)
(*                      it was not edited at the wrong moment or cut off     *)
(*   RegistryIsFaithful people are kept and flagged, codes tell names apart  *)
(*   TrackersAreFaithful only the gone are quarantined, the registry is kept *)
(*   ScansAreSound      the files found are those that the rules let in      *)
(*   PagesLoseNothing   no page of a transfer skips a record                 *)
(*   DetectionsAreSound names are put forward on good evidence, and apart    *)
(* and of the run that has all of them: IntakeIsTyped, TextIsSound (with the *)
(* proofs of TextProofs), NamesAreSound, TrackersAreSound, PagesAreSound and *)
(* IntakeIsSound.                                                            *)
(*****************************************************************************)
EXTENDS MCIntake, TextProofs

-----------------------------------------------------------------------------
(* Migration: sidecars and drawers.                                        *)

MigrationRun ==
  [pc : {"off", "copy", "write"}, copied : SUBSET Sidecar, left : SUBSET Sidecar, copying : Sidecar \cup {"none"}]

\* What the proofs need of the values.
MigrationTypes ==
  /\ inPalace \subseteq Sidecar /\ own \subseteq Sidecar
  /\ castle \in [there : BOOLEAN, drawers : SUBSET OldDrawer]
  /\ castle.drawers # {} => castle.there
  /\ beside \in [Sidecar -> {"absent", "torn", "copied", "own"}]
  /\ migrate \in MigrationRun
  /\ outcome \in {"none", "refused", "migrated", "raised", "died"}
  /\ tornBefore \in BOOLEAN

\* A sidecar of the target's own is known by its mark, one that this run has
\* copied is whole, and one that is torn is the one being copied, or was cut before.
SidecarsKnown ==
  /\ \A s \in Sidecar : beside[s] = "own" <=> s \in own
  /\ \A s \in migrate.copied : beside[s] = "copied"
  /\ \A s \in Sidecar : beside[s] = "torn" => s = migrate.copying \/ tornBefore
  /\ migrate.copying # "none" => migrate.pc = "copy" /\ beside[migrate.copying] = "torn"

\* A run passes over a sidecar of the palace only when the target has it.
CopyCovers ==
  migrate.pc \in {"copy", "write"} =>
    \A s \in inPalace : s \in migrate.left \/ beside[s] # "absent"

\* The drawers are written when no sidecar is left, and there is no outcome while a
\* run goes on.
RunOrder ==
  /\ migrate.pc = "write" => migrate.left = {} /\ migrate.copying = "none"
  /\ migrate.pc = "off" => migrate.copying = "none" /\ migrate.copied = {}
  /\ migrate.pc # "off" => outcome = "none" /\ castle.there

\* The inductive invariant.
MigrationInv == MigrationTypes /\ SidecarsKnown /\ CopyCovers /\ RunOrder /\ MigrationSafe

\* A finite set has a subset of every size up to its own: the batches of
\* _migrate_drawers are never empty while a drawer is left.
LEMMA SubsetOfSize ==
  ASSUME NEW S, IsFiniteSet(S), NEW n \in Nat, n <= Cardinality(S)
  PROVE  \E B \in SUBSET S : Cardinality(B) = n
  <1>1. Cardinality(S) \in Nat /\ ExistsBijection(1..Cardinality(S), S)
    BY FS_CardinalityType
  <1>2. PICK f : f \in Bijection(1..Cardinality(S), S)
    BY <1>1, Fun_ExistsBij
  <1>3. /\ f \in [1..Cardinality(S) -> S]
        /\ \A a, b \in 1..Cardinality(S) : f[a] = f[b] => a = b
    BY <1>2, Fun_BijectionProperties
  <1> DEFINE g == [i \in 1..n |-> f[i]]
             B == {f[i] : i \in 1..n}
  <1>4. 1..n \subseteq 1..Cardinality(S)
    BY <1>1
  <1>5. B \in SUBSET S
    BY <1>3, <1>4
  <1>6. g \in Bijection(1..n, B)
    <2>1. g \in [1..n -> B]
      OBVIOUS
    <2>2. \A a, b \in 1..n : g[a] = g[b] => a = b
      BY <1>3, <1>4
    <2>3. \A t \in B : \E s \in 1..n : g[s] = t
      OBVIOUS
    <2> HIDE DEF g, B
    <2> QED
      BY <2>1, <2>2, <2>3, Fun_IsBij
  <1>7. Cardinality(B) = n
    <2> HIDE DEF g, B
    <2>1. ExistsBijection(1..n, B)
      BY <1>6, Fun_ExistsBij
    <2> QED
      BY <2>1, FS_CountingElements
  <1> QED
    BY <1>5, <1>7

\* A migration ends only when every drawer is written.
LEMMA NothingLeftToWrite ==
  ASSUME castle.drawers \subseteq OldDrawer, ~\E B \in Batches(LeftToWrite) : B # {}
  PROVE  castle.drawers = OldDrawer
  <1>1. IsFiniteSet(LeftToWrite)
    BY MigrationAssumption, FS_Subset DEF MigrationAssumption, LeftToWrite
  <1> DEFINE n == IF Cardinality(LeftToWrite) < MigrationBatch THEN Cardinality(LeftToWrite) ELSE MigrationBatch
  <1>2. Cardinality(LeftToWrite) \in Nat
    BY <1>1, FS_CardinalityType
  <1>3. n \in Nat /\ n <= Cardinality(LeftToWrite)
    BY <1>2, MigrationAssumption DEF MigrationAssumption
  <1>4. PICK B \in SUBSET LeftToWrite : Cardinality(B) = n
    <2> HIDE DEF n
    <2> QED
      BY <1>1, <1>3, SubsetOfSize
  <1>5. B \in Batches(LeftToWrite)
    BY <1>4 DEF Batches
  <1>6. B = {}
    BY <1>5
  <1>7. n = 0
    BY <1>4, <1>6, FS_EmptySet
  <1>8. Cardinality(LeftToWrite) = 0
    BY <1>2, <1>7, MigrationAssumption DEF MigrationAssumption
  <1>9. LeftToWrite = {}
    BY <1>1, <1>8, FS_EmptySet
  <1> QED
    BY <1>9 DEF LeftToWrite

\* The invariant holds before the first run.
LEMMA MigrationInvInit == MigrationInit => MigrationInv
  <1> SUFFICES ASSUME MigrationInit PROVE MigrationInv
    OBVIOUS
  <1> USE MigrationAssumption DEF MigrationInit, MigrationAssumption, NoCastle, Off
  <1>1. MigrationTypes
    <2>1. castle \in [there : BOOLEAN, drawers : SUBSET OldDrawer] /\ castle.drawers = {}
      <3>1. \A b \in BOOLEAN : [there |-> b, drawers |-> {}] \in [there : BOOLEAN, drawers : SUBSET OldDrawer]
        OBVIOUS
      <3>2. CASE castle = NoCastle
        BY <3>1, <3>2
      <3>3. CASE castle = [there |-> TRUE, drawers |-> {}]
        BY <3>1, <3>3
      <3> QED
        BY <3>2, <3>3
    <2>2. migrate \in MigrationRun
      BY DEF MigrationRun
    <2>3. beside \in [Sidecar -> {"absent", "torn", "copied", "own"}]
      OBVIOUS
    <2> QED
      BY <2>1, <2>2, <2>3 DEF MigrationTypes
  <1>2. SidecarsKnown
    BY DEF SidecarsKnown
  <1>3. CopyCovers /\ RunOrder
    BY DEF CopyCovers, RunOrder
  <1>4. MigrationSafe
    BY DEF MigrationSafe
  <1> QED
    BY <1>1, <1>2, <1>3, <1>4 DEF MigrationInv

\* Every step preserves it.
LEMMA MigrationInvStep == MigrationInv /\ [MigrationNext]_migrationVars => MigrationInv'
  <1> SUFFICES ASSUME MigrationInv, [MigrationNext]_migrationVars
               PROVE  MigrationInv'
    OBVIOUS
  <1> USE MigrationAssumption DEF MigrationAssumption, MigrationInv
  <1>1. CASE Refuse
    BY <1>1 DEF Refuse, MigrationTypes, SidecarsKnown, CopyCovers, RunOrder, MigrationSafe
  <1>2. CASE StartMigrate
    <2> USE <1>2 DEF StartMigrate, Off
    <2>1. MigrationTypes'
      BY DEF MigrationTypes, MigrationRun
    <2>2. (SidecarsKnown /\ CopyCovers /\ RunOrder)'
      BY DEF MigrationTypes, SidecarsKnown, CopyCovers, RunOrder
    <2>3. MigrationSafe'
      BY DEF MigrationTypes, MigrationSafe
    <2> QED
      BY <2>1, <2>2, <2>3
  <1>3. CASE EndCopy
    <2> USE <1>3 DEF EndCopy
    <2>1. migrate.copying \in Sidecar /\ migrate.pc = "copy" /\ beside[migrate.copying] = "torn"
      BY DEF MigrationTypes, MigrationRun, SidecarsKnown
    <2>2. MigrationTypes'
      BY <2>1 DEF MigrationTypes, MigrationRun
    <2>3. SidecarsKnown'
      BY <2>1 DEF MigrationTypes, MigrationRun, SidecarsKnown
    <2>4. CopyCovers' /\ RunOrder'
      BY <2>1 DEF MigrationTypes, MigrationRun, CopyCovers, RunOrder
    <2>5. MigrationSafe'
      BY <2>1 DEF MigrationTypes, MigrationRun, RunOrder, MigrationSafe, SidecarsKnown
    <2> QED
      BY <2>2, <2>3, <2>4, <2>5
  <1>4. CASE CopiedAll
    <2> USE <1>4 DEF CopiedAll
    <2>1. MigrationTypes'
      BY DEF MigrationTypes, MigrationRun
    <2>2. (SidecarsKnown /\ CopyCovers /\ RunOrder)'
      BY DEF MigrationTypes, MigrationRun, SidecarsKnown, CopyCovers, RunOrder
    <2>3. MigrationSafe'
      BY DEF MigrationTypes, MigrationSafe
    <2> QED
      BY <2>1, <2>2, <2>3
  <1>5. CASE WriteDrawers
    <2>1. PICK B \in Batches(LeftToWrite) : castle' = [castle EXCEPT !.drawers = @ \cup B]
      BY <1>5 DEF WriteDrawers
    <2>2. B \subseteq OldDrawer
      BY DEF Batches, LeftToWrite
    <2> USE <1>5, <2>1, <2>2 DEF WriteDrawers
    <2>3. castle.there
      BY DEF RunOrder
    <2>4. MigrationTypes'
      BY <2>3 DEF MigrationTypes
    <2>5. (SidecarsKnown /\ CopyCovers /\ RunOrder)'
      BY DEF SidecarsKnown, CopyCovers, RunOrder
    <2>6. MigrationSafe'
      BY DEF MigrationSafe, RunOrder
    <2> QED
      BY <2>4, <2>5, <2>6
  <1>6. CASE EndMigrate
    <2> USE <1>6 DEF EndMigrate, Off
    <2>1. castle.drawers = OldDrawer
      BY NothingLeftToWrite DEF MigrationTypes
    <2>2. MigrationTypes'
      BY DEF MigrationTypes, MigrationRun
    <2>3. (SidecarsKnown /\ CopyCovers /\ RunOrder)'
      BY DEF MigrationTypes, SidecarsKnown, CopyCovers, RunOrder
    <2>4. \A s \in inPalace : beside[s] \in {"copied", "own"} \/ (tornBefore /\ beside[s] = "torn")
      BY DEF MigrationTypes, SidecarsKnown, CopyCovers, RunOrder
    <2>5. MigrationSafe'
      BY <2>1, <2>4 DEF MigrationTypes, MigrationSafe
    <2> QED
      BY <2>2, <2>3, <2>5
  <1>7. CASE MigrateRaises
    <2> USE <1>7 DEF MigrateRaises, Off, NoCastle
    <2>1. MigrationTypes'
      BY DEF MigrationTypes, MigrationRun
    <2>2. \A s \in Sidecar : beside'[s] = beside[s] \/ (beside[s] = "copied" /\ beside'[s] = "absent")
      BY DEF SidecarsKnown
    <2>3. SidecarsKnown'
      BY <2>2 DEF MigrationTypes, SidecarsKnown
    <2>4. (CopyCovers /\ RunOrder)'
      BY DEF CopyCovers, RunOrder
    <2>5. MigrationSafe'
      BY <2>2 DEF MigrationTypes, MigrationSafe
    <2> QED
      BY <2>1, <2>3, <2>4, <2>5
  <1>8. CASE MigrateDies
    <2> USE <1>8 DEF MigrateDies, Off
    <2>1. MigrationTypes'
      BY DEF MigrationTypes, MigrationRun
    <2>2. (SidecarsKnown /\ CopyCovers /\ RunOrder)'
      BY DEF MigrationTypes, SidecarsKnown, CopyCovers, RunOrder
    <2>3. MigrationSafe'
      BY DEF MigrationTypes, MigrationSafe
    <2> QED
      BY <2>1, <2>2, <2>3
  <1>9. ASSUME NEW s \in Sidecar, BeginCopy(s) PROVE MigrationInv'
    <2> DEFINE partly == [beside EXCEPT ![s] = "torn"]
               passed == [migrate EXCEPT !.left = @ \ {s}]
               copying == [migrate EXCEPT !.copying = s, !.left = @ \ {s}]
    <2> USE <1>9 DEF BeginCopy, ToCopy
    <2>0. passed \in MigrationRun /\ copying \in MigrationRun
          /\ partly \in [Sidecar -> {"absent", "torn", "copied", "own"}]
      BY DEF MigrationTypes, MigrationRun
    <2>1. MigrationTypes'
      BY <2>0 DEF MigrationTypes
    <2>2. SidecarsKnown'
      <3>1. CASE ToCopy(s)
        <4>1. beside' = partly /\ migrate' = copying
          BY <3>1
        <4> QED
          BY <3>1, <4>1 DEF MigrationTypes, MigrationRun, SidecarsKnown
      <3>2. CASE ~ToCopy(s)
        <4>1. beside' = beside /\ migrate' = passed
          BY <3>2
        <4> QED
          BY <4>1 DEF MigrationTypes, MigrationRun, SidecarsKnown
      <3> QED
        BY <3>1, <3>2
    <2>3. (CopyCovers /\ RunOrder)'
      <3>1. CASE ToCopy(s)
        <4>1. beside' = partly /\ migrate' = copying
          BY <3>1
        <4> QED
          BY <4>1 DEF MigrationTypes, MigrationRun, CopyCovers, RunOrder
      <3>2. CASE ~ToCopy(s)
        <4>1. beside' = beside /\ migrate' = passed
          BY <3>2
        <4> QED
          BY <3>2, <4>1 DEF MigrationTypes, MigrationRun, CopyCovers, RunOrder
      <3> QED
        BY <3>1, <3>2
    <2>4. MigrationSafe'
      BY DEF MigrationTypes, SidecarsKnown, RunOrder, MigrationSafe
    <2> QED
      BY <2>1, <2>2, <2>3, <2>4
  <1>10. CASE UNCHANGED migrationVars
    BY <1>10 DEF migrationVars, MigrationTypes, SidecarsKnown, CopyCovers, RunOrder, MigrationSafe,
       MigrationRun
  <1> QED
    BY <1>1, <1>2, <1>3, <1>4, <1>5, <1>6, <1>7, <1>8, <1>9, <1>10 DEF MigrationNext

\* A migration that returns has brought over every drawer and every sidecar but one
\* that was cut before, one that raises leaves nothing that keeps it from being
\* repeated, and neither touches what the target had (migrate.py), for any palace,
\* any batch and any deaths.
THEOREM MigrationIsSafe == MigrationSpec => [](MigrationTypeOK /\ MigrationSafe)
  <1>1. MigrationInit => MigrationInv
    BY MigrationInvInit
  <1>2. MigrationInv /\ [MigrationNext]_migrationVars => MigrationInv'
    BY MigrationInvStep
  <1>3. MigrationInv => MigrationTypeOK /\ MigrationSafe
    BY DEF MigrationInv, MigrationTypes, MigrationTypeOK, MigrationRun
  <1> QED
    BY <1>1, <1>2, <1>3, PTL DEF MigrationSpec

-----------------------------------------------------------------------------
(* Hooks: the marker and the wake-up digest.                               *)

HookFile == [there : BOOLEAN, text : Seq(Memories)]
HookBuilder ==
  [pc : {"off", "open", "write", "replace"}, digest : Nat, holds : {"none", "tmp", "cache", "gone"}, apart : BOOLEAN]

\* What the proofs need of the values.
HookTypes ==
  /\ exchanges \in 0..MaxExchanges /\ lastSave \in 0..exchanges /\ asked \in 0..exchanges
  /\ saving \in BOOLEAN /\ unnoted \in BOOLEAN
  /\ hookVerdict \in [ask : BOOLEAN, at : Nat]
  /\ memory \in Memories /\ old \in BOOLEAN /\ undisturbed \in BOOLEAN
  /\ cache \in HookFile /\ tmp \in HookFile
  /\ builders \in [Builder -> HookBuilder]

\* No digest is of a memory that is not there yet.
DigestsKnown ==
  /\ cache.text \in Seq(1..memory) /\ tmp.text \in Seq(1..memory)
  /\ \A b \in Builder : builders[b].pc # "off" => builders[b].digest \in 1..memory
  /\ \A b \in Builder : builders[b].digest <= memory

\* The marker, as long as it could be written, says where a save was last asked for.
MarkerTrue == ~unnoted => lastSave = asked

\* A builder that has the temporary file to itself finds it empty and leaves it
\* whole, whatever a dead one has left there.
ApartIsWhole ==
  \A b \in Builder :
    AtTheFile(b) /\ builders[b].apart =>
      /\ \A c \in Builder : c # b => ~AtTheFile(c)
      /\ builders[b].holds = "tmp" /\ tmp.there
      /\ builders[b].pc = "write" => tmp.text = <<>>
      /\ builders[b].pc = "replace" => WholeText(tmp)

\* A cache left by such a builder is whole, and nobody is about to write to it.
LeftWhole ==
  undisturbed => /\ cache.there => WholeText(cache)
                 /\ \A b \in Builder : AtTheFile(b) => builders[b].holds # "cache"

\* The inductive invariant.
HooksInv == HookTypes /\ DigestsKnown /\ MarkerTrue /\ ApartIsWhole /\ LeftWhole /\ SavesSpaced

(* A sequence over a set is a sequence over every larger set.              *)
LEMMA SequencesOfMore ==
  ASSUME NEW S, NEW T, S \in SUBSET T
  PROVE  Seq(S) \in SUBSET Seq(T)
<1>1. ASSUME NEW s \in Seq(S) PROVE s \in Seq(T)
  <2>1. Len(s) \in Nat /\ s = [k \in 1..Len(s) |-> s[k]] /\ \A k \in 1..Len(s) : s[k] \in S
    OBVIOUS
  <2>2. \A k \in 1..Len(s) : s[k] \in T
    BY <2>1
  <2>3. [k \in 1..Len(s) |-> s[k]] \in Seq(T)
    BY <2>1, <2>2
  <2> QED BY <2>1, <2>3
<1> QED BY <1>1

\* A handle that finds the file empty leaves a whole digest in it; over another
\* text it leaves pieces of known digests.
LEMMA WrittenText ==
  ASSUME NEW m \in Nat, m <= MaxMemories + 1, NEW had \in Seq(1..m), NEW d \in 1..m
  PROVE  /\ Over(had, d) \in Seq(1..m)
         /\ had = <<>> => Over(had, d) = Digest(d)
<1>1. DigestSize[d] \in Nat \ {0} /\ MaxMemories \in Nat
  BY HooksAssumption DEF Memories
<1>2. Digest(d) \in Seq(1..m) /\ Len(Digest(d)) = DigestSize[d]
  BY <1>1 DEF Digest
<1> DEFINE i == DigestSize[d] + 1
           n == Len(had)
<1>3. i \in 1..(i + n) /\ n \in Nat /\ i \in Nat
  BY <1>1
<1>4. SubSeq(had, i, n) \in Seq(1..m)
  BY <1>3
<1>5. ASSUME had = <<>>
      PROVE  SubSeq(had, i, n) = <<>>
  BY <1>3, <1>5
<1> HIDE DEF i, n
<1>6. Over(had, d) = Digest(d) \o SubSeq(had, i, n)
  BY DEF Over, i, n
<1>7. \A s : s \in Seq(1..m) => s \o <<>> = s
  OBVIOUS
<1>8. Over(had, d) \in Seq(1..m)
  BY <1>2, <1>4, <1>6
<1>9. ASSUME had = <<>>
      PROVE  Over(had, d) = Digest(d)
  <2>1. Over(had, d) = Digest(d) \o <<>>
    BY <1>5, <1>6, <1>9
  <2> QED BY <1>2, <1>7, <2>1
<1> QED BY <1>8, <1>9

\* It holds when a session begins.
LEMMA HooksInvInit == HooksInit => HooksInv
  <1> SUFFICES ASSUME HooksInit PROVE HooksInv
    OBVIOUS
  <1> USE HooksAssumption DEF HooksInit, HooksAssumption, NoFile, NoBuild
  <1>1. HookTypes
    <2>1. cache \in HookFile /\ tmp \in HookFile /\ memory \in Memories
      BY DEF HookFile, Memories
    <2>2. builders \in [Builder -> HookBuilder]
      BY DEF HookBuilder
    <2>3. hookVerdict \in [ask : BOOLEAN, at : Nat]
      OBVIOUS
    <2>4. exchanges \in 0..MaxExchanges /\ lastSave \in 0..exchanges /\ asked \in 0..exchanges
      OBVIOUS
    <2> QED
      BY <2>1, <2>2, <2>3, <2>4 DEF HookTypes
  <1>2. DigestsKnown /\ MarkerTrue
    BY DEF DigestsKnown, MarkerTrue
  <1>3. ApartIsWhole /\ LeftWhole /\ SavesSpaced
    BY DEF ApartIsWhole, LeftWhole, AtTheFile, SavesSpaced
  <1> QED
    BY <1>1, <1>2, <1>3 DEF HooksInv

\* The exchanges and the stops of a client.
LEMMA SaveStep ==
  ASSUME HooksInv, Exchange \/ HookStop
  PROVE  HooksInv'
  <1> USE HooksAssumption DEF HooksInv, HooksAssumption
  <1>1. UNCHANGED digestVars
    BY DEF Exchange, HookStop
  <1>2. (DigestsKnown /\ ApartIsWhole /\ LeftWhole)'
    BY <1>1 DEF digestVars, DigestsKnown, ApartIsWhole, LeftWhole, AtTheFile, WholeText
  <1>3. CASE Exchange
    <2>1. HookTypes'
      <3>1. exchanges' \in 0..MaxExchanges /\ lastSave' \in 0..exchanges' /\ asked' \in 0..exchanges'
        BY <1>3 DEF Exchange, HookTypes
      <3>2. saving' \in BOOLEAN /\ UNCHANGED <<unnoted, hookVerdict>>
        BY <1>3 DEF Exchange
      <3> QED
        BY <1>1, <3>1, <3>2 DEF digestVars, HookTypes
    <2>2. MarkerTrue' /\ SavesSpaced'
      BY <1>3 DEF Exchange, MarkerTrue, SavesSpaced
    <2> QED
      BY <1>2, <2>1, <2>2
  <1>4. CASE HookStop
    <2>1. PICK count \in {exchanges, 0} :
            IF ~saving /\ SaveDue(count)
            THEN /\ \/ lastSave' = count /\ UNCHANGED unnoted
                    \/ lastSave' \in {lastSave, 0} /\ unnoted' = TRUE
                 /\ asked' = count /\ saving' = TRUE
                 /\ hookVerdict' = [ask |-> TRUE, at |-> asked]
            ELSE /\ hookVerdict' = [ask |-> FALSE, at |-> IF count = exchanges /\ ~saving THEN count ELSE 0]
                 /\ UNCHANGED <<lastSave, asked, saving, unnoted>>
      BY <1>4 DEF HookStop
    <2>2. count \in 0..exchanges /\ exchanges \in 0..MaxExchanges /\ exchanges' = exchanges
          /\ lastSave \in 0..exchanges /\ asked \in 0..exchanges
      BY <1>4 DEF HookStop, HookTypes
    <2>3. CASE ~saving /\ SaveDue(count)
      <3>1. /\ \/ lastSave' = count /\ UNCHANGED unnoted
               \/ lastSave' \in {lastSave, 0} /\ unnoted' = TRUE
            /\ asked' = count /\ saving' = TRUE
            /\ hookVerdict' = [ask |-> TRUE, at |-> asked]
        BY <2>1, <2>3
      <3>2. HookTypes'
        <4>1. hookVerdict' \in [ask : BOOLEAN, at : Nat]
          BY <2>2, <3>1
        <4>2. lastSave' \in 0..exchanges' /\ asked' \in 0..exchanges' /\ exchanges' \in 0..MaxExchanges
          BY <2>2, <3>1
        <4>3. saving' \in BOOLEAN /\ unnoted' \in BOOLEAN
          BY <3>1 DEF HookTypes
        <4> QED
          BY <1>1, <4>1, <4>2, <4>3 DEF digestVars, HookTypes
      <3>3. MarkerTrue' /\ SavesSpaced'
        BY <2>2, <2>3, <3>1 DEF MarkerTrue, SavesSpaced, SaveDue
      <3> QED
        BY <1>2, <3>2, <3>3
    <2>4. CASE ~(~saving /\ SaveDue(count))
      <3>1. /\ hookVerdict' = [ask |-> FALSE, at |-> IF count = exchanges /\ ~saving THEN count ELSE 0]
            /\ UNCHANGED <<lastSave, asked, saving, unnoted>>
        BY <2>1, <2>4
      <3>2. HookTypes'
        <4>1. hookVerdict' \in [ask : BOOLEAN, at : Nat]
          BY <2>2, <3>1
        <4> QED
          BY <1>1, <2>2, <3>1, <4>1 DEF digestVars, HookTypes
      <3>3. MarkerTrue' /\ SavesSpaced'
        BY <2>2, <2>4, <3>1 DEF MarkerTrue, SavesSpaced, SaveDue
      <3> QED
        BY <1>2, <3>2, <3>3
    <2> QED
      BY <2>3, <2>4
  <1> QED
    BY <1>3, <1>4

\* A builder that ends, with nothing done, leaves the others to themselves.
LEMMA BuilderEnds ==
  ASSUME HooksInv, NEW b \in Builder, builders' = [builders EXCEPT ![b] = NoBuild],
         UNCHANGED saveVars, UNCHANGED <<memory, cache, tmp, old, undisturbed>>, MarkerTrue', SavesSpaced'
  PROVE  HooksInv'
  <1> USE DEF HooksInv
  <1>1. \A c \in Builder : builders'[c] = IF c = b THEN NoBuild ELSE builders[c]
    BY DEF HookTypes
  <1>2. NoBuild \in HookBuilder /\ NoBuild.pc = "off" /\ NoBuild.digest = 0
    BY DEF NoBuild, HookBuilder
  <1>3. HookTypes'
    BY <1>2 DEF saveVars, HookTypes
  <1>4. DigestsKnown'
    BY <1>1, <1>2, HooksAssumption DEF DigestsKnown, HookTypes, Memories
  <1>5. (ApartIsWhole /\ LeftWhole)'
    BY <1>1, <1>2 DEF ApartIsWhole, LeftWhole, AtTheFile, WholeText
  <1> QED
    BY <1>3, <1>4, <1>5

\* The steps of a builder.
LEMMA BuilderStep ==
  ASSUME HooksInv, NEW b \in Builder,
         BeginBuild(b) \/ OpenFile(b) \/ WriteFile(b) \/ ReplaceCache(b) \/ BuilderDies(b)
  PROVE  HooksInv'
  <1> USE DEF HooksInv
  <1>a. UNCHANGED saveVars /\ memory' = memory
    BY DEF BeginBuild, OpenFile, WriteFile, ReplaceCache, BuilderDies
  <1>b. MaxMemories \in Nat /\ memory \in 1..(MaxMemories + 1)
    BY HooksAssumption DEF HookTypes, Memories
  <1>1. /\ UNCHANGED saveVars /\ memory' = memory /\ memory \in Nat /\ memory >= 1 /\ memory <= MaxMemories + 1
        /\ MaxMemories \in Nat /\ memory \in Memories /\ Memories \in SUBSET Nat
    BY <1>a, <1>b DEF Memories
  <1>2. MarkerTrue' /\ SavesSpaced'
    BY <1>1 DEF saveVars, MarkerTrue, SavesSpaced
  <1>3. CASE BeginBuild(b)
    <2> DEFINE opening == [NoBuild EXCEPT !.pc = "open", !.digest = memory]
    <2>1. builders' = [builders EXCEPT ![b] = opening] /\ builders[b].pc = "off"
          /\ UNCHANGED <<memory, cache, tmp, old, undisturbed>>
      BY <1>3 DEF BeginBuild
    <2>2. opening \in HookBuilder /\ opening.pc = "open" /\ opening.digest = memory
      BY <1>1 DEF HookBuilder, NoBuild
    <2>3. \A c \in Builder : builders'[c] = IF c = b THEN opening ELSE builders[c]
      BY <2>1 DEF HookTypes
    <2> HIDE DEF opening
    <2>4. HookTypes'
      BY <1>1, <2>1, <2>2 DEF saveVars, HookTypes
    <2>5. DigestsKnown'
      BY <1>1, <2>1, <2>2, <2>3 DEF DigestsKnown
    <2>6. (ApartIsWhole /\ LeftWhole)'
      BY <2>1, <2>2, <2>3 DEF ApartIsWhole, LeftWhole, AtTheFile, WholeText
    <2> QED
      BY <1>2, <2>4, <2>5, <2>6
  <1>4. CASE OpenFile(b)
    <2> DEFINE opened == [builders[b] EXCEPT !.pc = "write", !.holds = "tmp", !.apart = ~\E d \in Builder : AtTheFile(d)]
    <2>1. builders' = [c \in Builder |-> IF c = b THEN opened ELSE [builders[c] EXCEPT !.apart = FALSE]]
          /\ builders[b].pc = "open" /\ tmp' = Empty
          /\ UNCHANGED <<memory, cache, old, undisturbed>>
      BY <1>4 DEF OpenFile, Opens
    <2>2. opened \in HookBuilder /\ opened.pc = "write" /\ opened.holds = "tmp" /\ opened.digest = builders[b].digest
          /\ (opened.apart <=> ~\E d \in Builder : AtTheFile(d))
      BY DEF HookBuilder, HookTypes
    <2> HIDE DEF opened
    <2>3. builders'[b] = opened
      BY <2>1
    <2>4. ASSUME NEW c \in Builder, c # b
          PROVE  /\ builders'[c] \in HookBuilder /\ builders'[c].pc = builders[c].pc
                 /\ builders'[c].holds = builders[c].holds /\ builders'[c].digest = builders[c].digest
                 /\ builders'[c].apart = FALSE
      <3>1. builders'[c] = [builders[c] EXCEPT !.apart = FALSE]
        BY <2>1, <2>4
      <3> QED BY <3>1 DEF HookTypes, HookBuilder
    <2>5. HookTypes'
      <3>1. \A c \in Builder : builders'[c] \in HookBuilder
        BY <2>2, <2>3, <2>4
      <3>2. builders' \in [Builder -> HookBuilder]
        BY <2>1, <3>1
      <3> QED BY <1>1, <2>1, <3>2 DEF saveVars, HookTypes, HookFile, Empty
    <2>6. DigestsKnown'
      BY <1>1, <2>1, <2>2, <2>3, <2>4 DEF DigestsKnown, Empty
    <2>7. ApartIsWhole'
      BY <2>1, <2>2, <2>3, <2>4 DEF ApartIsWhole, AtTheFile, Empty
    <2>8. LeftWhole'
      BY <2>1, <2>2, <2>3, <2>4 DEF LeftWhole, AtTheFile, WholeText
    <2> QED
      BY <1>2, <2>5, <2>6, <2>7, <2>8
  <1>5. CASE WriteFile(b)
    <2> DEFINE written == [builders[b] EXCEPT !.pc = "replace"]
               d == builders[b].digest
               Filled(it) == [there |-> TRUE, text |-> Over(it.text, d)]
    <2>1. builders' = [builders EXCEPT ![b] = written] /\ builders[b].pc = "write"
          /\ tmp' = (IF builders[b].holds = "tmp" THEN Filled(tmp) ELSE tmp)
          /\ cache' = (IF builders[b].holds = "cache" THEN Filled(cache) ELSE cache)
          /\ UNCHANGED <<memory, old, undisturbed>>
      BY <1>5 DEF WriteFile, HookTypes, HookBuilder
    <2>2. written \in HookBuilder /\ written.pc = "replace" /\ written.holds = builders[b].holds
          /\ written.digest = builders[b].digest /\ written.apart = builders[b].apart
      BY DEF HookBuilder, HookTypes
    <2>3. \A c \in Builder : builders'[c] = IF c = b THEN written ELSE builders[c]
      BY <2>1 DEF HookTypes
    <2>4. d \in 1..memory /\ d \in Memories /\ tmp.text \in Seq(1..memory) /\ cache.text \in Seq(1..memory)
      <3>1. builders[b].digest \in 1..memory /\ tmp.text \in Seq(1..memory) /\ cache.text \in Seq(1..memory)
        BY <2>1 DEF DigestsKnown
      <3> QED BY <1>1, <3>1 DEF Memories
    <2> HIDE DEF written, d
    <2>5. /\ Over(tmp.text, d) \in Seq(1..memory) /\ Over(cache.text, d) \in Seq(1..memory)
          /\ tmp.text = <<>> => Over(tmp.text, d) = Digest(d)
      BY <1>1, <2>4, WrittenText
    <2>6. Seq(1..memory) \in SUBSET Seq(Memories)
      <3>1. 1..memory \in SUBSET Memories
        BY <1>1 DEF Memories
      <3> QED BY <3>1, SequencesOfMore
    <2>7. cache' \in HookFile /\ tmp' \in HookFile
      BY <2>1, <2>5, <2>6 DEF HookTypes, HookFile
    <2>8. HookTypes'
      BY <1>1, <2>1, <2>2, <2>7 DEF saveVars, HookTypes
    <2>9. DigestsKnown'
      BY <1>1, <2>1, <2>2, <2>3, <2>4, <2>5 DEF DigestsKnown
    <2>10. ApartIsWhole'
      <3> SUFFICES ASSUME NEW a \in Builder, AtTheFile(a)', builders'[a].apart
                   PROVE  /\ \A c \in Builder : c # a => ~AtTheFile(c)'
                          /\ builders'[a].holds = "tmp" /\ tmp'.there
                          /\ builders'[a].pc = "write" => tmp'.text = <<>>
                          /\ builders'[a].pc = "replace" => WholeText(tmp)'
        BY DEF ApartIsWhole
      <3>1. AtTheFile(a) /\ builders[a].apart /\ AtTheFile(b)
        BY <2>1, <2>2, <2>3 DEF AtTheFile
      <3>2. a = b
        BY <3>1 DEF ApartIsWhole
      <3>3. builders[b].holds = "tmp" /\ tmp.text = <<>> /\ \A c \in Builder : c # b => ~AtTheFile(c)
        BY <2>1, <3>1, <3>2 DEF ApartIsWhole
      <3>4. tmp' = [there |-> TRUE, text |-> Digest(d)]
        BY <2>1, <2>5, <3>3
      <3> QED BY <2>2, <2>3, <2>4, <3>2, <3>3, <3>4 DEF AtTheFile, WholeText
    <2>11. LeftWhole'
      <3>1. undisturbed => builders[b].holds # "cache"
        BY <2>1 DEF LeftWhole, AtTheFile
      <3> QED BY <2>1, <2>2, <2>3, <3>1 DEF LeftWhole, AtTheFile, WholeText
    <2> QED
      BY <1>2, <2>8, <2>9, <2>10, <2>11
  <1>6. CASE ReplaceCache(b)
    <2>1. CASE tmp.there
      <3>1. /\ builders[b].pc = "replace" /\ cache' = tmp /\ tmp' = NoFile /\ old' = FALSE
            /\ undisturbed' = builders[b].apart /\ UNCHANGED memory
            /\ builders' = [c \in Builder |->
                 IF c = b THEN NoBuild
                 ELSE [builders[c] EXCEPT !.holds =
                         CASE @ = "tmp" -> "cache" [] @ = "cache" -> "gone" [] OTHER -> @]]
        BY <1>6, <2>1 DEF ReplaceCache
      <3>2. \A c \in Builder : builders'[c] \in HookBuilder
        BY <3>1 DEF HookTypes, HookBuilder, NoBuild
      <3>3. builders'[b] = NoBuild
        BY <3>1
      <3>4. \A c \in Builder : c # b =>
              /\ builders'[c].pc = builders[c].pc /\ builders'[c].digest = builders[c].digest
              /\ builders'[c].apart = builders[c].apart
        BY <3>1 DEF HookTypes, HookBuilder
      <3>5. HookTypes'
        <4>1. builders' \in [Builder -> HookBuilder]
          BY <3>1, <3>2
        <4>2. undisturbed' \in BOOLEAN
          BY <3>1, Zenon DEF HookTypes, HookBuilder
        <4>3. NoFile \in HookFile
          BY DEF NoFile, HookFile
        <4> QED
          BY <1>1, <3>1, <4>1, <4>2, <4>3 DEF saveVars, HookTypes
      <3>6. DigestsKnown'
        BY <1>1, <3>1, <3>3, <3>4 DEF DigestsKnown, NoFile, NoBuild
      <3>7. ASSUME NEW a \in Builder, AtTheFile(a)', builders'[a].apart
            PROVE  FALSE
        <4>1. a # b /\ AtTheFile(a) /\ builders[a].apart /\ AtTheFile(b)
          BY <3>1, <3>3, <3>4, <3>7 DEF AtTheFile, NoBuild
        <4> QED BY <4>1 DEF ApartIsWhole
      <3>8. ApartIsWhole'
        BY <3>7 DEF ApartIsWhole
      <3>9. LeftWhole'
        <4> SUFFICES ASSUME builders[b].apart
                     PROVE  (cache.there => WholeText(cache))' /\ \A c \in Builder : ~AtTheFile(c)'
          BY <3>1 DEF LeftWhole
        <4>1. WholeText(tmp) /\ \A c \in Builder : c # b => ~AtTheFile(c)
          BY <3>1 DEF ApartIsWhole, AtTheFile
        <4> QED
          BY <3>1, <3>3, <3>4, <4>1 DEF AtTheFile, NoBuild, WholeText
      <3> QED
        BY <1>2, <3>5, <3>6, <3>8, <3>9
    <2>2. CASE ~tmp.there
      <3>1. builders' = [builders EXCEPT ![b] = NoBuild]
            /\ UNCHANGED <<memory, cache, tmp, old, undisturbed>>
        BY <1>6, <2>2 DEF ReplaceCache
      <3> QED
        BY <1>1, <1>2, <3>1, BuilderEnds
    <2> QED
      BY <2>1, <2>2
  <1>7. CASE BuilderDies(b)
    <2>1. builders' = [builders EXCEPT ![b] = NoBuild]
          /\ UNCHANGED <<memory, cache, tmp, old, undisturbed>>
      BY <1>7 DEF BuilderDies
    <2> QED
      BY <1>1, <1>2, <2>1, BuilderEnds
  <1> QED
    BY <1>3, <1>4, <1>5, <1>6, <1>7

\* Every step preserves the invariant.
LEMMA HooksInvStep == HooksInv /\ [HooksNext]_hookVars => HooksInv'
  <1> SUFFICES ASSUME HooksInv, [HooksNext]_hookVars PROVE HooksInv'
    OBVIOUS
  <1>1. CASE Exchange \/ HookStop
    BY <1>1, SaveStep
  <1>2. CASE MemoryGrows \/ Ages
    <2> USE <1>2 DEF MemoryGrows, Ages, HooksInv, saveVars
    <2>1. HookTypes'
      <3>1. memory' \in Memories
        BY HooksAssumption DEF HookTypes, Memories
      <3>2. old' \in BOOLEAN
        BY Zenon DEF HookTypes
      <3> QED
        BY <3>1, <3>2 DEF HookTypes
    <2>2. DigestsKnown'
      <3>1. memory \in Nat /\ memory' \in Nat /\ memory <= memory'
        BY HooksAssumption DEF HookTypes, Memories
      <3>2. 1..memory \in SUBSET (1..memory') /\ Seq(1..memory) \in SUBSET Seq(1..memory')
        BY <3>1
      <3>3. \A b \in Builder : builders[b].digest \in Nat
        BY DEF HookTypes, HookBuilder
      <3> QED
        BY <3>1, <3>2, <3>3 DEF DigestsKnown
    <2>3. (MarkerTrue /\ ApartIsWhole /\ LeftWhole /\ SavesSpaced)'
      BY DEF MarkerTrue, ApartIsWhole, LeftWhole, AtTheFile, WholeText, SavesSpaced
    <2> QED
      BY <2>1, <2>2, <2>3
  <1>3. ASSUME NEW b \in Builder,
               BeginBuild(b) \/ OpenFile(b) \/ WriteFile(b) \/ ReplaceCache(b) \/ BuilderDies(b)
        PROVE  HooksInv'
    BY <1>3, BuilderStep
  <1>4. CASE UNCHANGED hookVars
    BY <1>4 DEF hookVars, HooksInv, HookTypes, DigestsKnown, MarkerTrue, ApartIsWhole, LeftWhole, AtTheFile, WholeText,
                SavesSpaced
  <1> QED
    BY <1>1, <1>2, <1>3, <1>4 DEF HooksNext

\* Sessions are asked to save in time, and served a whole digest where its builder
\* had the temporary file to itself (hooks_cli.py), for any number of builders, any
\* sizes of digests, and any deaths of builders before.
THEOREM HooksAreSound == HooksSpec => [](HooksTypeOK /\ HooksSound)
  <1>1. HooksInit => HooksInv
    BY HooksInvInit
  <1>2. HooksInv /\ [HooksNext]_hookVars => HooksInv'
    BY HooksInvStep
  <1>3. HooksInv => HooksTypeOK /\ HooksSound
    <2> SUFFICES ASSUME HooksInv PROVE HooksTypeOK /\ HooksSound
      OBVIOUS
    <2>1. HooksTypeOK
      BY HooksAssumption DEF HooksInv, HookTypes, HookFile, HookBuilder, DigestsKnown, HooksTypeOK, Memories
    <2>2. DigestWhole
      BY DEF HooksInv, LeftWhole, DigestWhole
    <2> QED
      BY <2>1, <2>2 DEF HooksInv, HooksSound
  <1> QED
    BY <1>1, <1>2, <1>3, PTL DEF HooksSpec

-----------------------------------------------------------------------------
(* Mining: files, drawers and the buffer.                                  *)

\* The drawers the collection will hold once the buffer is written.
AllDrawers == drawers \cup buffer
Indices(ds, f) == {d.index : d \in {e \in ds : e.file = f}}

\* What the proofs need of the values.
Drawer == [file : File, index : Nat, text : Nat, mtime : Nat]
Content == [at : Nat, size : Nat]
Task == [file : File, read : BOOLEAN, is : Content]
IngestTypes ==
  /\ disk \in [File -> Content]
  /\ drawers \subseteq Drawer /\ buffer \subseteq Drawer
  /\ todo \subseteq File /\ inflight \subseteq Task
  /\ current # NoCurrent =>
       current \in [file : File, at : Nat, size : Nat, next : Nat, mtime : Nat] /\ current.next < current.size
  /\ mode \in {"off", "sequential", "parallel"}
  /\ clock \in 1..MaxEdits + 1

\* A file is at one place of the run at a time; its drawers are in the buffer when
\* the run is through with it, or while it is the current one.
OnePlace ==
  /\ \A w \in inflight : w.file \notin todo /\ w.file # current.file
  /\ \A w, x \in inflight : w.file = x.file => w = x
  /\ current.file \notin todo
  /\ \A d \in buffer : d.file \notin todo /\ \A w \in inflight : w.file # d.file
  /\ mode = "off" => todo = {} /\ inflight = {} /\ current = NoCurrent /\ buffer = {}

\* A drawer per file and index, one content per file, and no chunk is left out.
OneChain ==
  /\ \A d, e \in AllDrawers : d.file = e.file /\ d.index = e.index => d = e
  /\ \A d, e \in AllDrawers : d.file = e.file => d.text = e.text
  /\ \A f \in File : \E k \in Nat : Indices(drawers, f) = 0..k - 1
  /\ \A f \in File : \E k \in Nat : Indices(AllDrawers, f) = 0..k - 1
  /\ current # NoCurrent =>
       /\ Indices(AllDrawers, current.file) = 0..current.next - 1
       /\ \A d \in AllDrawers : d.file = current.file => d.text = current.at

\* Times of the past; a file that is missing has no content.
Times ==
  /\ \A f \in File : disk[f].at <= clock /\ disk[f].size <= MaxChunks
  /\ \A f \in File : disk[f].at = 0 => disk[f].size = 0
  /\ \A d \in AllDrawers : d.mtime <= clock /\ d.text \in 1..clock /\ d.index < MaxChunks
  /\ current # NoCurrent =>
       current.mtime <= clock /\ current.at \in 1..clock /\ current.size <= MaxChunks
  /\ \A w \in inflight : w.is.at <= clock /\ w.is.size <= MaxChunks
  /\ \A w \in inflight : w.read => w.is.size > 0 /\ w.is.at > 0

\* All drawers of the file are those of its content.
Whole(f) ==
  /\ Indices(AllDrawers, f) = 0..disk[f].size - 1
  /\ \A d \in AllDrawers : d.file = f => d.text = disk[f].at

\* A file that nobody touches during a run: what was read of it is what it is, the
\* time of a drawer vouches for all of its drawers, and so does the run's having
\* gone past it.
Settled(f) ==
  /\ \A w \in inflight : w.file = f /\ w.read => disk[f] = w.is \/ disk[f] = Missing
  /\ current.file = f => disk[f] = [at |-> current.at, size |-> current.size] \/ disk[f] = Missing
  /\ current.file # f =>
       \A d \in AllDrawers : d.file = f /\ d.mtime # 0 /\ d.mtime = disk[f].at => Whole(f)
  /\ mode # "off" /\ current.file # f /\ f \notin todo /\ (\A w \in inflight : w.file # f) /\ disk[f].size > 0
       => Whole(f)

\* The inductive invariant.
IngestInv ==
  /\ IngestTypes /\ OnePlace /\ OneChain /\ Times
  /\ unsettled \subseteq File \cup {"none"}
  /\ \A f \in File \ unsettled : Settled(f)

\* A missing file, and having no current file.
LEMMA MissingIsNothing ==
  /\ Missing \in Content /\ Missing.at = 0 /\ Missing.size = 0
  /\ NoCurrent.file = "none" /\ NoCurrent.file \notin File
BY IngestAssumption DEF Missing, Content, NoCurrent

\* The fields of a drawer.
LEMMA DrawerFields ==
  \A d \in Drawer : d.file \in File /\ d.index \in Nat /\ d.text \in Nat /\ d.mtime \in Nat
BY DEF Drawer

\* The fields of what is on disk and at the workers.
LEMMA ContentFields ==
  ASSUME IngestTypes
  PROVE  /\ \A f \in File : disk[f] \in Content /\ disk[f].at \in Nat /\ disk[f].size \in Nat
         /\ \A w \in inflight : w \in Task /\ w.file \in File /\ w.read \in BOOLEAN
                                /\ w.is \in Content /\ w.is.at \in Nat /\ w.is.size \in Nat
         /\ AllDrawers \subseteq Drawer
         /\ clock \in Nat
BY IngestAssumption DEF IngestTypes, Task, Content, AllDrawers

\* An interval without its last number.
LEMMA OneMore ==
  \A k \in Nat : (0..k - 1) \cup {k} = 0..(k + 1) - 1
OBVIOUS

\* Steps that leave drawers, buffer and current file alone.
LEMMA ChainKept ==
  ASSUME OneChain, UNCHANGED <<drawers, buffer, current>>
  PROVE  OneChain'
BY DEF OneChain, AllDrawers, Indices

LEMMA TimesKept ==
  ASSUME Times, UNCHANGED <<disk, clock>>, AllDrawers' \subseteq AllDrawers,
         current' = current \/ current' = NoCurrent,
         \A w \in inflight' : w \in inflight \/ (~w.read /\ w.is = Missing),
         clock \in Nat
  PROVE  Times'
<1>1. \A w \in inflight' :
        /\ w.is.at <= clock /\ w.is.size <= MaxChunks
        /\ w.read => w.is.size > 0 /\ w.is.at > 0
  BY MissingIsNothing, IngestAssumption DEF Times
<1>2. current' # NoCurrent => current' = current
  OBVIOUS
<1> QED BY <1>1, <1>2 DEF Times

\* Drawers that keep to themselves: in a run that goes on, nothing of a file changes.
LEMMA SettledKept ==
  ASSUME NEW f \in File, Settled(f), AllDrawers' = AllDrawers,
         disk'[f] = disk[f] \/ disk'[f] = Missing,
         current' = current,
         \A w \in inflight' : w \in inflight \/ w.file # f \/ ~w.read,
         mode' # "off" => /\ mode # "off"
                          /\ f \in todo => f \in todo' \/ (\E w \in inflight' : w.file = f)
                                           \/ disk'[f].size = 0
                          /\ (\E w \in inflight : w.file = f) =>
                               (\E w \in inflight' : w.file = f) \/ disk'[f].size = 0,
         \A d \in AllDrawers : d.mtime \in Nat
  PROVE  Settled(f)'
<1>1. \A w \in inflight' : w.file = f /\ w.read => disk'[f] = w.is \/ disk'[f] = Missing
  BY DEF Settled
<1>2. current'.file = f => disk'[f] = [at |-> current'.at, size |-> current'.size] \/ disk'[f] = Missing
  BY DEF Settled
<1>3. disk'[f] = disk[f] => (Whole(f) => Whole(f)')
  BY DEF Whole, Indices
<1>4. ASSUME current'.file # f, NEW d \in AllDrawers', d.file = f, d.mtime # 0, d.mtime = disk'[f].at
      PROVE  Whole(f)'
  <2>1. disk'[f] # Missing
    BY <1>4, MissingIsNothing
  <2> QED BY <1>3, <1>4, <2>1 DEF Settled
<1>5. ASSUME mode' # "off", current'.file # f, f \notin todo', \A w \in inflight' : w.file # f,
             disk'[f].size > 0
      PROVE  Whole(f)'
  <2>1. disk'[f] = disk[f] /\ mode # "off" /\ f \notin todo /\ \A w \in inflight : w.file # f
    BY <1>5, MissingIsNothing
  <2> QED BY <1>3, <1>5, <2>1 DEF Settled
<1> QED BY <1>1, <1>2, <1>4, <1>5 DEF Settled

\* A run begins: it holds nothing yet, and has every file that is there before it.
LEMMA StartMineStep ==
  ASSUME IngestInv, StartMine
  PROVE  IngestInv'
<1>1. /\ mode = "off" /\ mode' \in {"sequential", "parallel"} /\ todo' = {f \in File : disk[f].at # 0}
      /\ UNCHANGED <<disk, drawers, inflight, current, buffer, clock, deaths, unsettled>>
      /\ inflight = {} /\ buffer = {} /\ current = NoCurrent
  BY DEF StartMine, IngestInv, OnePlace
<1>2. IngestTypes'
  BY <1>1 DEF IngestInv, IngestTypes
<1>3. OnePlace'
  BY <1>1, MissingIsNothing DEF OnePlace
<1>4. OneChain'
  BY <1>1, ChainKept DEF IngestInv
<1>5. Times'
  BY <1>1 DEF IngestInv, Times, AllDrawers
<1>6. ASSUME NEW f \in File \ unsettled
      PROVE  Settled(f)'
  <2>1. Settled(f)
    BY <1>6 DEF IngestInv
  <2>2. f \notin todo' => disk[f].size = 0
    BY <1>1 DEF IngestInv, Times
  <2>3. AllDrawers' = AllDrawers
    BY <1>1 DEF AllDrawers
  <2>4. Whole(f)' <=> Whole(f)
    BY <1>1 DEF Whole, AllDrawers, Indices
  <2>5. f \notin todo' => ~(disk'[f].size > 0)
    BY <1>1, <2>2
  <2> QED BY <1>1, <2>1, <2>3, <2>4, <2>5 DEF Settled
<1> QED BY <1>1, <1>2, <1>3, <1>4, <1>5, <1>6 DEF IngestInv

\* A file is skipped on the word of one drawer's time, which speaks for all of them.
LEMMA LookStep ==
  ASSUME IngestInv, NEW f \in File, Look(f)
  PROVE  IngestInv'
<1> DEFINE new == [file |-> f, read |-> FALSE, is |-> Missing]
<1>1. /\ f \in todo /\ current = NoCurrent /\ todo' = todo \ {f}
      /\ \/ (\E d \in DrawersOf(f) : UpToDate(f, d)) /\ inflight' = inflight
         \/ inflight' = inflight \cup {new}
      /\ UNCHANGED <<disk, drawers, mode, current, buffer, clock, deaths, mines, unsettled>>
  BY DEF Look
<1>2. new \in Task /\ new.file = f /\ ~new.read /\ new.is = Missing
  BY MissingIsNothing DEF Task
<1> HIDE DEF new
<1>3. IngestTypes'
  <2>1. inflight' \subseteq Task
    BY <1>1, <1>2 DEF IngestInv, IngestTypes
  <2> QED BY <1>1, <2>1 DEF IngestInv, IngestTypes
<1>4. OnePlace'
  BY <1>1, <1>2 DEF IngestInv, OnePlace
<1>5. OneChain'
  BY <1>1, ChainKept DEF IngestInv
<1>6. Times'
  BY <1>1, <1>2, TimesKept, ContentFields DEF IngestInv, AllDrawers
<1>7. ASSUME NEW g \in File \ unsettled
      PROVE  Settled(g)'
  <2>1. AllDrawers' = AllDrawers /\ \A d \in AllDrawers : d.mtime \in Nat
    BY <1>1, ContentFields, DrawerFields DEF AllDrawers, IngestInv
  <2>2. CASE g # f \/ inflight' = inflight \cup {new}
    BY <1>1, <1>2, <1>7, <2>1, <2>2, SettledKept DEF IngestInv
  <2>3. CASE g = f /\ \E d \in DrawersOf(f) : UpToDate(f, d)
    <3>1. Whole(f)
      BY <1>1, <1>7, <2>3, MissingIsNothing DEF IngestInv, Settled, DrawersOf, UpToDate, AllDrawers
    <3>2. Whole(f)'
      BY <1>1, <3>1 DEF Whole, AllDrawers, Indices
    <3>3. \A w \in inflight' : w.file = f => ~w.read
      BY <1>1, <1>2 DEF IngestInv, OnePlace
    <3> QED BY <1>1, <2>3, <3>2, <3>3, MissingIsNothing DEF Settled
  <2> QED BY <1>1, <2>2, <2>3
<1> QED BY <1>1, <1>3, <1>4, <1>5, <1>6, <1>7 DEF IngestInv

\* What was read of a settled file is what it is.
LEMMA ReadStep ==
  ASSUME IngestInv, NEW w \in inflight, Read(w)
  PROVE  IngestInv'
<1> DEFINE new == [file |-> w.file, read |-> TRUE, is |-> disk[w.file]]
<1>1. /\ ~w.read
      /\ \/ disk[w.file].size = 0 /\ inflight' = inflight \ {w}
         \/ disk[w.file].size # 0 /\ inflight' = (inflight \ {w}) \cup {new}
      /\ UNCHANGED <<disk, drawers, mode, todo, current, buffer, clock, deaths, mines, unsettled>>
  BY DEF Read
<1>2. w \in Task /\ w.file \in File /\ disk[w.file] \in Content
  BY ContentFields DEF IngestInv
<1>3. new \in Task /\ new.file = w.file /\ new.read /\ new.is = disk[w.file]
  BY <1>2 DEF Task
<1> HIDE DEF new
<1>4. IngestTypes'
  <2>1. inflight' \subseteq Task
    BY <1>1, <1>3 DEF IngestInv, IngestTypes
  <2> QED BY <1>1, <2>1 DEF IngestInv, IngestTypes
<1>5. OnePlace'
  <2>1. \A x \in inflight' : \E y \in inflight : x.file = y.file
    BY <1>1, <1>3
  <2>2. \A x, y \in inflight' : x.file = y.file => x = y
    BY <1>1, <1>3 DEF IngestInv, OnePlace
  <2> QED BY <1>1, <2>1, <2>2 DEF IngestInv, OnePlace
<1>6. OneChain'
  BY <1>1, ChainKept DEF IngestInv
<1>7. Times'
  <2>1. /\ disk[w.file].at <= clock /\ disk[w.file].size <= MaxChunks
        /\ disk[w.file].size # 0 => disk[w.file].size > 0 /\ disk[w.file].at > 0
    BY <1>2, ContentFields DEF IngestInv, Times
  <2>2. \A x \in inflight' :
          /\ x.is.at <= clock /\ x.is.size <= MaxChunks
          /\ x.read => x.is.size > 0 /\ x.is.at > 0
    BY <1>1, <1>3, <2>1 DEF IngestInv, Times
  <2>3. /\ \A f \in File : disk'[f].at <= clock' /\ disk'[f].size <= MaxChunks
        /\ \A f \in File : disk'[f].at = 0 => disk'[f].size = 0
        /\ \A d \in AllDrawers' : d.mtime <= clock' /\ d.text \in 1..clock' /\ d.index < MaxChunks
        /\ current' # NoCurrent =>
             current'.mtime <= clock' /\ current'.at \in 1..clock' /\ current'.size <= MaxChunks
    BY <1>1 DEF IngestInv, Times, AllDrawers
  <2> QED BY <1>1, <2>2, <2>3 DEF Times
<1>8. ASSUME NEW f \in File \ unsettled
      PROVE  Settled(f)'
  <2>1. AllDrawers' = AllDrawers /\ \A d \in AllDrawers : d.mtime \in Nat
    BY <1>1, ContentFields, DrawerFields DEF AllDrawers, IngestInv
  <2>2. CASE f # w.file
    <3>1. \A x \in inflight' : x.file = f => x \in inflight
      BY <1>1, <1>3, <2>2
    <3>2. (\E x \in inflight : x.file = f) => (\E x \in inflight' : x.file = f)
      BY <1>1, <2>2
    <3>3. Settled(f) /\ current' = current /\ disk'[f] = disk[f] /\ mode' = mode /\ todo' = todo
      BY <1>1, <1>8 DEF IngestInv
    <3> QED BY <2>1, <3>1, <3>2, <3>3, SettledKept
  <2>3. CASE f = w.file
    <3>1. Settled(f) /\ (Whole(f)' <=> Whole(f))
      BY <1>1, <1>8, <2>1 DEF IngestInv, Whole, Indices
    <3>2. \A x \in inflight' : x.file = f => x.is = disk[f]
      BY <1>1, <1>3, <2>3 DEF IngestInv, OnePlace
    <3>3. disk[f].size = 0 \/ \E x \in inflight' : x.file = f
      BY <1>1, <1>3, <2>3
    <3>4. current.file # f
      BY <2>3 DEF IngestInv, OnePlace
    <3> QED BY <1>1, <2>1, <3>1, <3>2, <3>3, <3>4 DEF Settled
  <2> QED BY <2>2, <2>3
<1> QED BY <1>1, <1>4, <1>5, <1>6, <1>7, <1>8 DEF IngestInv

\* The file of a worker that raises is not settled.
LEMMA WorkerFailsStep ==
  ASSUME IngestInv, NEW w \in inflight, WorkerFails(w)
  PROVE  IngestInv'
<1>1. /\ inflight' = inflight \ {w} /\ unsettled' = unsettled \cup {w.file}
      /\ UNCHANGED <<disk, drawers, mode, todo, current, buffer, clock, deaths, mines>>
      /\ w.file \in File
  BY ContentFields DEF WorkerFails, IngestInv
<1>2. IngestTypes' /\ OnePlace'
  BY <1>1 DEF IngestInv, IngestTypes, OnePlace
<1>3. OneChain'
  BY <1>1, ChainKept DEF IngestInv
<1>4. Times'
  BY <1>1, TimesKept, ContentFields DEF IngestInv, AllDrawers
<1>5. ASSUME NEW f \in File \ unsettled'
      PROVE  Settled(f)'
  <2>1. AllDrawers' = AllDrawers /\ \A d \in AllDrawers : d.mtime \in Nat
    BY <1>1, ContentFields, DrawerFields DEF AllDrawers, IngestInv
  <2>2. (\E x \in inflight : x.file = f) => (\E x \in inflight' : x.file = f)
    BY <1>1, <1>5
  <2>3. Settled(f) /\ current' = current /\ disk'[f] = disk[f] /\ mode' = mode /\ todo' = todo
    BY <1>1, <1>5 DEF IngestInv
  <2> QED BY <1>1, <2>1, <2>2, <2>3, SettledKept
<1> QED BY <1>1, <1>2, <1>3, <1>4, <1>5 DEF IngestInv

\* A file whose drawers stay, and that the step neither makes current nor was current.
LEMMA SettledElsewhere ==
  ASSUME NEW f \in File, Settled(f), disk' = disk,
         \A d : d.file = f => (d \in AllDrawers' <=> d \in AllDrawers),
         current.file # f, current'.file # f,
         \A w : w.file = f => (w \in inflight' <=> w \in inflight) \/ mode' = "off",
         inflight' \subseteq inflight, todo' = todo \/ mode' = "off",
         mode' = mode \/ mode' = "off"
  PROVE  Settled(f)'
<1>1. Whole(f) => Whole(f)'
  <2>1. {e \in AllDrawers' : e.file = f} = {e \in AllDrawers : e.file = f}
    OBVIOUS
  <2>2. Indices(AllDrawers', f) = Indices(AllDrawers, f)
    BY <2>1, Zenon DEF Indices
  <2> QED BY <2>2 DEF Whole
<1> QED BY <1>1 DEF Settled

\* The current file's drawers of former contents go.
LEMMA ReplaceStep ==
  ASSUME IngestInv, NEW w \in inflight, Replace(w)
  PROVE  IngestInv'
<1>1. /\ w.read /\ current = NoCurrent /\ inflight' = inflight \ {w}
      /\ drawers' = {d \in drawers : d.file # w.file}
      /\ current' = [file |-> w.file, at |-> w.is.at, size |-> w.is.size, next |-> 0,
                     mtime |-> disk[w.file].at]
      /\ UNCHANGED <<disk, mode, todo, buffer, clock, deaths, mines, unsettled>>
  BY DEF Replace, Purged, DrawersOf
<1>2. /\ w \in Task /\ w.file \in File /\ disk[w.file].at \in Nat
      /\ w.is \in Content /\ w.is.at \in Nat /\ w.is.size \in Nat /\ w.is.size > 0
  BY <1>1, ContentFields DEF IngestInv, Times
<1>3. /\ current'.file = w.file /\ current'.at = w.is.at /\ current'.size = w.is.size
      /\ current'.next = 0 /\ current'.mtime = disk[w.file].at /\ current' # NoCurrent
  BY <1>1, <1>2, MissingIsNothing
<1>4. /\ \A d \in buffer : d.file # w.file
      /\ \A x \in inflight' : x \in inflight /\ x.file # w.file
      /\ w.file \notin todo
  BY <1>1 DEF IngestInv, OnePlace
<1>5. AllDrawers' = {d \in AllDrawers : d.file # w.file}
  BY <1>1, <1>4 DEF AllDrawers
<1>6. IngestTypes'
  <2>1. current' \in [file : File, at : Nat, size : Nat, next : Nat, mtime : Nat] /\ current'.next < current'.size
    BY <1>1, <1>2, <1>3
  <2> QED BY <1>1, <2>1 DEF IngestInv, IngestTypes
<1>7. OnePlace'
  BY <1>1, <1>3, <1>4 DEF IngestInv, OnePlace
<1>8. OneChain'
  <2>1. ASSUME NEW f \in File, NEW ds, NEW es, es = {d \in ds : d.file # w.file},
               \E k \in Nat : Indices(ds, f) = 0..k - 1
        PROVE  (\E k \in Nat : Indices(es, f) = 0..k - 1) /\ (f = w.file => Indices(es, f) = 0..0 - 1)
    <3>1. CASE f = w.file
      <4>1. {e \in es : e.file = f} = {}
        BY <2>1, <3>1
      <4>2. Indices(es, f) = {}
        BY <4>1 DEF Indices
      <4> QED BY <4>2
    <3>2. CASE f # w.file
      <4>1. {e \in es : e.file = f} = {e \in ds : e.file = f}
        BY <2>1, <3>2
      <4> QED BY <2>1, <3>2, <4>1, Zenon DEF Indices
    <3> QED BY <3>1, <3>2
  <2>2. \A f \in File : /\ \E k \in Nat : Indices(drawers', f) = 0..k - 1
                        /\ \E k \in Nat : Indices(AllDrawers', f) = 0..k - 1
    <3> TAKE f \in File
    <3>1. /\ \E k \in Nat : Indices(drawers, f) = 0..k - 1
          /\ \E k \in Nat : Indices(AllDrawers, f) = 0..k - 1
      BY DEF IngestInv, OneChain
    <3> HIDE DEF Indices
    <3> QED BY <1>1, <1>5, <2>1, <3>1
  <2>3. Indices(AllDrawers', w.file) = 0..0 - 1
    BY <1>2, <1>5, <2>1 DEF IngestInv, OneChain
  <2>4. \A d \in AllDrawers' : d \in AllDrawers /\ d.file # w.file
    BY <1>5
  <2> QED BY <1>3, <2>2, <2>3, <2>4 DEF IngestInv, OneChain
<1>9. Times'
  BY <1>1, <1>2, <1>3, <1>4, <1>5, ContentFields DEF IngestInv, Times
<1>10. ASSUME NEW f \in File \ unsettled
       PROVE  Settled(f)'
  <2>1. CASE f = w.file
    <3>1. disk[f] = w.is \/ disk[f] = Missing
      BY <1>1, <1>10, <2>1 DEF IngestInv, Settled
    <3>2. w.is = [at |-> w.is.at, size |-> w.is.size]
      BY <1>2 DEF Content
    <3> QED BY <1>1, <1>3, <1>4, <2>1, <3>1, <3>2 DEF Settled
  <2>2. CASE f # w.file
    BY <1>1, <1>3, <1>5, <1>10, <2>2, MissingIsNothing, SettledElsewhere DEF IngestInv
  <2> QED BY <2>1, <2>2
<1> QED BY <1>1, <1>6, <1>7, <1>8, <1>9, <1>10 DEF IngestInv

\* The drawers of one file in a set that is made of two others.
LEMMA IndicesOfSame ==
  ASSUME NEW f, NEW ds, NEW es, \A d : d.file = f => (d \in ds <=> d \in es)
  PROVE  Indices(ds, f) = Indices(es, f)
<1>1. {e \in ds : e.file = f} = {e \in es : e.file = f}
  OBVIOUS
<1> QED BY <1>1, Zenon DEF Indices

\* What a flush stores is the union: the collection holds no drawer of the same file
\* and index that is not the buffered one.
LEMMA StoredIsUnion ==
  ASSUME NEW ds, \A d \in drawers, e \in ds : <<d.file, d.index>> = <<e.file, e.index>> => d = e
  PROVE  Stored(ds) = drawers \cup ds
BY DEF Stored

\* The next chunk's drawer continues the chain of its file.
LEMMA AddChunkStep ==
  ASSUME IngestInv, AddChunk
  PROVE  IngestInv'
<1> DEFINE new == NextDrawer
           ds == buffer \cup {new}
           f == current.file
<1>1. /\ current.next < current.size
      /\ \/ buffer' = {} /\ drawers' = Stored(ds)
         \/ buffer' = ds /\ drawers' = drawers
      /\ current' = Advanced
      /\ UNCHANGED <<disk, mode, todo, inflight, clock, deaths, mines, unsettled>>
  BY DEF AddChunk, Flush
<1>2. current # NoCurrent
  BY <1>1 DEF NoCurrent
<1>3. /\ current \in [file : File, at : Nat, size : Nat, next : Nat, mtime : Nat]
      /\ f \in File /\ current.at \in Nat /\ current.size \in Nat /\ current.next \in Nat
      /\ current.mtime \in Nat /\ disk[f].at \in Nat
  BY <1>2, ContentFields DEF IngestInv, IngestTypes
<1>4. /\ new \in Drawer /\ new.file = f /\ new.index = current.next /\ new.text = current.at
      /\ new.mtime <= clock
  BY <1>2, <1>3 DEF NextDrawer, Drawer, IngestInv, Times
<1>5. /\ Indices(AllDrawers, f) = 0..current.next - 1
      /\ \A d \in AllDrawers : d.file = f => d.text = current.at
      /\ mode # "off" /\ f \notin todo /\ \A x \in inflight : x.file # f
  BY <1>2 DEF IngestInv, OneChain, OnePlace
<1>6. \A d \in AllDrawers : d.file = f => d.index \in 0..current.next - 1
  BY <1>5 DEF Indices
<1>7. \/ current' = NoCurrent /\ current.next + 1 = current.size
      \/ /\ current' = [file |-> f, at |-> current.at, size |-> current.size,
                        next |-> current.next + 1, mtime |-> current.mtime]
         /\ current.next + 1 < current.size
  BY <1>1, <1>3 DEF Advanced
<1> HIDE DEF new
<1>8. Stored(ds) = drawers \cup ds
  <2>1. ASSUME NEW d \in drawers, NEW e \in ds, <<d.file, d.index>> = <<e.file, e.index>>
        PROVE  d = e
    <3>1. CASE e = new
      BY <1>3, <1>4, <1>6, <2>1, <3>1 DEF AllDrawers
    <3>2. CASE e \in buffer
      BY <2>1, <3>2 DEF IngestInv, OneChain, AllDrawers
    <3> QED BY <3>1, <3>2
  <2> QED BY <2>1, StoredIsUnion
<1>9. /\ AllDrawers' = AllDrawers \cup {new}
      /\ drawers' = drawers \/ drawers' = AllDrawers'
      /\ buffer' \subseteq buffer \cup {new}
      /\ drawers' \cup buffer' = drawers \cup buffer \cup {new}
  BY <1>1, <1>8 DEF AllDrawers
<1> HIDE DEF f, ds
<1>10. Indices(AllDrawers', f) = 0..(current.next + 1) - 1
  <2>1. {d \in AllDrawers' : d.file = f} = {d \in AllDrawers : d.file = f} \cup {new}
    BY <1>4, <1>9
  <2>2. Indices(AllDrawers', f) = Indices(AllDrawers, f) \cup {current.next}
    BY <1>4, <2>1 DEF Indices
  <2> QED BY <1>3, <1>5, <2>2, OneMore
<1>11. \A g \in File : g # f => Indices(AllDrawers', g) = Indices(AllDrawers, g)
  BY <1>4, <1>9, IndicesOfSame
<1>12. \A d \in AllDrawers' : d.file = f => d.text = current.at
  BY <1>4, <1>5, <1>9
<1>13. IngestTypes'
  <2>1. current' # NoCurrent =>
          /\ current' \in [file : File, at : Nat, size : Nat, next : Nat, mtime : Nat]
          /\ current'.next < current'.size
    BY <1>3, <1>7
  <2>2. drawers' \subseteq Drawer /\ buffer' \subseteq Drawer
    BY <1>4, <1>9 DEF IngestInv, IngestTypes
  <2> QED BY <1>1, <2>1, <2>2 DEF IngestInv, IngestTypes
<1>14. current'.file = f \/ current'.file = NoCurrent.file
  BY <1>7
<1>15. OnePlace'
  <2>1. \A x \in inflight : x.file \in File
    BY ContentFields DEF IngestInv
  <2>2. NoCurrent.file \notin todo
    BY MissingIsNothing DEF IngestInv, IngestTypes
  <2>3. \A d \in buffer' : d.file \notin todo /\ \A x \in inflight : x.file # d.file
    BY <1>4, <1>5, <1>9 DEF IngestInv, OnePlace
  <2> QED BY <1>1, <1>5, <1>14, <2>1, <2>2, <2>3, MissingIsNothing DEF IngestInv, OnePlace
<1>16. OneChain'
  <2>1. ASSUME NEW g \in File
        PROVE  \E k \in Nat : Indices(AllDrawers', g) = 0..k - 1
    <3>1. CASE g = f
      BY <1>3, <1>10, <3>1
    <3>2. CASE g # f
      BY <1>11, <3>2 DEF IngestInv, OneChain
    <3> QED BY <3>1, <3>2
  <2>2. ASSUME NEW g \in File
        PROVE  \E k \in Nat : Indices(drawers', g) = 0..k - 1
    BY <1>9, <2>1 DEF IngestInv, OneChain
  <2>3. \A d, e \in AllDrawers' : d.file = e.file /\ d.index = e.index => d = e
    BY <1>3, <1>4, <1>6, <1>9 DEF IngestInv, OneChain
  <2>4. \A d, e \in AllDrawers' : d.file = e.file => d.text = e.text
    BY <1>4, <1>5, <1>9 DEF IngestInv, OneChain
  <2>5. current' # NoCurrent =>
          /\ Indices(AllDrawers', current'.file) = 0..current'.next - 1
          /\ \A d \in AllDrawers' : d.file = current'.file => d.text = current'.at
    BY <1>7, <1>10, <1>12
  <2> QED BY <2>1, <2>2, <2>3, <2>4, <2>5 DEF OneChain
<1>17. Times'
  <2>1. new.text \in 1..clock /\ new.index < MaxChunks
    BY <1>1, <1>2, <1>3, <1>4, IngestAssumption DEF IngestInv, Times
  <2>2. \A d \in AllDrawers' : d.mtime <= clock /\ d.text \in 1..clock /\ d.index < MaxChunks
    BY <1>4, <1>9, <2>1 DEF IngestInv, Times
  <2>3. current' # NoCurrent =>
          current'.mtime <= clock /\ current'.at \in 1..clock /\ current'.size <= MaxChunks
    BY <1>2, <1>7 DEF IngestInv, Times
  <2> QED BY <1>1, <2>2, <2>3 DEF IngestInv, Times
<1>18. ASSUME NEW g \in File \ unsettled
       PROVE  Settled(g)'
  <2>1. Settled(g)
    BY <1>18 DEF IngestInv
  <2>2. CASE g # f
    <3>1. \A d : d.file = g => (d \in AllDrawers' <=> d \in AllDrawers)
      BY <1>4, <1>9, <2>2
    <3>2. current.file # g /\ current'.file # g
      BY <1>14, <2>2, MissingIsNothing DEF f
    <3> QED BY <1>1, <2>1, <3>1, <3>2, SettledElsewhere
  <2>3. CASE g = f
    <3>1. disk[f] = [at |-> current.at, size |-> current.size] \/ disk[f] = Missing
      BY <2>1, <2>3 DEF Settled, f
    <3>2. CASE current'.file = f
      BY <1>1, <1>5, <1>7, <2>3, <3>1, <3>2, MissingIsNothing DEF Settled
    <3>3. CASE current'.file # f
      <4>1. current.next + 1 = current.size /\ current'.file = "none"
        BY <1>7, <3>3, MissingIsNothing
      <4>2. ASSUME disk'[g] # Missing
            PROVE  Whole(g)'
        <5>1. disk'[g].size = current.next + 1 /\ disk'[g].at = current.at
          BY <1>1, <2>3, <3>1, <4>1, <4>2
        <5> QED BY <1>10, <1>12, <2>3, <5>1 DEF Whole
      <4>3. \A w \in inflight' : w.file # g
        BY <1>1, <1>5, <2>3
      <4>4. disk'[g] = Missing => disk'[g].at = 0 /\ ~(disk'[g].size > 0)
        BY MissingIsNothing
      <4> QED BY <2>3, <3>3, <4>2, <4>3, <4>4 DEF Settled
    <3> QED BY <3>2, <3>3
  <2> QED BY <2>2, <2>3
<1> QED BY <1>1, <1>13, <1>15, <1>16, <1>17, <1>18 DEF IngestInv

\* The last flush: the collection is all there is.
LEMMA FinishMineStep ==
  ASSUME IngestInv, FinishMine
  PROVE  IngestInv' /\ drawers' = AllDrawers
<1>1. /\ mode # "off" /\ todo = {} /\ inflight = {} /\ current = NoCurrent
      /\ buffer' = {} /\ drawers' = Stored(buffer) /\ mode' = "off"
      /\ UNCHANGED <<disk, todo, inflight, current, clock, deaths, mines, unsettled>>
  BY DEF FinishMine, Flush
<1>2. drawers' = AllDrawers /\ AllDrawers' = AllDrawers
  <2>1. \A d \in drawers, e \in buffer : <<d.file, d.index>> = <<e.file, e.index>> => d = e
    BY DEF IngestInv, OneChain, AllDrawers
  <2>2. Stored(buffer) = drawers \cup buffer
    BY <2>1, StoredIsUnion
  <2> QED BY <1>1, <2>2 DEF AllDrawers
<1>3. IngestTypes'
  BY <1>1, <1>2, ContentFields DEF IngestInv, IngestTypes
<1>4. OnePlace'
  BY <1>1 DEF IngestInv, OnePlace
<1>5. OneChain'
  BY <1>1, <1>2 DEF IngestInv, OneChain
<1>6. Times'
  BY <1>1, <1>2, TimesKept, ContentFields DEF IngestInv
<1>7. ASSUME NEW f \in File \ unsettled
      PROVE  Settled(f)'
  <2>1. \A d \in AllDrawers : d.mtime \in Nat
    BY ContentFields, DrawerFields DEF IngestInv
  <2> QED BY <1>1, <1>2, <1>7, <2>1, SettledKept DEF IngestInv
<1> QED BY <1>1, <1>2, <1>3, <1>4, <1>5, <1>6, <1>7 DEF IngestInv

\* The buffer is lost: the files it had drawers of are unsettled.
LEMMA MineDiesStep ==
  ASSUME IngestInv, MineDies
  PROVE  IngestInv'
<1>1. /\ mode' = "off" /\ todo' = {} /\ inflight' = {} /\ current' = NoCurrent /\ buffer' = {}
      /\ unsettled' = unsettled \cup {current.file} \cup {d.file : d \in buffer}
      /\ UNCHANGED <<disk, drawers, clock, mines>>
  BY DEF MineDies
<1>2. AllDrawers' = drawers /\ drawers \subseteq AllDrawers
  BY <1>1 DEF AllDrawers
<1>3. IngestTypes'
  BY <1>1 DEF IngestInv, IngestTypes
<1>4. OnePlace'
  BY <1>1 DEF OnePlace
<1>5. OneChain'
  BY <1>1, <1>2 DEF IngestInv, OneChain
<1>6. Times'
  BY <1>1, <1>2, TimesKept, ContentFields DEF IngestInv
<1>7. unsettled' \subseteq File \cup {"none"}
  <2>1. current.file \in File \cup {"none"}
    BY MissingIsNothing DEF IngestInv, IngestTypes
  <2>2. \A d \in buffer : d.file \in File
    BY DrawerFields DEF IngestInv, IngestTypes
  <2> QED BY <1>1, <2>1, <2>2 DEF IngestInv
<1>8. ASSUME NEW f \in File \ unsettled'
      PROVE  Settled(f)'
  <2>1. f \notin unsettled /\ current.file # f /\ \A d \in buffer : d.file # f
    BY <1>1, <1>8
  <2>2. \A d : d.file = f => (d \in AllDrawers' <=> d \in AllDrawers)
    BY <1>2, <2>1 DEF AllDrawers
  <2>3. Settled(f)
    BY <2>1 DEF IngestInv
  <2>4. current'.file # f
    BY <1>1, MissingIsNothing
  <2>5. inflight' \subseteq inflight
    BY <1>1
  <2> QED BY <1>1, <2>1, <2>2, <2>3, <2>4, <2>5, SettledElsewhere
<1> QED BY <1>1, <1>3, <1>4, <1>5, <1>6, <1>7, <1>8 DEF IngestInv

\* An edit between two runs gives the file a time no drawer has.
LEMMA EditStep ==
  ASSUME IngestInv, NEW f \in File, Edit(f)
  PROVE  IngestInv'
<1>1. PICK size \in 0..MaxChunks : disk' = [disk EXCEPT ![f] = [at |-> clock + 1, size |-> size]]
  BY DEF Edit
<1>2. /\ clock <= MaxEdits /\ clock' = clock + 1
      /\ unsettled' = IF mode = "off" THEN unsettled \ {f} ELSE unsettled \cup {f}
      /\ UNCHANGED <<drawers, mode, todo, inflight, current, buffer, deaths, mines>>
  BY DEF Edit
<1>3. /\ disk' \in [File -> Content] /\ disk'[f] = [at |-> clock + 1, size |-> size]
      /\ \A g \in File : g # f => disk'[g] = disk[g]
      /\ clock \in 1..MaxEdits + 1 /\ clock' \in 1..MaxEdits + 1 /\ AllDrawers' = AllDrawers
  BY <1>1, <1>2, IngestAssumption DEF IngestInv, IngestTypes, Content, AllDrawers
<1>4. IngestTypes'
  BY <1>2, <1>3 DEF IngestInv, IngestTypes
<1>5. OnePlace'
  BY <1>2 DEF IngestInv, OnePlace
<1>6. OneChain'
  BY <1>2, ChainKept DEF IngestInv
<1>7. Times'
  <2>1. \A g \in File : /\ disk'[g].at <= clock' /\ disk'[g].size <= MaxChunks
                        /\ disk'[g].at = 0 => disk'[g].size = 0
    BY <1>2, <1>3, ContentFields, IngestAssumption DEF IngestInv, Times
  <2>2. \A d \in AllDrawers' : d.mtime <= clock' /\ d.text \in 1..clock' /\ d.index < MaxChunks
    BY <1>2, <1>3, ContentFields, DrawerFields DEF IngestInv, Times
  <2>3. current # NoCurrent =>
          current.mtime <= clock' /\ current.at \in 1..clock' /\ current.size <= MaxChunks
    BY <1>2, <1>3 DEF IngestInv, Times, IngestTypes
  <2>4. \A w \in inflight : /\ w.is.at <= clock' /\ w.is.size <= MaxChunks
                            /\ w.read => w.is.size > 0 /\ w.is.at > 0
    <3> TAKE w \in inflight
    <3>1. /\ w.is.at <= clock /\ w.is.size <= MaxChunks
          /\ w.read => w.is.size > 0 /\ w.is.at > 0
      BY DEF IngestInv, Times
    <3>2. w.is.at \in Nat /\ clock \in Nat
      BY ContentFields DEF IngestInv
    <3> QED BY <1>2, <3>1, <3>2
  <2> QED BY <1>2, <2>1, <2>2, <2>3, <2>4 DEF Times
<1>8. ASSUME NEW g \in File \ unsettled'
      PROVE  Settled(g)'
  <2>1. CASE g = f
    <3>1. mode = "off" /\ inflight = {} /\ current = NoCurrent
      BY <1>2, <1>8, <2>1 DEF IngestInv, OnePlace
    <3>2. \A d \in AllDrawers : d.mtime # disk'[g].at
      BY <1>3, <2>1, ContentFields, DrawerFields DEF IngestInv, Times
    <3> QED BY <1>2, <1>3, <2>1, <3>1, <3>2, MissingIsNothing DEF Settled
  <2>2. CASE g # f
    <3>1. Settled(g)
      BY <1>2, <1>8, <2>2 DEF IngestInv
    <3>2. \A d \in AllDrawers : d.mtime \in Nat
      BY ContentFields, DrawerFields DEF IngestInv
    <3> QED BY <1>2, <1>3, <2>2, <3>1, <3>2, SettledKept
  <2> QED BY <2>1, <2>2
<1>9. unsettled' \subseteq File \cup {"none"}
  BY <1>2 DEF IngestInv
<1> QED BY <1>4, <1>5, <1>6, <1>7, <1>8, <1>9 DEF IngestInv

\* A removed file is settled: no drawer has time 0.
LEMMA RemoveFileStep ==
  ASSUME IngestInv, NEW f \in File, RemoveFile(f)
  PROVE  IngestInv'
<1>1. /\ disk' = [disk EXCEPT ![f] = Missing]
      /\ UNCHANGED <<drawers, mode, todo, inflight, current, buffer, clock, deaths, mines, unsettled>>
  BY DEF RemoveFile
<1>2. /\ disk' \in [File -> Content] /\ disk'[f] = Missing
      /\ \A g \in File : g # f => disk'[g] = disk[g]
      /\ AllDrawers' = AllDrawers
  BY <1>1, MissingIsNothing DEF IngestInv, IngestTypes, AllDrawers
<1>3. IngestTypes' /\ OnePlace'
  BY <1>1, <1>2 DEF IngestInv, IngestTypes, OnePlace
<1>4. OneChain'
  BY <1>1, ChainKept DEF IngestInv
<1>5. Times'
  <2>1. \A g \in File : /\ disk'[g].at <= clock /\ disk'[g].size <= MaxChunks
                        /\ disk'[g].at = 0 => disk'[g].size = 0
    <3> TAKE g \in File
    <3>1. CASE g = f
      BY <1>2, <3>1, MissingIsNothing, ContentFields, IngestAssumption DEF IngestInv
    <3>2. CASE g # f
      BY <1>2, <3>2 DEF IngestInv, Times
    <3> QED BY <3>1, <3>2
  <2>2. /\ \A d \in AllDrawers : d.mtime <= clock /\ d.text \in 1..clock /\ d.index < MaxChunks
        /\ current # NoCurrent =>
             current.mtime <= clock /\ current.at \in 1..clock /\ current.size <= MaxChunks
        /\ \A w \in inflight : w.is.at <= clock /\ w.is.size <= MaxChunks
        /\ \A w \in inflight : w.read => w.is.size > 0 /\ w.is.at > 0
    BY DEF IngestInv, Times
  <2>3. AllDrawers' = AllDrawers /\ UNCHANGED <<current, inflight, clock>>
    BY <1>1, <1>2
  <2> QED BY <2>1, <2>2, <2>3 DEF Times
<1>6. ASSUME NEW g \in File \ unsettled'
      PROVE  Settled(g)'
  <2>1. \A d \in AllDrawers : d.mtime \in Nat
    BY ContentFields, DrawerFields DEF IngestInv
  <2>2. disk'[g] = disk[g] \/ disk'[g] = Missing
    BY <1>2
  <2> QED BY <1>1, <1>2, <1>6, <2>1, <2>2, SettledKept DEF IngestInv
<1> QED BY <1>1, <1>3, <1>4, <1>5, <1>6 DEF IngestInv

\* The first states.
LEMMA IngestInitStep == IngestInit => IngestInv
<1> SUFFICES ASSUME IngestInit PROVE IngestInv
  OBVIOUS
<1>1. /\ drawers = {} /\ mode = "off" /\ todo = {} /\ inflight = {}
      /\ current = NoCurrent /\ buffer = {} /\ clock = 1 /\ unsettled = {}
      /\ disk \in [File -> {Missing} \cup [at : {1}, size : 1..MaxChunks]]
  BY DEF IngestInit
<1>2. AllDrawers = {} /\ \A f \in File : Indices({}, f) = 0..0 - 1
  BY <1>1 DEF AllDrawers, Indices
<1>3. \A f \in File : disk[f] \in Content /\ disk[f].at <= 1 /\ disk[f].size <= MaxChunks
                      /\ (disk[f].at = 0 => disk[f].size = 0)
  BY <1>1, MissingIsNothing, IngestAssumption DEF Content
<1>4. IngestTypes
  BY <1>1, <1>3, IngestAssumption DEF IngestTypes
<1>5. OnePlace
  BY <1>1 DEF OnePlace
<1>6. OneChain
  BY <1>1, <1>2 DEF OneChain
<1>7. Times
  BY <1>1, <1>2, <1>3 DEF Times
<1>8. \A f \in File : Settled(f)
  BY <1>1, <1>2, MissingIsNothing DEF Settled
<1> QED BY <1>1, <1>4, <1>5, <1>6, <1>7, <1>8 DEF IngestInv

\* Every step keeps the inductive invariant.
LEMMA IngestKeeps == IngestInv /\ [IngestNext]_ingestVars => IngestInv'
<1> SUFFICES ASSUME IngestInv, [IngestNext]_ingestVars PROVE IngestInv'
  OBVIOUS
<1>1. CASE UNCHANGED ingestVars
  <2>1. /\ UNCHANGED <<disk, drawers, mode, todo, inflight, current, buffer, clock, unsettled>>
    BY <1>1 DEF ingestVars
  <2> QED BY <2>1 DEF IngestInv, IngestTypes, OnePlace, OneChain, Times, Settled, Whole, AllDrawers, Indices
<1>2. CASE StartMine
  BY <1>2, StartMineStep
<1>3. CASE MineDies
  BY <1>3, MineDiesStep
<1>4. CASE AddChunk
  BY <1>4, AddChunkStep
<1>5. CASE FinishMine
  BY <1>5, FinishMineStep
<1>6. ASSUME NEW f \in File, Look(f) \/ Edit(f) \/ RemoveFile(f)
      PROVE  IngestInv'
  BY <1>6, LookStep, EditStep, RemoveFileStep
<1>7. ASSUME NEW w \in inflight, Read(w) \/ Replace(w) \/ WorkerFails(w)
      PROVE  IngestInv'
  BY <1>7, ReadStep, ReplaceStep, WorkerFailsStep
<1> QED BY <1>1, <1>2, <1>3, <1>4, <1>5, <1>6, <1>7 DEF IngestNext, IngestStep

\* A chain 0..k-1 with one drawer per index has k drawers.
LEMMA ChainCounts ==
  ASSUME IngestInv, NEW f \in File
  PROVE  LET ds == {d \in drawers \cup buffer : d.file = f}
         IN  {d.index : d \in ds} = 0..Cardinality(ds) - 1
<1> DEFINE ds == {d \in drawers \cup buffer : d.file = f}
           number == [d \in ds |-> d.index]
<1>1. PICK k \in Nat : Indices(AllDrawers, f) = 0..k - 1
  BY DEF IngestInv, OneChain
<1>2. {d.index : d \in ds} = 0..k - 1
  BY <1>1 DEF Indices, AllDrawers
<1>3. \A d, e \in ds : d.index = e.index => d = e
  BY DEF IngestInv, OneChain, AllDrawers
<1>4. number \in Bijection(ds, 0..k - 1)
  <2>1. number \in [ds -> 0..k - 1]
    BY <1>2
  <2>2. \A a, b \in ds : number[a] = number[b] => a = b
    BY <1>3
  <2>3. \A t \in 0..k - 1 : \E d \in ds : number[d] = t
    BY <1>2
  <2> QED BY <2>1, <2>2, <2>3, Fun_IsBij
<1>5. Cardinality(ds) = k
  <2>1. ExistsBijection(0..k - 1, ds)
    BY <1>4, Fun_ExistsBij, Fun_ExistsBijSymmetric
  <2>2. IsFiniteSet(0..k - 1) /\ Cardinality(0..k - 1) = k
    BY FS_Interval
  <2> QED BY <2>1, <2>2, FS_Bijection
<1> QED BY <1>2, <1>5

\* What is stored of a file is one content of it.
LEMMA InvIsOneContent == IngestInv => OneContent
<1> SUFFICES ASSUME IngestInv, NEW f \in File
             PROVE  LET ds == {d \in drawers \cup buffer : d.file = f}
                    IN  /\ \A d, e \in ds : d.text = e.text
                        /\ {d.index : d \in ds} = 0..Cardinality(ds) - 1
  BY DEF OneContent
<1>1. \A d, e \in {d \in drawers \cup buffer : d.file = f} : d.text = e.text
  BY DEF IngestInv, OneChain, AllDrawers
<1> QED BY <1>1, ChainCounts

\* A run that finishes has gone past every file: the settled ones are whole.
LEMMA FinishMirrors ==
  ASSUME IngestInv, FinishMine, NEW f \in File \ unsettled, disk'[f].size > 0
  PROVE  Mirrored(f)'
<1>1. mode # "off" /\ todo = {} /\ inflight = {} /\ current.file # f /\ disk' = disk
  BY MissingIsNothing DEF FinishMine
<1>2. drawers' = AllDrawers
  BY FinishMineStep
<1>3. Whole(f) /\ disk[f].size \in Nat
  BY <1>1, ContentFields DEF IngestInv, Settled
<1>4. {d.index : d \in {e \in drawers' : e.file = f}} = 0..disk'[f].size - 1
  BY <1>1, <1>2, <1>3 DEF Whole, Indices
<1>5. \A d \in drawers' : d.file = f => d.text = disk'[f].at
  BY <1>1, <1>2, <1>3 DEF Whole
<1>6. {<<d.index, d.text>> : d \in {e \in drawers' : e.file = f}} = (0..disk'[f].size - 1) \X {disk'[f].at}
  BY <1>4, <1>5
<1> QED BY <1>6 DEF Mirrored, DrawersOf

\* The type invariant follows.
LEMMA InvIsTyped == IngestInv => IngestTypeOK
<1> SUFFICES ASSUME IngestInv PROVE IngestTypeOK
  OBVIOUS
<1>1. clock \in 1..MaxEdits + 1 /\ MaxEdits \in Nat /\ MaxChunks \in Nat
  BY IngestAssumption DEF IngestInv, IngestTypes
<1>2. \A f \in File : disk[f] \in [at : Time, size : 0..MaxChunks]
  <2> TAKE f \in File
  <2>1. disk[f].at \in 0..MaxEdits + 1 /\ disk[f].size \in 0..MaxChunks
    BY <1>1, ContentFields DEF IngestInv, Times
  <2>2. disk[f] = [at |-> disk[f].at, size |-> disk[f].size]
    BY ContentFields DEF IngestInv, Content
  <2> QED BY <2>1, <2>2 DEF Time
<1>3. \A w \in inflight : w.file \in File /\ w.is \in [at : Time, size : 0..MaxChunks]
  <2> TAKE w \in inflight
  <2>1. w.is.at \in 0..MaxEdits + 1 /\ w.is.size \in 0..MaxChunks
    BY <1>1, ContentFields DEF IngestInv, Times
  <2>2. w.is = [at |-> w.is.at, size |-> w.is.size]
    BY ContentFields DEF IngestInv, Content
  <2>3. w.file \in File
    BY ContentFields DEF IngestInv
  <2> QED BY <2>1, <2>2, <2>3 DEF Time
<1>4. \A d \in drawers \cup buffer : d \in DrawerType(d.file) /\ d.file \in File
  <2> TAKE d \in drawers \cup buffer
  <2>1. d \in Drawer /\ d \in AllDrawers
    BY DEF IngestInv, IngestTypes, AllDrawers
  <2>2. d = [file |-> d.file, index |-> d.index, text |-> d.text, mtime |-> d.mtime]
    BY <2>1 DEF Drawer
  <2>3. d.index \in 0..MaxChunks - 1 /\ d.text \in 1..MaxEdits + 1 /\ d.mtime \in Time /\ d.file \in File
    BY <1>1, <2>1, DrawerFields DEF IngestInv, Times, Time
  <2> QED BY <2>2, <2>3 DEF DrawerType
<1>5. disk \in [File -> [at : Time, size : 0..MaxChunks]]
  BY <1>2 DEF IngestInv, IngestTypes
<1>6. current # NoCurrent => current.file \in File /\ current.next < current.size
  BY DEF IngestInv, IngestTypes
<1> QED BY <1>3, <1>4, <1>5, <1>6 DEF IngestInv, IngestTypes, IngestTypeOK

\* Mining: what is stored of a file is one content of it, from its first chunk on, and
\* a run that finishes leaves the files stored as they are that were neither edited
\* during a run nor half written when one died.
THEOREM IngestIsSound == IngestSpec => []IngestTypeOK /\ IngestSound
<1>1. IngestInv /\ [IngestNext]_ingestVars =>
        [FinishMine => \A f \in File \ unsettled : disk'[f].size > 0 => Mirrored(f)']_ingestVars
  BY FinishMirrors
<1> QED BY <1>1, IngestInitStep, IngestKeeps, InvIsOneContent, InvIsTyped, PTL
     DEF IngestSpec, IngestSound, MirrorsUndisturbed

-----------------------------------------------------------------------------
(* Mining transcripts: what is filed of each.                              *)

ConvoFiled ==
  [file : Transcript, index : Nat, mode : {"convos", "registry"}, wing : Wing, text : Nat, mtime : Nat]
ConvoContent == [at : Nat, size : Nat]

\* What the proofs need of the values: no drawer and no content is from the future.
ConvoTypes ==
  /\ source \in [Transcript -> ConvoContent]
  /\ filed \subseteq ConvoFiled
  /\ sameRoom \in BOOLEAN /\ wing \in Wing /\ left \subseteq Transcript /\ torn \subseteq Transcript
  /\ phase \in {"off", "check", "ingest", "stat", "write"}
  /\ item \in [file : Transcript \cup {"none"}, at : Nat, size : Nat, done : Nat, mtime : Nat]
  /\ phase \in {"off", "check"} => item = NoItem
  /\ phase \notin {"off", "check"} => item.file \in Transcript
  /\ now \in 1..MaxTalks + 1

ConvoTimes ==
  /\ \A f \in Transcript : source[f].at \in 1..now /\ source[f].size <= MaxTurns
  /\ \A d \in filed : d.mtime \in 1..now /\ d.text \in 1..now /\ d.index \in 1..MaxTurns
  /\ phase \in {"stat", "write"} => item.at \in 1..now /\ item.size \in 1..MaxTurns
  /\ phase = "write" => item.mtime \in 1..now

\* What is written of the transcript at work: nothing, or its first chunks.
AtWork ==
  /\ phase \in {"ingest", "stat"} => ConvosOf(item.file) = {} /\ item.done = 0
  /\ phase = "write" =>
       /\ item.done < item.size
       /\ {d.index : d \in ConvosOf(item.file)} = 1..item.done
       /\ \A d \in ConvosOf(item.file) : d.text = item.at /\ d.wing = wing /\ d.mtime = item.mtime

\* All conversation drawers of the transcript are those of its content.
ConvoWhole(f) ==
  /\ {d.index : d \in ConvosOf(f)} = 1..source[f].size
  /\ \A d \in ConvosOf(f) : d.text = source[f].at

\* The time of a drawer vouches for all drawers of the transcript, and that of the
\* transcript at work for what was read of it.
Vouched(f) ==
  /\ item.file # f => \A d \in ConvosOf(f) : d.mtime = source[f].at => ConvoWhole(f)
  /\ phase = "stat" /\ item.file = f => source[f].at = item.at /\ source[f].size = item.size
  /\ phase = "write" /\ item.file = f /\ item.mtime = source[f].at =>
       source[f].at = item.at /\ source[f].size = item.size

\* The inductive invariant.
ConvoInv ==
  /\ ConvoTypes /\ ConvoTimes /\ AtWork /\ OneFiling
  /\ \A f \in Transcript \ torn : Vouched(f)

\* The conversation drawers of a transcript, and all that is said of them, are kept
\* by a step that leaves them and the content alone.
LEMMA VouchedKept ==
  ASSUME NEW f \in Transcript, Vouched(f), ConvosOf(f)' = ConvosOf(f),
         source'[f] = source[f], item.file # f, item'.file # f
  PROVE  Vouched(f)'
<1>1. ConvoWhole(f) => ConvoWhole(f)'
  BY DEF ConvoWhole
<1> QED BY <1>1 DEF Vouched

\* The fields of what is filed and of the transcript at work.
LEMMA ConvoFields ==
  ASSUME ConvoTypes
  PROVE  /\ \A d \in filed : /\ d.file \in Transcript /\ d.index \in Nat /\ d.mode \in {"convos", "registry"}
                             /\ d.wing \in Wing /\ d.text \in Nat /\ d.mtime \in Nat
         /\ \A f \in Transcript : source[f].at \in Nat /\ source[f].size \in Nat /\ source[f] \in ConvoContent
         /\ item.file \in Transcript \cup {"none"}
         /\ item.at \in Nat /\ item.size \in Nat /\ item.done \in Nat /\ item.mtime \in Nat
         /\ now \in Nat
BY ConvoAssumption DEF ConvoTypes, ConvoFiled, ConvoContent

\* No transcript at work.
LEMMA NoItemFields ==
  /\ NoItem \in [file : Transcript \cup {"none"}, at : Nat, size : Nat, done : Nat, mtime : Nat]
  /\ NoItem.file = "none" /\ NoItem.file \notin Transcript /\ NoItem.done = 0
BY ConvoAssumption DEF NoItem

\* Steps that leave the drawers alone.
LEMMA OneFilingKept == ASSUME OneFiling, filed' = filed PROVE OneFiling'
BY DEF OneFiling, ConvosOf

\* A run begins.
LEMMA StartRunStep == ASSUME ConvoInv, StartRun PROVE ConvoInv'
<1>1. /\ phase = "off" /\ phase' = "check" /\ left' = Transcript /\ wing' \in Wing
      /\ UNCHANGED <<source, filed, sameRoom, item, now, falls, torn>> /\ item = NoItem
  BY DEF StartRun, ConvoInv, ConvoTypes
<1>2. ConvoTypes' /\ ConvoTimes' /\ AtWork'
  BY <1>1 DEF ConvoInv, ConvoTypes, ConvoTimes, AtWork
<1>3. OneFiling'
  BY <1>1, OneFilingKept DEF ConvoInv
<1>4. ASSUME NEW f \in Transcript \ torn' PROVE Vouched(f)'
  <2>1. Vouched(f) /\ ConvosOf(f)' = ConvosOf(f) /\ item.file # f
    BY <1>1, <1>4, NoItemFields DEF ConvoInv, ConvosOf
  <2> QED BY <1>1, <2>1, VouchedKept
<1> QED BY <1>2, <1>3, <1>4 DEF ConvoInv

\* A transcript is skipped, or all are done.
LEMMA PassStep ==
  ASSUME ConvoInv, (\E f \in Transcript : Skip(f)) \/ FinishRun
  PROVE  ConvoInv'
<1>1. /\ phase = "check" /\ phase' \in {"check", "off"} /\ left' \subseteq left
      /\ UNCHANGED <<source, filed, sameRoom, wing, item, now, torn>> /\ item = NoItem
  BY DEF Skip, FinishRun, ConvoInv, ConvoTypes
<1>2. ConvoTypes' /\ ConvoTimes' /\ AtWork'
  BY <1>1 DEF ConvoInv, ConvoTypes, ConvoTimes, AtWork
<1>3. OneFiling'
  BY <1>1, OneFilingKept DEF ConvoInv
<1>4. ASSUME NEW f \in Transcript \ torn' PROVE Vouched(f)'
  <2>1. Vouched(f) /\ ConvosOf(f)' = ConvosOf(f) /\ item.file # f
    BY <1>1, <1>4, NoItemFields DEF ConvoInv, ConvosOf
  <2> QED BY <1>1, <2>1, VouchedKept
<1> QED BY <1>2, <1>3, <1>4 DEF ConvoInv

\* The drawers of the transcript taken up go: whatever was torn of it is gone.
LEMMA TakeUpStep == ASSUME ConvoInv, NEW f \in Transcript, TakeUp(f) PROVE ConvoInv'
<1>1. /\ phase = "check" /\ item = NoItem /\ left' \subseteq left /\ filed' = Purge(f)
      /\ torn' = torn \ {f} /\ phase' = "ingest"
      /\ item' = [NoItem EXCEPT !.file = f]
      /\ UNCHANGED <<source, sameRoom, wing, now>>
  BY DEF TakeUp, ConvoInv, ConvoTypes
<1>2. /\ item' \in [file : Transcript \cup {"none"}, at : Nat, size : Nat, done : Nat, mtime : Nat]
      /\ item'.file = f /\ item'.done = 0 /\ f # "none"
  BY <1>1, ConvoAssumption DEF NoItem
<1>3. /\ filed' \subseteq filed /\ ConvosOf(f)' = {}
      /\ \A g : g # f => ConvosOf(g)' = ConvosOf(g)
  BY <1>1 DEF Purge, ConvosOf
<1>4. ConvoTypes'
  BY <1>1, <1>2, <1>3 DEF ConvoInv, ConvoTypes
<1>5. ConvoTimes'
  BY <1>1, <1>3 DEF ConvoInv, ConvoTimes
<1>6. AtWork'
  BY <1>1, <1>2, <1>3 DEF AtWork, ConvosOf
<1>7. OneFiling'
  BY <1>3 DEF ConvoInv, OneFiling
<1>8. ASSUME NEW g \in Transcript \ torn' PROVE Vouched(g)'
  <2>1. CASE g = f
    BY <1>1, <1>2, <2>1 DEF Vouched
  <2>2. CASE g # f
    <3>1. Vouched(g) /\ ConvosOf(g)' = ConvosOf(g) /\ item.file # g /\ item'.file # g
      BY <1>1, <1>2, <1>3, <1>8, <2>2, NoItemFields DEF ConvoInv
    <3> QED BY <1>1, <3>1, VouchedKept
  <2> QED BY <2>1, <2>2
<1> QED BY <1>4, <1>5, <1>6, <1>7, <1>8 DEF ConvoInv

\* The content is read.
LEMMA IngestFileStep == ASSUME ConvoInv, IngestFile PROVE ConvoInv'
<1> DEFINE f == item.file
<1>1. /\ phase = "ingest" /\ f \in Transcript /\ ConvosOf(f) = {} /\ item.done = 0
      /\ UNCHANGED <<source, filed, sameRoom, wing, left, now, torn>>
      /\ \/ source[f].size > 0 /\ phase' = "stat"
              /\ item' = [item EXCEPT !.at = source[f].at, !.size = source[f].size]
         \/ phase' = "check" /\ item' = NoItem
  BY DEF IngestFile, ConvoInv, ConvoTypes, AtWork
<1>2. source[f].at \in 1..now /\ source[f].size \in Nat /\ source[f].size <= MaxTurns
  BY <1>1, ConvoFields DEF ConvoInv, ConvoTimes
<1>3. phase' = "stat" =>
        /\ item' \in [file : Transcript \cup {"none"}, at : Nat, size : Nat, done : Nat, mtime : Nat]
        /\ item'.file = f /\ item'.at = source[f].at /\ item'.size = source[f].size /\ item'.done = 0
  BY <1>1, <1>2, ConvoFields DEF ConvoInv, ConvoTypes
<1>4. ConvoTypes'
  BY <1>1, <1>3, NoItemFields DEF ConvoInv, ConvoTypes
<1>5. ConvoTimes'
  BY <1>1, <1>2, <1>3 DEF ConvoInv, ConvoTimes
<1>6. AtWork'
  BY <1>1, <1>3 DEF AtWork, ConvosOf
<1>7. OneFiling'
  BY <1>1, OneFilingKept DEF ConvoInv
<1>8. ASSUME NEW g \in Transcript \ torn' PROVE Vouched(g)'
  <2>1. Vouched(g) /\ ConvosOf(g)' = ConvosOf(g)
    BY <1>1, <1>8 DEF ConvoInv, ConvosOf
  <2>2. CASE g = f
    BY <1>1, <1>3, <2>1, <2>2, NoItemFields DEF Vouched
  <2>3. CASE g # f
    BY <1>1, <1>3, <2>1, <2>3, NoItemFields, VouchedKept
  <2> QED BY <2>2, <2>3
<1> QED BY <1>4, <1>5, <1>6, <1>7, <1>8 DEF ConvoInv

\* The time is taken: if it is that of the content, the content was read whole.
LEMMA TakeTimeStep == ASSUME ConvoInv, TakeTime PROVE ConvoInv'
<1> DEFINE f == item.file
<1>1. /\ phase = "stat" /\ phase' = "write" /\ f \in Transcript /\ ConvosOf(f) = {} /\ item.done = 0
      /\ UNCHANGED <<source, filed, sameRoom, wing, left, now, torn>>
      /\ item' = [item EXCEPT !.mtime = source[f].at]
  BY DEF TakeTime, ConvoInv, ConvoTypes, AtWork
<1>2. source[f].at \in 1..now /\ source[f].at \in Nat
  BY <1>1, ConvoFields DEF ConvoInv, ConvoTimes
<1>3. /\ item' \in [file : Transcript \cup {"none"}, at : Nat, size : Nat, done : Nat, mtime : Nat]
      /\ item'.file = f /\ item'.at = item.at /\ item'.size = item.size /\ item'.done = 0
      /\ item'.mtime = source[f].at
  BY <1>1, <1>2 DEF ConvoInv, ConvoTypes
<1>4. ConvoTypes'
  BY <1>1, <1>3 DEF ConvoInv, ConvoTypes
<1>5. ConvoTimes'
  BY <1>1, <1>2, <1>3 DEF ConvoInv, ConvoTimes
<1>6. AtWork'
  <2>1. ConvosOf(f)' = {} /\ 1..0 = {} /\ item'.done < item'.size
    BY <1>1, <1>3 DEF ConvosOf, ConvoInv, ConvoTimes
  <2> QED BY <1>1, <1>3, <2>1 DEF AtWork, ConvosOf
<1>7. OneFiling'
  BY <1>1, OneFilingKept DEF ConvoInv
<1>8. ASSUME NEW g \in Transcript \ torn' PROVE Vouched(g)'
  <2>1. Vouched(g) /\ ConvosOf(g)' = ConvosOf(g)
    BY <1>1, <1>8 DEF ConvoInv, ConvosOf
  <2>2. CASE g = f
    BY <1>1, <1>3, <2>1, <2>2 DEF Vouched
  <2>3. CASE g # f
    BY <1>1, <1>3, <2>1, <2>3, VouchedKept
  <2> QED BY <2>2, <2>3
<1> QED BY <1>4, <1>5, <1>6, <1>7, <1>8 DEF ConvoInv

\* The next chunks follow those that are filed: none of them has the id of one.
LEMMA WriteBatchStep ==
  ASSUME ConvoInv, WriteBatch, NEW f, f = item.file
  PROVE  ConvoInv'
<1> DEFINE until == IF item.done + UpsertBatch < item.size THEN item.done + UpsertBatch ELSE item.size
           ds == {ConvoDrawer(item.file, k, "convos", wing, item.at, item.mtime) : k \in NextChunks}
<1>1. /\ phase = "write" /\ f \in Transcript /\ filed' = Upserted(ds)
      /\ UNCHANGED <<source, sameRoom, wing, left, now, torn>>
      /\ item.done < item.size /\ item.done \in Nat /\ item.size \in Nat /\ UpsertBatch \in Nat \ {0}
      /\ {d.index : d \in ConvosOf(f)} = 1..item.done
      /\ \A d \in ConvosOf(f) : d.text = item.at /\ d.wing = wing /\ d.mtime = item.mtime
      /\ item.at \in 1..now /\ item.mtime \in 1..now /\ item.size <= MaxTurns
  BY ConvoFields, ConvoAssumption DEF WriteBatch, ConvoInv, ConvoTypes, ConvoTimes, AtWork
<1>2. /\ NextChunks = item.done + 1..until /\ until \in item.done + 1..item.size
      /\ \/ until = item.size /\ phase' = "check" /\ item' = NoItem
         \/ /\ until < item.size /\ until = item.done + UpsertBatch /\ phase' = "write"
            /\ item' = [item EXCEPT !.done = @ + UpsertBatch]
  BY <1>1 DEF WriteBatch, NextChunks, Batch, ConvoInv, ConvoTypes
<1>3. phase' = "write" =>
        /\ item' \in [file : Transcript \cup {"none"}, at : Nat, size : Nat, done : Nat, mtime : Nat]
        /\ item'.file = f /\ item'.at = item.at /\ item'.size = item.size /\ item'.done = until
        /\ item'.mtime = item.mtime /\ until < item.size
  BY <1>1, <1>2 DEF ConvoInv, ConvoTypes
<1>4. phase' # "write" => phase' = "check" /\ item' = NoItem /\ until = item.size
  BY <1>2
<1> HIDE DEF until
<1>5. \A e \in ds : /\ e \in ConvoFiled /\ e.file = f /\ e.mode = "convos" /\ e.wing = wing
                    /\ e.text = item.at /\ e.mtime = item.mtime /\ e.index \in item.done + 1..until
  <2> TAKE e \in ds
  <2>1. PICK k \in NextChunks : e = ConvoDrawer(item.file, k, "convos", wing, item.at, item.mtime)
    OBVIOUS
  <2>2. k \in item.done + 1..until /\ k \in Nat /\ wing \in Wing /\ item.at \in Nat /\ item.mtime \in Nat
    BY <1>1, <1>2, <2>1, ConvoFields DEF ConvoInv, ConvoTypes
  <2> QED BY <1>1, <2>1, <2>2 DEF ConvoDrawer, ConvoFiled
<1>6. \A k \in item.done + 1..until : \E e \in ds : e.index = k
  <2> TAKE k \in item.done + 1..until
  <2>1. ConvoDrawer(item.file, k, "convos", wing, item.at, item.mtime) \in ds
    BY <1>2
  <2> QED BY <2>1 DEF ConvoDrawer
<1> HIDE DEF ds
<1>7. ConvosOf(f)' = ConvosOf(f) \cup ds
  <2>1. ASSUME NEW d \in ConvosOf(f), NEW e \in ds
        PROVE  <<d.file, d.index, d.wing>> # <<e.file, e.index, e.wing>>
    <3>1. d.index \in 1..item.done /\ e.index \in item.done + 1..until
      BY <1>1, <1>5
    <3> QED BY <1>1, <3>1
  <2>2. \A d \in filed' : d \in ds \/ d \in filed
    BY <1>1 DEF Upserted
  <2>3. \A d \in ConvosOf(f) : d \in filed'
    BY <1>1, <2>1 DEF Upserted, ConvosOf
  <2>4. ds \subseteq filed'
    BY <1>1 DEF Upserted
  <2>5. ASSUME NEW d PROVE d \in ConvosOf(f)' <=> d \in ConvosOf(f) \cup ds
    BY <1>5, <2>2, <2>3, <2>4 DEF ConvosOf
  <2> QED BY <2>5
<1>8. ASSUME NEW g, g # f PROVE ConvosOf(g)' = ConvosOf(g)
  <2>1. \A d \in filed, e \in ds : d.file = g => <<d.file, d.index, d.wing>> # <<e.file, e.index, e.wing>>
    BY <1>5, <1>8
  <2>2. \A d : d.file = g => (d \in filed' <=> d \in filed)
    BY <1>1, <1>5, <1>8, <2>1 DEF Upserted
  <2> QED BY <2>2 DEF ConvosOf
<1>9. {d.index : d \in ConvosOf(f)'} = 1..until
  <2>1. \A i : i \in 1..until <=> i \in 1..item.done \/ i \in item.done + 1..until
    BY <1>1, <1>2
  <2>2. ASSUME NEW i \in 1..until PROVE \E d \in ConvosOf(f)' : d.index = i
    <3>1. CASE i \in 1..item.done
      BY <1>1, <1>7, <3>1
    <3>2. CASE i \in item.done + 1..until
      BY <1>6, <1>7, <3>2
    <3> QED BY <2>1, <3>1, <3>2
  <2>3. ASSUME NEW d \in ConvosOf(f)' PROVE d.index \in 1..until
    <3>1. CASE d \in ConvosOf(f)
      BY <1>1, <2>1, <3>1
    <3>2. CASE d \in ds
      BY <1>5, <2>1, <3>2
    <3> QED BY <1>7, <3>1, <3>2
  <2> QED BY <2>2, <2>3
<1>10. \A d \in ConvosOf(f)' : d.text = item.at /\ d.wing = wing /\ d.mtime = item.mtime
  BY <1>1, <1>5, <1>7
<1>11. \A d \in filed' : d \in filed \/ d \in ds
  BY <1>1 DEF Upserted
<1>12. ConvoTypes'
  <2>1. filed' \subseteq ConvoFiled
    BY <1>5, <1>11 DEF ConvoInv, ConvoTypes
  <2> QED BY <1>1, <1>3, <1>4, <2>1, NoItemFields DEF ConvoInv, ConvoTypes
<1>13. ConvoTimes'
  <2>1. \A d \in filed' : d.mtime \in 1..now /\ d.text \in 1..now /\ d.index \in 1..MaxTurns
    <3> TAKE d \in filed'
    <3>1. CASE d \in filed
      BY <3>1 DEF ConvoInv, ConvoTimes
    <3>2. CASE d \in ds
      BY <1>1, <1>2, <1>5, <3>2, ConvoAssumption
    <3> QED BY <1>11, <3>1, <3>2
  <2> QED BY <1>1, <1>3, <1>4, <2>1 DEF ConvoInv, ConvoTimes
<1>14. AtWork'
  BY <1>3, <1>4, <1>9, <1>10, <1>1 DEF AtWork
<1>15. OneFiling'
  BY <1>8, <1>10 DEF ConvoInv, OneFiling
<1>16. ASSUME NEW g \in Transcript \ torn' PROVE Vouched(g)'
  <2>1. Vouched(g) /\ source'[g] = source[g]
    BY <1>1, <1>16 DEF ConvoInv
  <2>2. CASE g = f
    <3>1. item.mtime = source[g].at => source[g].at = item.at /\ source[g].size = item.size
      BY <1>1, <2>1, <2>2 DEF Vouched
    <3>2. CASE phase' = "write"
      BY <1>3, <2>1, <2>2, <3>1, <3>2 DEF Vouched
    <3>3. CASE phase' # "write"
      <4>1. ASSUME NEW d \in ConvosOf(g)', d.mtime = source[g].at PROVE ConvoWhole(g)'
        BY <1>4, <1>9, <1>10, <2>1, <2>2, <3>1, <3>3, <4>1 DEF ConvoWhole
      <4> QED BY <1>4, <2>1, <2>2, <3>3, <4>1 DEF Vouched
    <3> QED BY <3>2, <3>3
  <2>3. CASE g # f
    <3>1. ConvosOf(g)' = ConvosOf(g) /\ item.file # g /\ item'.file # g
      BY <1>1, <1>3, <1>4, <1>8, <2>3, NoItemFields
    <3> QED BY <2>1, <3>1, VouchedKept
  <2> QED BY <2>2, <2>3
<1> QED BY <1>1, <1>12, <1>13, <1>14, <1>15, <1>16 DEF ConvoInv

\* What a death leaves half written is torn.
LEMMA RunDiesStep == ASSUME ConvoInv, RunDies PROVE ConvoInv'
<1>1. /\ phase # "off" /\ phase' = "off" /\ left' = {} /\ item' = NoItem
      /\ torn' = IF item.done > 0 THEN torn \cup {item.file} ELSE torn
      /\ UNCHANGED <<source, filed, sameRoom, wing, now>>
  BY DEF RunDies
<1>2. item.done > 0 => item.file \in Transcript
  BY <1>1, NoItemFields DEF ConvoInv, ConvoTypes
<1>3. ConvoTypes'
  BY <1>1, <1>2, NoItemFields DEF ConvoInv, ConvoTypes
<1>4. ConvoTimes' /\ AtWork'
  BY <1>1 DEF ConvoInv, ConvoTimes, AtWork
<1>5. OneFiling'
  BY <1>1, OneFilingKept DEF ConvoInv
<1>6. ASSUME NEW g \in Transcript \ torn' PROVE Vouched(g)'
  <2>1. Vouched(g) /\ ConvosOf(g)' = ConvosOf(g) /\ source'[g] = source[g] /\ item'.file # g
    BY <1>1, <1>6, NoItemFields DEF ConvoInv, ConvosOf
  <2>2. CASE item.file # g
    BY <2>1, <2>2, VouchedKept
  <2>3. CASE item.file = g
    <3>1. item.done = 0 /\ 1..0 = {}
      BY <1>1, <1>6, <2>3, ConvoFields DEF ConvoInv
    <3>2. phase \in {"ingest", "stat", "write"}
      BY <1>1, <2>3, NoItemFields DEF ConvoInv, ConvoTypes
    <3>3. ConvosOf(g) = {}
      BY <2>3, <3>1, <3>2 DEF ConvoInv, AtWork
    <3> QED BY <1>1, <2>1, <3>3 DEF Vouched
  <2> QED BY <2>2, <2>3
<1> QED BY <1>3, <1>4, <1>5, <1>6 DEF ConvoInv

\* A change gives the transcript a time that no drawer and no reading has.
LEMMA WriteStep == ASSUME ConvoInv, NEW f \in Transcript, Write(f) PROVE ConvoInv'
<1>1. PICK size \in 0..MaxTurns : source' = [source EXCEPT ![f] = [at |-> now + 1, size |-> size]]
  BY DEF Write
<1>2. /\ now <= MaxTalks /\ now' = now + 1
      /\ torn' = IF item.file # f THEN torn \ {f} ELSE IF phase = "stat" THEN torn \cup {f} ELSE torn
      /\ UNCHANGED <<filed, sameRoom, phase, wing, left, item>>
  BY DEF Write
<1>3. /\ source' \in [Transcript -> ConvoContent] /\ source'[f] = [at |-> now + 1, size |-> size]
      /\ \A g \in Transcript : g # f => source'[g] = source[g]
      /\ now \in 1..MaxTalks + 1 /\ now' \in 1..MaxTalks + 1
  BY <1>1, <1>2, ConvoAssumption DEF ConvoInv, ConvoTypes, ConvoContent
<1>4. ConvoTypes'
  BY <1>2, <1>3 DEF ConvoInv, ConvoTypes
<1>5. ConvoTimes'
  <2>1. \A g \in Transcript : source'[g].at \in 1..now' /\ source'[g].size <= MaxTurns
    <3> TAKE g \in Transcript
    <3>1. CASE g = f
      BY <1>1, <1>2, <1>3, <3>1, ConvoAssumption
    <3>2. CASE g # f
      BY <1>2, <1>3, <3>2 DEF ConvoInv, ConvoTimes
    <3> QED BY <3>1, <3>2
  <2>2. \A i : i \in 1..now => i \in 1..now'
    BY <1>2, <1>3
  <2> QED BY <1>2, <2>1, <2>2 DEF ConvoInv, ConvoTimes
<1>6. AtWork'
  BY <1>2 DEF ConvoInv, AtWork, ConvosOf
<1>7. OneFiling'
  BY <1>2, OneFilingKept DEF ConvoInv
<1>8. ASSUME NEW g \in Transcript \ torn' PROVE Vouched(g)'
  <2>1. ConvosOf(g)' = ConvosOf(g) /\ \A d \in ConvosOf(g) : d.mtime \in 1..now
    BY <1>2 DEF ConvosOf, ConvoInv, ConvoTimes
  <2>2. CASE g = f
    <3>1. source'[g].at = now + 1 /\ \A i \in 1..now : i # now + 1
      BY <1>3, <2>2
    <3>2. phase = "stat" => item.file # g
      BY <1>2, <1>8, <2>2
    <3>3. phase = "write" => item.mtime \in 1..now
      BY DEF ConvoInv, ConvoTimes
    <3> QED BY <1>2, <2>1, <3>1, <3>2, <3>3 DEF Vouched
  <2>3. CASE g # f
    <3>1. Vouched(g) /\ source'[g] = source[g]
      BY <1>2, <1>3, <1>8, <2>3 DEF ConvoInv
    <3>2. ConvoWhole(g) => ConvoWhole(g)'
      BY <2>1, <3>1 DEF ConvoWhole
    <3> QED BY <1>2, <2>1, <3>1, <3>2 DEF Vouched
  <2> QED BY <2>2, <2>3
<1> QED BY <1>4, <1>5, <1>6, <1>7, <1>8 DEF ConvoInv

\* The other miner purges the drawers of one wing: all conversation drawers of the
\* transcript, as they are of one wing, or none.
LEMMA MineAsProjectStep ==
  ASSUME ConvoInv, NEW f \in Transcript, NEW w \in Wing, MineAsProject(f, w)
  PROVE  ConvoInv'
<1> DEFINE new == {ConvoDrawer(f, k, "registry", w, source[f].at, source[f].at) : k \in 1..source[f].size}
<1>1. /\ phase = "off" /\ item = NoItem
      /\ filed' = {d \in filed : d.file # f \/ d.wing # w} \cup new
      /\ torn' = IF {d \in filed' : d.file = f /\ d.mode = "convos"} = {} THEN torn \ {f} ELSE torn
      /\ UNCHANGED <<source, sameRoom, phase, wing, left, item, now>>
  BY DEF MineAsProject, ConvoInv, ConvoTypes
<1>2. \A e \in new : /\ e \in ConvoFiled /\ e.file = f /\ e.mode = "registry"
                     /\ e.mtime \in 1..now /\ e.text \in 1..now /\ e.index \in 1..MaxTurns
  <2> TAKE e \in new
  <2>1. PICK k \in 1..source[f].size : e = ConvoDrawer(f, k, "registry", w, source[f].at, source[f].at)
    OBVIOUS
  <2>2. k \in Nat /\ k \in 1..MaxTurns /\ source[f].at \in Nat /\ source[f].at \in 1..now
    BY ConvoFields, ConvoAssumption DEF ConvoInv, ConvoTimes
  <2> QED BY <2>1, <2>2 DEF ConvoDrawer, ConvoFiled
<1> HIDE DEF new
<1>3. \A g : g # f => ConvosOf(g)' = ConvosOf(g)
  BY <1>1, <1>2 DEF ConvosOf
<1>4. ConvosOf(f)' = {d \in ConvosOf(f) : d.wing # w}
  BY <1>1, <1>2 DEF ConvosOf
<1>5. ConvoTypes'
  <2>1. filed' \subseteq ConvoFiled
    BY <1>1, <1>2 DEF ConvoInv, ConvoTypes
  <2> QED BY <1>1, <2>1 DEF ConvoInv, ConvoTypes
<1>6. ConvoTimes'
  BY <1>1, <1>2 DEF ConvoInv, ConvoTimes
<1>7. AtWork'
  BY <1>1 DEF AtWork
<1>8. OneFiling'
  <2>1. \A g : ConvosOf(g)' \subseteq ConvosOf(g)
    BY <1>3, <1>4
  <2> QED BY <2>1 DEF ConvoInv, OneFiling
<1>9. ASSUME NEW g \in Transcript \ torn' PROVE Vouched(g)'
  <2>1. source'[g] = source[g] /\ item.file # g /\ item'.file # g
    BY <1>1, NoItemFields
  <2>2. CASE g = f /\ ConvosOf(f)' = {}
    BY <1>1, <2>1, <2>2 DEF Vouched
  <2>3. CASE g = f /\ ConvosOf(f)' # {}
    <3>1. ConvosOf(g)' = ConvosOf(g)
      BY <1>4, <2>3 DEF ConvoInv, OneFiling
    <3>2. Vouched(g)
      BY <1>1, <1>9, <2>3 DEF ConvoInv, ConvosOf
    <3> QED BY <2>1, <3>1, <3>2, VouchedKept
  <2>4. CASE g # f
    <3>1. Vouched(g) /\ ConvosOf(g)' = ConvosOf(g)
      BY <1>1, <1>3, <1>9, <2>4 DEF ConvoInv
    <3> QED BY <2>1, <3>1, VouchedKept
  <2> QED BY <2>2, <2>3, <2>4
<1> QED BY <1>5, <1>6, <1>7, <1>8, <1>9 DEF ConvoInv

\* The first states.
LEMMA ConvoInvInit == ConvoInit => ConvoInv
<1> SUFFICES ASSUME ConvoInit PROVE ConvoInv
  OBVIOUS
<1>1. /\ source \in [Transcript -> [at : {1}, size : 0..MaxTurns]] /\ filed = {} /\ sameRoom \in BOOLEAN
      /\ phase = "off" /\ wing \in Wing /\ left = {} /\ item = NoItem /\ now = 1 /\ torn = {}
  BY DEF ConvoInit
<1>2. \A f \in Transcript : source[f] \in ConvoContent /\ source[f].at = 1 /\ source[f].size <= MaxTurns
  BY <1>1, ConvoAssumption DEF ConvoContent
<1>3. ConvoTypes
  BY <1>1, <1>2, NoItemFields, ConvoAssumption DEF ConvoTypes
<1>4. ConvoTimes /\ AtWork
  BY <1>1, <1>2 DEF ConvoTimes, AtWork
<1>5. \A f : ConvosOf(f) = {}
  BY <1>1 DEF ConvosOf
<1>6. OneFiling /\ \A f \in Transcript : Vouched(f)
  BY <1>1, <1>5, NoItemFields DEF OneFiling, Vouched
<1> QED BY <1>3, <1>4, <1>6 DEF ConvoInv

\* Every step keeps the inductive invariant.
LEMMA ConvoInvStep == ConvoInv /\ [ConvoNext]_convoVars => ConvoInv'
<1> SUFFICES ASSUME ConvoInv, [ConvoNext]_convoVars PROVE ConvoInv'
  OBVIOUS
<1>1. CASE UNCHANGED convoVars
  <2>1. UNCHANGED <<source, filed, sameRoom, phase, wing, left, item, now, torn>>
    BY <1>1 DEF convoVars
  <2>2. \A f : ConvosOf(f)' = ConvosOf(f)
    BY <2>1 DEF ConvosOf
  <2> QED BY <2>1, <2>2 DEF ConvoInv, ConvoTypes, ConvoTimes, AtWork, OneFiling, Vouched, ConvoWhole
<1>2. CASE WriteBatch
  BY <1>2, WriteBatchStep
<1>3. CASE StartRun \/ FinishRun \/ IngestFile \/ TakeTime \/ RunDies
  BY <1>3, StartRunStep, PassStep, IngestFileStep, TakeTimeStep, RunDiesStep
<1>4. ASSUME NEW f \in Transcript, Skip(f) \/ TakeUp(f) \/ Write(f)
      PROVE  ConvoInv'
  BY <1>4, PassStep, TakeUpStep, WriteStep
<1>5. ASSUME NEW f \in Transcript, NEW w \in Wing, MineAsProject(f, w)
      PROVE  ConvoInv'
  BY <1>5, MineAsProjectStep
<1> QED BY <1>1, <1>2, <1>3, <1>4, <1>5 DEF ConvoNext

\* A skipped transcript is stored as it is.
LEMMA SkippedIsWhole ==
  ASSUME ConvoInv, NEW f \in Transcript \ torn, Skip(f)
  PROVE  {<<d.index, d.text>> : d \in ConvosOf(f)} = (1..source[f].size) \X {source[f].at}
<1>1. phase = "check" /\ item.file # f
  BY NoItemFields DEF Skip, ConvoInv, ConvoTypes
<1>2. ConvoWhole(f)
  BY <1>1 DEF Skip, MinedAsIs, ConvoInv, Vouched
<1> QED BY <1>2 DEF ConvoWhole

\* Only the other miner, or a conversation drawer of the same id, takes a registry
\* drawer away.
LEMMA RegistryStays ==
  ASSUME ConvoInv, ConvoNext, NEW d \in filed \ filed', d.mode = "registry"
  PROVE  \/ \E w \in Wing : MineAsProject(d.file, w)
         \/ sameRoom /\ \E e \in filed' : e.mode = "convos" /\ <<e.file, e.index, e.wing>> = <<d.file, d.index, d.wing>>
<1> DEFINE Lost == \/ \E w \in Wing : MineAsProject(d.file, w)
                   \/ /\ sameRoom
                      /\ \E e \in filed' : e.mode = "convos" /\ <<e.file, e.index, e.wing>> = <<d.file, d.index, d.wing>>
<1>1. ASSUME NEW f \in Transcript, TakeUp(f) PROVE Lost
  BY <1>1 DEF TakeUp, Purge, ConvosOf
<1>2. ASSUME WriteBatch PROVE Lost
  <2> DEFINE ds == {ConvoDrawer(item.file, k, "convos", wing, item.at, item.mtime) : k \in NextChunks}
  <2>1. filed' = Upserted(ds)
    BY <1>2 DEF WriteBatch
  <2>2. \A e \in ds : e.mode = "convos"
    BY DEF ConvoDrawer
  <2> HIDE DEF ds
  <2>3. \E e \in ds : ~(<<d.file, d.index, d.wing>> # <<e.file, e.index, e.wing>> \/ (d.mode # e.mode /\ ~sameRoom))
    BY <2>1 DEF Upserted
  <2>4. ds \subseteq filed'
    BY <2>1 DEF Upserted
  <2> QED BY <2>2, <2>3, <2>4
<1>3. ASSUME NEW f \in Transcript, NEW w \in Wing, MineAsProject(f, w) PROVE Lost
  <2>1. d.file = f
    BY <1>3 DEF MineAsProject
  <2> QED BY <1>3, <2>1
<1>4. ASSUME UNCHANGED filed PROVE Lost
  BY <1>4
<1>5. StartRun \/ IngestFile \/ TakeTime \/ FinishRun \/ RunDies \/ (\E f \in Transcript : Skip(f) \/ Write(f))
        => UNCHANGED filed
  BY DEF StartRun, IngestFile, TakeTime, FinishRun, RunDies, Skip, Write
<1> HIDE DEF Lost
<1>6. Lost
  BY <1>1, <1>2, <1>3, <1>4, <1>5 DEF ConvoNext
<1> QED BY <1>6 DEF Lost

\* The type invariant follows.
LEMMA ConvoInvIsTyped == ConvoInv => ConvoTypeOK
<1> SUFFICES ASSUME ConvoInv PROVE ConvoTypeOK
  OBVIOUS
<1>1. \A d \in filed :
        /\ d.file \in Transcript /\ d.index \in 1..MaxTurns /\ d.wing \in Wing
        /\ d.mode \in {"convos", "registry"} /\ d.text \in 1..MaxTalks + 1 /\ d.mtime \in 1..MaxTalks + 1
  <2> TAKE d \in filed
  <2>1. d.mtime \in 1..now /\ d.text \in 1..now /\ d.index \in 1..MaxTurns /\ now \in 1..MaxTalks + 1
    BY DEF ConvoInv, ConvoTimes, ConvoTypes
  <2>2. MaxTalks \in Nat /\ d.file \in Transcript /\ d.wing \in Wing /\ d.mode \in {"convos", "registry"}
    BY ConvoAssumption, ConvoFields DEF ConvoInv
  <2> QED BY <2>1, <2>2
<1>2. item = NoItem <=> phase \in {"off", "check"}
  BY NoItemFields DEF ConvoInv, ConvoTypes
<1> QED BY <1>1, <1>2 DEF ConvoInv, ConvoTypes, ConvoTypeOK

\* Transcripts: the drawers of each are of one content and one wing; a transcript
\* that is skipped is stored as it is, unless it was edited between two system calls
\* or half written at a death; and the other miner's drawers survive, but one
\* in the room of conversations whose id a new drawer gets.
THEOREM ConvosAreSound == ConvoSpec => []ConvoTypeOK /\ ConvoSound
<1> DEFINE Skipped == \A f \in Transcript \ torn :
             Skip(f) => {<<d.index, d.text>> : d \in ConvosOf(f)} = (1..source[f].size) \X {source[f].at}
           Stay == \A d \in filed \ filed' : d.mode = "registry" =>
             \/ \E w \in Wing : MineAsProject(d.file, w)
             \/ sameRoom /\ \E e \in filed' : e.mode = "convos" /\ <<e.file, e.index, e.wing>> = <<d.file, d.index, d.wing>>
<1>1. ConvoInv /\ [ConvoNext]_convoVars => [Skipped]_convoVars
  BY SkippedIsWhole
<1>2. ConvoInv /\ [ConvoNext]_convoVars => [Stay]_convoVars
  BY RegistryStays
<1>3. ConvoInv => OneFiling
  BY DEF ConvoInv
<1> QED BY <1>1, <1>2, <1>3, ConvoInvInit, ConvoInvStep, ConvoInvIsTyped, PTL
     DEF ConvoSpec, ConvoSound, SkippedIsStored, RegistrySurvives

-----------------------------------------------------------------------------
(* Registry: who is known, and by which code.                              *)

Source == {"no", "onboarding", "learned", "wiki"}
Looked == [type : {"none", "person", "concept", "unknown"}, confirmed : BOOLEAN]
Data == [people : [Word -> Source], projects : SUBSET Word, flags : SUBSET Word, research : [Word -> Looked]]

\* What the proofs need of the values.
RegistryTypes ==
  /\ file \in Data /\ whole \in Data /\ mind \in [Session -> Data]
  /\ open \subseteq Session /\ writing \subseteq open /\ vouched \subseteq Word /\ behind \subseteq Session
  /\ DOMAIN codes \subseteq Word /\ roster \in Seq(Word) /\ (code # "" => roster # <<>>)

\* In a registry, a person with a common word for a name is flagged; and a word
\* without a voucher is no person, no project and not confirmed.
Flagged(d) == People(d) \cap Common \subseteq d.flags
Unknown(d, words) ==
  \A w \in words : d.people[w] = "no" /\ w \notin d.projects /\ ~d.research[w].confirmed

Sane(d) == Flagged(d) /\ Unknown(d, Word \ vouched)

\* Whoever is not behind has everybody of the last complete content.
Current == \A s \in open \ behind : People(whole) \subseteq People(mind[s])

\* The inductive invariant.
RegistryInv ==
  /\ RegistryTypes /\ Current /\ CodesDistinct
  /\ Sane(file) /\ Sane(whole) /\ \A s \in Session : Sane(mind[s])

LEMMA EmptySane == EmptyRegistry \in Data /\ Sane(EmptyRegistry) /\ People(EmptyRegistry) = {}
<1>1. EmptyRegistry \in Data
  BY DEF EmptyRegistry, Data, Source, Looked
<1>2. People(EmptyRegistry) = {}
  BY DEF EmptyRegistry, People
<1> QED BY <1>1, <1>2 DEF Sane, Flagged, Unknown, EmptyRegistry

LEMMA RegistryInvInit == RegistryInit => RegistryInv
<1> SUFFICES ASSUME RegistryInit PROVE RegistryInv
  OBVIOUS
<1>1. DOMAIN codes = {}
  <2>1. codes = <<>>
    BY DEF RegistryInit
  <2>2. <<>> \in Seq(Word) /\ Len(<<>>) = 0
    OBVIOUS
  <2>3. DOMAIN codes = 1..Len(codes)
    BY <2>1, <2>2
  <2>4. 1..0 = {}
    OBVIOUS
  <2> QED BY <2>1, <2>2, <2>3, <2>4
<1>2. /\ file = EmptyRegistry /\ whole = EmptyRegistry /\ open = {} /\ mind = [s \in Session |-> EmptyRegistry]
      /\ writing = {} /\ behind = {} /\ vouched = {} /\ roster \in Seq(Word) /\ code = ""
  BY RegistryAssumption DEF RegistryInit
<1> QED BY <1>1, <1>2, EmptySane DEF RegistryInv, RegistryTypes, Current, CodesDistinct

\* A registry with more vouchers is sane still.
LEMMA MoreVouched ==
  ASSUME NEW d, Sane(d), vouched \subseteq vouched'
  PROVE  Sane(d)'
BY DEF Sane, Flagged, Unknown

\* What a change leaves.
LEMMA ChangeKeeps ==
  ASSUME RegistryInv, NEW s \in Session, NEW data \in Data, Changed(s, data),
         vouched \subseteq vouched', vouched' \subseteq Word, Flagged(data), Unknown(data, Word \ vouched'),
         People(mind[s]) \subseteq People(data)
  PROVE  RegistryInv'
<1>1. /\ s \in open /\ mind' = [mind EXCEPT ![s] = data] /\ writing' = writing \cup {s} /\ file' = EmptyRegistry
      /\ UNCHANGED <<open, whole, behind, codes, roster, code>>
  BY DEF Changed, Opened
<1>2. RegistryTypes'
  BY <1>1, EmptySane DEF RegistryInv, RegistryTypes
<1>3. Current'
  BY <1>1 DEF RegistryInv, RegistryTypes, Current
<1>4. CodesDistinct'
  BY <1>1 DEF RegistryInv, CodesDistinct
<1>5. Flagged(file') /\ Unknown(file', Word \ vouched')
  BY <1>1 DEF EmptyRegistry, Flagged, Unknown, People
<1>6. Flagged(whole') /\ Unknown(whole', Word \ vouched')
  BY <1>1 DEF RegistryInv, Sane, Unknown
<1>7. ASSUME NEW u \in Session PROVE Flagged(mind'[u]) /\ Unknown(mind'[u], Word \ vouched')
  <2>1. CASE u = s
    BY <1>1, <2>1 DEF RegistryInv, RegistryTypes
  <2>2. CASE u # s
    <3>1. mind'[u] = mind[u]
      BY <1>1, <2>2 DEF RegistryInv, RegistryTypes
    <3> QED BY <3>1 DEF RegistryInv, Sane, Unknown
  <2> QED BY <2>1, <2>2
<1> QED BY <1>2, <1>3, <1>4, <1>5, <1>6, <1>7 DEF RegistryInv, Sane

\* Onboarding.
LEMMA SeedKeeps ==
  ASSUME RegistryInv, NEW s \in Session, NEW people \in Seeds, NEW projects \in {{}, Word}, Seed(s, people, projects)
  PROVE  RegistryInv'
<1> DEFINE d == mind[s]
           aliases == {a \in DOMAIN Alias : Alias[a] \in people}
           named == people \cup aliases
           data == Seeded(d, people, projects)
<1>1. d \in Data /\ Sane(d)
  BY DEF RegistryInv, RegistryTypes
<1>2. named \subseteq Word /\ projects \subseteq Word
  BY RegistryAssumption
<1>3. /\ data.people = [w \in Word |-> IF w \in named THEN "onboarding" ELSE d.people[w]]
      /\ data.projects = projects /\ data.flags = (People(d) \cup named) \cap Common
      /\ data.research = d.research
      /\ data = [people |-> data.people, projects |-> data.projects, flags |-> data.flags, research |-> data.research]
  <2>1. data = [d EXCEPT !.people = [w \in Word |-> IF w \in named THEN "onboarding" ELSE d.people[w]],
                         !.projects = projects, !.flags = (People(d) \cup named) \cap Common]
    BY DEF Seeded, SeedOn
  <2> HIDE DEF data, named, d
  <2> QED BY <1>1, <2>1 DEF Data
<1>4. Changed(s, data) /\ vouched' = vouched \cup people \cup projects \cup aliases
  BY DEF Seed
<1> HIDE DEF data, named
<1>5. data \in Data
  <2>1. data.people \in [Word -> Source]
    BY <1>1, <1>3 DEF Data, Source
  <2>2. data.flags \subseteq Word
    BY <1>3, RegistryAssumption
  <2>3. data.research \in [Word -> Looked]
    BY <1>1, <1>3 DEF Data
  <2> QED BY <1>2, <1>3, <2>1, <2>2, <2>3 DEF Data
<1>6. People(data) = People(d) \cup named
  BY <1>1, <1>2, <1>3 DEF People, Data
<1>7. Flagged(data)
  BY <1>3, <1>6 DEF Flagged
<1>8. vouched \subseteq vouched' /\ vouched' \subseteq Word
  BY <1>2, <1>4 DEF RegistryInv, RegistryTypes, named
<1>9. Unknown(data, Word \ vouched')
  <2>1. \A w \in Word \ vouched' : w \notin vouched /\ w \notin named /\ w \notin projects
    BY <1>4 DEF named
  <2> QED BY <1>1, <1>3, <2>1 DEF Sane, Unknown
<1> HIDE DEF d
<1> QED BY <1>4, <1>5, <1>6, <1>7, <1>8, <1>9, ChangeKeeps DEF d

\* One more person.
WithPerson(d, w, origin) == [d EXCEPT !.people[w] = origin, !.flags = FlagsWith(d, w)]

LEMMA OnePerson ==
  ASSUME NEW d \in Data, NEW w \in Word, NEW origin, origin \in {"learned", "wiki"}, NEW e,
         e = WithPerson(d, w, origin), Flagged(d)
  PROVE  /\ e \in Data /\ Flagged(e) /\ People(d) \subseteq People(e)
         /\ e.projects = d.projects /\ e.research = d.research
         /\ \A v \in Word \ {w} : e.people[v] = d.people[v]
<1>1. /\ d.people \in [Word -> Source] /\ d.flags \subseteq Word /\ d.projects \subseteq Word
      /\ d.research \in [Word -> Looked]
  BY DEF Data
<1>2. /\ e.people = [d.people EXCEPT ![w] = origin] /\ e.flags = d.flags \cup ({w} \cap Common)
      /\ e.projects = d.projects /\ e.research = d.research
      /\ e = [people |-> e.people, projects |-> e.projects, flags |-> e.flags, research |-> e.research]
  BY DEF Data, FlagsWith, WithPerson
<1>3. e.people \in [Word -> Source] /\ \A v \in Word \ {w} : e.people[v] = d.people[v]
  BY <1>1, <1>2 DEF Source
<1>4. e.people[w] = origin
  BY <1>1, <1>2
<1>5. e \in Data
  BY <1>1, <1>2, <1>3 DEF Data
<1>6. People(e) = People(d) \cup {w}
  BY <1>3, <1>4 DEF People
<1> QED BY <1>2, <1>3, <1>5, <1>6 DEF Flagged

LEMMA LearnKeeps ==
  ASSUME RegistryInv, NEW s \in Session, NEW w \in Word, Learn(s, w)
  PROVE  RegistryInv'
<1>1. PICK e : e = WithPerson(mind[s], w, "learned")
  OBVIOUS
<1>2. Changed(s, e) /\ vouched' = vouched \cup {w}
  BY <1>1 DEF Learn, WithPerson
<1>3. mind[s] \in Data /\ Flagged(mind[s]) /\ Unknown(mind[s], Word \ vouched) /\ vouched \subseteq Word
  BY DEF RegistryInv, RegistryTypes, Sane
<1>4. /\ e \in Data /\ Flagged(e) /\ People(mind[s]) \subseteq People(e)
      /\ e.projects = mind[s].projects /\ e.research = mind[s].research
      /\ \A v \in Word \ {w} : e.people[v] = mind[s].people[v]
  BY <1>1, <1>3, OnePerson
<1>5. Unknown(e, Word \ vouched')
  BY <1>2, <1>3, <1>4 DEF Unknown
<1> QED BY <1>2, <1>3, <1>4, <1>5, ChangeKeeps

\* What is looked up changes no one.
LEMMA OnlyResearch ==
  ASSUME NEW d \in Data, NEW research \in [Word -> Looked], NEW e, e = [d EXCEPT !.research = research]
  PROVE  /\ e \in Data /\ e.people = d.people /\ e.projects = d.projects /\ e.flags = d.flags
         /\ e.research = research /\ People(e) = People(d) /\ (Flagged(d) => Flagged(e))
<1>1. /\ e \in Data /\ e.people = d.people /\ e.projects = d.projects /\ e.flags = d.flags
      /\ e.research = research
  BY DEF Data
<1>2. People(e) = People(d)
  BY <1>1 DEF People
<1> QED BY <1>1, <1>2 DEF Flagged

LEMMA ResearchKeeps ==
  ASSUME RegistryInv, NEW s \in Session, NEW w \in Word, Research(s, w)
  PROVE  RegistryInv'
<1>1. PICK type \in {"person", "concept", "unknown"} :
        Changed(s, [mind[s] EXCEPT !.research[w] = [type |-> type, confirmed |-> FALSE]])
  BY DEF Research
<1>2. mind[s] \in Data /\ Flagged(mind[s]) /\ Unknown(mind[s], Word \ vouched) /\ vouched \subseteq Word
  BY DEF RegistryInv, RegistryTypes, Sane
<1>3. PICK research : research = [mind[s].research EXCEPT ![w] = [type |-> type, confirmed |-> FALSE]]
  OBVIOUS
<1>4. research \in [Word -> Looked]
  BY <1>2, <1>3 DEF Data, Looked
<1>5. PICK e : e = [mind[s] EXCEPT !.research = research]
  OBVIOUS
<1>6. Changed(s, e) /\ UNCHANGED vouched
  BY <1>1, <1>3, <1>5 DEF Research
<1>7. /\ e \in Data /\ e.people = mind[s].people /\ e.projects = mind[s].projects
      /\ e.research = research /\ People(e) = People(mind[s]) /\ Flagged(e)
  BY <1>2, <1>4, <1>5, OnlyResearch
<1>8. \A v \in Word : research[v].confirmed => mind[s].research[v].confirmed
  BY <1>2, <1>3 DEF Data
<1>9. Unknown(e, Word \ vouched')
  BY <1>2, <1>6, <1>7, <1>8 DEF Unknown
<1> QED BY <1>2, <1>6, <1>7, <1>9, ChangeKeeps

LEMMA ConfirmKeeps ==
  ASSUME RegistryInv, NEW s \in Session, NEW w \in Word, NEW type \in {"person", "place"}, Confirm(s, w, type)
  PROVE  RegistryInv'
<1>1. mind[s] \in Data /\ Flagged(mind[s]) /\ Unknown(mind[s], Word \ vouched) /\ vouched \subseteq Word
  BY DEF RegistryInv, RegistryTypes, Sane
<1>2. /\ ConfirmOne(mind[s], w) \in [Word -> Looked]
      /\ \A v \in Word \ {w} : ConfirmOne(mind[s], w)[v] = mind[s].research[v]
  <2>1. mind[s].research \in [Word -> Looked] /\ mind[s].research[w] \in Looked
    BY <1>1 DEF Data
  <2>2. [mind[s].research[w] EXCEPT !.confirmed = TRUE] \in Looked
    BY <2>1 DEF Looked
  <2>3. CASE mind[s].research[w].type = "none"
    BY <2>1, <2>3 DEF ConfirmOne
  <2>4. CASE mind[s].research[w].type # "none"
    <3>1. ConfirmOne(mind[s], w) =
            [mind[s].research EXCEPT ![w] = [mind[s].research[w] EXCEPT !.confirmed = TRUE]]
      BY <2>4 DEF ConfirmOne
    <3> QED BY <2>1, <2>2, <3>1
  <2> QED BY <2>3, <2>4
<1>3. PICK d : d = [mind[s] EXCEPT !.research = ConfirmOne(mind[s], w)]
  OBVIOUS
<1>4. /\ d \in Data /\ d.people = mind[s].people /\ d.projects = mind[s].projects
      /\ d.research = ConfirmOne(mind[s], w) /\ People(d) = People(mind[s]) /\ Flagged(d)
  BY <1>1, <1>2, <1>3, OnlyResearch
<1>5. PICK e : e = IF type = "person" THEN WithPerson(d, w, "wiki") ELSE d
  OBVIOUS
<1>6. Changed(s, e) /\ vouched' = vouched \cup {w}
  BY <1>3, <1>5 DEF Confirm, WithPerson
<1>7. /\ e \in Data /\ Flagged(e) /\ People(d) \subseteq People(e)
      /\ e.projects = d.projects /\ e.research = d.research
      /\ \A v \in Word \ {w} : e.people[v] = d.people[v]
  <2>1. CASE type = "person"
    BY <1>4, <1>5, <2>1, OnePerson
  <2>2. CASE type # "person"
    BY <1>4, <1>5, <2>2
  <2> QED BY <2>1, <2>2
<1>8. Unknown(e, Word \ vouched')
  BY <1>1, <1>2, <1>4, <1>6, <1>7 DEF Unknown
<1> QED BY <1>1, <1>4, <1>6, <1>7, <1>8, ChangeKeeps

\* Loading, saving and closing the file.
LEMMA FileKeeps ==
  ASSUME RegistryInv, NEW s \in Session, Load(s) \/ Save(s) \/ Close(s) \/ DiesWriting(s)
  PROVE  RegistryInv'
<1> USE DEF RegistryInv
<1>1. CASE Load(s)
  <2>1. RegistryTypes'
    BY <1>1 DEF Load, RegistryTypes
  <2>2. Current'
    BY <1>1 DEF Load, RegistryTypes, Current
  <2> QED BY <1>1, <2>1, <2>2 DEF Load, RegistryTypes, CodesDistinct, Sane, Flagged, Unknown, People
<1>2. CASE Save(s)
  <2>1. RegistryTypes'
    BY <1>2 DEF Save, RegistryTypes
  <2>2. Current'
    BY <1>2 DEF Save, RegistryTypes, Current
  <2> QED BY <1>2, <2>1, <2>2 DEF Save, RegistryTypes, CodesDistinct, Sane, Flagged, Unknown, People
<1>3. CASE Close(s) \/ DiesWriting(s)
  <2>1. /\ open' = open \ {s} /\ mind' = [mind EXCEPT ![s] = EmptyRegistry]
        /\ UNCHANGED <<file, whole, behind, vouched, codes, roster, code>> /\ writing' = writing \ {s}
    BY <1>3 DEF Close, DiesWriting, Opened
  <2>2. RegistryTypes'
    BY <2>1, EmptySane DEF RegistryTypes
  <2>3. Current'
    BY <2>1 DEF RegistryTypes, Current
  <2> QED BY <2>1, <2>2, <2>3, EmptySane DEF RegistryTypes, CodesDistinct, Sane, Flagged, Unknown, People
<1> QED BY <1>1, <1>2, <1>3

\* A code is given only if nobody has it.
LEMMA CodingKeeps == ASSUME RegistryInv, Coding PROVE RegistryInv'
<1>1. /\ UNCHANGED <<file, open, mind, writing, whole, behind, vouched>>
  BY DEF Coding, FirstCode, LongerCode, GiveCode
<1>2. CodesDistinct' /\ DOMAIN codes' \subseteq Word /\ roster' \in Seq(Word) /\ (code' # "" => roster' # <<>>)
  <2>1. CASE FirstCode \/ LongerCode
    BY <2>1 DEF FirstCode, LongerCode, RegistryInv, RegistryTypes, CodesDistinct
  <2>2. CASE GiveCode
    <3>1. PICK n : n = Head(roster)
      OBVIOUS
    <3>2. /\ codes' = [m \in DOMAIN codes \cup {n} |-> IF m = n THEN code ELSE codes[m]]
          /\ \A m \in DOMAIN codes : codes[m] # code
      BY <2>2, <3>1 DEF GiveCode, Free, Taken
    <3>3. n \in Word
      <4>1. roster \in Seq(Word) /\ roster # <<>>
        BY <2>2 DEF GiveCode, RegistryInv, RegistryTypes
      <4> QED BY <3>1, <4>1
    <3>4. roster' \in Seq(Word) /\ code' = ""
      <4>1. roster \in Seq(Word) /\ roster # <<>> /\ roster' = Tail(roster) /\ code' = ""
        BY <2>2 DEF GiveCode, RegistryInv, RegistryTypes
      <4>2. \A q \in Seq(Word) : q # <<>> => Tail(q) \in Seq(Word)
        OBVIOUS
      <4> QED BY <4>1, <4>2
    <3> QED BY <3>2, <3>3, <3>4 DEF RegistryInv, RegistryTypes, CodesDistinct
  <2> QED BY <2>1, <2>2 DEF Coding
<1> QED BY <1>1, <1>2 DEF RegistryInv, RegistryTypes, Current, Sane, Flagged, Unknown, People

LEMMA RegistryInvStep == RegistryInv /\ [RegistryNext]_registryVars => RegistryInv'
<1> SUFFICES ASSUME RegistryInv, [RegistryNext]_registryVars PROVE RegistryInv'
  OBVIOUS
<1>1. CASE UNCHANGED registryVars
  BY <1>1 DEF registryVars, RegistryInv, RegistryTypes, Current, CodesDistinct, Sane, Flagged, Unknown, People
<1> QED BY <1>1, CodingKeeps, FileKeeps, SeedKeeps, LearnKeeps, ResearchKeeps, ConfirmKeeps DEF RegistryNext

\* Whether the codes are finished does not matter for it.
LEMMA RegistryAnyPace == RegistryInit /\ [][RegistryNext]_registryVars => RegistrySound
<1> DEFINE Kept == \A s \in Session : Save(s) /\ s \notin behind => People(whole) \subseteq People(whole')
<1>1. RegistryInv => FlagsComplete
  BY DEF RegistryInv, RegistryTypes, FlagsComplete, Registries, Sane, Flagged
<1>2. RegistryInv => UnvouchedUnknown
  <2> SUFFICES ASSUME RegistryInv, NEW d \in Registries, NEW w \in Word \ vouched PROVE LookUp(d, w) = "unknown"
    BY DEF UnvouchedUnknown
  <2>1. Sane(d)
    BY DEF Registries, RegistryInv, RegistryTypes
  <2> QED BY <2>1 DEF Sane, Unknown, LookUp, People
<1>3. RegistryInv => CodesDistinct
  BY DEF RegistryInv
<1>4. RegistryInv /\ [RegistryNext]_registryVars => [Kept]_registryVars
  BY DEF RegistryInv, RegistryTypes, Current, Save
<1> QED BY <1>1, <1>2, <1>3, <1>4, RegistryInvInit, RegistryInvStep, PTL DEF RegistrySound, PeopleKept

\* The registry: a person with a common word for a name is flagged, nobody is known
\* without a voucher, two names have two codes, and no one is forgotten by a
\* process that is not behind.
THEOREM RegistryIsFaithful == RegistrySpec => RegistrySound
BY RegistryAnyPace, PTL DEF RegistrySpec

-----------------------------------------------------------------------------
(* Trackers: the sweep and the user's commands on one file.                *)

EntryKept == [state : {"none", "active", "stale"}, failures : Nat]
Config == [entries : [Repo -> EntryKept], setting : Int]
Forged == [gone : BOOLEAN, closed : BOOLEAN, text : Nat, decided : BOOLEAN]
Sweeping ==
  [pc : {"off", "entry", "comments", "load", "empty", "save"}, left : SUBSET Repo, entry : [Repo -> EntryKept],
   repo : Repo \cup {"none"}, seen : [closed : BOOLEAN, text : Nat],
   outcome : {"none", "ok", "gone", "transient"}, holds : Config]
Commanding ==
  [pc : {"off", "empty", "save"}, op : {"none", "register", "remove", "wizard"},
   repo : Repo \cup {"none"}, holds : Config]

\* What the proofs need of the values.
TrackersTypes ==
  /\ config \in Config /\ forge \in [Repo -> Forged] /\ decision \in [Repo -> Nat] /\ alone \in BOOLEAN
  /\ sweep \in Sweeping /\ user \in Commanding
  /\ noted \in [Repo -> Nat] /\ lastGone \in [Repo -> BOOLEAN] /\ registered \subseteq Repo
  /\ sweep.pc \in {"comments", "load", "empty", "save"} => sweep.repo \in Repo
  /\ user.pc # "off" => user.repo \in Repo

\* What is filed, or about to be filed, was closed at some time.
ClosedWereDecided ==
  /\ \A r \in Repo : forge[r].closed => forge[r].decided
  /\ sweep.pc = "comments" /\ sweep.seen.closed => forge[sweep.repo].decided

\* An entry with its failures in a row, and quarantined only if it has earned it.
Earned(e, failed, gone) ==
  e.state # "none" => e.failures = failed /\ (e.state = "stale" => failed = StaleAfter /\ gone)

\* The repositories with an entry.
Named(entries) == {r \in Repo : entries[r].state # "none"}

\* The failures in a row once what the sweep is at is noted.
NotedThen == IF sweep.outcome = "ok" THEN 0 ELSE AtMost(noted[sweep.repo] + 1, StaleAfter)

Exclusive == sweep.pc = "off" \/ user.pc = "off"

FileFaithful ==
  /\ \A r \in Repo : Earned(config.entries[r], noted[r], lastGone[r])
  /\ config # Torn => Named(config.entries) = registered

\* What the sweep has read is what the file says, of the entries it has not come to.
SweepCurrent ==
  sweep.pc \in {"entry", "comments", "load", "empty"} => \A r \in sweep.left : config.entries[r] = sweep.entry[r]

\* The same of the entry it is at, which is active.
SweepAt ==
  /\ sweep.pc \in {"comments", "load"} => config.entries[sweep.repo] = sweep.entry[sweep.repo]
  /\ sweep.pc \in {"comments", "load", "empty", "save"} =>
       /\ sweep.repo \notin sweep.left
       /\ sweep.entry[sweep.repo].state = "active" /\ sweep.entry[sweep.repo].failures = noted[sweep.repo]

\* What the sweep is about to write.
SweepHolds ==
  sweep.pc \in {"empty", "save"} =>
    /\ Named(sweep.holds.entries) = registered
    /\ \A r \in sweep.left : sweep.holds.entries[r] = sweep.entry[r]
    /\ Earned(sweep.holds.entries[sweep.repo], NotedThen, sweep.outcome = "gone")
    /\ \A r \in Repo \ {sweep.repo} : Earned(sweep.holds.entries[r], noted[r], lastGone[r])

\* What the command is about to write.
RegisteredThen ==
  IF user.op = "register" THEN registered \cup {user.repo}
  ELSE IF user.op = "remove" THEN registered \ {user.repo} ELSE registered

UserHolds ==
  user.pc # "off" =>
    /\ Named(user.holds.entries) = RegisteredThen
    /\ \A r \in Repo : IF user.op = "register" /\ r = user.repo THEN user.holds.entries[r] = Fresh
                       ELSE Earned(user.holds.entries[r], noted[r], lastGone[r])

AloneHolds == Exclusive /\ FileFaithful /\ SweepCurrent /\ SweepAt /\ SweepHolds /\ UserHolds

\* The inductive invariant.
TrackersInv == TrackersTypes /\ ClosedWereDecided /\ DecidedOnly /\ (alone => AloneHolds)

\* The values of the model's constants records.
LEMMA Records ==
  /\ Torn \in Config /\ Resting \in Sweeping /\ NoCommand \in Commanding
  /\ Unregistered \in EntryKept /\ Fresh \in EntryKept
  /\ \A r \in Repo : Torn.entries[r].state = "none"
<1>1. Unregistered \in EntryKept /\ Fresh \in EntryKept
  BY DEF Unregistered, Fresh, EntryKept
<1>2. Torn \in Config
  BY <1>1 DEF Torn, Config
<1>3. Resting \in Sweeping
  BY <1>1, <1>2 DEF Resting, Sweeping
<1>4. NoCommand \in Commanding
  BY <1>2 DEF NoCommand, Commanding
<1> QED BY <1>1, <1>2, <1>3, <1>4 DEF Torn, Unregistered

LEMMA TrackersInvInit == TrackersInit => TrackersInv
<1> SUFFICES ASSUME TrackersInit PROVE TrackersInv
  OBVIOUS
<1>1. /\ config.entries = [r \in Repo |-> Unregistered] /\ config \in Config
      /\ forge \in [Repo -> {[gone |-> FALSE, closed |-> c, text |-> 1, decided |-> c] : c \in BOOLEAN}]
      /\ decision = [r \in Repo |-> 0] /\ sweep = Resting /\ user = NoCommand /\ alone \in BOOLEAN
      /\ noted = [r \in Repo |-> 0] /\ lastGone = [r \in Repo |-> FALSE] /\ registered = {}
  BY Records DEF TrackersInit, Config
<1>2. sweep.pc = "off" /\ user.pc = "off" /\ \A r \in Repo : config.entries[r].state = "none"
  BY <1>1 DEF Resting, NoCommand, Unregistered
<1>3. ASSUME NEW r \in Repo PROVE forge[r] \in Forged /\ (forge[r].closed => forge[r].decided)
  <2>1. PICK c \in BOOLEAN : forge[r] = [gone |-> FALSE, closed |-> c, text |-> 1, decided |-> c]
    BY <1>1
  <2> QED BY <2>1 DEF Forged
<1>4. TrackersTypes
  <2>1. forge \in [Repo -> Forged]
    BY <1>1, <1>3
  <2> QED BY <1>1, <1>2, <2>1, Records DEF TrackersTypes
<1>5. ClosedWereDecided /\ DecidedOnly
  BY <1>1, <1>2, <1>3 DEF ClosedWereDecided, DecidedOnly
<1>6. AloneHolds
  BY <1>1, <1>2 DEF AloneHolds, Exclusive, FileFaithful, SweepCurrent, SweepAt, SweepHolds, UserHolds, Earned, Named
<1> QED BY <1>4, <1>5, <1>6 DEF TrackersInv

-----------------------------------------------------------------------------
(* Steps of the forge, the credentials and deaths.                         *)

\* The file and its history stay.
LEMMA AloneStays ==
  ASSUME TrackersInv, UNCHANGED <<config, sweep, user, alone, noted, lastGone, registered>>
  PROVE  alone' => AloneHolds'
BY DEF TrackersInv, AloneHolds, Exclusive, FileFaithful, SweepCurrent, SweepAt, SweepHolds, UserHolds, NotedThen,
       RegisteredThen

LEMMA WorldKeeps ==
  ASSUME TrackersInv, TokenExpires \/ TokenRefreshed \/ \E r \in Repo : TicketChanges(r) \/ RepoGoes(r)
  PROVE  TrackersInv'
<1>1. /\ UNCHANGED <<config, decision, sweep, user, alone, noted, lastGone, registered>>
  BY DEF TokenExpires, TokenRefreshed, TicketChanges, RepoGoes
<1>2. /\ forge' \in [Repo -> Forged]
      /\ \A r \in Repo : /\ forge'[r].closed => forge'[r].decided
                         /\ forge[r].decided => forge'[r].decided
  <2>1. CASE UNCHANGED forge
    BY <2>1 DEF TrackersInv, TrackersTypes, ClosedWereDecided
  <2>2. ASSUME NEW r \in Repo, TicketChanges(r)
        PROVE  /\ forge' \in [Repo -> Forged]
               /\ \A q \in Repo : (forge'[q].closed => forge'[q].decided) /\ (forge[q].decided => forge'[q].decided)
    <3>1. PICK closed \in BOOLEAN :
            forge' = [forge EXCEPT ![r].closed = closed, ![r].text = @ + 1, ![r].decided = @ \/ closed]
      BY <2>2 DEF TicketChanges
    <3>2. forge[r] \in Forged /\ forge \in [Repo -> Forged]
      BY DEF TrackersInv, TrackersTypes
    <3>3. PICK renewed : renewed = [gone |-> forge[r].gone, closed |-> closed, text |-> forge[r].text + 1,
                            decided |-> forge[r].decided \/ closed]
      OBVIOUS
    <3>4. renewed \in Forged /\ (renewed.closed => renewed.decided) /\ (forge[r].decided => renewed.decided)
      BY <3>2, <3>3 DEF Forged
    <3>5. forge' = [forge EXCEPT ![r] = renewed]
      BY <3>1, <3>2, <3>3 DEF Forged
    <3> QED BY <3>2, <3>4, <3>5 DEF TrackersInv, ClosedWereDecided
  <2>3. ASSUME NEW r \in Repo, RepoGoes(r)
        PROVE  /\ forge' \in [Repo -> Forged]
               /\ \A q \in Repo : (forge'[q].closed => forge'[q].decided) /\ (forge[q].decided => forge'[q].decided)
    <3>1. forge' = [forge EXCEPT ![r].gone = TRUE] /\ forge \in [Repo -> Forged]
      BY <2>3 DEF RepoGoes, TrackersInv, TrackersTypes
    <3> QED BY <3>1 DEF Forged, TrackersInv, ClosedWereDecided
  <2> QED BY <2>1, <2>2, <2>3 DEF TokenExpires, TokenRefreshed
<1>3. TrackersTypes'
  BY <1>1, <1>2 DEF TrackersInv, TrackersTypes
<1>4. ClosedWereDecided' /\ DecidedOnly'
  BY <1>1, <1>2 DEF TrackersInv, TrackersTypes, ClosedWereDecided, DecidedOnly
<1> QED BY <1>1, <1>3, <1>4, AloneStays DEF TrackersInv

\* The sweep or the command ends, or dies.
LEMMA SweepEnds ==
  ASSUME TrackersInv, sweep' = Resting,
         UNCHANGED <<config, forge, decision, user, alone, noted, lastGone, registered>>
  PROVE  TrackersInv'
<1>1. sweep'.pc = "off" /\ sweep' \in Sweeping
  BY Records DEF Resting
<1> QED BY <1>1 DEF TrackersInv, TrackersTypes, ClosedWereDecided, DecidedOnly, AloneHolds, Exclusive, FileFaithful,
                    SweepCurrent, SweepAt, SweepHolds, UserHolds, RegisteredThen

LEMMA CommandEnds ==
  ASSUME TrackersInv, user' = NoCommand,
         UNCHANGED <<config, forge, decision, sweep, alone, noted, lastGone, registered>>
  PROVE  TrackersInv'
<1>1. user'.pc = "off" /\ user' \in Commanding
  BY Records DEF NoCommand
<1> QED BY <1>1 DEF TrackersInv, TrackersTypes, ClosedWereDecided, DecidedOnly, AloneHolds, Exclusive, FileFaithful,
                    SweepCurrent, SweepAt, SweepHolds, UserHolds, NotedThen

-----------------------------------------------------------------------------
(* Steps of the sweep.                                                     *)

\* Between two entries and at one, before anything is written.
LEMMA SweepReads ==
  ASSUME TrackersInv, UNCHANGED <<config, forge, user, alone, noted, lastGone, registered>>,
         sweep' \in Sweeping, sweep'.pc \in {"entry", "comments", "load"},
         sweep'.pc \in {"comments", "load"} => sweep'.repo \in Repo,
         sweep'.pc = "comments" /\ sweep'.seen.closed => forge[sweep'.repo].decided,
         decision' \in [Repo -> Nat], DecidedOnly',
         alone => /\ user.pc = "off"
                  /\ \A r \in sweep'.left : config.entries[r] = sweep'.entry[r]
                  /\ sweep'.pc \in {"comments", "load"} =>
                       /\ config.entries[sweep'.repo] = sweep'.entry[sweep'.repo]
                       /\ sweep'.repo \notin sweep'.left /\ sweep'.entry[sweep'.repo].state = "active"
  PROVE  TrackersInv'
<1>1. TrackersTypes'
  BY DEF TrackersInv, TrackersTypes
<1>2. ClosedWereDecided'
  BY DEF TrackersInv, TrackersTypes, ClosedWereDecided
<1>3. ASSUME alone PROVE AloneHolds'
  <2>1. Exclusive' /\ SweepCurrent'
    BY <1>3 DEF Exclusive, SweepCurrent
  <2>2. FileFaithful'
    BY <1>3 DEF TrackersInv, AloneHolds, FileFaithful
  <2>3. SweepAt'
    BY <1>3 DEF TrackersInv, TrackersTypes, AloneHolds, FileFaithful, Earned, SweepAt
  <2>4. SweepHolds' /\ UserHolds'
    BY <1>3 DEF SweepHolds, UserHolds
  <2> QED BY <2>1, <2>2, <2>3, <2>4 DEF AloneHolds
<1> QED BY <1>1, <1>2, <1>3 DEF TrackersInv

LEMMA StartKeeps == ASSUME TrackersInv, StartSweep PROVE TrackersInv'
<1>1. /\ sweep' = [Resting EXCEPT !.pc = "entry", !.entry = config.entries, !.left = Named(config.entries)]
      /\ UNCHANGED <<config, forge, decision, user, alone, noted, lastGone, registered>>
      /\ alone => user.pc = "off"
  BY DEF StartSweep, Named
<1>2. Resting \in Sweeping /\ config.entries \in [Repo -> EntryKept] /\ Named(config.entries) \subseteq Repo
  BY Records DEF TrackersInv, TrackersTypes, Config, Named
<1>3. sweep' \in Sweeping /\ sweep'.pc = "entry" /\ sweep'.entry = config.entries
  BY <1>1, <1>2 DEF Sweeping
<1>4. DecidedOnly' /\ decision' \in [Repo -> Nat]
  BY <1>1 DEF TrackersInv, TrackersTypes, DecidedOnly
<1> QED BY <1>1, <1>3, <1>4, SweepReads

LEMMA FetchKeeps == ASSUME TrackersInv, NEW r \in Repo, Fetch(r) PROVE TrackersInv'
<1>1. /\ sweep.pc = "entry" /\ r \in sweep.left /\ sweep \in Sweeping
      /\ UNCHANGED <<config, forge, decision, user, alone, noted, lastGone, registered>>
  BY DEF Fetch, TrackersInv, TrackersTypes
<1>2. alone => /\ user.pc = "off" /\ \A q \in sweep.left : config.entries[q] = sweep.entry[q]
  BY <1>1 DEF TrackersInv, AloneHolds, Exclusive, SweepCurrent
<1>3. DecidedOnly' /\ decision' \in [Repo -> Nat]
  BY <1>1 DEF TrackersInv, TrackersTypes, DecidedOnly
<1>4. forge[r] \in Forged /\ (forge[r].closed => forge[r].decided)
  BY DEF TrackersInv, TrackersTypes, ClosedWereDecided
<1>5. CASE sweep' = [sweep EXCEPT !.left = @ \ {r}]
  <2>1. sweep' \in Sweeping /\ sweep'.pc = "entry" /\ sweep'.left \subseteq sweep.left /\ sweep'.entry = sweep.entry
    BY <1>1, <1>5 DEF Sweeping
  <2> QED BY <1>1, <1>2, <1>3, <2>1, SweepReads
<1>6. CASE /\ sweep.entry[r].state = "active"
           /\ sweep' = [sweep EXCEPT !.left = @ \ {r}, !.repo = r, !.pc = "comments",
                          !.seen = [closed |-> forge[r].closed, text |-> forge[r].text]]
  <2>1. [closed |-> forge[r].closed, text |-> forge[r].text] \in [closed : BOOLEAN, text : Nat]
    BY <1>4 DEF Forged
  <2>2. /\ sweep' \in Sweeping /\ sweep'.pc = "comments" /\ sweep'.left = sweep.left \ {r} /\ sweep'.repo = r
        /\ sweep'.entry = sweep.entry /\ sweep'.seen.closed = forge[r].closed
    BY <1>1, <1>6, <2>1 DEF Sweeping
  <2> QED BY <1>1, <1>2, <1>3, <1>4, <1>6, <2>2, SweepReads
<1>7. CASE sweep' = Resting
  BY <1>1, <1>7, SweepEnds
<1>8. ASSUME NEW failure \in {"gone", "transient"}, sweep.entry[r].state = "active",
             sweep' = [sweep EXCEPT !.left = @ \ {r}, !.repo = r, !.pc = "load", !.outcome = failure]
      PROVE  TrackersInv'
  <2>1. /\ sweep' \in Sweeping /\ sweep'.pc = "load" /\ sweep'.left = sweep.left \ {r} /\ sweep'.repo = r
        /\ sweep'.entry = sweep.entry
    BY <1>1, <1>8 DEF Sweeping
  <2> QED BY <1>1, <1>2, <1>3, <1>8, <2>1, SweepReads
<1> QED BY <1>5, <1>6, <1>7, <1>8 DEF Fetch

LEMMA DecisionKeeps == ASSUME TrackersInv, FileDecision PROVE TrackersInv'
<1>1. /\ sweep.pc = "comments" /\ sweep \in Sweeping /\ sweep.repo \in Repo
      /\ UNCHANGED <<config, forge, user, alone, noted, lastGone, registered>>
  BY DEF FileDecision, TrackersInv, TrackersTypes
<1>2. alone => /\ user.pc = "off" /\ \A q \in sweep.left : config.entries[q] = sweep.entry[q]
               /\ config.entries[sweep.repo] = sweep.entry[sweep.repo]
               /\ sweep.repo \notin sweep.left /\ sweep.entry[sweep.repo].state = "active"
  BY <1>1 DEF TrackersInv, AloneHolds, Exclusive, SweepCurrent, SweepAt
<1>3. CASE sweep' = Resting
  <2>1. UNCHANGED decision
    BY <1>1, <1>3 DEF FileDecision, Resting
  <2> QED BY <1>1, <1>3, <2>1, SweepEnds
<1>4. ASSUME NEW ending \in {"ok", "gone"}, sweep' = [sweep EXCEPT !.pc = "load", !.outcome = ending]
      PROVE  TrackersInv'
  <2>1. /\ sweep' \in Sweeping /\ sweep'.pc = "load" /\ sweep'.left = sweep.left /\ sweep'.repo = sweep.repo
        /\ sweep'.entry = sweep.entry
    BY <1>1, <1>4 DEF Sweeping
  <2>2. decision' \in [Repo -> Nat] /\ DecidedOnly'
    <3>1. CASE UNCHANGED decision
      BY <1>1, <3>1 DEF TrackersInv, TrackersTypes, DecidedOnly
    <3>2. CASE sweep.seen.closed /\ decision' = [decision EXCEPT ![sweep.repo] = forge[sweep.repo].text]
      <4>1. forge[sweep.repo].text \in Nat /\ forge[sweep.repo].decided
        BY <1>1, <3>2 DEF TrackersInv, TrackersTypes, ClosedWereDecided, Forged
      <4> QED BY <1>1, <3>2, <4>1 DEF TrackersInv, TrackersTypes, DecidedOnly
    <3> QED BY <3>1, <3>2 DEF FileDecision, WorthFiling
  <2> QED BY <1>1, <1>2, <2>1, <2>2, SweepReads
<1> QED BY <1>3, <1>4 DEF FileDecision

LEMMA LoadKeeps == ASSUME TrackersInv, LoadForUpdate PROVE TrackersInv'
<1> DEFINE r == sweep.repo
           was == config.entries[r]
           renewed == [state |-> IF StateAfter(Count) = "stale" THEN "stale" ELSE was.state, failures |-> Count]
           next == IF was = Unregistered THEN was ELSE renewed
           holds == [config EXCEPT !.entries[r] = next]
<1>1. /\ sweep.pc = "load" /\ sweep \in Sweeping /\ r \in Repo /\ config \in Config
      /\ UNCHANGED <<config, forge, decision, user, alone, noted, lastGone, registered>>
  BY DEF LoadForUpdate, TrackersInv, TrackersTypes
<1>2. CASE config = Torn
  BY <1>1, <1>2, SweepEnds DEF LoadForUpdate
<1>3. CASE config # Torn
  <2>1. sweep' = [sweep EXCEPT !.pc = "empty", !.holds = holds]
    BY <1>3 DEF LoadForUpdate
  <2>2. was \in EntryKept /\ sweep.entry[r] \in EntryKept /\ config.entries \in [Repo -> EntryKept]
    BY <1>1 DEF Config, Sweeping
  <2>3. Count \in Nat /\ (StateAfter(Count) = "stale" => sweep.outcome = "gone" /\ Count = StaleAfter)
    BY <2>2, TrackersAssumption DEF Count, AtMost, EntryKept, StateAfter
  <2>4. next \in EntryKept
    BY <2>2, <2>3 DEF EntryKept
  <2> HIDE DEF next, was
  <2>5. holds \in Config /\ holds.entries = [config.entries EXCEPT ![r] = next]
    BY <1>1, <2>4 DEF Config
  <2> HIDE DEF holds
  <2>6. /\ sweep' \in Sweeping /\ sweep'.pc = "empty" /\ sweep'.holds = holds /\ sweep'.repo = r
        /\ sweep'.left = sweep.left /\ sweep'.entry = sweep.entry /\ sweep'.outcome = sweep.outcome
    BY <1>1, <2>1, <2>5 DEF Sweeping
  <2>7. TrackersTypes'
    BY <1>1, <2>6 DEF TrackersInv, TrackersTypes
  <2>8. ClosedWereDecided' /\ DecidedOnly'
    BY <1>1, <2>6 DEF TrackersInv, ClosedWereDecided, DecidedOnly
  <2>9. ASSUME alone PROVE AloneHolds'
    <3>1. /\ user.pc = "off" /\ FileFaithful /\ SweepCurrent /\ SweepAt
      BY <1>1, <2>9 DEF TrackersInv, AloneHolds, Exclusive
    <3>2. /\ was = sweep.entry[r] /\ was.state = "active" /\ was.failures = noted[r] /\ r \notin sweep.left
      BY <1>1, <3>1 DEF SweepAt, was
    <3>3. was # Unregistered
      BY <3>2 DEF Unregistered
    <3>4. next = [state |-> IF StateAfter(Count) = "stale" THEN "stale" ELSE "active", failures |-> Count]
      BY <3>2, <3>3 DEF next, was
    <3>5. NotedThen' = Count
      BY <1>1, <2>6, <3>2 DEF NotedThen, Count
    <3>6. Earned(next, Count, sweep.outcome = "gone") /\ next.state # "none"
      BY <2>3, <3>4 DEF Earned
    <3>7. /\ holds.entries[r] = next /\ \A q \in Repo \ {r} : holds.entries[q] = config.entries[q]
      BY <1>1, <2>2, <2>5
    <3>8. Named(holds.entries) = registered
      <4>1. Named(config.entries) = registered
        BY <1>3, <3>1 DEF FileFaithful
      <4>2. config.entries[r].state # "none"
        BY <3>2 DEF was
      <4> QED BY <3>6, <3>7, <4>1, <4>2 DEF Named
    <3>9. SweepHolds'
      <4>1. \A q \in sweep'.left : sweep'.holds.entries[q] = sweep'.entry[q]
        BY <1>1, <2>6, <3>1, <3>2, <3>7 DEF SweepCurrent, Sweeping
      <4>2. \A q \in Repo \ {sweep'.repo} : Earned(sweep'.holds.entries[q], noted'[q], lastGone'[q])
        BY <1>1, <2>6, <3>1, <3>7 DEF FileFaithful
      <4>3. Earned(sweep'.holds.entries[sweep'.repo], NotedThen', sweep'.outcome = "gone")
        BY <2>6, <3>5, <3>6, <3>7
      <4> QED BY <1>1, <2>6, <3>8, <4>1, <4>2, <4>3 DEF SweepHolds
    <3>10. SweepAt' /\ SweepCurrent'
      BY <1>1, <2>6, <3>1 DEF SweepAt, SweepCurrent
    <3>11. FileFaithful' /\ Exclusive' /\ UserHolds'
      BY <1>1, <3>1 DEF FileFaithful, Exclusive, UserHolds
    <3> QED BY <3>9, <3>10, <3>11 DEF AloneHolds
  <2> QED BY <1>1, <2>7, <2>8, <2>9 DEF TrackersInv
<1> QED BY <1>2, <1>3

LEMMA EmptyKeeps == ASSUME TrackersInv, EmptyForUpdate PROVE TrackersInv'
<1>1. /\ sweep.pc = "empty" /\ sweep \in Sweeping /\ sweep.repo \in Repo /\ config' = Torn
      /\ sweep' = [sweep EXCEPT !.pc = "save"]
      /\ UNCHANGED <<forge, decision, user, alone, noted, lastGone, registered>>
  BY DEF EmptyForUpdate, TrackersInv, TrackersTypes
<1>2. /\ sweep' \in Sweeping /\ sweep'.pc = "save" /\ sweep'.holds = sweep.holds /\ sweep'.repo = sweep.repo
      /\ sweep'.left = sweep.left /\ sweep'.entry = sweep.entry /\ sweep'.outcome = sweep.outcome
  BY <1>1 DEF Sweeping
<1>3. TrackersTypes'
  BY <1>1, <1>2, Records DEF TrackersInv, TrackersTypes
<1>4. ClosedWereDecided' /\ DecidedOnly'
  BY <1>1, <1>2 DEF TrackersInv, ClosedWereDecided, DecidedOnly
<1>5. ASSUME alone PROVE AloneHolds'
  <2>1. user.pc = "off" /\ SweepHolds /\ SweepAt
    BY <1>1, <1>5 DEF TrackersInv, AloneHolds, Exclusive
  <2>2. FileFaithful'
    BY <1>1, Records DEF FileFaithful, Earned
  <2>3. SweepHolds'
    BY <1>1, <1>2, <2>1 DEF SweepHolds, NotedThen
  <2>4. SweepAt' /\ SweepCurrent'
    BY <1>1, <1>2, <2>1 DEF SweepAt, SweepCurrent
  <2> QED BY <1>1, <2>1, <2>2, <2>3, <2>4 DEF AloneHolds, Exclusive, UserHolds
<1> QED BY <1>1, <1>3, <1>4, <1>5 DEF TrackersInv

LEMMA SaveKeeps == ASSUME TrackersInv, SaveUpdate PROVE TrackersInv'
<1> DEFINE r == sweep.repo
<1>1. /\ sweep.pc = "save" /\ sweep \in Sweeping /\ r \in Repo /\ config' = sweep.holds
      /\ sweep' = [sweep EXCEPT !.pc = "entry", !.holds = Torn, !.outcome = "none", !.repo = "none",
                     !.seen = Resting.seen]
      /\ noted' = [noted EXCEPT ![r] = NotedThen] /\ lastGone' = [lastGone EXCEPT ![r] = (sweep.outcome = "gone")]
      /\ UNCHANGED <<forge, decision, user, alone, registered>>
  BY DEF SaveUpdate, TrackersInv, TrackersTypes, NotedThen
<1>2. /\ sweep' \in Sweeping /\ sweep'.pc = "entry" /\ sweep'.left = sweep.left /\ sweep'.entry = sweep.entry
  <2>1. Resting.seen \in [closed : BOOLEAN, text : Nat]
    BY DEF Resting
  <2> QED BY <1>1, <2>1, Records DEF Sweeping
<1>3. NotedThen \in Nat /\ noted \in [Repo -> Nat] /\ lastGone \in [Repo -> BOOLEAN] /\ sweep.holds \in Config
  BY <1>1, TrackersAssumption DEF TrackersInv, TrackersTypes, NotedThen, AtMost, Sweeping
<1>4. /\ noted' \in [Repo -> Nat] /\ lastGone' \in [Repo -> BOOLEAN]
      /\ noted'[r] = NotedThen /\ lastGone'[r] = (sweep.outcome = "gone")
      /\ \A q \in Repo \ {r} : noted'[q] = noted[q] /\ lastGone'[q] = lastGone[q]
  BY <1>1, <1>3
<1>5. TrackersTypes'
  BY <1>1, <1>2, <1>3, <1>4 DEF TrackersInv, TrackersTypes
<1>6. ClosedWereDecided' /\ DecidedOnly'
  BY <1>1, <1>2 DEF TrackersInv, ClosedWereDecided, DecidedOnly
<1>7. ASSUME alone PROVE AloneHolds'
  <2>1. user.pc = "off" /\ SweepHolds /\ SweepAt
    BY <1>1, <1>7 DEF TrackersInv, AloneHolds, Exclusive
  <2>2. FileFaithful'
    <3>1. \A q \in Repo : Earned(config'.entries[q], noted'[q], lastGone'[q])
      <4>1. Earned(sweep.holds.entries[r], noted'[r], lastGone'[r])
        BY <1>1, <1>4, <2>1 DEF SweepHolds
      <4>2. \A q \in Repo \ {r} : Earned(sweep.holds.entries[q], noted'[q], lastGone'[q])
        BY <1>1, <1>4, <2>1 DEF SweepHolds
      <4> QED BY <1>1, <4>1, <4>2
    <3> QED BY <1>1, <2>1, <3>1 DEF FileFaithful, SweepHolds
  <2>3. SweepCurrent'
    BY <1>1, <1>2, <2>1 DEF SweepCurrent, SweepHolds
  <2> QED BY <1>1, <1>2, <2>1, <2>2, <2>3 DEF AloneHolds, Exclusive, SweepAt, SweepHolds, UserHolds
<1> QED BY <1>1, <1>5, <1>6, <1>7 DEF TrackersInv

-----------------------------------------------------------------------------
(* Steps of a command.                                                     *)

LEMMA CommandKeeps ==
  ASSUME TrackersInv, NEW r \in Repo, NEW op \in {"register", "remove", "wizard"}, Command(op, r)
  PROVE  TrackersInv'
<1>1. /\ user.pc = "off" /\ config # Torn /\ config \in Config /\ (alone => sweep.pc = "off")
      /\ op = "register" => config.entries[r] = Unregistered
      /\ UNCHANGED <<config, forge, decision, sweep, alone, noted, lastGone, registered>>
  BY DEF Command, TrackersInv, TrackersTypes
<1>2. PICK holds :
        /\ user' = [pc |-> "empty", op |-> op, repo |-> r, holds |-> holds]
        /\ op = "register" => holds = [config EXCEPT !.entries[r] = Fresh]
        /\ op = "remove" => holds = [config EXCEPT !.entries[r] = Unregistered]
        /\ op = "wizard" => holds = [config EXCEPT !.setting = 1 - @]
  BY DEF Command
<1>3. /\ holds \in Config
      /\ op = "register" => holds.entries = [config.entries EXCEPT ![r] = Fresh]
      /\ op = "remove" => holds.entries = [config.entries EXCEPT ![r] = Unregistered]
      /\ op = "wizard" => holds.entries = config.entries
  BY <1>1, <1>2, Records DEF Config
<1>4. /\ user' \in Commanding /\ user'.pc = "empty" /\ user'.op = op /\ user'.repo = r /\ user'.holds = holds
  BY <1>2, <1>3 DEF Commanding
<1>5. TrackersTypes'
  BY <1>1, <1>4 DEF TrackersInv, TrackersTypes
<1>6. ClosedWereDecided' /\ DecidedOnly'
  BY <1>1 DEF TrackersInv, ClosedWereDecided, DecidedOnly
<1>7. ASSUME alone PROVE AloneHolds'
  <2>1. FileFaithful /\ sweep.pc = "off" /\ Named(config.entries) = registered
    BY <1>1, <1>7 DEF TrackersInv, AloneHolds, FileFaithful
  <2>2. Fresh.state = "active" /\ Unregistered.state = "none" /\ config.entries \in [Repo -> EntryKept]
    BY <1>1 DEF Fresh, Unregistered, Config
  <2>3. Named(holds.entries) = RegisteredThen'
    BY <1>1, <1>3, <1>4, <2>1, <2>2 DEF Named, RegisteredThen
  <2>4. \A q \in Repo : IF op = "register" /\ q = r THEN holds.entries[q] = Fresh
                        ELSE Earned(holds.entries[q], noted[q], lastGone[q])
    BY <1>3, <2>1, <2>2 DEF FileFaithful, Earned
  <2>5. UserHolds'
    BY <1>1, <1>4, <2>3, <2>4 DEF UserHolds
  <2> QED BY <1>1, <2>1, <2>5 DEF AloneHolds, Exclusive, FileFaithful, SweepCurrent, SweepAt, SweepHolds
<1> QED BY <1>1, <1>5, <1>6, <1>7 DEF TrackersInv

LEMMA EmptyCommandKeeps == ASSUME TrackersInv, EmptyForCommand PROVE TrackersInv'
<1>1. /\ user.pc = "empty" /\ user \in Commanding /\ user.repo \in Repo /\ config' = Torn
      /\ user' = [user EXCEPT !.pc = "save"]
      /\ UNCHANGED <<forge, decision, sweep, alone, noted, lastGone, registered>>
  BY DEF EmptyForCommand, TrackersInv, TrackersTypes
<1>2. /\ user' \in Commanding /\ user'.pc = "save" /\ user'.op = user.op /\ user'.repo = user.repo
      /\ user'.holds = user.holds
  BY <1>1 DEF Commanding
<1>3. TrackersTypes'
  BY <1>1, <1>2, Records DEF TrackersInv, TrackersTypes
<1>4. ClosedWereDecided' /\ DecidedOnly'
  BY <1>1 DEF TrackersInv, ClosedWereDecided, DecidedOnly
<1>5. ASSUME alone PROVE AloneHolds'
  <2>1. sweep.pc = "off" /\ UserHolds
    BY <1>1, <1>5 DEF TrackersInv, AloneHolds, Exclusive
  <2>2. FileFaithful'
    BY <1>1, Records DEF FileFaithful, Earned
  <2>3. UserHolds'
    BY <1>1, <1>2, <2>1 DEF UserHolds, RegisteredThen
  <2> QED BY <1>1, <2>1, <2>2, <2>3 DEF AloneHolds, Exclusive, SweepCurrent, SweepAt, SweepHolds
<1> QED BY <1>1, <1>3, <1>4, <1>5 DEF TrackersInv

LEMMA SaveCommandKeeps == ASSUME TrackersInv, SaveCommand PROVE TrackersInv'
<1>1. /\ user.pc = "save" /\ user \in Commanding /\ user.repo \in Repo /\ config' = user.holds
      /\ user' = NoCommand /\ registered' = RegisteredThen
      /\ noted' = IF user.op = "register" THEN [noted EXCEPT ![user.repo] = 0] ELSE noted
      /\ UNCHANGED <<forge, decision, sweep, alone, lastGone>>
  BY DEF SaveCommand, TrackersInv, TrackersTypes, RegisteredThen
<1>2. user' \in Commanding /\ user'.pc = "off" /\ user.holds \in Config
  BY <1>1, Records DEF NoCommand, Commanding
<1>3. noted' \in [Repo -> Nat] /\ RegisteredThen \subseteq Repo
  BY <1>1 DEF TrackersInv, TrackersTypes, RegisteredThen
<1>4. TrackersTypes'
  BY <1>1, <1>2, <1>3 DEF TrackersInv, TrackersTypes
<1>5. ClosedWereDecided' /\ DecidedOnly'
  BY <1>1 DEF TrackersInv, ClosedWereDecided, DecidedOnly
<1>6. ASSUME alone PROVE AloneHolds'
  <2>1. sweep.pc = "off" /\ UserHolds
    BY <1>1, <1>6 DEF TrackersInv, AloneHolds, Exclusive
  <2>2. ASSUME NEW q \in Repo PROVE Earned(user.holds.entries[q], noted'[q], lastGone[q])
    <3>1. CASE user.op = "register" /\ q = user.repo
      <4>1. user.holds.entries[q] = Fresh /\ noted'[q] = 0
        BY <1>1, <2>1, <3>1 DEF UserHolds, TrackersInv, TrackersTypes
      <4> QED BY <4>1 DEF Fresh, Earned
    <3>2. CASE ~(user.op = "register" /\ q = user.repo)
      <4>1. noted'[q] = noted[q]
        BY <1>1, <3>2 DEF TrackersInv, TrackersTypes
      <4> QED BY <1>1, <2>1, <3>2, <4>1 DEF UserHolds
    <3> QED BY <3>1, <3>2
  <2>3. FileFaithful'
    BY <1>1, <2>1, <2>2 DEF FileFaithful, UserHolds
  <2> QED BY <1>1, <1>2, <2>1, <2>3 DEF AloneHolds, Exclusive, SweepCurrent, SweepAt, SweepHolds, UserHolds
<1> QED BY <1>1, <1>4, <1>5, <1>6 DEF TrackersInv

LEMMA TrackersInvStep == TrackersInv /\ [TrackersNext]_trackerVars => TrackersInv'
<1> SUFFICES ASSUME TrackersInv, [TrackersNext]_trackerVars PROVE TrackersInv'
  OBVIOUS
<1>1. CASE UNCHANGED trackerVars
  <2>1. UNCHANGED <<config, forge, decision, sweep, user, alone, noted, lastGone, registered>>
    BY <1>1 DEF trackerVars
  <2>2. (TrackersTypes /\ ClosedWereDecided /\ DecidedOnly)'
    BY <2>1 DEF TrackersInv, TrackersTypes, ClosedWereDecided, DecidedOnly
  <2> QED BY <2>1, <2>2, AloneStays DEF TrackersInv
<1>2. CASE EndSweep
  BY <1>2, SweepEnds DEF EndSweep
<1>3. CASE Dies
  BY <1>3, SweepEnds, CommandEnds DEF Dies
<1> QED BY <1>1, <1>2, <1>3, StartKeeps, FetchKeeps, DecisionKeeps, LoadKeeps, EmptyKeeps, SaveKeeps, CommandKeeps,
           EmptyCommandKeeps, SaveCommandKeeps, WorldKeeps DEF TrackersNext, SweepStep, UserStep

-----------------------------------------------------------------------------
(* What is quarantined is gone, whoever writes the file meanwhile.         *)

OfTheGone(entries) == \A r \in Repo : entries[r].state = "stale" => forge[r].gone

\* In the file, and in what the sweep and the command are about to write.
StaleAreGone ==
  /\ OfTheGone(config.entries) /\ OfTheGone(sweep.holds.entries) /\ OfTheGone(user.holds.entries)
  /\ sweep.pc = "load" /\ sweep.outcome = "gone" => forge[sweep.repo].gone

LEMMA StaleGoneInit == TrackersInit => StaleAreGone
<1> SUFFICES ASSUME TrackersInit PROVE StaleAreGone
  OBVIOUS
<1>1. /\ config.entries = [r \in Repo |-> Unregistered] /\ sweep.pc = "off"
      /\ sweep.holds = Torn /\ user.holds = Torn
  BY DEF TrackersInit, Resting, NoCommand
<1> QED BY <1>1, Records DEF StaleAreGone, OfTheGone, Unregistered

\* What the sweep saves of the repository it is at is "stale" only if that is gone.
LEMMA LoadedOfTheGone ==
  ASSUME TrackersInv, StaleAreGone, LoadForUpdate
  PROVE  OfTheGone(sweep'.holds.entries) /\ sweep'.pc # "load"
<1> DEFINE r == sweep.repo
           was == config.entries[r]
           renewed == [state |-> IF StateAfter(Count) = "stale" THEN "stale" ELSE was.state, failures |-> Count]
           next == IF was = Unregistered THEN was ELSE renewed
           holds == [config EXCEPT !.entries[r] = next]
<1>1. sweep.pc = "load" /\ sweep \in Sweeping /\ r \in Repo /\ config \in Config
  BY DEF LoadForUpdate, TrackersInv, TrackersTypes
<1>2. CASE config = Torn
  <2>1. sweep' = Resting
    BY <1>2 DEF LoadForUpdate
  <2> QED BY <2>1, Records DEF Resting, OfTheGone
<1>3. CASE config # Torn
  <2>1. sweep' = [sweep EXCEPT !.pc = "empty", !.holds = holds]
    BY <1>3 DEF LoadForUpdate
  <2>2. config.entries \in [Repo -> EntryKept] /\ (was.state = "stale" => forge[r].gone)
    BY <1>1 DEF Config, StaleAreGone, OfTheGone
  <2>3. next.state = "stale" => forge[r].gone
    BY <1>1, <2>2 DEF StateAfter, StaleAreGone
  <2> HIDE DEF next, was
  <2>4. holds.entries = [config.entries EXCEPT ![r] = next]
    BY <1>1 DEF Config
  <2> HIDE DEF holds
  <2>5. sweep'.holds = holds /\ sweep'.pc = "empty"
    BY <1>1, <2>1 DEF Sweeping
  <2> QED BY <1>1, <2>2, <2>3, <2>4, <2>5 DEF StaleAreGone, OfTheGone
<1> QED BY <1>2, <1>3

\* Neither an old registry that a command writes back, nor a repository that is
\* removed meanwhile, quarantines what is not gone.
LEMMA StaleGoneStep ==
  ASSUME TrackersInv, StaleAreGone, [TrackersNext]_trackerVars
  PROVE  StaleAreGone'
<1>0. /\ sweep \in Sweeping /\ user \in Commanding /\ config \in Config /\ forge \in [Repo -> Forged]
      /\ sweep.pc \in {"comments", "load", "empty", "save"} => sweep.repo \in Repo
  BY DEF TrackersInv, TrackersTypes
<1>1. ASSUME UNCHANGED forge, config' = config, user'.holds = user.holds, sweep'.holds = sweep.holds,
             sweep'.pc = "load" /\ sweep'.outcome = "gone" => forge[sweep'.repo].gone
      PROVE  StaleAreGone'
  BY <1>1 DEF StaleAreGone, OfTheGone
<1>2. ASSUME UNCHANGED forge, config' = Torn \/ config' = config \/ config' = sweep.holds \/ config' = user.holds,
             user'.holds = user.holds \/ user'.holds = Torn, sweep'.holds = sweep.holds \/ sweep'.holds = Torn,
             sweep'.pc # "load" \/ UNCHANGED sweep
      PROVE  StaleAreGone'
  BY <1>2, Records DEF StaleAreGone, OfTheGone
<1>3. CASE StartSweep
  <2>1. sweep'.holds = Torn /\ sweep'.pc = "entry"
    BY <1>3 DEF StartSweep, Resting
  <2> QED BY <1>2, <1>3, <2>1 DEF StartSweep
<1>4. ASSUME NEW r \in Repo, Fetch(r) PROVE StaleAreGone'
  <2>1. CASE sweep' = Resting
    BY <1>2, <1>4, <2>1 DEF Fetch, Resting
  <2>2. CASE sweep' # Resting
    <3>1. /\ sweep'.holds = sweep.holds
          /\ sweep'.pc = "load" /\ sweep'.outcome = "gone" => forge[sweep'.repo].gone
      BY <1>0, <1>4, <2>2 DEF Fetch, Sweeping
    <3> QED BY <1>1, <1>4, <3>1 DEF Fetch
  <2> QED BY <2>1, <2>2
<1>5. CASE FileDecision
  <2>1. CASE sweep' = Resting
    BY <1>2, <1>5, <2>1 DEF FileDecision, Resting
  <2>2. CASE sweep' # Resting
    <3>1. /\ sweep'.holds = sweep.holds
          /\ sweep'.pc = "load" /\ sweep'.outcome = "gone" => forge[sweep'.repo].gone
      BY <1>0, <1>5, <2>2 DEF FileDecision, Sweeping
    <3> QED BY <1>1, <1>5, <3>1 DEF FileDecision
  <2> QED BY <2>1, <2>2
<1>6. CASE LoadForUpdate
  <2>1. UNCHANGED <<config, forge, user>>
    BY <1>6 DEF LoadForUpdate
  <2> QED BY <1>6, <2>1, LoadedOfTheGone DEF StaleAreGone, OfTheGone
<1>7. CASE EmptyForUpdate
  <2>1. sweep'.holds = sweep.holds /\ sweep'.pc = "save"
    BY <1>0, <1>7 DEF EmptyForUpdate, Sweeping
  <2> QED BY <1>2, <1>7, <2>1 DEF EmptyForUpdate
<1>8. CASE SaveUpdate
  <2>1. sweep'.holds = Torn /\ sweep'.pc = "entry"
    BY <1>0, <1>8 DEF SaveUpdate, Sweeping
  <2> QED BY <1>2, <1>8, <2>1 DEF SaveUpdate
<1>9. CASE EndSweep \/ Dies
  <2>1. UNCHANGED <<config, forge>> /\ (sweep' = Resting \/ UNCHANGED sweep) /\ (user' = NoCommand \/ UNCHANGED user)
    BY <1>9 DEF EndSweep, Dies
  <2> QED BY <1>2, <2>1 DEF Resting, NoCommand
<1>10. ASSUME NEW r \in Repo, NEW op \in {"register", "remove", "wizard"}, Command(op, r)
       PROVE  StaleAreGone'
  <2>1. PICK holds :
          /\ user' = [pc |-> "empty", op |-> op, repo |-> r, holds |-> holds]
          /\ op = "register" => holds = [config EXCEPT !.entries[r] = Fresh]
          /\ op = "remove" => holds = [config EXCEPT !.entries[r] = Unregistered]
          /\ op = "wizard" => holds = [config EXCEPT !.setting = 1 - @]
    BY <1>10 DEF Command
  <2>2. UNCHANGED <<config, forge, sweep>> /\ user'.holds = holds
    BY <1>10, <2>1 DEF Command
  <2>3. OfTheGone(holds.entries)
    BY <1>0, <1>10, <2>1 DEF Config, StaleAreGone, OfTheGone, Fresh, Unregistered
  <2> QED BY <2>2, <2>3 DEF StaleAreGone, OfTheGone
<1>11. CASE EmptyForCommand
  <2>1. user'.holds = user.holds
    BY <1>0, <1>11 DEF EmptyForCommand, Commanding
  <2> QED BY <1>2, <1>11, <2>1 DEF EmptyForCommand
<1>12. CASE SaveCommand
  <2>1. user'.holds = Torn
    BY <1>12 DEF SaveCommand, NoCommand
  <2> QED BY <1>2, <1>12, <2>1 DEF SaveCommand
<1>13. ASSUME TokenExpires \/ TokenRefreshed \/ \E r \in Repo : TicketChanges(r) \/ RepoGoes(r)
       PROVE  StaleAreGone'
  <2>1. UNCHANGED <<config, sweep, user>>
    BY <1>13 DEF TokenExpires, TokenRefreshed, TicketChanges, RepoGoes
  <2>2. ASSUME NEW r \in Repo, TicketChanges(r), NEW q \in Repo PROVE forge'[q].gone = forge[q].gone
    <3>1. PICK closed \in BOOLEAN :
            forge' = [forge EXCEPT ![r].closed = closed, ![r].text = @ + 1, ![r].decided = @ \/ closed]
      BY <2>2 DEF TicketChanges
    <3> QED BY <1>0, <3>1 DEF Forged
  <2>3. ASSUME NEW r \in Repo, RepoGoes(r), NEW q \in Repo PROVE forge[q].gone => forge'[q].gone
    BY <1>0, <2>3 DEF RepoGoes, Forged
  <2>4. \A q \in Repo : forge[q].gone => forge'[q].gone
    BY <1>13, <2>2, <2>3 DEF TokenExpires, TokenRefreshed
  <2> QED BY <1>0, <2>1, <2>4 DEF StaleAreGone, OfTheGone
<1>14. CASE UNCHANGED trackerVars
  BY <1>2, <1>14 DEF trackerVars
<1> QED BY <1>3, <1>4, <1>5, <1>6, <1>7, <1>8, <1>9, <1>10, <1>11, <1>12, <1>13, <1>14
        DEF TrackersNext, SweepStep, UserStep

\* Whether a sweep or a command that is begun is finished does not matter for it.
LEMMA TrackersAnyPace == TrackersInit /\ [][TrackersNext]_trackerVars => []TrackersSound
<1> DEFINE Both == TrackersInv /\ StaleAreGone
<1>1. TrackersInit => Both
  BY TrackersInvInit, StaleGoneInit
<1>2. Both /\ [TrackersNext]_trackerVars => Both'
  BY TrackersInvStep, StaleGoneStep
<1>3. Both => TrackersSound
  BY DEF TrackersInv, StaleAreGone, OfTheGone, AloneHolds, FileFaithful, Earned, Named, TrackersSound,
         QuarantineOfGone, RegistryFaithful
<1> HIDE DEF Both
<1> QED BY <1>1, <1>2, <1>3, PTL

\* Trackers: what is quarantined is gone, and only what was decided is filed; while
\* sweep and commands do not overlap, a quarantine follows StaleAfter failures in a
\* row of whatever kind, and the registry is what the user has registered.
THEOREM TrackersAreFaithful == TrackersSpec => []TrackersSound
BY TrackersAnyPace, PTL DEF TrackersSpec
-----------------------------------------------------------------------------
(* The scan of a project: paths.                                           *)

Path == Seq(STRING)

\* One path begins another when it agrees with it as far as it goes.
LEMMA PrefixMeans ==
  ASSUME NEW s \in Path, NEW t \in Path
  PROVE  IsPrefix(s, t) <=> Len(s) <= Len(t) /\ \A i \in 1..Len(s) : s[i] = t[i]
<1> USE DEF Path
<1>1. CASE Len(s) <= Len(t)
  <2>1. Len(s) \in Nat /\ Len(t) \in Nat
    OBVIOUS
  <2>2. SubSeq(s, 1, Len(s)) = [i \in 1..Len(s) |-> s[i]]
    BY <2>1
  <2>3. SubSeq(t, 1, Len(s)) = [i \in 1..Len(s) |-> t[i]]
    BY <1>1, <2>1
  <2>4. (\A i \in 1..Len(s) : s[i] = t[i]) => [i \in 1..Len(s) |-> s[i]] = [i \in 1..Len(s) |-> t[i]]
    OBVIOUS
  <2>5. ASSUME [i \in 1..Len(s) |-> s[i]] = [i \in 1..Len(s) |-> t[i]]
        PROVE  \A i \in 1..Len(s) : s[i] = t[i]
    <3> SUFFICES ASSUME NEW i \in 1..Len(s) PROVE s[i] = t[i]
      OBVIOUS
    <3>1. [k \in 1..Len(s) |-> s[k]][i] = [k \in 1..Len(s) |-> t[k]][i]
      BY <2>5
    <3> QED BY <3>1
  <2> QED BY <1>1, <2>2, <2>3, <2>4, <2>5 DEF IsPrefix
<1>2. CASE ~(Len(s) <= Len(t))
  BY <1>2 DEF IsPrefix
<1> QED BY <1>1, <1>2

\* Two paths of one length that agree are one.
LEMMA SamePath ==
  ASSUME NEW s \in Path, NEW t \in Path, Len(s) = Len(t), \A i \in 1..Len(s) : s[i] = t[i]
  PROVE  s = t
BY DEF Path

\* The path of the directory above.
LEMMA FrontMeans ==
  ASSUME NEW s \in Path, s # <<>>
  PROVE  /\ Front(s) \in Path /\ Len(Front(s)) = Len(s) - 1 /\ Len(s) \in Nat \ {0}
         /\ \A i \in 1..Len(s) - 1 : Front(s)[i] = s[i]
<1> USE DEF Path
<1>1. Len(s) \in Nat /\ Len(s) # 0
  OBVIOUS
<1>2. Front(s) = SubSeq(s, 1, Len(s) - 1)
  BY DEF Front
<1>3. SubSeq(s, 1, Len(s) - 1) = [i \in 1..Len(s) - 1 |-> s[i]]
  BY <1>1
<1>4. Len(s) - 1 \in Nat /\ \A i \in 1..Len(s) - 1 : s[i] \in STRING
  BY <1>1
<1>5. [i \in 1..Len(s) - 1 |-> s[i]] \in Seq(STRING) /\ Len([i \in 1..Len(s) - 1 |-> s[i]]) = Len(s) - 1
  BY <1>4
<1>6. \A k \in 1..Len(s) - 1 : [i \in 1..Len(s) - 1 |-> s[i]][k] = s[k]
  OBVIOUS
<1> QED BY <1>1, <1>2, <1>3, <1>5, <1>6

\* A path begins itself, and what begins its beginning.
LEMMA PrefixOrder ==
  ASSUME NEW s \in Path, NEW t \in Path, NEW u \in Path
  PROVE  /\ IsPrefix(s, s)
         /\ IsPrefix(s, t) /\ IsPrefix(t, u) => IsPrefix(s, u)
         /\ IsPrefix(s, u) /\ IsPrefix(t, u) /\ Len(s) = Len(t) => s = t
         /\ IsPrefix(s, u) /\ IsPrefix(t, u) /\ Len(s) <= Len(t) => IsPrefix(s, t)
         /\ IsPrefix(s, <<>>) => s = <<>>
<1>0. Len(s) \in Nat /\ Len(t) \in Nat /\ Len(u) \in Nat /\ <<>> \in Path /\ Len(<<>>) = 0
  BY DEF Path
<1>1. /\ IsPrefix(s, t) <=> Len(s) <= Len(t) /\ \A i \in 1..Len(s) : s[i] = t[i]
      /\ IsPrefix(t, u) <=> Len(t) <= Len(u) /\ \A i \in 1..Len(t) : t[i] = u[i]
      /\ IsPrefix(s, u) <=> Len(s) <= Len(u) /\ \A i \in 1..Len(s) : s[i] = u[i]
      /\ IsPrefix(s, s) <=> Len(s) <= Len(s) /\ \A i \in 1..Len(s) : s[i] = s[i]
      /\ IsPrefix(s, <<>>) => Len(s) <= 0
  BY <1>0, PrefixMeans
<1>2. IsPrefix(s, s)
  BY <1>0, <1>1
<1>3. IsPrefix(s, t) /\ IsPrefix(t, u) => IsPrefix(s, u)
  BY <1>0, <1>1
<1>4. IsPrefix(s, u) /\ IsPrefix(t, u) /\ Len(s) = Len(t) => s = t
  <2> SUFFICES ASSUME IsPrefix(s, u), IsPrefix(t, u), Len(s) = Len(t) PROVE s = t
    OBVIOUS
  <2>1. \A i \in 1..Len(s) : s[i] = t[i]
    BY <1>1
  <2> QED BY <2>1, SamePath
<1>5. IsPrefix(s, u) /\ IsPrefix(t, u) /\ Len(s) <= Len(t) => IsPrefix(s, t)
  BY <1>0, <1>1
<1>6. IsPrefix(s, <<>>) => s = <<>>
  BY <1>0, <1>1 DEF Path
<1> QED BY <1>2, <1>3, <1>4, <1>5, <1>6

\* What begins a path, and is not it, begins the path of the directory above.
LEMMA PrefixOfFront ==
  ASSUME NEW s \in Path, NEW t \in Path, t # <<>>
  PROVE  /\ IsPrefix(s, t) <=> s = t \/ IsPrefix(s, Front(t))
         /\ ~IsPrefix(t, Front(t)) /\ IsPrefix(Front(t), t)
<1>1. /\ Front(t) \in Path /\ Len(Front(t)) = Len(t) - 1 /\ Len(t) \in Nat \ {0} /\ Len(s) \in Nat
      /\ \A i \in 1..Len(t) - 1 : Front(t)[i] = t[i]
  BY FrontMeans DEF Path
<1>2. /\ IsPrefix(s, t) <=> Len(s) <= Len(t) /\ \A i \in 1..Len(s) : s[i] = t[i]
      /\ IsPrefix(s, Front(t)) <=> Len(s) <= Len(t) - 1 /\ \A i \in 1..Len(s) : s[i] = Front(t)[i]
      /\ IsPrefix(Front(t), t) <=> Len(t) - 1 <= Len(t) /\ \A i \in 1..Len(t) - 1 : Front(t)[i] = t[i]
      /\ IsPrefix(t, Front(t)) => Len(t) <= Len(t) - 1
  BY <1>1, PrefixMeans
<1>3. IsPrefix(s, t) /\ Len(s) = Len(t) => s = t
  BY <1>2, SamePath
<1>4. IsPrefix(s, t) /\ Len(s) # Len(t) => IsPrefix(s, Front(t))
  BY <1>1, <1>2
<1>5. IsPrefix(s, Front(t)) => IsPrefix(s, t)
  BY <1>1, <1>2
<1>6. IsPrefix(t, t)
  BY PrefixOrder
<1> QED BY <1>1, <1>2, <1>3, <1>4, <1>5, <1>6

\* The directories and files of a project are paths.
LEMMA ScanPaths ==
  /\ Dir \subseteq Path /\ Leaf \subseteq Path /\ <<>> \in Dir /\ Dir \cap Leaf = {} /\ IsFiniteSet(Dir)
  /\ \A p \in Dir \cup Leaf : p # <<>> => Front(p) \in Dir
BY ScanAssumption DEF Path

\* Whatever is above a directory or a file is a directory.
LEMMA AboveIsDir ==
  ASSUME NEW p \in Dir \cup Leaf, NEW s \in Path, IsPrefix(s, p), s # p
  PROVE  s \in Dir
<1> DEFINE N == Len(p)
           Cut(k) == SubSeq(p, 1, N - k)
           P == {k \in 0..N : k > 0 => Cut(k) \in Dir}
<1>1. p \in Path /\ N \in Nat
  BY ScanPaths DEF Path
<1>2. \A k \in 0..N : Cut(k) \in Path /\ Len(Cut(k)) = N - k /\ \A i \in 1..(N - k) : Cut(k)[i] = p[i]
  <2> SUFFICES ASSUME NEW k \in 0..N
               PROVE  Cut(k) \in Path /\ Len(Cut(k)) = N - k /\ \A i \in 1..(N - k) : Cut(k)[i] = p[i]
    OBVIOUS
  <2>1. Cut(k) = [i \in 1..(N - k) |-> p[i]]
    BY <1>1 DEF Path
  <2>2. N - k \in Nat /\ \A i \in 1..(N - k) : p[i] \in STRING
    BY <1>1 DEF Path
  <2> HIDE DEF Cut
  <2> QED BY <2>1, <2>2 DEF Path
<1>3. Cut(0) = p
  <2>1. Cut(0) \in Path /\ Len(Cut(0)) = Len(p) /\ \A i \in 1..Len(p) : Cut(0)[i] = p[i]
    BY <1>1, <1>2
  <2> HIDE DEF Cut
  <2> QED BY <1>1, <2>1, SamePath
<1> HIDE DEF Cut
<1>4. ASSUME NEW k \in 1..N, k - 1 \in P PROVE k \in P
  <2> DEFINE q == Cut(k - 1)
  <2>1. q \in Dir \cup Leaf /\ q \in Path /\ Len(q) = N - k + 1
    <3>1. k - 1 \in 0..N /\ N - (k - 1) = N - k + 1 /\ (k - 1 = 0 \/ k - 1 > 0)
      BY <1>1
    <3>2. q \in Path /\ Len(q) = N - (k - 1)
      BY <1>2, <3>1
    <3>3. k - 1 = 0 => q = p
      BY <1>3
    <3>4. k - 1 > 0 => q \in Dir
      BY <1>4
    <3> HIDE DEF q
    <3> QED BY <3>1, <3>2, <3>3, <3>4
  <2>2. q # <<>>
    BY <1>1, <2>1 DEF Path
  <2>3. Front(q) \in Dir
    BY <2>1, <2>2, ScanPaths
  <2>4. Front(q) = Cut(k)
    <3>1. Front(q) \in Path /\ Len(Front(q)) = N - k /\ \A i \in 1..(N - k) : Front(q)[i] = q[i]
      BY <1>1, <2>1, <2>2, FrontMeans
    <3>2. Cut(k) \in Path /\ Len(Cut(k)) = N - k /\ \A i \in 1..(N - k) : Cut(k)[i] = p[i]
      BY <1>1, <1>2
    <3>3. \A i \in 1..(N - k) : q[i] = p[i]
      <4>1. k - 1 \in 0..N /\ \A i \in 1..(N - k) : i \in 1..(N - (k - 1))
        BY <1>1
      <4>2. \A i \in 1..(N - (k - 1)) : q[i] = p[i]
        BY <1>2, <4>1
      <4> HIDE DEF q
      <4> QED BY <4>1, <4>2
    <3> HIDE DEF q
    <3> QED BY <3>1, <3>2, <3>3, SamePath
  <2> QED BY <2>3, <2>4
<1>5. 0..N \subseteq P
  <2>1. 0 \in P
    BY <1>1
  <2> HIDE DEF P
  <2> QED BY <1>1, <1>4, <2>1, PlaceByPlace
<1>6. /\ Len(s) \in Nat /\ Len(s) <= N /\ \A i \in 1..Len(s) : s[i] = p[i]
  BY <1>1, PrefixMeans DEF Path
<1>7. Len(s) # N
  BY <1>1, <1>6, SamePath
<1>8. N - Len(s) \in 1..N /\ N - (N - Len(s)) = Len(s)
  BY <1>1, <1>6, <1>7
<1>9. Cut(N - Len(s)) \in Dir
  BY <1>5, <1>8
<1>10. Cut(N - Len(s)) = s
  <2>1. N - Len(s) \in 0..N
    BY <1>8
  <2>2. /\ Cut(N - Len(s)) \in Path /\ Len(Cut(N - Len(s))) = Len(s)
        /\ \A i \in 1..Len(s) : Cut(N - Len(s))[i] = p[i]
    BY <1>2, <1>8, <2>1
  <2> QED BY <1>6, <2>2, SamePath
<1> QED BY <1>9, <1>10

-----------------------------------------------------------------------------
(* The scan of a project: the ignore files in force.                       *)

\* The directories with rules that contain a path, or are it.
Above(rulesOf, d) == {a \in Dir : IsPrefix(a, d) /\ rulesOf[a] # <<>>}

\* The directories of A, those with the shortest paths first.
Listed(active, A) ==
  /\ active \in Seq(Dir) /\ ToSet(active) = A
  /\ \A i, j \in 1..Len(active) : i < j => Len(active[i]) < Len(active[j])

\* Of a list that gets longer, any part does.
LEMMA PartListed ==
  ASSUME NEW active \in Seq(Path), \A i, j \in 1..Len(active) : i < j => Len(active[i]) < Len(active[j]),
         NEW K \in SUBSET (1..Len(active)), \A k \in K : active[k] \in Dir
  PROVE  Listed(Picked(active, K), {active[k] : k \in K})
<1> DEFINE picked == Picked(active, K)
           n == Cardinality(K)
           spot == Ascending(K)
<1>1. /\ n \in Nat /\ picked \in Seq(Path) /\ Len(picked) = n /\ spot \in [1..n -> K]
      /\ \A i \in 1..n : picked[i] = active[spot[i]]
      /\ \A i, j \in 1..n : i < j => spot[i] < spot[j]
      /\ \A k \in K : \E i \in 1..n : spot[i] = k
  BY PickedRows
<1> HIDE DEF picked, n, spot
<1>2. \A i \in 1..n : spot[i] \in K /\ spot[i] \in 1..Len(active) /\ picked[i] \in Dir
  BY <1>1
<1>3. picked \in Seq(Dir) /\ DOMAIN picked = 1..n
  BY <1>1, <1>2
<1>4. ASSUME NEW i \in 1..n, NEW j \in 1..n, i < j PROVE Len(picked[i]) < Len(picked[j])
  <2>1. spot[i] < spot[j] /\ spot[i] \in 1..Len(active) /\ spot[j] \in 1..Len(active)
    BY <1>1, <1>2, <1>4
  <2>2. Len(active[spot[i]]) < Len(active[spot[j]])
    BY <2>1
  <2> QED BY <1>1, <2>2
<1>5. ToSet(picked) = {active[k] : k \in K}
  <2>1. \A k \in K : \E i \in 1..n : picked[i] = active[k]
    BY <1>1
  <2>2. ToSet(picked) = {picked[i] : i \in 1..n}
    BY <1>3 DEF ToSet
  <2>3. \A i \in 1..n : spot[i] \in K /\ picked[i] = active[spot[i]]
    BY <1>1, <1>2
  <2>4. ASSUME NEW i \in 1..n PROVE \E k \in K : picked[i] = active[k]
    BY <2>3
  <2>5. ASSUME NEW k \in K PROVE \E i \in 1..n : active[k] = picked[i]
    BY <2>1
  <2>6. {picked[i] : i \in 1..n} = {active[k] : k \in K}
    <3> DEFINE X == {picked[i] : i \in 1..n}
               Y == {active[k] : k \in K}
    <3>1. \A i \in 1..n : picked[i] \in Y
      BY ONLY <2>4
    <3>2. \A k \in K : active[k] \in X
      BY ONLY <2>5
    <3>3. X \subseteq Y
      BY ONLY <3>1
    <3>4. Y \subseteq X
      BY ONLY <3>2
    <3> HIDE DEF X, Y
    <3>5. X = Y
      BY ONLY <3>3, <3>4
    <3> QED BY <3>5 DEF X, Y
  <2> QED BY <2>2, <2>6
<1> QED BY <1>1, <1>3, <1>4, <1>5 DEF Listed, picked

\* The list of the ignore files above a directory, made from its path.
LEMMA AncestorsListed ==
  ASSUME NEW rulesOf, NEW d \in Dir
  PROVE  Listed(Ancestors(rulesOf, d), Above(rulesOf, d))
<1> DEFINE above == [k \in 1..Len(d) + 1 |-> SubSeq(d, 1, k - 1)]
           K == {k \in DOMAIN above : rulesOf[above[k]] # <<>>}
<1>1. d \in Path /\ Len(d) \in Nat
  BY ScanPaths DEF Path
<1>2. ASSUME NEW k \in 1..Len(d) + 1
      PROVE  above[k] \in Path /\ Len(above[k]) = k - 1 /\ IsPrefix(above[k], d)
  <2> DEFINE a == SubSeq(d, 1, k - 1)
  <2>1. a = [i \in 1..(k - 1) |-> d[i]]
    BY <1>1 DEF Path
  <2>2. k - 1 \in Nat /\ \A i \in 1..(k - 1) : d[i] \in STRING
    BY <1>1 DEF Path
  <2>3. above[k] = a
    OBVIOUS
  <2> HIDE DEF a, above
  <2>4. a \in Path /\ Len(a) = k - 1 /\ \A i \in 1..(k - 1) : a[i] = d[i]
    BY <2>1, <2>2 DEF Path
  <2>5. IsPrefix(a, d)
    BY <1>1, <2>4, PrefixMeans
  <2> QED BY <2>3, <2>4, <2>5
<1>3. DOMAIN above = 1..Len(d) + 1
  OBVIOUS
<1>4. above \in Seq(Path) /\ Len(above) = Len(d) + 1
  BY <1>1, <1>2
<1>5. K \subseteq 1..Len(above) /\ \A k \in K : above[k] \in Dir
  <2> SUFFICES ASSUME NEW k \in 1..Len(d) + 1 PROVE above[k] \in Dir
    BY <1>3, <1>4
  <2> HIDE DEF above
  <2>1. above[k] = d \/ above[k] \in Dir
    BY <1>2, AboveIsDir
  <2> QED BY <2>1
<1>6. {above[k] : k \in K} = Above(rulesOf, d)
  <2>1. ASSUME NEW a \in Dir, IsPrefix(a, d)
        PROVE  \E k \in 1..Len(d) + 1 : above[k] = a
    <3>1. a \in Path /\ Len(a) \in Nat /\ Len(a) <= Len(d)
      BY <1>1, <2>1, ScanPaths, PrefixMeans DEF Path
    <3>2. Len(a) + 1 \in 1..Len(d) + 1
      BY <1>1, <3>1
    <3>3. above[Len(a) + 1] \in Path /\ Len(above[Len(a) + 1]) = Len(a) /\ IsPrefix(above[Len(a) + 1], d)
      BY <1>2, <3>1, <3>2
    <3> HIDE DEF above
    <3>4. above[Len(a) + 1] = a
      BY <1>1, <2>1, <3>1, <3>3, PrefixOrder
    <3> QED BY <3>2, <3>4
  <2>2. \A k \in 1..Len(d) + 1 : IsPrefix(above[k], d)
    BY <1>2
  <2>3. K = {k \in 1..Len(d) + 1 : rulesOf[above[k]] # <<>>}
    BY <1>3
  <2> HIDE DEF above
  <2>4. ASSUME NEW k \in K PROVE above[k] \in Above(rulesOf, d)
    BY <1>5, <2>2, <2>3 DEF Above
  <2>5. ASSUME NEW a \in Above(rulesOf, d) PROVE \E k \in K : a = above[k]
    BY <2>1, <2>3 DEF Above
  <2> HIDE DEF K
  <2> QED BY <2>4, <2>5
<1>7. \A i, j \in 1..Len(above) : i < j => Len(above[i]) < Len(above[j])
  <2> SUFFICES ASSUME NEW i \in 1..Len(above), NEW j \in 1..Len(above), i < j
               PROVE  Len(above[i]) < Len(above[j])
    OBVIOUS
  <2>1. Len(above[i]) = i - 1 /\ Len(above[j]) = j - 1
    BY <1>2, <1>4
  <2> HIDE DEF above
  <2> QED BY <1>1, <1>4, <2>1
<1>8. Ancestors(rulesOf, d) = Picked(above, K)
  BY DEF Ancestors
<1> HIDE DEF above, K
<1>9. Listed(Picked(above, K), {above[k] : k \in K})
  BY <1>4, <1>5, <1>7, PartListed
<1> QED BY <1>6, <1>8, <1>9

\* Cut back to those that contain the directory visited, and with its own ignore
\* file, the list is again that of the directories above.
LEMMA ActivatedListed ==
  ASSUME NEW rulesOf, NEW active, NEW A \in SUBSET Dir, Listed(active, A), NEW d \in Dir,
         {a \in A : IsPrefix(a, d)} = Above(rulesOf, d) \ {d}
  PROVE  Listed(Activated(rulesOf, active, d), Above(rulesOf, d))
<1> DEFINE K == {k \in DOMAIN active : IsPrefix(active[k], d)}
           still == StillActive(active, d)
           added == IF rulesOf[d] = <<>> THEN <<>> ELSE <<d>>
<1>1. /\ active \in Seq(Dir) /\ ToSet(active) = A /\ DOMAIN active = 1..Len(active)
      /\ \A i, j \in 1..Len(active) : i < j => Len(active[i]) < Len(active[j])
  BY DEF Listed
<1>2. active \in Seq(Path) /\ K \subseteq 1..Len(active) /\ \A k \in K : active[k] \in Dir
  BY <1>1, ScanPaths
<1>3. still = Picked(active, K)
  BY DEF StillActive
<1>4. {active[k] : k \in K} = Above(rulesOf, d) \ {d}
  <2>1. \A a \in A : \E k \in DOMAIN active : active[k] = a
    BY <1>1 DEF ToSet
  <2>2. \A k \in DOMAIN active : active[k] \in A
    BY <1>1 DEF ToSet
  <2>3. {active[k] : k \in K} = {a \in A : IsPrefix(a, d)}
    BY <2>1, <2>2
  <2> QED BY <2>3
<1> HIDE DEF K
<1>5. Listed(still, Above(rulesOf, d) \ {d})
  BY <1>1, <1>2, <1>3, <1>4, PartListed
<1> HIDE DEF still
<1>6. /\ still \in Seq(Dir) /\ Len(still) \in Nat /\ ToSet(still) = Above(rulesOf, d) \ {d}
      /\ \A i, j \in 1..Len(still) : i < j => Len(still[i]) < Len(still[j])
  BY <1>5 DEF Listed
<1>7. added \in Seq(Dir) /\ ToSet(added) = Above(rulesOf, d) \cap {d} /\ Len(added) \in {0, 1} /\ \A i \in 1..Len(added) : added[i] = d
  <2>1. d \in Path /\ IsPrefix(d, d)
    BY ScanPaths, PrefixOrder
  <2>2. CASE rulesOf[d] = <<>>
    BY <2>2 DEF Above, ToSet
  <2>3. CASE rulesOf[d] # <<>>
    <3>1. added = <<d>>
      BY <2>3
    <3>2. <<d>> \in Seq(Dir) /\ DOMAIN <<d>> = {1} /\ Len(<<d>>) = 1 /\ <<d>>[1] = d
      OBVIOUS
    <3>3. Above(rulesOf, d) \cap {d} = {d}
      BY <2>1, <2>3 DEF Above
    <3>4. ToSet(<<d>>) = {d}
      BY <3>2 DEF ToSet
    <3> QED BY <3>1, <3>2, <3>3, <3>4
  <2> QED BY <2>2, <2>3
<1>8. Activated(rulesOf, active, d) = still \o added
  BY DEF Activated, still
<1> HIDE DEF added
<1>9. /\ still \o added \in Seq(Dir) /\ Len(still \o added) = Len(still) + Len(added)
      /\ \A i \in 1..Len(still) : (still \o added)[i] = still[i]
      /\ \A i \in 1..Len(added) : (still \o added)[Len(still) + i] = added[i]
      /\ ToSet(still \o added) = ToSet(still) \cup ToSet(added)
  BY <1>6, <1>7, JoinedRows
<1>10. \A i \in 1..Len(still) : Len(still[i]) < Len(d)
  <2> SUFFICES ASSUME NEW i \in 1..Len(still) PROVE Len(still[i]) < Len(d)
    OBVIOUS
  <2>1. still[i] \in Above(rulesOf, d) \ {d}
    <3>1. i \in DOMAIN still
      BY <1>6
    <3> QED BY <1>6, <3>1 DEF ToSet
  <2>2. still[i] \in Path /\ d \in Path /\ IsPrefix(still[i], d) /\ still[i] # d
    BY <2>1, ScanPaths DEF Above
  <2>3. Len(still[i]) \in Nat /\ Len(d) \in Nat /\ Len(still[i]) <= Len(d)
    BY <2>2, PrefixMeans DEF Path
  <2>4. Len(still[i]) # Len(d)
    BY <2>2, PrefixOrder
  <2> QED BY <2>3, <2>4
<1>11. ASSUME NEW i \in 1..Len(still \o added), NEW j \in 1..Len(still \o added), i < j
       PROVE  Len((still \o added)[i]) < Len((still \o added)[j])
  <2>1. i \in 1..Len(still) /\ (j \in 1..Len(still) \/ j = Len(still) + 1)
    BY <1>6, <1>7, <1>9, <1>11
  <2>2. CASE j \in 1..Len(still)
    BY <1>6, <1>9, <1>11, <2>1, <2>2
  <2>3. CASE j = Len(still) + 1
    <3>1. (still \o added)[j] = d
      BY <1>6, <1>7, <1>9, <2>3
    <3> QED BY <1>9, <1>10, <2>1, <3>1
  <2> QED BY <2>1, <2>2, <2>3
<1>12. ToSet(still) \cup ToSet(added) = Above(rulesOf, d)
  BY <1>6, <1>7
<1> QED BY <1>8, <1>9, <1>11, <1>12 DEF Listed

\* Two lists of the same directories decide alike.
LEMMA OneDecision ==
  ASSUME NEW rulesOf, NEW d \in Dir, NEW path, NEW s, Listed(s, Above(rulesOf, d)), NEW t, Listed(t, Above(rulesOf, d))
  PROVE  Decision(rulesOf, s, path) = Decision(rulesOf, t, path)
<1> DEFINE Decided(u) == {k \in DOMAIN u : VerdictOf(rulesOf, u[k], path) # "none"}
<1>1. ASSUME NEW u, Listed(u, Above(rulesOf, d))
      PROVE  /\ DOMAIN u = 1..Len(u) /\ Len(u) \in Nat /\ ToSet(u) = Above(rulesOf, d)
             /\ \A k \in DOMAIN u : u[k] \in Above(rulesOf, d)
             /\ \A a \in Above(rulesOf, d) : \E k \in DOMAIN u : u[k] = a
             /\ \A i, j \in DOMAIN u : i < j => Len(u[i]) < Len(u[j])
             /\ Decided(u) # {} => Max(Decided(u)) \in Decided(u) /\ \A k \in Decided(u) : k <= Max(Decided(u))
  <2>1. /\ DOMAIN u = 1..Len(u) /\ Len(u) \in Nat /\ ToSet(u) = Above(rulesOf, d)
        /\ \A i, j \in 1..Len(u) : i < j => Len(u[i]) < Len(u[j])
    BY <1>1 DEF Listed
  <2>2. /\ \A k \in DOMAIN u : u[k] \in Above(rulesOf, d)
        /\ \A a \in Above(rulesOf, d) : \E k \in DOMAIN u : u[k] = a
    BY <2>1 DEF ToSet
  <2>3. Decided(u) \subseteq 1..Len(u) /\ Decided(u) \subseteq Int
    BY <2>1
  <2>4. IsFiniteSet(Decided(u))
    <3>1. 1 \in Int /\ Len(u) \in Int
      BY <2>1
    <3>2. IsFiniteSet(1..Len(u))
      BY <3>1, FS_Interval
    <3> QED BY <2>3, <3>2, FS_Subset
  <2>5. Decided(u) # {} => Max(Decided(u)) \in Decided(u) /\ \A k \in Decided(u) : k <= Max(Decided(u))
    <3> HIDE DEF Decided
    <3> QED BY <2>3, <2>4, LeastAndGreatest
  <2> QED BY <2>1, <2>2, <2>5
<1>2. \A u : Decision(rulesOf, u, path) =
             IF Decided(u) = {} THEN "none" ELSE VerdictOf(rulesOf, u[Max(Decided(u))], path)
  BY DEF Decision
<1>3. ASSUME NEW u, Listed(u, Above(rulesOf, d)), NEW v, Listed(v, Above(rulesOf, d)), Decided(u) # {}
      PROVE  Decided(v) # {} /\ Len(u[Max(Decided(u))]) <= Len(v[Max(Decided(v))])
  <2> DEFINE k == Max(Decided(u))
             l == Max(Decided(v))
  <2>1. k \in Decided(u) /\ u[k] \in Above(rulesOf, d) /\ VerdictOf(rulesOf, u[k], path) # "none"
    BY <1>1, <1>3
  <2> HIDE DEF k
  <2>2. PICK m \in DOMAIN v : v[m] = u[k]
    BY <1>1, <1>3, <2>1
  <2>3. m \in Decided(v)
    BY <2>1, <2>2
  <2>4. l \in Decided(v) /\ m <= l /\ m \in DOMAIN v /\ l \in DOMAIN v
    BY <1>1, <1>3, <2>3
  <2> HIDE DEF l, Decided
  <2>5. m \in Int /\ l \in Int
    BY <1>1, <1>3, <2>4
  <2>6. Len(v[m]) <= Len(v[l])
    <3>1. m = l \/ m < l
      BY <2>4, <2>5
    <3>2. v[m] \in Path /\ v[l] \in Path
      BY <1>1, <1>3, <2>4, ScanPaths DEF Above
    <3>3. Len(v[m]) \in Nat /\ Len(v[l]) \in Nat
      BY <3>2 DEF Path
    <3>4. m < l => Len(v[m]) < Len(v[l])
      BY <1>1, <1>3, <2>4
    <3> QED BY <3>1, <3>3, <3>4
  <2> QED BY <2>2, <2>3, <2>6 DEF k, l
<1>4. CASE Decided(s) = {}
  <2>1. Decided(t) = {}
    <3> HIDE DEF Decided
    <3> QED BY <1>3, <1>4
  <2> QED BY <1>2, <1>4, <2>1
<1>5. CASE Decided(s) # {}
  <2> DEFINE a == s[Max(Decided(s))]
             b == t[Max(Decided(t))]
  <2>1. Decided(t) # {} /\ Len(a) <= Len(b)
    <3> HIDE DEF Decided
    <3> QED BY <1>3, <1>5
  <2>2. Len(b) <= Len(a)
    <3> HIDE DEF Decided
    <3> QED BY <1>3, <2>1
  <2>3. a \in Above(rulesOf, d) /\ b \in Above(rulesOf, d)
    BY <1>1, <1>5, <2>1
  <2> HIDE DEF a, b, Decided
  <2>4. a \in Path /\ b \in Path /\ d \in Path /\ IsPrefix(a, d) /\ IsPrefix(b, d)
    BY <2>3, ScanPaths DEF Above
  <2>5. Len(a) = Len(b)
    <3>1. Len(a) \in Nat /\ Len(b) \in Nat
      BY <2>4 DEF Path
    <3> QED BY <2>1, <2>2, <3>1
  <2>6. a = b
    BY <2>4, <2>5, PrefixOrder
  <2> QED BY <1>2, <1>5, <2>1, <2>6 DEF a, b
<1> QED BY <1>4, <1>5

-----------------------------------------------------------------------------
(* The scan of a project: the walk.                                        *)

\* What is entered and taken, by the ignore files above.
EntersHere(d) == Enters(d, Ancestors(git, Front(d)), Ancestors(swamp, Front(d)))
TakesHere(f) == Takes(f, Ancestors(git, Front(f)), Ancestors(swamp, Front(f)))

\* The walk gets to a directory or file if all directories on the way are entered.
OnTheWay(p) == \A d \in Dir \ {<<>>} : IsPrefix(d, p) => EntersHere(d)

\* After a visit of v, the lists are those of the directories above it, and the next
\* directories lie beside the way to it, or below it.
WalkedTo(v) ==
  /\ v \in Dir
  /\ Listed(activeSwamp, Above(swamp, v))
  /\ options.gitignore => Listed(activeGit, Above(git, v))
  /\ \A i \in DOMAIN walk :
       walk[i] # <<>> /\ IsPrefix(Front(walk[i]), v) /\ ~IsPrefix(walk[i], v)

NotBegun == walk = <<<<>>>> /\ activeGit = <<>> /\ activeSwamp = <<>> /\ found = {}

ScanInv ==
  /\ walk \in Seq(Dir) /\ activeGit \in Seq(Dir) /\ activeSwamp \in Seq(Dir) /\ found \subseteq Leaf
  /\ ~options.gitignore => activeGit = <<>>
  /\ NotBegun \/ \E v \in Dir : WalkedTo(v)
  /\ \A i, j \in DOMAIN walk : i < j => walk[i] # walk[j] /\ IsPrefix(Front(walk[j]), Front(walk[i]))
  /\ \A i \in DOMAIN walk : OnTheWay(walk[i])
  /\ \A f \in found : Wanted(f)
  /\ \A f \in Leaf : Wanted(f) => f \in found \/ \E i \in DOMAIN walk : IsPrefix(walk[i], Front(f))

\* A file is wanted if the walk gets to it and takes it.
LEMMA WantedMeans ==
  ASSUME NEW f
  PROVE  Wanted(f) <=> TakesHere(f) /\ OnTheWay(f)
BY DEF Wanted, TakesHere, OnTheWay, EntersHere

\* Lists of the same directories let in the same.
LEMMA SameLists ==
  ASSUME NEW d \in Dir, NEW gits, NEW swamps, Listed(swamps, Above(swamp, d)),
         options.gitignore => Listed(gits, Above(git, d)), NEW p
  PROVE  /\ Enters(p, gits, swamps) <=> Enters(p, Ancestors(git, d), Ancestors(swamp, d))
         /\ Takes(p, gits, swamps) <=> Takes(p, Ancestors(git, d), Ancestors(swamp, d))
<1>1. Listed(Ancestors(git, d), Above(git, d)) /\ Listed(Ancestors(swamp, d), Above(swamp, d))
  BY AncestorsListed
<1>2. Decision(swamp, swamps, p) = Decision(swamp, Ancestors(swamp, d), p)
  BY <1>1, OneDecision
<1>3. options.gitignore => Decision(git, gits, p) = Decision(git, Ancestors(git, d), p)
  BY <1>1, OneDecision
<1>4. GitDecision(gits, p) = GitDecision(Ancestors(git, d), p)
  BY <1>3 DEF GitDecision
<1>5. Ignored(p, gits, swamps) <=> Ignored(p, Ancestors(git, d), Ancestors(swamp, d))
  BY <1>2, <1>4 DEF Ignored
<1> QED BY <1>5 DEF Enters, Takes

LEMMA ScanStarts == ScanInit => ScanInv
<1> SUFFICES ASSUME ScanInit PROVE ScanInv
  OBVIOUS
<1>1. walk = <<<<>>>> /\ activeGit = <<>> /\ activeSwamp = <<>> /\ found = {} /\ NotBegun
  BY DEF ScanInit, NotBegun
<1>2. walk \in Seq(Dir) /\ activeGit \in Seq(Dir) /\ activeSwamp \in Seq(Dir) /\ DOMAIN walk = {1} /\ walk[1] = <<>>
  BY <1>1, ScanPaths
<1>3. OnTheWay(<<>>)
  <2>1. <<>> \in Path
    BY ScanPaths
  <2>2. \A d \in Dir : IsPrefix(d, <<>>) => d = <<>>
    BY <2>1, ScanPaths, PrefixOrder
  <2> QED BY <2>2 DEF OnTheWay
<1>4. \A f \in Leaf : IsPrefix(<<>>, Front(f))
  <2> SUFFICES ASSUME NEW f \in Leaf PROVE IsPrefix(<<>>, Front(f))
    OBVIOUS
  <2>1. f # <<>> /\ Front(f) \in Path /\ <<>> \in Path
    BY ScanPaths
  <2>2. Len(<<>>) = 0 /\ Len(Front(f)) \in Nat
    BY <2>1 DEF Path
  <2> QED BY <2>1, <2>2, PrefixMeans
<1> QED BY <1>1, <1>2, <1>3, <1>4 DEF ScanInv

\* The lists at the visit of a directory are those of the directories above it.
LEMMA ListsAtVisit ==
  ASSUME ScanInv, walk # <<>>, NEW gits, NEW swamps,
         swamps = Activated(swamp, activeSwamp, Head(walk)),
         gits = IF options.gitignore THEN Activated(git, activeGit, Head(walk)) ELSE activeGit
  PROVE  /\ Listed(swamps, Above(swamp, Head(walk)))
         /\ options.gitignore => Listed(gits, Above(git, Head(walk)))
<1> DEFINE d == Head(walk)
<1>1. d \in Dir /\ d = walk[1] /\ 1 \in DOMAIN walk /\ d \in Path
  BY ScanPaths DEF ScanInv
<1>2. ASSUME NEW rulesOf, NEW v \in Dir, d # <<>>, IsPrefix(Front(d), v), ~IsPrefix(d, v)
      PROVE  {a \in Above(rulesOf, v) : IsPrefix(a, d)} = Above(rulesOf, d) \ {d}
  <2>1. v \in Path /\ Front(d) \in Path /\ Above(rulesOf, v) \subseteq Dir
    BY <1>1, <1>2, ScanPaths DEF Above
  <2>2. ASSUME NEW a \in Dir
        PROVE  IsPrefix(a, v) /\ IsPrefix(a, d) <=> IsPrefix(a, d) /\ a # d
    <3>1. a \in Path
      BY ScanPaths
    <3>2. IsPrefix(a, d) <=> a = d \/ IsPrefix(a, Front(d))
      BY <1>1, <1>2, <3>1, PrefixOfFront
    <3>3. IsPrefix(a, Front(d)) => IsPrefix(a, v)
      BY <1>2, <2>1, <3>1, PrefixOrder
    <3> QED BY <1>2, <3>2, <3>3
  <2> HIDE DEF d
  <2> QED BY <2>2 DEF Above
<1>3. CASE NotBegun
  <2>1. d = <<>>
    BY <1>3 DEF NotBegun
  <2>2. ASSUME NEW rulesOf PROVE {a \in {} : IsPrefix(a, d)} = Above(rulesOf, d) \ {d}
    <3>1. \A a \in Dir : IsPrefix(a, <<>>) => a = <<>>
      <4>1. <<>> \in Path
        BY ScanPaths
      <4> QED BY <4>1, ScanPaths, PrefixOrder
    <3> QED BY <2>1, <3>1 DEF Above
  <2>3. Listed(<<>>, {})
    <3>1. <<>> \in Seq(Dir) /\ DOMAIN <<>> = {} /\ Len(<<>>) = 0
      OBVIOUS
    <3>2. ToSet(<<>>) = {}
      BY <3>1 DEF ToSet
    <3> QED BY <3>1, <3>2 DEF Listed
  <2> HIDE DEF d
  <2>4. ASSUME NEW rulesOf PROVE Listed(Activated(rulesOf, <<>>, d), Above(rulesOf, d))
    <3>1. {} \in SUBSET Dir
      OBVIOUS
    <3> QED BY <1>1, <2>2, <2>3, <3>1, ActivatedListed
  <2> QED BY <1>3, <2>4 DEF NotBegun, d
<1>4. ASSUME NEW v \in Dir, WalkedTo(v)
      PROVE  /\ Listed(swamps, Above(swamp, Head(walk)))
             /\ options.gitignore => Listed(gits, Above(git, Head(walk)))
  <2>1. d # <<>> /\ IsPrefix(Front(d), v) /\ ~IsPrefix(d, v)
    BY <1>1, <1>4 DEF WalkedTo
  <2>2. Above(swamp, v) \in SUBSET Dir /\ Above(git, v) \in SUBSET Dir
    BY DEF Above
  <2> HIDE DEF d
  <2>3. {a \in Above(swamp, v) : IsPrefix(a, d)} = Above(swamp, d) \ {d}
    BY <1>2, <2>1
  <2>4. {a \in Above(git, v) : IsPrefix(a, d)} = Above(git, d) \ {d}
    BY <1>2, <2>1
  <2>5. Listed(activeSwamp, Above(swamp, v)) /\ (options.gitignore => Listed(activeGit, Above(git, v)))
    BY <1>4 DEF WalkedTo
  <2>6. Listed(Activated(swamp, activeSwamp, d), Above(swamp, d))
    BY <1>1, <2>2, <2>3, <2>5, ActivatedListed
  <2>7. options.gitignore => Listed(Activated(git, activeGit, d), Above(git, d))
    BY <1>1, <2>2, <2>4, <2>5, ActivatedListed
  <2> QED BY <2>6, <2>7 DEF d
<1> QED BY <1>3, <1>4 DEF ScanInv

\* Between a directory and what lies below it there is a next directory.
LEMMA NextOnTheWay ==
  ASSUME NEW d \in Path, NEW p \in Path, IsPrefix(d, p), d # p
  PROVE  \E b \in Path : b # <<>> /\ Front(b) = d /\ IsPrefix(b, p)
<1> DEFINE n == Len(d)
           b == SubSeq(p, 1, n + 1)
<1>1. n \in Nat /\ Len(p) \in Nat /\ n <= Len(p) /\ \A i \in 1..n : d[i] = p[i]
  BY PrefixMeans DEF Path
<1>2. n # Len(p)
  BY <1>1, SamePath
<1>3. b = [i \in 1..n + 1 |-> p[i]]
  BY <1>1, <1>2 DEF Path
<1>4. n + 1 \in Nat /\ \A i \in 1..n + 1 : p[i] \in STRING
  BY <1>1, <1>2 DEF Path
<1>5. b \in Path /\ Len(b) = n + 1 /\ \A i \in 1..n + 1 : b[i] = p[i]
  <2> HIDE DEF b
  <2> QED BY <1>3, <1>4 DEF Path
<1> HIDE DEF b
<1>6. b # <<>>
  BY <1>1, <1>5
<1>7. IsPrefix(b, p)
  BY <1>1, <1>2, <1>5, PrefixMeans
<1>8. Front(b) = d
  <2>1. Front(b) \in Path /\ Len(Front(b)) = n /\ \A i \in 1..n : Front(b)[i] = b[i]
    <3>1. /\ Front(b) \in Path /\ Len(Front(b)) = Len(b) - 1
          /\ \A i \in 1..Len(b) - 1 : Front(b)[i] = b[i]
      BY <1>5, <1>6, FrontMeans
    <3>2. Len(b) - 1 = n
      BY <1>1, <1>5
    <3> QED BY <3>1, <3>2
  <2>2. \A i \in 1..n : b[i] = d[i]
    BY <1>1, <1>5
  <2> QED BY <2>1, <2>2, SamePath
<1> QED BY <1>5, <1>6, <1>7, <1>8

\* What the rules want does not change during a walk.
LEMMA RulesStay ==
  ASSUME UNCHANGED <<git, swamp, global, included, options>>, NEW p
  PROVE  /\ EntersHere(p)' <=> EntersHere(p)
         /\ OnTheWay(p)' <=> OnTheWay(p)
         /\ TakesHere(p)' <=> TakesHere(p)
         /\ Wanted(p)' <=> Wanted(p)
<1>1. \A q : EntersHere(q)' <=> EntersHere(q)
  BY DEF EntersHere, Enters, Forced, Ignored, GitDecision, GlobalVerdict
<1>2. OnTheWay(p)' <=> OnTheWay(p)
  BY <1>1 DEF OnTheWay
<1>3. TakesHere(p)' <=> TakesHere(p)
  BY DEF TakesHere, Takes, Forced, Ignored, GitDecision, GlobalVerdict
<1>4. Wanted(p)' <=> TakesHere(p)' /\ OnTheWay(p)'
  BY DEF Wanted, TakesHere, OnTheWay, EntersHere
<1> QED BY <1>1, <1>2, <1>3, <1>4, WantedMeans

\* The directories still to visit lie beside the one visited.
LEMMA RestOfWalk ==
  ASSUME ScanInv, walk # <<>>, NEW j \in DOMAIN walk, j # 1
  PROVE  /\ walk[j] \in Dir /\ walk[j] # <<>> /\ walk[1] # <<>>
         /\ walk[j] # walk[1] /\ IsPrefix(Front(walk[j]), Front(walk[1]))
         /\ IsPrefix(Front(walk[j]), walk[1]) /\ ~IsPrefix(walk[j], walk[1])
<1> DEFINE d == walk[1]
           e == walk[j]
<1>1. 1 \in DOMAIN walk /\ 1 < j /\ d \in Dir /\ e \in Dir /\ DOMAIN walk = 1..Len(walk)
  BY DEF ScanInv
<1>2. e # d /\ IsPrefix(Front(e), Front(d))
  <2>1. walk[1] # walk[j] /\ IsPrefix(Front(walk[j]), Front(walk[1]))
    BY <1>1 DEF ScanInv
  <2> QED BY <2>1
<1>3. ~NotBegun
  BY <1>1 DEF NotBegun
<1>4. PICK v \in Dir : WalkedTo(v)
  BY <1>3 DEF ScanInv
<1>5. d # <<>> /\ e # <<>> /\ IsPrefix(Front(d), v) /\ ~IsPrefix(e, v)
  BY <1>1, <1>4 DEF WalkedTo
<1> HIDE DEF d, e
<1>6. d \in Path /\ e \in Path /\ v \in Path /\ Front(d) \in Path /\ Front(e) \in Path
  BY <1>1, <1>5, ScanPaths
<1>7. /\ IsPrefix(e, d) <=> e = d \/ IsPrefix(e, Front(d))
      /\ IsPrefix(Front(d), d)
  BY <1>5, <1>6, PrefixOfFront
<1>8. IsPrefix(Front(e), d)
  BY <1>2, <1>6, <1>7, PrefixOrder
<1>9. ~IsPrefix(e, Front(d))
  BY <1>5, <1>6, PrefixOrder
<1> QED BY <1>1, <1>2, <1>5, <1>7, <1>8, <1>9 DEF d, e

LEMMA VisitKeeps ==
  ASSUME ScanInv, Visit, NEW d, d = Head(walk)
  PROVE  ScanInv'
<1> DEFINE gits == IF options.gitignore THEN Activated(git, activeGit, d) ELSE activeGit
           swamps == Activated(swamp, activeSwamp, d)
           taken == {f \in Within(Leaf, d) : Takes(f, gits, swamps)}
           S == {e \in Within(Dir, d) : Enters(e, gits, swamps)}
<1>1. /\ walk # <<>> /\ activeGit' = gits /\ activeSwamp' = swamps /\ found' = found \cup taken
      /\ UNCHANGED <<git, swamp, global, included, options>>
  BY DEF Visit
<1>2. PICK sub \in SetToSeqs(S) : walk' = sub \o Tail(walk)
  BY DEF Visit
<1>3. /\ d = walk[1] /\ d \in Dir /\ 1 \in DOMAIN walk /\ d \in Path
      /\ DOMAIN walk = 1..Len(walk) /\ Len(walk) \in Nat /\ Len(walk) > 0
  BY <1>1, ScanPaths DEF ScanInv
<1>4. Listed(swamps, Above(swamp, d)) /\ (options.gitignore => Listed(gits, Above(git, d)))
  BY <1>1, ListsAtVisit
<1> HIDE DEF gits, swamps
<1>5. \A p : /\ Enters(p, gits, swamps) <=> Enters(p, Ancestors(git, d), Ancestors(swamp, d))
             /\ Takes(p, gits, swamps) <=> Takes(p, Ancestors(git, d), Ancestors(swamp, d))
  BY <1>3, <1>4, SameLists
<1>6. \A e : e \in S <=> e \in Dir /\ e # <<>> /\ Front(e) = d /\ EntersHere(e)
  BY <1>5 DEF Within, EntersHere
<1>7. \A f : f \in taken <=> f \in Leaf /\ f # <<>> /\ Front(f) = d /\ TakesHere(f)
  BY <1>5 DEF Within, TakesHere
<1> HIDE DEF taken, S
<1>8. IsFiniteSet(S)
  BY <1>6, ScanPaths, FS_Subset
<1> DEFINE n == Len(sub)
           rest == Tail(walk)
<1>9. /\ sub \in Seq(S) /\ ToSet(sub) = S /\ n \in Nat /\ DOMAIN sub = 1..n
      /\ \A i, j \in 1..n : i # j => sub[i] # sub[j]
  <2>1. sub \in Seq(S) /\ ToSet(sub) = S
    BY <1>2, <1>8, EachOnce
  <2>2. Cardinality(S) \in Nat /\ sub \in [1..Cardinality(S) -> S] /\ \A i, j \in 1..Cardinality(S) : i # j => sub[i] # sub[j]
    BY <1>2, <1>8, FS_CardinalityType DEF SetToSeqs
  <2>3. n = Cardinality(S)
    BY <2>1, <2>2
  <2> QED BY <2>1, <2>2, <2>3
<1>10. /\ rest \in Seq(Dir) /\ Len(rest) = Len(walk) - 1
       /\ \A i \in 1..Len(walk) - 1 : rest[i] = walk[i + 1]
  BY <1>1, HeadAndTail DEF ScanInv
<1>11. sub \in Seq(Dir)
  BY <1>6, <1>9
<1>12. /\ walk' \in Seq(Dir) /\ Len(walk') = n + Len(rest)
       /\ \A i \in 1..n : walk'[i] = sub[i]
       /\ \A i \in 1..Len(rest) : walk'[n + i] = rest[i]
       /\ DOMAIN walk' = 1..Len(walk')
  BY <1>2, <1>10, <1>11, JoinedRows
<1> HIDE DEF n, rest
\* A directory to visit is below the one visited, or was to be visited before.
<1>13. ASSUME NEW i \in DOMAIN walk'
       PROVE  \/ i \in 1..n /\ walk'[i] = sub[i] /\ sub[i] \in S
              \/ i > n /\ i - n + 1 \in DOMAIN walk /\ i - n + 1 # 1 /\ walk'[i] = walk[i - n + 1]
  <2>1. i \in 1..n \/ (i > n /\ i - n \in 1..Len(rest) /\ i = n + (i - n))
    BY <1>3, <1>9, <1>10, <1>12, <1>13
  <2>2. CASE i \in 1..n
    BY <1>9, <1>12, <2>2
  <2>3. CASE i > n /\ i - n \in 1..Len(rest) /\ i = n + (i - n)
    <3>1. walk'[i] = rest[i - n]
      BY <1>12, <2>3
    <3>2. rest[i - n] = walk[i - n + 1] /\ i - n + 1 \in 1..Len(walk) /\ i - n + 1 # 1
      BY <1>3, <1>9, <1>10, <2>3
    <3> QED BY <1>3, <2>3, <3>1, <3>2
  <2> QED BY <2>1, <2>2, <2>3
<1>14. ASSUME NEW e \in S
       PROVE  e \in Path /\ e # <<>> /\ Front(e) = d /\ IsPrefix(d, d) /\ ~IsPrefix(e, d)
  <2>1. e \in Path /\ e # <<>> /\ Front(e) = d
    BY <1>6, <1>14, ScanPaths
  <2> QED BY <1>3, <2>1, PrefixOfFront, PrefixOrder
<1>15. ASSUME NEW j \in DOMAIN walk, j # 1
       PROVE  /\ walk[j] \in Dir /\ walk[j] # <<>> /\ d # <<>> /\ walk[j] # d
              /\ IsPrefix(Front(walk[j]), d) /\ ~IsPrefix(walk[j], d)
              /\ Front(walk[j]) # d
  <2>1. /\ walk[j] \in Dir /\ walk[j] # <<>> /\ d # <<>>
        /\ walk[j] # d /\ IsPrefix(Front(walk[j]), Front(d))
        /\ IsPrefix(Front(walk[j]), d) /\ ~IsPrefix(walk[j], d)
    BY <1>1, <1>3, <1>15, RestOfWalk
  <2>2. ~IsPrefix(d, Front(d))
    BY <1>3, <2>1, PrefixOfFront
  <2> QED BY <2>1, <2>2
<1>16. activeGit' \in Seq(Dir) /\ activeSwamp' \in Seq(Dir) /\ (~options.gitignore => activeGit' = <<>>)
  <2>1. activeSwamp' \in Seq(Dir) /\ (options.gitignore => activeGit' \in Seq(Dir))
    BY <1>1, <1>4 DEF Listed
  <2>2. ~options.gitignore => activeGit' = activeGit
    BY <1>1 DEF gits
  <2> QED BY <2>1, <2>2 DEF ScanInv
<1>17. WalkedTo(d)'
  <2>1. Above(swamp, d)' = Above(swamp, d) /\ Above(git, d)' = Above(git, d)
    BY <1>1 DEF Above
  <2>2. ASSUME NEW i \in DOMAIN walk'
        PROVE  walk'[i] # <<>> /\ IsPrefix(Front(walk'[i]), d) /\ ~IsPrefix(walk'[i], d)
    BY <1>13, <1>14, <1>15
  <2>3. Listed(activeSwamp', Above(swamp, d)) /\ (options.gitignore => Listed(activeGit', Above(git, d)))
    BY <1>1, <1>4
  <2>4. Listed(activeSwamp', Above(swamp, d)') /\ (options'.gitignore => Listed(activeGit', Above(git, d)'))
    BY <1>1, <2>1, <2>3
  <2> QED BY <1>3, <2>2, <2>4 DEF WalkedTo
<1>18. ASSUME NEW i \in DOMAIN walk', NEW j \in DOMAIN walk', i < j
       PROVE  walk'[i] # walk'[j] /\ IsPrefix(Front(walk'[j]), Front(walk'[i]))
  <2>0. i \in Int /\ j \in Int /\ n \in Nat
    BY <1>9, <1>12
  <2>1. CASE i \in 1..n /\ j \in 1..n
    <3>1. walk'[i] = sub[i] /\ walk'[j] = sub[j] /\ sub[i] \in S /\ sub[j] \in S /\ sub[i] # sub[j]
      BY <1>9, <1>13, <1>18, <2>0, <2>1
    <3> QED BY <1>14, <3>1
  <2>2. CASE i \in 1..n /\ j > n
    <3>1. walk'[i] = sub[i] /\ sub[i] \in S /\ j - n + 1 \in DOMAIN walk /\ j - n + 1 # 1 /\ walk'[j] = walk[j - n + 1]
      BY <1>13, <2>0, <2>2
    <3>2. Front(walk'[i]) = d /\ IsPrefix(Front(walk'[j]), d) /\ Front(walk'[j]) # d
      BY <1>14, <1>15, <3>1
    <3> QED BY <3>2
  <2>3. CASE i > n /\ j > n
    <3>1. /\ i - n + 1 \in DOMAIN walk /\ walk'[i] = walk[i - n + 1]
          /\ j - n + 1 \in DOMAIN walk /\ walk'[j] = walk[j - n + 1]
          /\ i - n + 1 < j - n + 1
      BY <1>13, <1>18, <2>0, <2>3
    <3> QED BY <3>1 DEF ScanInv
  <2>4. ~(j \in 1..n /\ i > n)
    BY <1>18, <2>0
  <2> QED BY <1>13, <2>1, <2>2, <2>3, <2>4
<1>19. OnTheWay(d)
  BY <1>3 DEF ScanInv
<1>20. \A i \in DOMAIN walk' : OnTheWay(walk'[i])
  <2> SUFFICES ASSUME NEW i \in DOMAIN walk' PROVE OnTheWay(walk'[i])
    OBVIOUS
  <2>1. ASSUME NEW e \in S PROVE OnTheWay(e)
    <3>1. e \in Path /\ e # <<>> /\ Front(e) = d /\ EntersHere(e)
      BY <1>6, <1>14, <2>1
    <3>2. \A a \in Dir : IsPrefix(a, e) => a = e \/ IsPrefix(a, d)
      BY <3>1, PrefixOfFront, ScanPaths
    <3> QED BY <1>19, <3>1, <3>2 DEF OnTheWay
  <2>2. \A j \in DOMAIN walk : OnTheWay(walk[j])
    BY DEF ScanInv
  <2> QED BY <1>13, <2>1, <2>2
<1>21. \A f \in found' : f \in Leaf /\ Wanted(f)
  <2>1. ASSUME NEW f \in taken PROVE f \in Leaf /\ Wanted(f)
    <3>1. f \in Leaf /\ f \in Path /\ f # <<>> /\ Front(f) = d /\ TakesHere(f)
      BY <1>7, <2>1, ScanPaths
    <3>2. \A a \in Dir : IsPrefix(a, f) => a = f \/ IsPrefix(a, d)
      BY <3>1, PrefixOfFront, ScanPaths
    <3>3. f \notin Dir
      BY <3>1, ScanPaths
    <3>4. OnTheWay(f)
      BY <1>19, <3>2, <3>3 DEF OnTheWay
    <3> QED BY <3>1, <3>4, WantedMeans
  <2> QED BY <1>1, <2>1 DEF ScanInv
<1>22. ASSUME NEW f \in Leaf, Wanted(f)
       PROVE  f \in found' \/ \E i \in DOMAIN walk' : IsPrefix(walk'[i], Front(f))
  <2>1. f \in Path /\ f # <<>> /\ Front(f) \in Dir /\ Front(f) \in Path /\ f \notin Dir
    BY <1>22, ScanPaths
  <2>2. CASE f \in found
    BY <1>1, <2>2
  <2>3. ASSUME NEW i \in DOMAIN walk, i # 1, IsPrefix(walk[i], Front(f))
        PROVE  \E k \in DOMAIN walk' : IsPrefix(walk'[k], Front(f))
    <3>1. i - 1 \in 1..Len(rest) /\ rest[i - 1] = walk[i]
      BY <1>3, <1>10, <2>3
    <3>2. n + (i - 1) \in DOMAIN walk' /\ walk'[n + (i - 1)] = walk[i]
      <4> DEFINE m == i - 1
      <4>1. m \in 1..Len(rest) /\ rest[m] = walk[i] /\ Len(rest) \in Nat /\ m \in Nat
        BY <1>3, <1>10, <3>1
      <4> HIDE DEF m
      <4>2. walk'[n + m] = rest[m] /\ n + m \in 1..(n + Len(rest))
        BY <1>9, <1>12, <4>1
      <4> QED BY <1>12, <4>1, <4>2 DEF m
    <3> QED BY <2>3, <3>2
  <2>4. CASE d = Front(f)
    <3>1. TakesHere(f)
      BY <1>22, WantedMeans
    <3>2. f \in taken
      BY <1>7, <2>1, <2>4, <3>1
    <3> QED BY <1>1, <3>2
  <2>5. CASE d # Front(f) /\ IsPrefix(d, Front(f))
    <3>1. PICK b \in Path : b # <<>> /\ Front(b) = d /\ IsPrefix(b, Front(f))
      BY <1>3, <2>1, <2>5, NextOnTheWay
    <3>2. b \in Dir
      BY <2>1, <3>1, AboveIsDir
    <3>3. IsPrefix(b, f)
      BY <2>1, <3>1, PrefixOfFront
    <3>4. EntersHere(b)
      BY <1>22, <3>1, <3>2, <3>3, WantedMeans DEF OnTheWay
    <3>5. b \in S
      BY <1>6, <3>1, <3>2, <3>4
    <3>6. PICK k \in DOMAIN sub : sub[k] = b
      BY <1>9, <3>5 DEF ToSet
    <3>7. k \in DOMAIN walk' /\ walk'[k] = b
      BY <1>9, <1>10, <1>12, <3>6
    <3> QED BY <3>1, <3>7
  <2>6. f \in found \/ \E i \in DOMAIN walk : IsPrefix(walk[i], Front(f))
    BY <1>22 DEF ScanInv
  <2> QED BY <1>3, <2>2, <2>3, <2>4, <2>5, <2>6
<1>23. \A p : (OnTheWay(p)' <=> OnTheWay(p)) /\ (Wanted(p)' <=> Wanted(p))
  BY <1>1, RulesStay
<1>24. \A i \in DOMAIN walk' : OnTheWay(walk[i])'
  <2>1. \A p : OnTheWay(p) <=> OnTheWay(p)'
    BY <1>23
  <2> QED BY <1>20, <1>23 DEF OnTheWay
<1>25. \A f \in found' : Wanted(f)'
  BY <1>21, <1>23
<1>26. \A f \in Leaf : Wanted(f)' => f \in found' \/ \E i \in DOMAIN walk' : IsPrefix(walk'[i], Front(f))
  BY <1>22, <1>23
<1>27. found' \subseteq Leaf
  BY <1>21
<1>28. ~options'.gitignore => activeGit' = <<>>
  BY <1>1, <1>16
<1> QED BY <1>3, <1>12, <1>16, <1>17, <1>18, <1>24, <1>25, <1>26, <1>27, <1>28 DEF ScanInv

-----------------------------------------------------------------------------
(* The scan of a project: what is found.                                   *)

LEMMA ScanStep == ScanInv /\ [ScanNext]_scanVars => ScanInv'
<1> SUFFICES ASSUME ScanInv, [ScanNext]_scanVars PROVE ScanInv'
  OBVIOUS
<1>1. CASE Visit
  BY <1>1, VisitKeeps
<1>2. CASE UNCHANGED scanVars
  <2>1. UNCHANGED <<git, swamp, global, included, options>> /\ UNCHANGED <<walk, activeGit, activeSwamp, found>>
    BY <1>2 DEF scanVars
  <2>2. \A p : (OnTheWay(p)' <=> OnTheWay(p)) /\ (Wanted(p)' <=> Wanted(p))
    BY <2>1, RulesStay
  <2>3. \A v : (WalkedTo(v)' <=> WalkedTo(v)) /\ (NotBegun' <=> NotBegun)
    BY <2>1 DEF WalkedTo, Above, NotBegun
  <2>4. \A f \in found' : Wanted(f)'
    BY <2>1, <2>2 DEF ScanInv
  <2>5. \A f \in Leaf : Wanted(f)' => f \in found' \/ \E i \in DOMAIN walk' : IsPrefix(walk'[i], Front(f))
    BY <2>1, <2>2 DEF ScanInv
  <2>6. \A i \in DOMAIN walk' : OnTheWay(walk[i])'
    BY <2>1, <2>2 DEF ScanInv, OnTheWay, EntersHere, Enters, Forced, Ignored, GitDecision, GlobalVerdict
  <2>7. NotBegun' \/ \E v \in Dir : WalkedTo(v)'
    BY <2>3 DEF ScanInv
  <2> QED BY <2>1, <2>4, <2>5, <2>6, <2>7 DEF ScanInv
<1> QED BY <1>1, <1>2 DEF ScanNext

\* A file whose rules leave it to .swampcastleignore is kept by one of those.
LEMMA KeptBySwamp ==
  ASSUME NEW f \in Leaf, Wanted(f), ~Forced(f), GlobalVerdict(f) = "ignore"
  PROVE  \E d \in Dir : VerdictOf(swamp, d, f) = "keep"
<1> DEFINE v == Front(f)
           active == Ancestors(swamp, v)
           decided == {k \in DOMAIN active : VerdictOf(swamp, active[k], f) # "none"}
           says == Decision(swamp, active, f)
           three == <<says, "ignore", GitDecision(Ancestors(git, v), f)>>
<1>1. v \in Dir /\ Listed(active, Above(swamp, v))
  <2>1. v \in Dir
    BY ScanPaths
  <2> QED BY <2>1, AncestorsListed
<1>2. ~FirstSays(three)
  BY WantedMeans DEF TakesHere, Takes, Ignored
<1> HIDE DEF v, active
<1>3. says # "none" /\ says # "ignore"
  <2>1. DOMAIN three = {1, 2, 3} /\ three[1] = says /\ three[2] = "ignore"
    OBVIOUS
  <2> HIDE DEF three, says
  <2>2. says # "ignore"
    <3>1. \A l \in 1..1 - 1 : three[l] = "none"
      OBVIOUS
    <3> QED BY <1>2, <2>1, <3>1 DEF FirstSays
  <2>3. says # "none"
    <3>1. ASSUME says = "none" PROVE \A l \in 1..2 - 1 : three[l] = "none"
      BY <2>1, <3>1
    <3> QED BY <1>2, <2>1, <3>1 DEF FirstSays
  <2> QED BY <2>2, <2>3
<1>4. decided # {} /\ says = VerdictOf(swamp, active[Max(decided)], f)
  BY <1>3 DEF Decision
<1>5. Max(decided) \in DOMAIN active
  <2>1. active \in Seq(Dir) /\ DOMAIN active = 1..Len(active) /\ Len(active) \in Nat
    BY <1>1 DEF Listed
  <2>2. IsFiniteSet(1..Len(active))
    <3>1. 1 \in Int /\ Len(active) \in Int
      BY <2>1
    <3> QED BY <3>1, FS_Interval
  <2>3. decided \subseteq 1..Len(active)
    BY <2>1
  <2> HIDE DEF decided
  <2>4. decided \in SUBSET Int /\ IsFiniteSet(decided)
    <3>1. decided \in SUBSET Int
      BY <2>1, <2>3
    <3> QED BY <2>2, <2>3, <3>1, FS_Subset
  <2> QED BY <1>4, <2>1, <2>3, <2>4, LeastAndGreatest
<1>6. active[Max(decided)] \in Dir
  BY <1>1, <1>5 DEF Listed
<1>7. says \in {"none", "keep", "ignore"}
  BY <1>4 DEF VerdictOf, Verdict
<1> QED BY <1>3, <1>4, <1>6, <1>7

\* A file that was named is wanted.
LEMMA NamedIsWanted ==
  ASSUME NEW f \in Leaf, f \in included \ Refused
  PROVE  Wanted(f)
<1>1. f \in Path /\ IsPrefix(f, f)
  BY ScanPaths, PrefixOrder
<1>2. Forced(f) /\ \A d \in Dir : IsPrefix(d, f) => Forced(d)
  BY <1>1 DEF Forced
<1> QED BY <1>2 DEF Wanted, Takes, Enters

\* For any project, rules and order of the walk: the files found are those that the
\* ignore files above them let in, with all that were named.
THEOREM ScansAreSound == ScanSpec => [](ScanTypeOK /\ ScanSound)
<1>1. ScanInv => ScanTypeOK
  BY DEF ScanInv, ScanTypeOK
<1>2. ScanInv => FindsTheWanted
  <2> SUFFICES ASSUME ScanInv, walk = <<>> PROVE found = {f \in Leaf : Wanted(f)}
    BY DEF FindsTheWanted
  <2>1. DOMAIN walk = {}
    OBVIOUS
  <2> QED BY <2>1 DEF ScanInv
<1>3. ScanInv => IncludedIsFound
  BY <1>2, NamedIsWanted DEF FindsTheWanted, IncludedIsFound
<1>4. ScanInv => SwampOverGit
  BY KeptBySwamp DEF ScanInv, SwampOverGit
<1> QED BY <1>1, <1>2, <1>3, <1>4, ScanStarts, ScanStep, PTL DEF ScanSpec, ScanSound

-----------------------------------------------------------------------------
(* Trackers: how far the counts go.                                        *)

Counted(entries) == \A r \in Repo : entries[r].failures <= StaleAfter

\* No count of failures exceeds StaleAfter, wherever it is held; a setting is 0 or
\* 1 outside an emptied file; a text is one of as many as there were events.
TrackersBounds ==
  /\ Counted(config.entries) /\ (config # Torn => config.setting \in 0..1)
  /\ Counted(sweep.entry)
  /\ sweep.pc \in {"empty", "save"} => Counted(sweep.holds.entries) /\ sweep.holds.setting \in 0..1
  /\ user.pc # "off" => Counted(user.holds.entries) /\ user.holds.setting \in 0..1
  /\ events \in 0..MaxEvents
  /\ \A r \in Repo : forge[r].text \in 0..events + 1 /\ decision[r] \in 0..events + 1

LEMMA CountedAtFirst == Counted(Torn.entries) /\ Counted(Resting.entry)
BY TrackersAssumption DEF Counted, Torn, Resting, Unregistered

LEMMA BoundsInit == TrackersInit => TrackersBounds
<1> SUFFICES ASSUME TrackersInit PROVE TrackersBounds
  OBVIOUS
<1>1. /\ config = [entries |-> [r \in Repo |-> Unregistered], setting |-> 0] /\ sweep = Resting /\ user = NoCommand
      /\ events = 0 /\ decision = [r \in Repo |-> 0]
  BY DEF TrackersInit
<1>2. \A r \in Repo : forge[r].text = 1
  <2>1. forge \in [Repo -> {[gone |-> FALSE, closed |-> c, text |-> 1, decided |-> c] : c \in BOOLEAN}]
    BY DEF TrackersInit
  <2>2. ASSUME NEW r \in Repo PROVE forge[r].text = 1
    <3>1. PICK c \in BOOLEAN : forge[r] = [gone |-> FALSE, closed |-> c, text |-> 1, decided |-> c]
      BY <2>1
    <3> QED BY <3>1
  <2> QED BY <2>2
<1>3. Counted(config.entries) /\ config.setting = 0
  BY <1>1, TrackersAssumption DEF Counted, Unregistered
<1>4. sweep.pc = "off" /\ user.pc = "off"
  BY <1>1 DEF Resting, NoCommand
<1> QED BY <1>1, <1>2, <1>3, <1>4, CountedAtFirst, TrackersAssumption DEF TrackersBounds

\* Steps of the sweep.
LEMMA SweepBounds ==
  ASSUME TrackersInv, TrackersBounds, StartSweep \/ SweepStep
  PROVE  TrackersBounds'
<1>1. UNCHANGED <<forge, user, events>> /\ sweep \in Sweeping /\ config \in Config
  BY DEF StartSweep, SweepStep, Fetch, FileDecision, LoadForUpdate, EmptyForUpdate, SaveUpdate, EndSweep,
         TrackersInv, TrackersTypes
<1>2. CASE StartSweep \/ EndSweep
  <2>1. UNCHANGED <<config, decision>> /\ sweep'.pc \in {"off", "entry"} /\ sweep'.entry \in {config.entries, Resting.entry}
    <3>1. CASE StartSweep
      <4>1. /\ sweep' = [Resting EXCEPT !.pc = "entry", !.entry = config.entries,
                           !.left = {r \in Repo : config.entries[r].state # "none"}]
            /\ UNCHANGED <<config, decision>>
        BY <3>1 DEF StartSweep
      <4>2. Resting \in Sweeping
        BY Records
      <4> QED BY <4>1, <4>2 DEF Sweeping
    <3>2. CASE EndSweep
      <4>1. sweep' = Resting /\ UNCHANGED <<config, decision>> /\ Resting.pc = "off"
        BY <3>2 DEF EndSweep, Resting
      <4> QED BY <4>1
    <3> QED BY <1>2, <3>1, <3>2
  <2> QED BY <1>1, <2>1, CountedAtFirst DEF TrackersBounds
<1>3. ASSUME NEW r \in Repo, Fetch(r) PROVE TrackersBounds'
  <2>1. sweep.pc = "entry" /\ UNCHANGED <<config, decision>>
    BY <1>3 DEF Fetch
  <2>3. \/ sweep' = [sweep EXCEPT !.left = @ \ {r}]
        \/ sweep' = [sweep EXCEPT !.left = @ \ {r}, !.repo = r, !.pc = "comments",
                      !.seen = [closed |-> forge[r].closed, text |-> forge[r].text]]
        \/ sweep' = Resting
        \/ \E failure \in {"gone", "transient"} :
             sweep' = [sweep EXCEPT !.left = @ \ {r}, !.repo = r, !.pc = "load", !.outcome = failure]
    BY <1>3, Zenon DEF Fetch
  <2>4. sweep' = Resting \/ (sweep'.pc \in {"entry", "comments", "load"} /\ sweep'.entry = sweep.entry)
    <3>1. CASE sweep' = [sweep EXCEPT !.left = @ \ {r}]
      BY <1>1, <2>1, <3>1 DEF Sweeping
    <3>2. CASE sweep' = [sweep EXCEPT !.left = @ \ {r}, !.repo = r, !.pc = "comments",
                      !.seen = [closed |-> forge[r].closed, text |-> forge[r].text]]
      BY <1>1, <3>2 DEF Sweeping
    <3>3. ASSUME NEW failure \in {"gone", "transient"},
                 sweep' = [sweep EXCEPT !.left = @ \ {r}, !.repo = r, !.pc = "load", !.outcome = failure]
          PROVE  sweep'.pc = "load" /\ sweep'.entry = sweep.entry
      BY <1>1, <3>3 DEF Sweeping
    <3> QED BY <2>3, <3>1, <3>2, <3>3
  <2>2. Resting.pc = "off"
    BY DEF Resting
  <2> QED BY <1>1, <2>1, <2>2, <2>4, CountedAtFirst DEF TrackersBounds
<1>4. CASE FileDecision
  <2>1. sweep.repo \in Repo /\ UNCHANGED config
    BY <1>4 DEF FileDecision, TrackersInv, TrackersTypes
  <2>2. sweep' = Resting \/ (sweep'.pc = "load" /\ sweep'.entry = sweep.entry)
    <3>1. sweep' = Resting \/ \E ending \in {"ok", "gone"} : sweep' = [sweep EXCEPT !.pc = "load", !.outcome = ending]
      BY <1>4, Zenon DEF FileDecision
    <3>2. ASSUME NEW ending \in {"ok", "gone"}, sweep' = [sweep EXCEPT !.pc = "load", !.outcome = ending]
          PROVE  sweep'.pc = "load" /\ sweep'.entry = sweep.entry
      BY <1>1, <3>2 DEF Sweeping
    <3>3. CASE sweep' # Resting
      <4>1. PICK ending \in {"ok", "gone"} : sweep' = [sweep EXCEPT !.pc = "load", !.outcome = ending]
        BY <3>1, <3>3
      <4> QED BY <3>2, <4>1
    <3> QED BY <3>3
  <2>3. Resting.pc = "off"
    BY DEF Resting
  <2>4. decision' = decision \/ decision' = [decision EXCEPT ![sweep.repo] = forge[sweep.repo].text]
    BY <1>4 DEF FileDecision
  <2>5. \A r \in Repo : decision'[r] \in 0..events + 1
    BY <2>1, <2>4 DEF TrackersBounds, TrackersInv, TrackersTypes
  <2> QED BY <1>1, <2>1, <2>2, <2>3, <2>5, CountedAtFirst DEF TrackersBounds
<1>5. CASE LoadForUpdate
  <2> DEFINE r == sweep.repo
             was == config.entries[r]
             renewed == [state |-> IF StateAfter(Count) = "stale" THEN "stale" ELSE was.state, failures |-> Count]
             next == IF was = Unregistered THEN was ELSE renewed
             holds == [config EXCEPT !.entries[r] = next]
  <2>1. r \in Repo /\ UNCHANGED <<config, decision>>
    BY <1>5 DEF LoadForUpdate, TrackersInv, TrackersTypes
  <2>2. CASE config = Torn
    <3>1. sweep' = Resting
      BY <1>5, <2>2 DEF LoadForUpdate
    <3> QED BY <1>1, <2>1, <3>1, CountedAtFirst DEF TrackersBounds, Resting
  <2>3. CASE config # Torn
    <3>1. sweep' = [sweep EXCEPT !.pc = "empty", !.holds = holds]
      BY <1>5, <2>3 DEF LoadForUpdate
    <3>2. was.failures <= StaleAfter /\ Count <= StaleAfter
      <4>1. sweep.entry[r].failures \in Nat
        BY <1>1, <2>1 DEF Sweeping, EntryKept
      <4> QED BY <2>1, <4>1, TrackersAssumption DEF TrackersBounds, Counted, Count, AtMost
    <3>3. next.failures <= StaleAfter
      BY <3>2
    <3> HIDE DEF next
    <3>4. holds.entries = [config.entries EXCEPT ![r] = next] /\ holds.setting = config.setting
      BY <1>1 DEF Config
    <3> HIDE DEF holds, r
    <3>5. Counted(holds.entries) /\ holds.setting \in 0..1
      BY <1>1, <2>3, <3>3, <3>4 DEF TrackersBounds, Counted, Config
    <3>6. sweep'.pc = "empty" /\ sweep'.holds = holds /\ sweep'.entry = sweep.entry
      BY <1>1, <3>1 DEF Sweeping
    <3> QED BY <1>1, <2>1, <3>5, <3>6 DEF TrackersBounds
  <2> QED BY <2>2, <2>3
<1>6. CASE EmptyForUpdate
  <2>1. config' = Torn /\ UNCHANGED decision /\ sweep.pc = "empty" /\ sweep'.entry = sweep.entry /\ sweep'.holds = sweep.holds
    BY <1>1, <1>6 DEF EmptyForUpdate, Sweeping
  <2> QED BY <1>1, <2>1, CountedAtFirst DEF TrackersBounds
<1>7. CASE SaveUpdate
  <2>1. sweep.pc = "save" /\ config' = sweep.holds /\ UNCHANGED decision /\ sweep'.entry = sweep.entry /\ sweep'.pc = "entry"
    BY <1>1, <1>7 DEF SaveUpdate, Sweeping
  <2> QED BY <1>1, <2>1 DEF TrackersBounds
<1> QED BY <1>2, <1>3, <1>4, <1>5, <1>6, <1>7 DEF SweepStep

\* Steps of the user, of the forge, and deaths.
LEMMA OtherBounds ==
  ASSUME TrackersInv, TrackersBounds,
         \/ UserStep \/ TokenExpires \/ TokenRefreshed \/ Dies
         \/ \E r \in Repo : \/ \E op \in {"register", "remove", "wizard"} : Command(op, r)
                            \/ TicketChanges(r) \/ RepoGoes(r)
  PROVE  TrackersBounds'
<1>1. sweep \in Sweeping /\ config \in Config /\ user \in Commanding /\ forge \in [Repo -> Forged]
  BY DEF TrackersInv, TrackersTypes
<1>2. CASE EmptyForCommand
  <2>1. UNCHANGED <<sweep, forge, decision, events>> /\ config' = Torn /\ user.pc = "empty" /\ user'.holds = user.holds
    BY <1>1, <1>2 DEF EmptyForCommand, Commanding
  <2> QED BY <2>1, CountedAtFirst DEF TrackersBounds
<1>3. CASE SaveCommand
  <2>1. /\ UNCHANGED <<sweep, forge, decision, events>> /\ config' = user.holds /\ user.pc = "save" /\ user'.pc = "off"
    BY <1>3 DEF SaveCommand, NoCommand
  <2> QED BY <2>1 DEF TrackersBounds
<1>4. CASE TokenExpires \/ TokenRefreshed
  <2>1. UNCHANGED <<config, sweep, user, forge, decision, events>>
    BY <1>4 DEF TokenExpires, TokenRefreshed
  <2> QED BY <2>1 DEF TrackersBounds
<1>5. CASE Dies
  <2>1. /\ UNCHANGED <<config, forge, decision, events>>
        /\ \/ sweep' = Resting /\ UNCHANGED user
           \/ user' = NoCommand /\ UNCHANGED sweep
    BY <1>5 DEF Dies
  <2>2. Resting.pc = "off" /\ NoCommand.pc = "off"
    BY DEF Resting, NoCommand
  <2> QED BY <2>1, <2>2, CountedAtFirst DEF TrackersBounds
<1>6. ASSUME NEW r \in Repo, NEW op \in {"register", "remove", "wizard"}, Command(op, r) PROVE TrackersBounds'
  <2> DEFINE holds == user'.holds
  <2>1. UNCHANGED <<config, sweep, forge, decision, events>> /\ config # Torn /\ config.setting \in 0..1
    BY <1>6 DEF Command, TrackersBounds
  <2>2. /\ op = "register" => holds = [config EXCEPT !.entries[r] = Fresh]
        /\ op = "remove" => holds = [config EXCEPT !.entries[r] = Unregistered]
        /\ op = "wizard" => holds = [config EXCEPT !.setting = 1 - @]
    BY <1>6 DEF Command
  <2> HIDE DEF holds
  <2>3. /\ op = "register" => holds.entries = [config.entries EXCEPT ![r] = Fresh] /\ holds.setting = config.setting
        /\ op = "remove" => holds.entries = [config.entries EXCEPT ![r] = Unregistered] /\ holds.setting = config.setting
        /\ op = "wizard" => holds.entries = config.entries /\ holds.setting = 1 - config.setting
    BY <1>1, <2>2 DEF Config
  <2>4. holds.setting \in 0..1
    BY <2>1, <2>3
  <2>5. Fresh.failures <= StaleAfter /\ Unregistered.failures <= StaleAfter
    BY TrackersAssumption DEF Fresh, Unregistered
  <2>6. config.entries \in [Repo -> EntryKept]
    BY <1>1 DEF Config
  <2>7. Counted(holds.entries)
    BY <2>3, <2>5, <2>6 DEF TrackersBounds, Counted
  <2> QED BY <2>1, <2>4, <2>7 DEF TrackersBounds, holds
<1>7. ASSUME NEW r \in Repo, TicketChanges(r) PROVE TrackersBounds'
  <2>1. UNCHANGED <<config, sweep, user, decision>> /\ events < MaxEvents /\ events' = events + 1
    BY <1>7 DEF TicketChanges
  <2>2. \A q \in Repo : forge'[q].text \in {forge[q].text, forge[q].text + 1}
    <3>1. PICK closed \in BOOLEAN :
            forge' = [forge EXCEPT ![r].closed = closed, ![r].text = @ + 1, ![r].decided = @ \/ closed]
      BY <1>7 DEF TicketChanges
    <3>2. \A q \in Repo \ {r} : forge'[q] = forge[q]
      BY <1>1, <3>1
    <3>3. forge'[r] = [forge[r] EXCEPT !.closed = closed, !.text = @ + 1, !.decided = @ \/ closed]
      BY <1>1, <3>1
    <3>4. forge'[r].text = forge[r].text + 1
      BY <1>1, <3>3 DEF Forged
    <3> QED BY <3>2, <3>4
  <2>3. events' \in 0..MaxEvents /\ \A q \in Repo : forge'[q].text \in 0..events' + 1 /\ decision[q] \in 0..events' + 1
    BY <2>1, <2>2, TrackersAssumption DEF TrackersBounds
  <2> QED BY <2>1, <2>3 DEF TrackersBounds
<1>8. ASSUME NEW r \in Repo, RepoGoes(r) PROVE TrackersBounds'
  <2>1. UNCHANGED <<config, sweep, user, decision, events>>
    BY <1>8 DEF RepoGoes
  <2>2. \A q \in Repo : forge'[q].text = forge[q].text
    BY <1>1, <1>8 DEF RepoGoes, Forged
  <2> QED BY <2>1, <2>2 DEF TrackersBounds
<1> QED BY <1>2, <1>3, <1>4, <1>5, <1>6, <1>7, <1>8 DEF UserStep

LEMMA BoundsStep == TrackersInv /\ TrackersBounds /\ [TrackersNext]_trackerVars => TrackersBounds'
<1> SUFFICES ASSUME TrackersInv, TrackersBounds, [TrackersNext]_trackerVars PROVE TrackersBounds'
  OBVIOUS
<1>1. CASE UNCHANGED trackerVars
  BY <1>1 DEF trackerVars, TrackersBounds
<1>2. CASE TrackersNext
  BY <1>2, SweepBounds, OtherBounds DEF TrackersNext
<1> QED BY <1>1, <1>2

LEMMA BoundsAreTyped == TrackersInv /\ TrackersBounds => TrackersTypeOK
<1> SUFFICES ASSUME TrackersInv, TrackersBounds PROVE TrackersTypeOK
  OBVIOUS
<1>1. sweep \in Sweeping /\ config \in Config /\ user \in Commanding /\ decision \in [Repo -> Nat]
  BY DEF TrackersInv, TrackersTypes
<1>2. \A r \in Repo : config.entries[r] \in [state : {"none", "active", "stale"}, failures : 0..StaleAfter]
  BY <1>1, TrackersAssumption DEF TrackersBounds, Counted, Config, EntryKept
<1>3. config.entries \in [Repo -> [state : {"none", "active", "stale"}, failures : 0..StaleAfter]]
  BY <1>1, <1>2 DEF Config
<1>4. config.setting \in -1..1 /\ (config.setting = -1 => config = Torn)
  BY DEF TrackersBounds, Torn
<1>5. \A r \in Repo : decision[r] \in 0..MaxEvents + 1
  BY TrackersAssumption DEF TrackersBounds
<1>6. decision \in [Repo -> 0..MaxEvents + 1]
  BY <1>1, <1>5
<1> QED BY <1>1, <1>3, <1>4, <1>6 DEF TrackersTypeOK, Sweeping, Commanding

LEMMA RegistryInvIsTyped == RegistryInv => RegistryTypeOK
<1> SUFFICES ASSUME RegistryInv PROVE RegistryTypeOK
  OBVIOUS
<1>1. RegistryTypes
  BY DEF RegistryInv
<1>2. \A d \in Data : Datum(d)
  BY DEF Data, Source, Datum
<1>3. file \in Data /\ whole \in Data /\ \A s \in Session : mind[s] \in Data
  BY <1>1 DEF RegistryTypes
<1> QED BY <1>1, <1>2, <1>3 DEF RegistryTypes, RegistryTypeOK

-----------------------------------------------------------------------------
(* SyncPaging: what a part of the rows is, and what an upsert makes of     *)
(* them.                                                                   *)

\* No id is in two rows; the rows are in the order of their ids.
OneRowEach(s) == \A i, j \in 1..Len(s) : s[i].id = s[j].id => i = j
IdsAscend(s) == \A i, j \in 1..Len(s) : i < j => s[i].id < s[j].id

LEMMA IdsAreNumbers == \A v \in Version : v.id \in Nat /\ v.id \in Id /\ v.node \in Node /\ v.seq \in Nat /\ v.seq > 0 /\ v.ts \in Nat
<1> SUFFICES ASSUME NEW v \in Version
             PROVE  /\ v.id \in Nat /\ v.id \in Id /\ v.node \in Node /\ v.seq \in Nat /\ v.seq > 0 /\ v.ts \in Nat
  OBVIOUS
<1>1. v.id \in Id /\ v.node \in Node /\ v.seq \in Nat \ {0} /\ v.ts \in Nat
  BY DEF Version
<1>2. Id \subseteq Nat
  BY PagingAssumption
<1>3. v.id \in Nat
  BY <1>1, <1>2
<1>4. \A n \in Nat \ {0} : n \in Nat /\ n > 0
  OBVIOUS
<1> QED BY ONLY <1>1, <1>3, <1>4

LEMMA AscendingOnce == \A s \in Seq(Version) : IdsAscend(s) => OneRowEach(s)
<1> SUFFICES ASSUME NEW s \in Seq(Version), IdsAscend(s), NEW i \in 1..Len(s), NEW j \in 1..Len(s), s[i].id = s[j].id
             PROVE  i = j
  BY DEF OneRowEach
<1>1. s[i].id \in Nat /\ s[j].id \in Nat /\ i \in Nat /\ j \in Nat
  BY IdsAreNumbers
<1>2. (i < j => s[i].id < s[j].id) /\ (j < i => s[j].id < s[i].id)
  BY DEF IdsAscend
<1> QED BY <1>1, <1>2

\* Rows picked at some places.
LEMMA PartOfRows ==
  ASSUME NEW s \in Seq(Version), NEW K \in SUBSET (1..Len(s))
  PROVE  LET p == Picked(s, K)
         IN /\ p \in Seq(Version) /\ Len(p) \in Nat /\ ToSet(p) = {s[k] : k \in K}
            /\ OneRowEach(s) => OneRowEach(p)
            /\ IdsAscend(s) => IdsAscend(p)
<1> DEFINE p == Picked(s, K)
           n == Cardinality(K)
           spot == Ascending(K)
<1>1. /\ n \in Nat /\ p \in Seq(Version) /\ Len(p) = n /\ spot \in [1..n -> K]
      /\ \A i \in 1..n : p[i] = s[spot[i]]
      /\ \A i, j \in 1..n : i < j => spot[i] < spot[j]
      /\ \A k \in K : \E i \in 1..n : spot[i] = k
  BY PickedRows
<1> HIDE DEF p, n, spot
<1>2. \A i \in 1..n : spot[i] \in K /\ spot[i] \in 1..Len(s) /\ spot[i] \in Nat
  <2>1. \A k \in K : k \in 1..Len(s) /\ k \in Nat
    OBVIOUS
  <2>2. \A i \in 1..n : spot[i] \in K
    BY <1>1
  <2> QED BY ONLY <2>1, <2>2
<1>3. ToSet(p) = {s[k] : k \in K}
  <2> DEFINE X == {p[i] : i \in 1..n}
             Y == {s[k] : k \in K}
  <2>1. ToSet(p) = X
    BY <1>1 DEF ToSet
  <2>2. ASSUME NEW i \in 1..n PROVE p[i] \in Y
    BY <1>1, <1>2
  <2>3. ASSUME NEW k \in K PROVE s[k] \in X
    <3>1. PICK i \in 1..n : spot[i] = k
      BY <1>1
    <3>2. p[i] = s[k]
      BY <1>1, <3>1
    <3> QED BY <3>2
  <2>4. X \subseteq Y
    BY ONLY <2>2
  <2>5. Y \subseteq X
    BY ONLY <2>3
  <2> HIDE DEF X, Y
  <2>6. X = Y
    BY <2>4, <2>5
  <2> QED BY <2>1, <2>6 DEF Y
<1>4. ASSUME OneRowEach(s) PROVE OneRowEach(p)
  <2> SUFFICES ASSUME NEW i \in 1..n, NEW j \in 1..n, p[i].id = p[j].id PROVE i = j
    BY <1>1 DEF OneRowEach
  <2>1. spot[i] = spot[j]
    BY <1>1, <1>2, <1>4 DEF OneRowEach
  <2>2. (i < j => spot[i] < spot[j]) /\ (j < i => spot[j] < spot[i])
    BY <1>1
  <2> QED BY <1>2, <2>1, <2>2
<1>5. ASSUME IdsAscend(s) PROVE IdsAscend(p)
  <2> SUFFICES ASSUME NEW i \in 1..n, NEW j \in 1..n, i < j PROVE p[i].id < p[j].id
    BY <1>1 DEF IdsAscend
  <2> QED BY <1>1, <1>2, <1>5 DEF IdsAscend
<1> QED BY <1>1, <1>3, <1>4, <1>5 DEF p

\* Rows of lesser ids before rows of greater ones.
LEMMA AscendingJoined ==
  ASSUME NEW s \in Seq(Version), NEW t \in Seq(Version), IdsAscend(s), IdsAscend(t),
         \A q \in ToSet(s), r \in ToSet(t) : q.id < r.id
  PROVE  IdsAscend(s \o t)
<1> DEFINE u == s \o t
           n == Len(s)
           m == Len(t)
<1>1. /\ n \in Nat /\ m \in Nat /\ Len(u) = n + m /\ u \in Seq(Version)
      /\ \A i \in 1..n : u[i] = s[i]
      /\ \A i \in 1..m : u[n + i] = t[i]
  BY JoinedRows
<1>2. (\A i \in 1..n : s[i] \in ToSet(s)) /\ \A i \in 1..m : t[i] \in ToSet(t)
  BY DEF ToSet
<1> HIDE DEF u
<1> SUFFICES ASSUME NEW i \in 1..n + m, NEW j \in 1..n + m, i < j PROVE u[i].id < u[j].id
  <2>1. Len(u) = n + m
    BY <1>1
  <2> HIDE DEF n, m
  <2> QED BY <2>1 DEF IdsAscend, u
<1>3. CASE j <= n
  BY <1>1, <1>3 DEF IdsAscend
<1>4. CASE i > n
  <2>1. i - n \in 1..m /\ j - n \in 1..m /\ i - n < j - n /\ n + (i - n) = i /\ n + (j - n) = j
    BY <1>1, <1>4
  <2>2. t[i - n].id < t[j - n].id
    BY <2>1 DEF IdsAscend
  <2> QED BY <1>1, <2>1, <2>2
<1>5. CASE i <= n /\ j > n
  <2>1. j - n \in 1..m /\ n + (j - n) = j /\ i \in 1..n
    BY <1>1, <1>5
  <2> QED BY <1>1, <1>2, <2>1
<1> QED BY <1>1, <1>3, <1>4, <1>5

\* An upsert leaves one row of the id, the new one, and the other rows; ordered by
\* id they stay so.
LEMMA RowsAfterPut ==
  ASSUME NEW s \in Seq(Version), NEW r \in Version, OneRowEach(s), OrderedById => IdsAscend(s)
  PROVE  /\ Put(s, r) \in Seq(Version) /\ OneRowEach(Put(s, r)) /\ (OrderedById => IdsAscend(Put(s, r)))
         /\ ToSet(Put(s, r)) = {q \in ToSet(s) : q.id # r.id} \cup {r}
<1> DEFINE L == {k \in DOMAIN s : s[k].id < r.id}
           G == {k \in DOMAIN s : s[k].id > r.id}
           O == {k \in DOMAIN s : s[k].id # r.id}
           one == <<r>>
<1>1. DOMAIN s = 1..Len(s) /\ Len(s) \in Nat /\ \A k \in 1..Len(s) : s[k] \in Version /\ s[k].id \in Nat
  BY IdsAreNumbers
<1>2. L \in SUBSET (1..Len(s)) /\ G \in SUBSET (1..Len(s)) /\ O \in SUBSET (1..Len(s)) /\ r.id \in Nat
  BY <1>1, IdsAreNumbers
<1>3. ToSet(s) = {s[k] : k \in DOMAIN s}
  BY DEF ToSet
<1>4. one \in Seq(Version) /\ Len(one) = 1 /\ ToSet(one) = {r} /\ IdsAscend(one) /\ one[1] = r
  BY DEF ToSet, IdsAscend
<1>5. CASE OrderedById
  <2> DEFINE a == Below(s, r.id)
             b == Beyond(s, r.id)
             ab == a \o one
  <2>1. a \in Seq(Version) /\ ToSet(a) = {s[k] : k \in L} /\ IdsAscend(a)
    BY <1>2, <1>5, PartOfRows DEF Below
  <2>2. b \in Seq(Version) /\ ToSet(b) = {s[k] : k \in G} /\ IdsAscend(b)
    BY <1>2, <1>5, PartOfRows DEF Beyond
  <2>3. (\A q \in ToSet(a) : q.id < r.id) /\ \A q \in ToSet(b) : r.id < q.id
    BY <2>1, <2>2, <1>1, <1>2
  <2>4. (\A q \in ToSet(a) : q \in Version) /\ \A q \in ToSet(b) : q \in Version
    BY <2>1, <2>2, <1>1
  <2> HIDE DEF a, b, L, G, one
  <2>5. ab \in Seq(Version) /\ ToSet(ab) = ToSet(a) \cup {r} /\ IdsAscend(ab)
    <3>1. \A q \in ToSet(a), t \in ToSet(one) : q.id < t.id
      BY <1>4, <2>3
    <3>2. a \in Seq(Version) /\ one \in Seq(Version) /\ IdsAscend(a) /\ IdsAscend(one)
      BY <1>4, <2>1
    <3>3. ab \in Seq(Version) /\ ToSet(ab) = ToSet(a) \cup ToSet(one)
      BY ONLY <3>2, JoinedRows
    <3>4. IdsAscend(ab)
      BY ONLY <3>1, <3>2, AscendingJoined
    <3> QED BY <1>4, <3>3, <3>4
  <2>6. \A q \in ToSet(ab), t \in ToSet(b) : q.id < t.id
    <3> SUFFICES ASSUME NEW q \in ToSet(ab), NEW t \in ToSet(b) PROVE q.id < t.id
      OBVIOUS
    <3>1. r.id < t.id /\ t.id \in Nat /\ r.id \in Nat
      BY <2>3, <2>4, <1>2, IdsAreNumbers
    <3>2. CASE q = r
      BY <3>1, <3>2
    <3>3. CASE q \in ToSet(a)
      BY <3>1, <3>3, <2>3, <2>4, IdsAreNumbers
    <3> QED BY <2>5, <3>2, <3>3
  <2> HIDE DEF ab
  <2>7. ab \o b \in Seq(Version) /\ ToSet(ab \o b) = ToSet(ab) \cup ToSet(b) /\ IdsAscend(ab \o b)
    BY <2>2, <2>5, <2>6, JoinedRows, AscendingJoined
  <2>8. Put(s, r) = ab \o b
    BY <1>5 DEF Put, a, b, ab, one
  <2>9. {q \in ToSet(s) : q.id # r.id} = ToSet(a) \cup ToSet(b)
    BY <1>1, <1>2, <1>3, <2>1, <2>2 DEF L, G
  <2>10. ToSet(Put(s, r)) = {q \in ToSet(s) : q.id # r.id} \cup {r}
    BY <2>5, <2>7, <2>8, <2>9
  <2> QED BY <2>7, <2>8, <2>10, AscendingOnce
<1>6. CASE ~OrderedById
  <2> DEFINE w == Without(s, r.id)
             n == Len(w)
             u == Append(w, r)
  <2>1. w \in Seq(Version) /\ n \in Nat /\ ToSet(w) = {s[k] : k \in O} /\ OneRowEach(w)
    BY <1>2, PartOfRows DEF Without
  <2>2. (\A i \in 1..n : w[i] \in ToSet(w)) /\ \A q \in ToSet(w) : q.id # r.id
    BY <2>1 DEF ToSet
  <2>3. {q \in ToSet(s) : q.id # r.id} = ToSet(w)
    BY <1>1, <1>3, <2>1
  <2> HIDE DEF w, n
  <2>4. /\ u \in Seq(Version) /\ Len(u) = n + 1 /\ u[n + 1] = r /\ \A i \in 1..n : u[i] = w[i]
    BY <2>1 DEF n
  <2>5. OneRowEach(u)
    <3> SUFFICES ASSUME NEW i \in 1..n + 1, NEW j \in 1..n + 1, u[i].id = u[j].id PROVE i = j
      BY <2>4 DEF OneRowEach
    <3>1. CASE i \in 1..n /\ j \in 1..n
      <4>1. w[i].id = w[j].id
        BY <2>4, <3>1
      <4> QED BY <2>1, <3>1, <4>1 DEF OneRowEach, n
    <3>2. CASE i = n + 1 /\ j \in 1..n
      BY <2>2, <2>4, <3>2
    <3>3. CASE i \in 1..n /\ j = n + 1
      BY <2>2, <2>4, <3>3
    <3> QED BY <2>1, <3>1, <3>2, <3>3
  <2>6. w \in Seq(Version) /\ u = w \o <<r>>
    BY <2>1
  <2>7. ToSet(u) = ToSet(w) \cup {r}
    <3>1. one \in Seq(Version) /\ u = w \o one
      BY <1>4, <2>6
    <3>2. ToSet(w \o one) = ToSet(w) \cup ToSet(one)
      <4> HIDE DEF one
      <4> QED BY ONLY <2>1, <3>1, JoinedRows
    <3> QED BY <1>4, <3>1, <3>2
  <2> HIDE DEF u
  <2>8. Put(s, r) = u
    BY <1>6 DEF Put, u, w
  <2> QED BY <1>6, <2>3, <2>4, <2>5, <2>7, <2>8
<1> QED BY <1>5, <1>6

\* In rows ordered by id, a row's place is the number of ids up to its own.
LEMMA PlaceCounts ==
  ASSUME NEW s \in Seq(Version), IdsAscend(s), NEW k \in 1..Len(s)
  PROVE  LET upTo == {i \in {q.id : q \in ToSet(s)} : i <= s[k].id}
         IN IsFiniteSet(upTo) /\ Cardinality(upTo) = k
<1> DEFINE upTo == {i \in {q.id : q \in ToSet(s)} : i <= s[k].id}
           f == [i \in 1..k |-> s[i].id]
<1>1. k \in Nat /\ Len(s) \in Nat /\ k <= Len(s) /\ \A i \in 1..Len(s) : s[i].id \in Nat
  BY IdsAreNumbers
<1>2. \A i, j \in 1..k : f[i] = f[j] => i = j
  <2>1. OneRowEach(s)
    BY AscendingOnce
  <2> QED BY <1>1, <2>1 DEF OneRowEach
<1>3. Cardinality({f[i] : i \in 1..k}) = k
  <2>1. PICK g : g = f
    OBVIOUS
  <2>2. k \in Nat /\ \A i, j \in 1..k : g[i] = g[j] => i = j
    BY <1>1, <1>2, <2>1
  <2>3. Cardinality({g[i] : i \in 1..k}) = k
    BY ONLY <2>2, DistinctCount
  <2> QED BY <2>1, <2>3
<1>4. {q.id : q \in ToSet(s)} = {s[i].id : i \in 1..Len(s)}
  <2> DEFINE X == {q.id : q \in ToSet(s)}
             Y == {s[i].id : i \in 1..Len(s)}
  <2>1. ToSet(s) = {s[i] : i \in 1..Len(s)}
    BY DEF ToSet
  <2>2. ASSUME NEW q \in ToSet(s) PROVE q.id \in Y
    BY <2>1
  <2>3. ASSUME NEW i \in 1..Len(s) PROVE s[i].id \in X
    BY <2>1
  <2>4. X \subseteq Y
    BY ONLY <2>2
  <2>5. Y \subseteq X
    BY ONLY <2>3
  <2> HIDE DEF X, Y
  <2>6. X = Y
    BY <2>4, <2>5
  <2> QED BY <2>6 DEF X, Y
<1>5. \A i \in 1..Len(s) : s[i].id <= s[k].id <=> i <= k
  <2> SUFFICES ASSUME NEW i \in 1..Len(s) PROVE s[i].id <= s[k].id <=> i <= k
    OBVIOUS
  <2>1. (i < k => s[i].id < s[k].id) /\ (k < i => s[k].id < s[i].id) /\ s[i].id \in Nat /\ s[k].id \in Nat
    BY <1>1 DEF IdsAscend
  <2> QED BY <1>1, <2>1
<1>6. upTo = {f[i] : i \in 1..k}
  <2> DEFINE Y == {f[i] : i \in 1..k}
  <2>1. ASSUME NEW x \in upTo PROVE x \in Y
    <3>1. PICK i \in 1..Len(s) : x = s[i].id
      BY <1>4, <2>1
    <3>2. i \in 1..k
      BY <1>1, <1>5, <2>1, <3>1
    <3> QED BY <3>1, <3>2
  <2>2. ASSUME NEW i \in 1..k PROVE f[i] \in upTo
    <3>1. i \in 1..Len(s) /\ f[i] = s[i].id
      BY <1>1
    <3>2. s[i].id \in {q.id : q \in ToSet(s)}
      BY <1>4, <3>1
    <3> QED BY <1>1, <1>5, <3>1, <3>2
  <2>3. Y \subseteq upTo
    BY ONLY <2>2
  <2>4. upTo \subseteq Y
    BY ONLY <2>1
  <2> HIDE DEF Y, upTo
  <2>5. upTo = Y
    BY <2>3, <2>4
  <2> QED BY <2>5 DEF Y
<1>7. IsFiniteSet({f[i] : i \in 1..k})
  <2> HIDE DEF f
  <2> QED BY ONLY <1>1, ValuesOfList
<1> QED BY <1>3, <1>6, <1>7

\* There are no more rows than ids.
LEMMA NoMoreThanIds ==
  ASSUME NEW s \in Seq(Version), OneRowEach(s), IsFiniteSet(Id)
  PROVE  Len(s) <= Cardinality(Id) /\ Cardinality(Id) \in Nat
<1> DEFINE f == [i \in 1..Len(s) |-> s[i].id]
           F == {f[i] : i \in 1..Len(s)}
<1>1. Len(s) \in Nat /\ \A i, j \in 1..Len(s) : f[i] = f[j] => i = j
  BY DEF OneRowEach
<1>2. Cardinality(F) = Len(s)
  <2> DEFINE n == Len(s)
  <2>1. n \in Nat /\ \A i, j \in 1..n : f[i] = f[j] => i = j
    BY <1>1
  <2> HIDE DEF f, n
  <2>2. Cardinality({f[i] : i \in 1..n}) = n
    BY ONLY <2>1, DistinctCount
  <2> QED BY <2>2 DEF n
<1>3. F \in SUBSET Id
  BY IdsAreNumbers
<1> HIDE DEF F
<1>4. Cardinality(F) <= Cardinality(Id)
  BY <1>3, FS_Subset
<1> QED BY <1>2, <1>4, FS_CardinalityType

-----------------------------------------------------------------------------
(* SyncPaging: merging what was received.                                  *)

\* What a collection covers it still covers when records that win are put into it,
\* and it then covers every record of the change set they were chosen from, though
\* the set may hold two versions of one record.
LEMMA MergeCovers ==
  ASSUME NEW col \in SUBSET Version, NEW cs \in SUBSET Version
  PROVE  LET new == Upsert(col, Accepted(col, cs))
         IN /\ new \in SUBSET Version
            /\ \A r \in Version : Covers(col, r) \/ r \in cs => Covers(new, r)
<1> DEFINE acc == Accepted(col, cs)
           new == Upsert(col, acc)
<1>1. acc \in SUBSET Version /\ acc \subseteq cs
      /\ (\A u \in acc, local \in col : local.id = u.id => RemoteWins(u, local))
      /\ (\A r \in cs : r \notin acc => \E local \in col : local.id = r.id /\ ~RemoteWins(r, local))
  BY DEF Accepted
<1> HIDE DEF acc
<1>2. new = {r \in col : \A u \in acc : u.id # r.id} \cup acc /\ new \in SUBSET Version
  BY <1>1 DEF Upsert
<1>3. ASSUME NEW v \in Version, NEW h \in Version, NEW q \in Version, ~RemoteWins(v, h), RemoteWins(q, h)
      PROVE  ~RemoteWins(v, q)
  <2>1. /\ v.ts \in Nat /\ h.ts \in Nat /\ q.ts \in Nat /\ v.node \in Nat /\ h.node \in Nat /\ q.node \in Nat
    BY NodeAssumption, IdsAreNumbers
  <2> QED BY <1>3, <2>1 DEF RemoteWins
<1>4. \A v \in Version : ~RemoteWins(v, v)
  <2> SUFFICES ASSUME NEW v \in Version PROVE ~RemoteWins(v, v)
    OBVIOUS
  <2>1. v.ts \in Nat /\ v.node \in Nat
    BY NodeAssumption, IdsAreNumbers
  <2> QED BY <2>1 DEF RemoteWins
<1>5. ASSUME NEW r \in Version, Covers(col, r) PROVE Covers(new, r)
  <2>1. PICK h \in col : h.id = r.id /\ ~RemoteWins(r, h)
    BY <1>5 DEF Covers
  <2>2. CASE h \in new
    BY <2>1, <2>2 DEF Covers
  <2>3. CASE h \notin new
    <3>1. PICK u \in acc : u.id = h.id
      BY <1>2, <2>3
    <3>2. u \in new /\ RemoteWins(u, h) /\ u \in Version /\ h \in Version
      BY <1>1, <1>2, <3>1
    <3>3. ~RemoteWins(r, u)
      BY <1>3, <2>1, <3>2
    <3> QED BY <2>1, <3>1, <3>2, <3>3 DEF Covers
  <2> QED BY <2>2, <2>3
<1>6. ASSUME NEW r \in cs PROVE Covers(new, r)
  <2>1. CASE r \in acc
    <3>1. r \in new /\ ~RemoteWins(r, r)
      BY <1>2, <1>4, <2>1
    <3> QED BY <3>1 DEF Covers
  <2>2. CASE r \notin acc
    <3>2. \E local \in col : local.id = r.id /\ ~RemoteWins(r, local)
      BY <1>1, <2>2
    <3>1. Covers(col, r)
      BY ONLY <3>2 DEF Covers
    <3> QED BY <1>5, <3>1
  <2> QED BY <2>1, <2>2
<1> QED BY <1>2, <1>5, <1>6 DEF new, acc

\* The vector goes no further than the numbers of the records, and not back.
LEMMA VectorAdvances ==
  ASSUME NEW v \in VersionVector, NEW cs \in SUBSET Version, NEW bound \in VersionVector,
         \A n \in Node : v[n] <= bound[n], \A r \in cs : r.seq <= bound[r.node]
  PROVE  /\ UpdateFromRecords(v, cs) \in VersionVector
         /\ \A n \in Node : UpdateFromRecords(v, cs)[n] <= bound[n]
<1> DEFINE new == UpdateFromRecords(v, cs)
           Of(n) == {v[n]} \cup {r.seq : r \in {q \in cs : q.node = n}}
<1>1. new = [n \in Node |-> Max(Of(n))]
  BY DEF UpdateFromRecords
<1>2. ASSUME NEW n \in Node PROVE Max(Of(n)) \in Nat /\ Max(Of(n)) <= bound[n]
  <2>1. v[n] \in Nat /\ bound[n] \in Nat
    BY DEF VersionVector
  <2>2. \A r \in cs : r.node = n => r.seq \in Nat /\ r.seq <= bound[n]
    BY IdsAreNumbers
  <2>3. Of(n) \in SUBSET (0..bound[n]) /\ Of(n) # {}
    BY <2>1, <2>2
  <2> HIDE DEF Of
  <2>4. IsFiniteSet(0..bound[n])
    <3>1. 0 \in Int /\ bound[n] \in Int
      BY <2>1
    <3> QED BY <3>1, FS_Interval
  <2>5. IsFiniteSet(Of(n)) /\ Of(n) \in SUBSET Int
    <3>1. Of(n) \in SUBSET Int
      BY ONLY <2>1, <2>3
    <3> QED BY <2>3, <2>4, <3>1, FS_Subset
  <2>6. Max(Of(n)) \in Of(n)
    BY <2>3, <2>5, LeastAndGreatest
  <2>7. Max(Of(n)) \in 0..bound[n]
    BY <2>3, <2>6
  <2> QED BY <2>1, <2>7
<1> HIDE DEF Of
<1>3. new \in VersionVector
  BY <1>1, <1>2 DEF VersionVector
<1> QED BY <1>1, <1>2, <1>3

-----------------------------------------------------------------------------
(* SyncPaging: the inductive invariant.                                    *)

\* What the proofs need of the values.
PagingTypes ==
  /\ rows \in Seq(Version) /\ received \in Seq(Version) /\ begun \in SUBSET Version /\ store \in SUBSET Version
  /\ seq \in VersionVector /\ vec \in VersionVector /\ writes \in 0..MaxSenderWrites
  /\ pc \in {"idle", "paging", "apply"} /\ offset \in Nat /\ disturbed \in BOOLEAN

RowsKept == OneRowEach(rows) /\ (OrderedById => IdsAscend(rows))

\* Every record, and whatever the receiver claims, has a number already given.
NumbersGiven ==
  /\ \A r \in ToSet(rows) \cup ToSet(received) \cup begun : r.seq <= seq[r.node]
  /\ \A n \in Node : vec[n] <= seq[n]

\* Undisturbed, the selection is still that of the beginning.
SelectionStays == pc # "idle" /\ ~disturbed => begun = ToSet(Selection)

Holds == OrderedById \/ ~disturbed

\* A record that was selectable when the pull began is replaced, received or at a
\* place of the selection that no page has reached.
StillAhead ==
  pc = "paging" /\ Holds =>
    \A r \in begun \cap ToSet(rows) :
      r \in ToSet(received) \/ \E k \in 1..Len(Selection) : k > offset /\ Selection[k] = r

\* All records fit into one push.
AllFit == IsFiniteSet(Id) /\ Cardinality(Id) <= Cap

AllReceived == pc = "apply" /\ Holds /\ AllFit => begun \cap ToSet(rows) \subseteq ToSet(received)

ClaimsHold == ~disturbed /\ AllFit => \A r \in ToSet(rows) : r.seq <= vec[r.node] => Covers(store, r)

PagingInv ==
  PagingTypes /\ RowsKept /\ NumbersGiven /\ SelectionStays /\ StillAhead /\ AllReceived /\ ClaimsHold

\* The selection: the rows not seen, in the order of the rows.
LEMMA SelectionIs ==
  ASSUME rows \in Seq(Version), RowsKept
  PROVE  /\ Selection \in Seq(Version) /\ Len(Selection) \in Nat
         /\ ToSet(Selection) = {r \in ToSet(rows) : Unseen(r)}
         /\ OneRowEach(Selection) /\ (OrderedById => IdsAscend(Selection))
<1> DEFINE K == {k \in DOMAIN rows : Unseen(rows[k])}
<1>1. K \in SUBSET (1..Len(rows)) /\ Selection = Picked(rows, K)
  BY DEF Selection
<1>2. ToSet(rows) = {rows[k] : k \in DOMAIN rows}
  BY DEF ToSet
<1>3. {rows[k] : k \in K} = {r \in ToSet(rows) : Unseen(r)}
  BY <1>2
<1> HIDE DEF K
<1> QED BY <1>1, <1>3, PartOfRows DEF RowsKept

LEMMA PagingBegins == PagingInit => PagingInv
<1> SUFFICES ASSUME PagingInit PROVE PagingInv
  OBVIOUS
<1>1. /\ rows = <<>> /\ received = <<>> /\ begun = {} /\ store = {} /\ seq = [n \in Node |-> 0] /\ vec = [n \in Node |-> 0]
      /\ writes = 0 /\ pc = "idle" /\ offset = 0 /\ disturbed = FALSE
  BY DEF PagingInit, EmptyVV
<1>2. ToSet(rows) = {} /\ ToSet(received) = {} /\ Len(rows) = 0 /\ rows \in Seq(Version) /\ received \in Seq(Version)
  BY <1>1 DEF ToSet
<1>3. PagingTypes
  <2>1. seq \in VersionVector /\ vec \in VersionVector
    BY <1>1 DEF VersionVector
  <2>2. writes \in 0..MaxSenderWrites /\ begun \in SUBSET Version /\ store \in SUBSET Version
    BY <1>1, PagingAssumption
  <2> QED BY <1>1, <1>2, <2>1, <2>2 DEF PagingTypes
<1>4. RowsKept
  BY <1>2 DEF RowsKept, OneRowEach, IdsAscend
<1>5. NumbersGiven
  BY <1>1, <1>2 DEF NumbersGiven
<1>6. SelectionStays /\ StillAhead /\ AllReceived /\ ClaimsHold
  BY <1>1, <1>2 DEF SelectionStays, StillAhead, AllReceived, ClaimsHold
<1> QED BY <1>3, <1>4, <1>5, <1>6 DEF PagingInv

\* A record written at the sender: in a transfer it counts only for rows ordered by
\* id, where the selection gets more ids and none of its records moves forward.
LEMMA WriteKeeps ==
  ASSUME PagingInv, NEW n \in Node, NEW i \in Id, WriteAtSender(n, i)
  PROVE  PagingInv'
<1> DEFINE r == [id |-> i, node |-> n, seq |-> seq[n] + 1, ts |-> writes + 1]
           Sel == {q \in ToSet(rows) : Unseen(q)}
<1>1. /\ writes < MaxSenderWrites /\ rows' = Put(rows, r) /\ seq' = [seq EXCEPT ![n] = @ + 1] /\ writes' = writes + 1
      /\ disturbed' = (disturbed \/ pc # "idle")
      /\ UNCHANGED <<store, vec, pc, offset, received, begun>>
  BY DEF WriteAtSender, transferVars
<1>2. /\ PagingTypes /\ RowsKept /\ NumbersGiven /\ rows \in Seq(Version) /\ received \in Seq(Version)
      /\ begun \in SUBSET Version /\ store \in SUBSET Version /\ seq \in VersionVector /\ vec \in VersionVector
      /\ seq[n] \in Nat /\ vec[n] \in Nat /\ writes \in Nat
  BY PagingAssumption DEF PagingInv, PagingTypes, VersionVector
<1>3. r \in Version /\ r.seq = seq[n] + 1 /\ r.node = n /\ r.id = i
  <2>1. seq[n] + 1 \in Nat \ {0} /\ writes + 1 \in Nat
    BY <1>2
  <2> QED BY <2>1 DEF Version
<1> HIDE DEF r
<1>4. /\ rows' \in Seq(Version) /\ OneRowEach(rows') /\ (OrderedById => IdsAscend(rows'))
      /\ ToSet(rows') = {q \in ToSet(rows) : q.id # i} \cup {r}
  <2>1. OneRowEach(rows) /\ (OrderedById => IdsAscend(rows))
    BY <1>2 DEF RowsKept
  <2>2. /\ Put(rows, r) \in Seq(Version) /\ OneRowEach(Put(rows, r)) /\ (OrderedById => IdsAscend(Put(rows, r)))
        /\ ToSet(Put(rows, r)) = {q \in ToSet(rows) : q.id # r.id} \cup {r}
    BY <1>2, <1>3, <2>1, RowsAfterPut
  <2> QED BY <1>1, <1>3, <2>2
<1>5. seq' \in VersionVector /\ seq'[n] = seq[n] + 1 /\ \A m \in Node \ {n} : seq'[m] = seq[m]
  BY <1>1, <1>2 DEF VersionVector
<1>6. PagingTypes'
  <2>1. writes' \in 0..MaxSenderWrites /\ disturbed' \in BOOLEAN
    BY <1>1, <1>2, PagingAssumption DEF PagingTypes
  <2> QED BY <1>1, <1>2, <1>4, <1>5, <2>1 DEF PagingTypes
<1>7. RowsKept'
  BY <1>4 DEF RowsKept
<1>8. \A q \in ToSet(rows) : q \in Version
  BY <1>2 DEF ToSet
<1>9. \A q \in Version : q.seq <= seq[q.node] => q.seq <= seq'[q.node] /\ q # r
  <2> SUFFICES ASSUME NEW q \in Version, q.seq <= seq[q.node] PROVE q.seq <= seq'[q.node] /\ q # r
    OBVIOUS
  <2>1. q.seq \in Nat /\ q.node \in Node /\ seq[q.node] \in Nat
    BY <1>2, IdsAreNumbers DEF VersionVector
  <2>2. CASE q.node = n
    BY <1>2, <1>3, <1>5, <2>1, <2>2
  <2>3. CASE q.node # n
    BY <1>3, <1>5, <2>1, <2>3
  <2> QED BY <2>2, <2>3
<1>10. \A q \in ToSet(received) : q \in Version
  BY <1>2 DEF ToSet
<1>11. NumbersGiven'
  <2>1. \A q \in ToSet(rows') \cup ToSet(received) \cup begun : q.seq <= seq'[q.node]
    <3> SUFFICES ASSUME NEW q \in ToSet(rows') \cup ToSet(received) \cup begun PROVE q.seq <= seq'[q.node]
      OBVIOUS
    <3>1. CASE q = r
      BY <1>2, <1>3, <1>5, <3>1
    <3>2. CASE q # r
      <4>1. q \in ToSet(rows) \cup ToSet(received) \cup begun /\ q \in Version
        BY <1>2, <1>4, <1>8, <1>10, <3>2
      <4> QED BY <1>2, <1>9, <4>1 DEF NumbersGiven
    <3> QED BY <3>1, <3>2
  <2>2. \A m \in Node : vec[m] <= seq'[m]
    <3> SUFFICES ASSUME NEW m \in Node PROVE vec[m] <= seq'[m]
      OBVIOUS
    <3>1. vec[m] <= seq[m] /\ vec[m] \in Nat /\ seq[m] \in Nat
      BY <1>2 DEF NumbersGiven, VersionVector
    <3> QED BY <1>5, <3>1
  <2> QED BY <1>1, <2>1, <2>2 DEF NumbersGiven
<1>12. Unseen(r)
  <2>1. vec[n] <= seq[n]
    BY <1>2 DEF NumbersGiven
  <2> QED BY <1>2, <1>3, <2>1 DEF Unseen
<1>13. begun \cap ToSet(rows') \subseteq begun \cap ToSet(rows)
  <2>1. r \notin begun
    BY <1>2, <1>9 DEF NumbersGiven
  <2> QED BY <1>4, <2>1
<1>14. SelectionStays'
  BY <1>1 DEF SelectionStays
<1>15. AllReceived'
  <2> SUFFICES ASSUME pc = "apply", OrderedById, AllFit PROVE begun \cap ToSet(rows') \subseteq ToSet(received)
    BY <1>1 DEF AllReceived, Holds
  <2>1. begun \cap ToSet(rows) \subseteq ToSet(received)
    BY DEF PagingInv, AllReceived, Holds
  <2> QED BY <1>13, <2>1
<1>16. ClaimsHold'
  <2> SUFFICES ASSUME ~disturbed, AllFit, NEW q \in ToSet(rows'), q.seq <= vec[q.node] PROVE Covers(store, q)
    BY <1>1 DEF ClaimsHold
  <2>1. q # r
    <3>1. ~(r.seq <= vec[r.node])
      BY <1>2, <1>3, <1>12 DEF Unseen
    <3> QED BY <3>1
  <2>2. q \in ToSet(rows)
    BY <1>4, <2>1
  <2> QED BY <2>2 DEF PagingInv, ClaimsHold
<1>17. StillAhead'
  <2> SUFFICES ASSUME pc = "paging", OrderedById, NEW q \in begun \cap ToSet(rows'), q \notin ToSet(received)
               PROVE  \E k \in 1..Len(Selection') : k > offset /\ Selection'[k] = q
    BY <1>1 DEF StillAhead, Holds
  <2>1. q \in ToSet(rows) /\ q \in begun
    BY <1>13
  <2>2. PICK k \in 1..Len(Selection) : k > offset /\ Selection[k] = q
    BY <2>1 DEF PagingInv, StillAhead, Holds
  <2>3. /\ Selection \in Seq(Version) /\ IdsAscend(Selection) /\ ToSet(Selection) = Sel /\ Len(Selection) \in Nat
    BY <1>2, SelectionIs
  <2>4. /\ Selection' \in Seq(Version) /\ IdsAscend(Selection') /\ Len(Selection') \in Nat
        /\ ToSet(Selection') = {p \in ToSet(rows') : Unseen(p)}
    <3> DEFINE R == rows'
               K == {j \in DOMAIN R : Unseen(R[j])}
    <3>1. K \in SUBSET (1..Len(R)) /\ Selection' = Picked(R, K) /\ R \in Seq(Version) /\ IdsAscend(R)
      BY <1>1, <1>4 DEF Selection, Unseen
    <3>2. ToSet(R) = {R[j] : j \in DOMAIN R}
      BY DEF ToSet
    <3>3. {R[j] : j \in K} = {p \in ToSet(R) : Unseen(p)}
      BY <3>2
    <3> HIDE DEF K, R
    <3>4. LET p == Picked(R, K) IN p \in Seq(Version) /\ Len(p) \in Nat /\ ToSet(p) = {R[j] : j \in K} /\ IdsAscend(p)
      BY <3>1, PartOfRows
    <3> QED BY <3>1, <3>3, <3>4 DEF R
  <2>6. ToSet(Selection') = {p \in Sel : p.id # i} \cup {r}
    BY <1>4, <1>12, <2>4
  <2>7. q \in Sel
    <3>1. q \in ToSet(Selection)
      BY <2>2, <2>3 DEF ToSet
    <3> QED BY <2>3, <3>1
  <2>8. q # r
    BY <1>2, <1>9, <2>1 DEF NumbersGiven
  <2>9. q \in ToSet(Selection')
    BY <1>4, <2>6, <2>7, <2>8
  <2>10. PICK m \in 1..Len(Selection') : Selection'[m] = q
    BY <2>4, <2>9 DEF ToSet
  <2> DEFINE before == {j \in {p.id : p \in ToSet(Selection)} : j <= q.id}
             after == {j \in {p.id : p \in ToSet(Selection')} : j <= q.id}
  <2>11. IsFiniteSet(before) /\ Cardinality(before) = k
    <3>1. LET upTo == {j \in {p.id : p \in ToSet(Selection)} : j <= Selection[k].id}
          IN IsFiniteSet(upTo) /\ Cardinality(upTo) = k
      BY <2>3, PlaceCounts
    <3> QED BY <2>2, <3>1
  <2>12. IsFiniteSet(after) /\ Cardinality(after) = m
    <3> DEFINE s == Selection'
    <3>1. s \in Seq(Version) /\ IdsAscend(s) /\ m \in 1..Len(s) /\ s[m] = q
      BY <2>4, <2>10
    <3> HIDE DEF s
    <3>2. LET upTo == {j \in {p.id : p \in ToSet(s)} : j <= s[m].id}
          IN IsFiniteSet(upTo) /\ Cardinality(upTo) = m
      BY <3>1, PlaceCounts
    <3> QED BY <3>1, <3>2 DEF s
  <2>13. {p.id : p \in ToSet(Selection)} \subseteq {p.id : p \in ToSet(Selection')}
    BY <1>3, <2>3, <2>6
  <2>14. before \in SUBSET after
    BY <2>13
  <2> HIDE DEF before, after
  <2>15. k <= m
    BY <2>11, <2>12, <2>14, FS_Subset
  <2>16. m > offset
    BY <1>2, <2>2, <2>3, <2>4, <2>15 DEF PagingTypes
  <2> QED BY <2>10, <2>16
<1> QED BY <1>6, <1>7, <1>11, <1>14, <1>15, <1>16, <1>17 DEF PagingInv

\* A transfer begins.
LEMMA BeginKeeps == ASSUME PagingInv, Begin PROVE PagingInv'
<1>1. /\ pc = "idle" /\ pc' = "paging" /\ offset' = 0 /\ received' = <<>> /\ begun' = ToSet(Selection)
      /\ UNCHANGED <<rows, seq, writes, store, vec, disturbed>>
  BY DEF Begin
<1>2. PagingTypes /\ RowsKept /\ NumbersGiven /\ ClaimsHold /\ rows \in Seq(Version)
  BY DEF PagingInv, PagingTypes
<1>3. /\ Selection \in Seq(Version) /\ Len(Selection) \in Nat /\ ToSet(Selection) \subseteq ToSet(rows)
  BY <1>2, SelectionIs
<1>4. ToSet(Selection) \in SUBSET Version
  BY <1>3 DEF ToSet
<1>5. Selection' = Selection
  BY <1>1 DEF Selection, Unseen
<1>6. PagingTypes'
  BY <1>1, <1>2, <1>4 DEF PagingTypes
<1>7. RowsKept' /\ ClaimsHold'
  BY <1>1, <1>2 DEF RowsKept, ClaimsHold
<1>8. NumbersGiven'
  <2>1. ToSet(received') = {}
    BY <1>1 DEF ToSet
  <2> QED BY <1>1, <1>2, <1>3, <2>1 DEF NumbersGiven
<1>9. SelectionStays' /\ AllReceived'
  BY <1>1, <1>5 DEF SelectionStays, AllReceived
<1>10. StillAhead'
  <2> SUFFICES ASSUME NEW q \in ToSet(Selection) PROVE \E k \in 1..Len(Selection) : k > 0 /\ Selection[k] = q
    BY <1>1, <1>5 DEF StillAhead
  <2>1. PICK k \in 1..Len(Selection) : Selection[k] = q
    BY <1>3 DEF ToSet
  <2> QED BY <2>1
<1> QED BY <1>6, <1>7, <1>8, <1>9, <1>10 DEF PagingInv

\* A page of the selection.
LEMMA PageOfSelection ==
  ASSUME PagingInv, NEW limit \in Nat, NEW o \in Nat
  PROVE  /\ Query(limit, o) \in Seq(Version) /\ Len(Query(limit, o)) \in Nat
         /\ ToSet(Query(limit, o)) \subseteq ToSet(Selection)
         /\ \A k \in 1..Len(Selection) : o < k /\ k <= o + limit => Selection[k] \in ToSet(Query(limit, o))
         /\ Len(Query(limit, o)) < limit => Len(Selection) < o + limit
<1> DEFINE n == Len(Selection)
           e == Min({o + limit, n})
           page == Query(limit, o)
<1>1. Selection \in Seq(Version) /\ n \in Nat
  BY SelectionIs DEF PagingInv, PagingTypes
<1>2. e \in {o + limit, n} /\ e <= o + limit /\ e <= n
  <2> DEFINE S == {o + limit, n}
  <2>1. S \in SUBSET Int /\ IsFiniteSet(S) /\ S # {}
    <3>1. IsFiniteSet({o + limit}) /\ IsFiniteSet({n})
      BY FS_Singleton
    <3>2. S = {o + limit} \cup {n}
      OBVIOUS
    <3>3. IsFiniteSet({o + limit} \cup {n})
      BY ONLY <3>1, FS_Union
    <3> QED BY <1>1, <3>2, <3>3
  <2> HIDE DEF S
  <2>2. Min(S) \in S /\ \A x \in S : Min(S) <= x
    BY ONLY <2>1, LeastAndGreatest
  <2> QED BY <2>2 DEF S
<1>3. page = SubSeq(Selection, o + 1, e)
  BY DEF Query
<1> HIDE DEF e
<1>4. e \in Nat
  BY <1>1, <1>2
<1>5. CASE o <= e
  <2>1. page \in Seq(Version) /\ Len(page) = e - o /\ \A i \in 1..(e - o) : page[i] = Selection[o + i]
    <3> HIDE DEF page
    <3>1. /\ SubSeq(Selection, o + 1, e) \in Seq(Version) /\ Len(SubSeq(Selection, o + 1, e)) = e - o
          /\ \A i \in 1..(e - o) : SubSeq(Selection, o + 1, e)[i] = Selection[o + i]
      BY <1>1, <1>2, <1>4, <1>5, PageRows
    <3> QED BY <1>3, <3>1
  <2> HIDE DEF page
  <2>2. ToSet(page) = {page[i] : i \in 1..(e - o)}
    BY <2>1 DEF ToSet
  <2>3. \A i \in 1..(e - o) : o + i \in 1..n
    BY <1>1, <1>2, <1>4
  <2>4. ToSet(page) \subseteq ToSet(Selection)
    BY <2>1, <2>2, <2>3, <1>1 DEF ToSet
  <2>5. ASSUME NEW k \in 1..n, o < k, k <= o + limit PROVE Selection[k] \in ToSet(page)
    <3>1. k <= e /\ k - o \in 1..(e - o) /\ o + (k - o) = k
      BY <1>1, <1>2, <1>4, <2>5
    <3>2. page[k - o] = Selection[k]
      BY <2>1, <3>1
    <3> QED BY <2>2, <3>1, <3>2
  <2>6. Len(page) < limit => n < o + limit
    BY <1>1, <1>2, <1>4, <2>1
  <2> QED BY <1>4, <1>5, <2>1, <2>4, <2>5, <2>6 DEF page
<1>6. CASE e < o
  <2>1. page = <<>>
    BY <1>1, <1>3, <1>4, <1>6
  <2>2. n = e
    BY <1>1, <1>2, <1>4, <1>6
  <2> HIDE DEF page
  <2>3. page \in Seq(Version) /\ Len(page) = 0 /\ ToSet(page) = {}
    BY <2>1 DEF ToSet
  <2>4. \A k \in 1..n : ~(o < k)
    BY <1>1, <1>6, <2>2
  <2>5. n < o + limit
    BY <1>1, <1>6, <2>2
  <2> QED BY <2>3, <2>4, <2>5 DEF page
<1> QED BY <1>4, <1>5, <1>6

LEMMA PageKeeps == ASSUME PagingInv, Page PROVE PagingInv'
<1> DEFINE page == Query(Limit, offset)
<1>1. /\ pc = "paging" /\ received' = received \o page
      /\ pc' = IF HasMore(page) THEN "paging" ELSE "apply"
      /\ offset' = IF HasMore(page) THEN offset + Limit ELSE offset
      /\ UNCHANGED <<rows, seq, writes, store, vec, begun, disturbed>>
  BY DEF Page, NextOffset
<1>2. /\ PagingTypes /\ RowsKept /\ NumbersGiven /\ ClaimsHold /\ SelectionStays /\ StillAhead
      /\ rows \in Seq(Version) /\ received \in Seq(Version) /\ offset \in Nat /\ Limit \in Nat
  BY PagingAssumption DEF PagingInv, PagingTypes
<1>3. /\ Selection \in Seq(Version) /\ Len(Selection) \in Nat /\ ToSet(Selection) \subseteq ToSet(rows)
  BY <1>2, SelectionIs
<1>4. /\ page \in Seq(Version) /\ Len(page) \in Nat /\ ToSet(page) \subseteq ToSet(Selection)
      /\ \A k \in 1..Len(Selection) : offset < k /\ k <= offset + Limit => Selection[k] \in ToSet(page)
      /\ Len(page) < Limit => Len(Selection) < offset + Limit
  BY <1>2, PageOfSelection
<1> HIDE DEF page
<1>5. received' \in Seq(Version) /\ ToSet(received') = ToSet(received) \cup ToSet(page)
  <2>1. received \o page \in Seq(Version) /\ ToSet(received \o page) = ToSet(received) \cup ToSet(page)
    BY <1>2, <1>4, JoinedRows
  <2> QED BY <1>1, <2>1
<1>6. Selection' = Selection
  BY <1>1 DEF Selection, Unseen
<1>7. PagingTypes'
  <2>1. offset' \in Nat /\ pc' \in {"idle", "paging", "apply"}
    BY <1>1, <1>2
  <2> QED BY <1>1, <1>2, <1>5, <2>1 DEF PagingTypes
<1>8. RowsKept' /\ ClaimsHold'
  BY <1>1, <1>2 DEF RowsKept, ClaimsHold
<1>9. NumbersGiven'
  BY <1>1, <1>2, <1>3, <1>4, <1>5 DEF NumbersGiven
<1>10. SelectionStays'
  BY <1>1, <1>2, <1>6 DEF SelectionStays
<1>11. ASSUME Holds, NEW r \in begun \cap ToSet(rows)
       PROVE  \/ r \in ToSet(received')
              \/ \E k \in 1..Len(Selection) : k > offset + Limit /\ Selection[k] = r
  <2>1. CASE r \in ToSet(received)
    BY <1>5, <2>1
  <2>2. CASE r \notin ToSet(received)
    <3>1. PICK k \in 1..Len(Selection) : k > offset /\ Selection[k] = r
      BY <1>1, <1>2, <1>11, <2>2 DEF StillAhead
    <3>2. CASE k <= offset + Limit
      BY <1>4, <1>5, <3>1, <3>2
    <3>3. CASE k > offset + Limit
      BY <3>1, <3>3
    <3> QED BY <1>2, <1>3, <3>2, <3>3
  <2> QED BY <2>1, <2>2
<1>12. Holds' <=> Holds
  BY <1>1 DEF Holds
<1>13. StillAhead'
  <2> SUFFICES ASSUME HasMore(page), Holds, NEW r \in begun \cap ToSet(rows)
               PROVE  r \in ToSet(received') \/ \E k \in 1..Len(Selection) : k > offset' /\ Selection[k] = r
    BY <1>1, <1>6, <1>12 DEF StillAhead
  <2>1. offset' = offset + Limit
    BY <1>1
  <2> QED BY <1>11, <2>1
<1>14. AllReceived'
  <2> SUFFICES ASSUME ~HasMore(page), Holds, NEW r \in begun \cap ToSet(rows) PROVE r \in ToSet(received')
    BY <1>1, <1>12 DEF AllReceived
  <2>1. Len(page) < Limit
    BY <1>2, <1>4 DEF HasMore
  <2>2. \A k \in 1..Len(Selection) : ~(k > offset + Limit)
    BY <1>2, <1>3, <1>4, <2>1
  <2> QED BY <1>11, <2>2
<1> QED BY <1>7, <1>8, <1>9, <1>10, <1>13, <1>14 DEF PagingInv

\* A push: all of the selection, if it is within the cap.
LEMMA PushKeeps == ASSUME PagingInv, Push PROVE PagingInv'
<1> DEFINE sent == Query(Cap, 0)
<1>1. /\ pc = "idle" /\ pc' = "apply" /\ received' = sent /\ begun' = ToSet(Selection)
      /\ UNCHANGED <<rows, seq, writes, store, vec, offset, disturbed>>
  BY DEF Push
<1>2. PagingTypes /\ RowsKept /\ NumbersGiven /\ ClaimsHold /\ rows \in Seq(Version) /\ Cap \in Nat
  BY PagingAssumption DEF PagingInv, PagingTypes
<1>3. /\ Selection \in Seq(Version) /\ Len(Selection) \in Nat /\ ToSet(Selection) \subseteq ToSet(rows)
      /\ OneRowEach(Selection)
  BY <1>2, SelectionIs
<1>4. ToSet(Selection) \in SUBSET Version
  BY <1>3 DEF ToSet
<1>5. /\ sent \in Seq(Version) /\ ToSet(sent) \subseteq ToSet(Selection)
      /\ \A k \in 1..Len(Selection) : 0 < k /\ k <= 0 + Cap => Selection[k] \in ToSet(sent)
  BY <1>2, PageOfSelection
<1> HIDE DEF sent
<1>6. Selection' = Selection
  BY <1>1 DEF Selection, Unseen
<1>7. PagingTypes'
  BY <1>1, <1>2, <1>4, <1>5 DEF PagingTypes
<1>8. RowsKept' /\ ClaimsHold'
  BY <1>1, <1>2 DEF RowsKept, ClaimsHold
<1>9. NumbersGiven'
  BY <1>1, <1>2, <1>3, <1>5 DEF NumbersGiven
<1>10. SelectionStays' /\ StillAhead'
  BY <1>1, <1>6 DEF SelectionStays, StillAhead
<1>11. AllReceived'
  <2> SUFFICES ASSUME AllFit, NEW r \in ToSet(Selection) PROVE r \in ToSet(sent)
    BY <1>1 DEF AllReceived
  <2>1. PICK k \in 1..Len(Selection) : Selection[k] = r
    BY <1>3 DEF ToSet
  <2>2. Len(Selection) <= Cardinality(Id) /\ Cardinality(Id) \in Nat
    BY <1>3, NoMoreThanIds DEF AllFit
  <2>3. 0 < k /\ k <= 0 + Cap
    BY <1>2, <1>3, <2>2 DEF AllFit
  <2> QED BY <1>5, <2>1, <2>3
<1> QED BY <1>7, <1>8, <1>9, <1>10, <1>11 DEF PagingInv

\* What was received becomes the receiver's: what the vector claims beyond the
\* present claims was selectable, and so has arrived.
LEMMA ApplyKeeps == ASSUME PagingInv, Apply PROVE PagingInv'
<1> DEFINE cs == ToSet(received)
<1>1. /\ pc = "apply" /\ pc' = "idle" /\ store' = Upsert(store, Accepted(store, cs)) /\ vec' = UpdateFromRecords(vec, cs)
      /\ UNCHANGED <<rows, seq, writes, offset, received, begun, disturbed>>
  BY DEF Apply
<1>2. /\ PagingTypes /\ RowsKept /\ NumbersGiven /\ rows \in Seq(Version) /\ received \in Seq(Version)
      /\ store \in SUBSET Version /\ seq \in VersionVector /\ vec \in VersionVector
  BY DEF PagingInv, PagingTypes
<1>3. cs \in SUBSET Version
  BY <1>2 DEF ToSet
<1>4. store' \in SUBSET Version /\ \A r \in Version : Covers(store, r) \/ r \in cs => Covers(store', r)
  <2> HIDE DEF cs
  <2> QED BY <1>1, <1>2, <1>3, MergeCovers
<1>5. vec' \in VersionVector /\ \A n \in Node : vec'[n] <= seq[n]
  <2>1. (\A n \in Node : vec[n] <= seq[n]) /\ \A r \in cs : r.seq <= seq[r.node]
    BY <1>2 DEF NumbersGiven
  <2> HIDE DEF cs
  <2>2. UpdateFromRecords(vec, cs) \in VersionVector /\ \A n \in Node : UpdateFromRecords(vec, cs)[n] <= seq[n]
    BY <1>2, <1>3, <2>1, VectorAdvances
  <2> QED BY <1>1, <2>2
<1>6. PagingTypes' /\ RowsKept'
  BY <1>1, <1>2, <1>4, <1>5 DEF PagingTypes, RowsKept
<1>7. NumbersGiven'
  BY <1>1, <1>2, <1>5 DEF NumbersGiven
<1>8. SelectionStays' /\ StillAhead' /\ AllReceived'
  BY <1>1 DEF SelectionStays, StillAhead, AllReceived
<1>9. ClaimsHold'
  <2> SUFFICES ASSUME ~disturbed, AllFit, NEW r \in ToSet(rows) PROVE Covers(store', r)
    BY <1>1 DEF ClaimsHold
  <2>1. r \in Version
    BY <1>2 DEF ToSet
  <2>2. CASE Unseen(r)
    <3>1. ToSet(Selection) = {q \in ToSet(rows) : Unseen(q)}
      BY <1>2, SelectionIs
    <3>2. r \in begun
      BY <1>1, <2>2, <3>1 DEF PagingInv, SelectionStays
    <3>3. r \in cs
      BY <1>1, <3>2 DEF PagingInv, AllReceived, Holds
    <3> QED BY <1>4, <2>1, <3>3
  <2>3. CASE ~Unseen(r)
    <3>1. r.seq <= vec[r.node]
      <4>1. r.seq \in Nat /\ r.node \in Node /\ vec[r.node] \in Nat
        BY <1>2, <2>1, IdsAreNumbers DEF VersionVector
      <4> QED BY <2>3, <4>1 DEF Unseen
    <3>2. Covers(store, r)
      BY <3>1 DEF PagingInv, ClaimsHold
    <3> QED BY <1>4, <2>1, <3>2
  <2> QED BY <2>2, <2>3
<1> QED BY <1>6, <1>7, <1>8, <1>9 DEF PagingInv

LEMMA PagingStep == PagingInv /\ [PagingNext]_pagingVars => PagingInv'
<1> SUFFICES ASSUME PagingInv, [PagingNext]_pagingVars PROVE PagingInv'
  OBVIOUS
<1>1. CASE UNCHANGED pagingVars
  <2>1. UNCHANGED <<rows, seq, writes, store, vec, pc, offset, received, begun, disturbed>>
    BY <1>1 DEF pagingVars
  <2>2. Selection' = Selection
    BY <2>1 DEF Selection, Unseen
  <2> QED BY <2>1, <2>2 DEF PagingInv, PagingTypes, RowsKept, NumbersGiven, SelectionStays, StillAhead, AllReceived,
                           ClaimsHold, Holds
<1> QED BY <1>1, WriteKeeps, BeginKeeps, PageKeeps, PushKeeps, ApplyKeeps DEF PagingNext

LEMMA PagingInvIsTyped == PagingInv => PagingTypeOK
<1> SUFFICES ASSUME PagingInv PROVE PagingTypeOK
  OBVIOUS
<1>1. PagingTypes /\ OneRowEach(rows) /\ rows \in Seq(Version) /\ received \in Seq(Version)
  BY DEF PagingInv, PagingTypes, RowsKept
<1>2. ToSet(rows) \subseteq Version /\ ToSet(received) \subseteq Version
  BY <1>1 DEF ToSet
<1>3. OnePerId(ToSet(rows)) /\ IsInjective(rows)
  BY <1>1 DEF OneRowEach, OnePerId, IsInjective, ToSet
<1> QED BY <1>1, <1>2, <1>3 DEF PagingTypes, PagingTypeOK

\* THEOREM.  The transfer of records in pages, row by row, keeps its types.  If the
\* rows come in the order of their ids, no page skips a record that was selectable
\* when the transfer began, whatever is written meanwhile; and in either order, if
\* all records fit into a push and none was written in the middle of a transfer, the
\* receiver's vector claims only what the receiver holds or has superseded.
THEOREM PagesLoseNothing ==
  PagingSpec => /\ []PagingTypeOK
                /\ (AllFit => []NoHole)
                /\ (AllFit /\ OrderedById => []NothingSkipped)
<1>1. PagingInv /\ AllFit => NoHole
  BY DEF PagingInv, ClaimsHold, NoHole
<1>2. PagingInv /\ AllFit /\ OrderedById => NothingSkipped
  BY DEF PagingInv, AllReceived, Holds, NothingSkipped
<1>3. PagingSpec => []PagingInv
  BY PagingBegins, PagingStep, PTL DEF PagingSpec
<1>4. PagingSpec => []PagingTypeOK
  BY <1>3, PagingInvIsTyped, PTL
<1>5. CASE AllFit
  <2>1. PagingInv => NoHole
    BY <1>1, <1>5
  <2>2. PagingSpec => []NoHole
    BY <1>3, <2>1, PTL
  <2>3. CASE OrderedById
    <3>1. PagingInv => NothingSkipped
      BY <1>2, <1>5, <2>3
    <3> QED BY <1>3, <1>4, <2>2, <3>1, PTL
  <2> QED BY <1>4, <2>2, <2>3
<1> QED BY <1>4, <1>5

-----------------------------------------------------------------------------
(* Detection: scores, signals and what a name is taken for.                *)

Found == ToSet(FoundName)
SignalRec ==
  [dialogue : Seq(Nat), verbs : Seq(Nat), pronoun : Nat, direct : Nat,
   project : Seq(Nat), versioned : Nat, code : Nat]

\* The sum of the hits, one after the other.
SumOf(hits, g) == g = [i \in 0..Len(hits) |-> IF i = 0 THEN 0 ELSE g[i - 1] + hits[i]]

LEMMA SummedNumber ==
  ASSUME NEW hits \in Seq(Nat)
  PROVE  Summed(hits) \in Nat
<1> DEFINE N == Len(hits)
           step == [kv \in (1..N) \X Nat |-> kv[2] + hits[kv[1]]]
           sum == CHOOSE g : SumOf(hits, g)
<1>1. N \in Nat /\ \A k \in 1..N : hits[k] \in Nat
  OBVIOUS
<1>2. Summed(hits) = sum[N]
  BY DEF Summed, SumOf
<1> HIDE DEF N
<1>3. \A k \in 1..N : \A v \in Nat : step[<<k, v>>] = v + hits[k] /\ step[<<k, v>>] \in Nat
  BY <1>1
<1> HIDE DEF step
<1>4. GoesOn(N, Nat, 0, step)
  BY <1>1, <1>3 DEF GoesOn
<1>5. PICK f \in [0..N -> Nat] : f[0] = 0 /\ \A n \in 1..N : f[n] = step[<<n, f[n - 1]>>]
  BY ONLY <1>4, StepByStep
<1>6. \A n \in 0..N : f[n] = IF n = 0 THEN 0 ELSE f[n - 1] + hits[n]
  <2> SUFFICES ASSUME NEW n \in 0..N, n # 0 PROVE f[n] = f[n - 1] + hits[n]
    BY <1>5
  <2>1. n \in 1..N /\ n - 1 \in 0..N
    BY <1>1
  <2>2. f[n - 1] \in Nat
    BY <1>5, <2>1
  <2> QED BY <1>3, <1>5, <2>1, <2>2
<1>7. SumOf(hits, f)
  BY <1>6 DEF SumOf, N
<1>8. SumOf(hits, sum)
  BY <1>7
<1>9. \A n \in 0..N : sum[n] = IF n = 0 THEN 0 ELSE sum[n - 1] + hits[n]
  <2> HIDE DEF sum
  <2> QED BY <1>8 DEF SumOf, N
<1> HIDE DEF sum
<1> DEFINE P == {n \in 0..N : sum[n] \in Nat}
<1>10. 0 \in P
  BY <1>1, <1>9
<1>11. ASSUME NEW n \in 1..N, n - 1 \in P PROVE n \in P
  <2>1. n \in 0..N /\ n # 0 /\ sum[n - 1] \in Nat /\ hits[n] \in Nat
    BY <1>1, <1>11
  <2>2. sum[n] = sum[n - 1] + hits[n]
    BY <1>9, <2>1
  <2> QED BY <2>1, <2>2
<1> HIDE DEF P
<1>12. 0..N \subseteq P
  BY <1>1, <1>10, <1>11, PlaceByPlace
<1>13. N \in P
  BY <1>1, <1>12
<1> QED BY <1>2, <1>13 DEF P

LEMMA ScoresMean ==
  ASSUME NEW s \in SignalRec
  PROVE  PersonScore(s) \in Nat /\ ProjectScore(s) \in Nat
<1>1. s.dialogue \in Seq(Nat) /\ s.verbs \in Seq(Nat) /\ s.pronoun \in Nat /\ s.direct \in Nat /\ s.project \in Seq(Nat)
      /\ s.versioned \in Nat /\ s.code \in Nat
  BY DEF SignalRec
<1>2. Summed(s.dialogue) \in Nat /\ Summed(s.verbs) \in Nat /\ Summed(s.project) \in Nat
  BY <1>1, SummedNumber
<1> DEFINE a == Summed(s.dialogue)
           b == Summed(s.verbs)
           c == Summed(s.project)
           p == s.pronoun
           d == s.direct
           v == s.versioned
           r == s.code
<1>3. PersonScore(s) = 3 * a + 2 * b + 2 * p + 4 * d /\ ProjectScore(s) = 2 * c + 3 * v + 3 * r
  BY DEF PersonScore, ProjectScore
<1>4. a \in Nat /\ b \in Nat /\ c \in Nat /\ p \in Nat /\ d \in Nat /\ v \in Nat /\ r \in Nat
  BY <1>1, <1>2
<1> HIDE DEF a, b, c, p, d, v, r
<1> QED BY <1>3, <1>4

\* The signals that are looked at are some of all there are.
LEMMA SeenAreSome ==
  ASSUME NEW s \in SignalRec
  PROVE  KindsSeen(s) \subseteq AllKinds(s) /\ IsFiniteSet(AllKinds(s))
<1> DEFINE some(hits) == {k \in DOMAIN hits : hits[k] > 0}
           like(hits, kind) == [i \in 1..Cardinality(some(hits)) |-> kind]
           T == {"dialogue", "action", "pronoun", "addressed"}
           p == IF s.pronoun > 0 THEN <<"pronoun">> ELSE <<>>
           d == IF s.direct > 0 THEN <<"addressed">> ELSE <<>>
           all == PersonSignals(s)
           m == IF Len(all) < 3 THEN Len(all) ELSE 3
<1>1. \A hits \in Seq(Nat) : \A kind \in T : like(hits, kind) \in Seq(T)
  <2> SUFFICES ASSUME NEW hits \in Seq(Nat), NEW kind \in T PROVE like(hits, kind) \in Seq(T)
    OBVIOUS
  <2>1. Len(hits) \in Int /\ 1 \in Int /\ some(hits) \in SUBSET (1..Len(hits))
    OBVIOUS
  <2>2. IsFiniteSet(1..Len(hits))
    BY ONLY <2>1, FS_Interval
  <2>3. IsFiniteSet(some(hits))
    BY ONLY <2>1, <2>2, FS_Subset
  <2>4. Cardinality(some(hits)) \in Nat
    BY ONLY <2>3, FS_CardinalityType
  <2> HIDE DEF some, T
  <2> QED BY <2>4
<1>2. s.dialogue \in Seq(Nat) /\ s.verbs \in Seq(Nat)
  BY DEF SignalRec
<1>3. "dialogue" \in T /\ "action" \in T /\ p \in Seq(T) /\ d \in Seq(T)
  <2>1. <<"pronoun">> \in Seq(T) /\ <<"addressed">> \in Seq(T) /\ <<>> \in Seq(T)
    OBVIOUS
  <2> HIDE DEF T
  <2>2. p \in Seq(T) /\ d \in Seq(T)
    BY <2>1
  <2> QED BY <2>2 DEF T
<1>4. all = ((like(s.dialogue, "dialogue") \o like(s.verbs, "action")) \o p) \o d
  BY DEF PersonSignals
<1>5. all \in Seq(T)
  <2>1. like(s.dialogue, "dialogue") \in Seq(T) /\ like(s.verbs, "action") \in Seq(T)
    BY <1>1, <1>2, <1>3
  <2> HIDE DEF all, like, p, d, T
  <2> QED BY <1>3, <1>4, <2>1
<1> HIDE DEF all, T
<1>6. Len(all) \in Nat /\ DOMAIN all = 1..Len(all) /\ m \in Nat /\ m <= Len(all)
  BY <1>5
<1>7. KindsSeen(s) = ToSet(SubSeq(all, 1, m)) /\ AllKinds(s) = ToSet(all)
  BY DEF KindsSeen, AllKinds, all
<1> HIDE DEF m
<1>8. SubSeq(all, 1, m) \in Seq(T) /\ Len(SubSeq(all, 1, m)) = m /\ \A i \in 1..m : SubSeq(all, 1, m)[i] = all[i]
  BY <1>5, <1>6
<1>9. KindsSeen(s) \subseteq AllKinds(s)
  <2> DEFINE part3 == SubSeq(all, 1, m)
  <2>1. DOMAIN part3 = 1..m /\ \A i \in 1..m : part3[i] = all[i] /\ i \in 1..Len(all)
    BY <1>6, <1>8
  <2> HIDE DEF part3
  <2>2. \A x \in ToSet(part3) : x \in ToSet(all)
    BY <1>6, <2>1 DEF ToSet
  <2> QED BY <1>7, <2>2 DEF part3
<1>10. IsFiniteSet(AllKinds(s))
  <2>1. IsFiniteSet({all[i] : i \in 1..Len(all)})
    BY <1>6, ValuesOfList
  <2> QED BY <1>6, <1>7, <2>1 DEF ToSet
<1> QED BY <1>9, <1>10

\* What a name is taken for rests on good evidence.
LEMMA EvidenceGood ==
  ASSUME NEW s \in SignalRec
  PROVE  /\ Classified(s) = "person" => Cardinality(AllKinds(s)) >= 2 /\ PersonScore(s) > 2 * ProjectScore(s)
         /\ Classified(s) = "project" => ProjectScore(s) > 2 * PersonScore(s)
         /\ Classified(s) # "uncertain" => PersonScore(s) + ProjectScore(s) > 0
<1> DEFINE P == PersonScore(s)
           Q == ProjectScore(s)
<1>1. P \in Nat /\ Q \in Nat
  BY ScoresMean
<1>2. Classified(s) # "uncertain" => P + Q > 0
  <2>1. Classified(s) # "uncertain" => P + Q # 0
    BY DEF Classified
  <2> HIDE DEF P, Q
  <2> QED BY <1>1, <2>1
<1>3. ASSUME Classified(s) = "person" PROVE Cardinality(AllKinds(s)) >= 2 /\ P > 2 * Q
  <2>1. MostlyPerson(s) /\ Cardinality(KindsSeen(s)) >= 2 /\ P >= 5
    BY <1>3 DEF Classified
  <2>2. 10 * P >= 7 * (P + Q)
    BY <2>1 DEF MostlyPerson
  <2>3. P > 2 * Q
    <3> HIDE DEF P, Q
    <3> QED BY <1>1, <2>1, <2>2
  <2>4. Cardinality(KindsSeen(s)) <= Cardinality(AllKinds(s))
    BY SeenAreSome, FS_Subset
  <2>5. IsFiniteSet(KindsSeen(s))
    BY SeenAreSome, FS_Subset
  <2>6. Cardinality(KindsSeen(s)) \in Nat /\ Cardinality(AllKinds(s)) \in Nat
    BY <2>5, SeenAreSome, FS_CardinalityType
  <2> QED BY <2>1, <2>3, <2>4, <2>6
<1>4. ASSUME Classified(s) = "project" PROVE Q > 2 * P
  <2>1. MostlyProject(s) /\ P + Q # 0
    BY <1>4 DEF Classified
  <2>2. 10 * P <= 3 * (P + Q)
    BY <2>1 DEF MostlyProject
  <2> HIDE DEF P, Q
  <2> QED BY <1>1, <2>1, <2>2
<1> QED BY <1>2, <1>3, <1>4

LEMMA SurenessNumber ==
  ASSUME NEW s \in SignalRec, NEW mine \in Nat, PersonScore(s) + ProjectScore(s) > 0
  PROVE  Sureness(s, mine) \in Int
<1> DEFINE total == PersonScore(s) + ProjectScore(s)
           percent == (101 * total + 100 * mine) \div (2 * total)
<1>1. total \in Nat /\ total > 0
  BY ScoresMean
<1>2. Sureness(s, mine) = IF percent > 99 THEN 99 ELSE percent
  BY DEF Sureness
<1> HIDE DEF total
<1>3. percent \in Nat
  <2>1. 101 * total + 100 * mine \in Nat /\ 2 * total \in Nat /\ 2 * total > 0
    BY <1>1
  <2> QED BY ONLY <2>1, DivMeans
<1> HIDE DEF percent
<1> QED BY <1>2, <1>3

-----------------------------------------------------------------------------
(* Detection: the lists.                                                   *)

\* The names that are found, and the signals of each.
LEMMA NamesMean ==
  /\ Len(FoundName) \in Nat /\ DOMAIN FoundName = 1..Len(FoundName)
  /\ \A i \in 1..Len(FoundName) : FoundName[i] \in Found
  /\ \A n \in Found : \E i \in 1..Len(FoundName) : FoundName[i] = n
  /\ \A i, j \in 1..Len(FoundName) : FoundName[i] = FoundName[j] => i = j
<1>1. FoundName \in Seq(Found) /\ IsInjective(FoundName)
  BY DetectionAssumption DEF Found
<1>2. Len(FoundName) \in Nat /\ DOMAIN FoundName = 1..Len(FoundName)
  BY <1>1
<1>3. \A i \in 1..Len(FoundName) : FoundName[i] \in Found
  BY <1>1
<1>4. \A n \in Found : \E i \in 1..Len(FoundName) : FoundName[i] = n
  BY <1>2 DEF Found, ToSet
<1>5. \A i, j \in 1..Len(FoundName) : FoundName[i] = FoundName[j] => i = j
  BY <1>1, <1>2 DEF IsInjective
<1> QED BY <1>2, <1>3, <1>4, <1>5

LEMMA SignalsMean ==
  ASSUME NEW g \in Signals, NEW n \in Found
  PROVE  g[n] \in SignalRec
BY DetectionAssumption DEF Found, SignalRec

\* A list of names of one kind, each of them once.
Lists(list, kind, g) ==
  /\ list \in Seq(Found)
  /\ \A i, j \in 1..Len(list) : list[i] = list[j] => i = j
  /\ \A i \in 1..Len(list) : Classified(g[list[i]]) = kind

\* The first of a kind: its names, and if one is left out the list is full, of names
\* of no less value.
LEMMA RankedMeans ==
  ASSUME NEW kind, NEW value, NEW most \in Nat,
         \A n \in Found : Classified(signals[n]) = kind => value[n] \in Int
  PROVE  LET list == Ranked(kind, value, most)
         IN /\ Lists(list, kind, signals)
            /\ \A n \in Found : Classified(signals[n]) = kind /\ n \notin ToSet(list) =>
                 Len(list) = most /\ \A m \in ToSet(list) : value[m] >= value[n]
<1> DEFINE N == Len(FoundName)
           places == {i \in DOMAIN FoundName : Classified(signals[FoundName[i]]) = kind}
           R == {ij \in places \X places :
                   LET v == value[FoundName[ij[1]]]
                       w == value[FoundName[ij[2]]]
                   IN v > w \/ (v = w /\ ij[1] < ij[2])}
           order == Ordered(places, R)
           M == Cardinality(places)
           L == Least(most, M)
           list == [k \in 1..L |-> FoundName[order[k]]]
<1>1. Ranked(kind, value, most) = list
  BY DEF Ranked
<1>2. /\ N \in Nat /\ DOMAIN FoundName = 1..N
      /\ \A i \in 1..N : FoundName[i] \in Found
      /\ \A n \in Found : \E i \in 1..N : FoundName[i] = n
      /\ \A i, j \in 1..N : FoundName[i] = FoundName[j] => i = j
  BY NamesMean
<1> HIDE DEF N
<1>3. \A i : i \in places <=> i \in 1..N /\ Classified(signals[FoundName[i]]) = kind
  BY <1>2
<1>4. IsFiniteSet(places)
  <2>1. 1 \in Int /\ N \in Int /\ places \in SUBSET (1..N)
    BY <1>2
  <2>2. IsFiniteSet(1..N)
    BY ONLY <2>1, FS_Interval
  <2> QED BY ONLY <2>1, <2>2, FS_Subset
<1>5. \A i, j \in places : <<i, j>> \in R <=>
        value[FoundName[i]] > value[FoundName[j]] \/ (value[FoundName[i]] = value[FoundName[j]] /\ i < j)
  <2> HIDE DEF places
  <2> QED OBVIOUS
<1> HIDE DEF places, R
<1> DEFINE val(i) == value[FoundName[i]]
<1>6. \A i \in places : val(i) \in Int /\ i \in Nat /\ FoundName[i] \in Found
  BY <1>2, <1>3
<1>7. StrictOrder(places, R)
  <2> HIDE DEF val
  <2>1. \A i, j \in places : <<i, j>> \in R <=> val(i) > val(j) \/ (val(i) = val(j) /\ i < j)
    BY <1>5 DEF val
  <2>2. \A i \in places : <<i, i>> \notin R
    BY <1>6, <2>1
  <2>3. \A i, j, k \in places : <<i, j>> \in R /\ <<j, k>> \in R => <<i, k>> \in R
    BY <1>6, <2>1
  <2>4. \A i, j \in places : i # j => <<i, j>> \in R \/ <<j, i>> \in R
    BY <1>6, <2>1
  <2> QED BY <2>2, <2>3, <2>4 DEF StrictOrder
<1>8. /\ M \in Nat /\ order \in [1..M -> places]
      /\ \A i, j \in 1..M : i < j => <<order[i], order[j]>> \in R
      /\ \A x \in places : \E i \in 1..M : order[i] = x
  BY <1>4, <1>7, OrderedRows
<1> HIDE DEF order, M
<1>9. L \in Nat /\ L <= M /\ L <= most /\ (L < M => L = most)
  BY <1>8 DEF Least
<1> HIDE DEF L
<1>10. \A k \in 1..L : k \in 1..M /\ order[k] \in places
  BY <1>8, <1>9
<1>11. list \in Seq(Found) /\ Len(list) = L /\ \A k \in 1..L : list[k] = FoundName[order[k]]
  <2>1. \A k \in 1..L : FoundName[order[k]] \in Found
    BY <1>6, <1>10
  <2> QED BY <1>9, <2>1
<1>12. \A i, j \in 1..M : i # j => order[i] # order[j]
  <2>1. ASSUME NEW i \in 1..M, NEW j \in 1..M, i < j PROVE order[i] # order[j]
    <3>1. <<order[i], order[j]>> \in R /\ order[i] \in places
      BY <1>8, <2>1
    <3>2. <<order[i], order[i]>> \notin R
      BY <1>7, <3>1 DEF StrictOrder
    <3> QED BY <3>1, <3>2
  <2> QED BY <1>8, <2>1
<1>13. \A i, j \in 1..L : list[i] = list[j] => i = j
  <2> SUFFICES ASSUME NEW i \in 1..L, NEW j \in 1..L, list[i] = list[j] PROVE i = j
    OBVIOUS
  <2>1. FoundName[order[i]] = FoundName[order[j]]
    BY <1>11
  <2>2. order[i] \in 1..N /\ order[j] \in 1..N
    BY <1>3, <1>10
  <2>3. order[i] = order[j]
    BY <1>2, <2>1, <2>2
  <2> QED BY <1>10, <1>12, <2>3
<1>14. \A i \in 1..L : Classified(signals[list[i]]) = kind
  BY <1>3, <1>10, <1>11
<1>15. ASSUME NEW n \in Found, Classified(signals[n]) = kind, n \notin ToSet(list)
       PROVE  Len(list) = most /\ \A m \in ToSet(list) : value[m] >= value[n]
  <2> HIDE DEF list
  <2>0. DOMAIN list = 1..L
    BY <1>11
  <2>1. PICK i \in 1..N : FoundName[i] = n
    BY <1>2
  <2>2. i \in places
    BY <1>3, <1>15, <2>1
  <2>3. PICK k \in 1..M : order[k] = i
    BY <1>8, <2>2
  <2>4. k \notin 1..L
    <3> SUFFICES ASSUME k \in 1..L PROVE FALSE
      OBVIOUS
    <3>1. list[k] = n
      BY <1>11, <2>1, <2>3
    <3> QED BY <1>15, <2>0, <3>1 DEF ToSet
  <2>5. L < k /\ L < M
    BY <1>8, <1>9, <2>4
  <2>6. Len(list) = most
    BY <1>9, <1>11, <2>5
  <2>7. ASSUME NEW m \in ToSet(list) PROVE value[m] >= value[n]
    <3>1. PICK j \in 1..L : list[j] = m
      BY <2>0 DEF ToSet
    <3>2. j \in 1..M /\ j < k /\ order[j] \in places
      BY <1>8, <1>9, <1>10, <2>5
    <3>3. <<order[j], order[k]>> \in R
      BY <1>8, <3>2
    <3>4. val(order[j]) > val(i) \/ val(order[j]) = val(i)
      BY <1>5, <2>2, <2>3, <3>2, <3>3
    <3>5. val(order[j]) \in Int /\ val(i) \in Int
      BY <1>6, <2>2, <3>2
    <3>6. val(order[j]) = value[m] /\ val(i) = value[n]
      BY <1>11, <2>1, <3>1
    <3> HIDE DEF val
    <3> QED BY <3>4, <3>5, <3>6
  <2> QED BY <2>6, <2>7
<1> HIDE DEF list
<1> QED BY <1>1, <1>11, <1>13, <1>14, <1>15 DEF Lists

\* What is left of a list when some of its entries are taken away.
LEMMA SomeOf ==
  ASSUME NEW T, NEW s \in Seq(T), NEW K \in SUBSET (1..Len(s))
  PROVE  Picked(s, K) \in Seq(T) /\ \A x \in ToSet(Picked(s, K)) : \E k \in K : x = s[k]
<1>1. /\ Cardinality(K) \in Nat /\ Picked(s, K) \in Seq(T) /\ Len(Picked(s, K)) = Cardinality(K)
      /\ Ascending(K) \in [1..Cardinality(K) -> K]
      /\ \A i \in 1..Cardinality(K) : Picked(s, K)[i] = s[Ascending(K)[i]]
  BY PickedRows
<1> DEFINE p == Picked(s, K)
<1>2. DOMAIN p = 1..Cardinality(K)
  BY <1>1
<1> HIDE DEF p
<1>3. ASSUME NEW x \in ToSet(p) PROVE \E k \in K : x = s[k]
  <2>1. PICK i \in 1..Cardinality(K) : x = p[i]
    BY <1>2 DEF ToSet
  <2>2. p[i] = s[Ascending(K)[i]] /\ Ascending(K)[i] \in K
    BY <1>1 DEF p
  <2> QED BY <2>1, <2>2
<1> QED BY <1>1, <1>3 DEF p

-----------------------------------------------------------------------------
(* Detection: what the user leaves of the lists.                           *)

DetectionInv ==
  /\ notes \in [prose : Nat, code : Nat] /\ signals \in Signals
  /\ at \in {"scan", "detect", "confirm", "done"}
  /\ Lists(detected.person, "person", signals)
  /\ Lists(detected.project, "project", signals)
  /\ Lists(detected.uncertain, "uncertain", signals)
  /\ BestKept /\ ProseFirst /\ ConfirmedApart

LEMMA DetectionInvInit == DetectionInit => DetectionInv
<1> SUFFICES ASSUME DetectionInit PROVE DetectionInv
  OBVIOUS
<1>1. notes \in [prose : Nat, code : Nat] /\ signals \in Signals /\ at = "scan"
  BY DetectionAssumption DEF DetectionInit
<1>2. Lists(<<>>, "person", signals) /\ Lists(<<>>, "project", signals) /\ Lists(<<>>, "uncertain", signals)
  BY DEF Lists
<1>3. detected.person = <<>> /\ detected.project = <<>> /\ detected.uncertain = <<>>
  BY DEF DetectionInit
<1>4. BestKept
  BY <1>1 DEF BestKept
<1>5. ProseFirst
  BY DEF DetectionInit, ProseFirst
<1>6. ConfirmedApart
  <2>1. confirmed.person = <<>>
    BY DEF DetectionInit
  <2>2. ToSet(<<>>) = {}
    BY DEF ToSet
  <2> QED BY <2>1, <2>2 DEF ConfirmedApart
<1> QED BY <1>1, <1>2, <1>3, <1>4, <1>5, <1>6 DEF DetectionInv

\* Where code is looked at there is little prose, and all of it is looked at.
LEMMA ScanFits ==
  ASSUME DetectionInv, ScanForDetection
  PROVE  DetectionInv'
<1> DEFINE prose == Least(notes.prose, MaxFound)
           sources == IF CodeWanted THEN Least(notes.code, MaxFound - prose) ELSE 0
<1>1. chosen' = [prose |-> prose, code |-> sources] /\ at' = "detect"
      /\ notes' = notes /\ signals' = signals /\ detected' = detected /\ confirmed' = confirmed
  BY DEF ScanForDetection
<1>2. BestKept'
  BY <1>1 DEF BestKept
<1>3. ProseFirst'
  <2>1. chosen'.prose = prose /\ chosen'.code = sources
    BY <1>1
  <2>2. notes.prose \in Nat /\ notes.code \in Nat /\ MaxFound \in Nat
    BY DetectionAssumption DEF DetectionInv
  <2>3. sources > 0 => prose < 3 /\ prose = notes.prose
    BY <2>2 DEF Least, CodeWanted
  <2> HIDE DEF prose, sources
  <2> QED BY <1>1, <2>1, <2>3 DEF ProseFirst
<1>4. ConfirmedApart'
  BY <1>1 DEF DetectionInv, ConfirmedApart
<1> QED BY <1>1, <1>2, <1>3, <1>4 DEF DetectionInv

LEMMA DetectFits ==
  ASSUME DetectionInv, DetectEntities
  PROVE  DetectionInv'
<1> DEFINE asPerson == [n \in ToSet(FoundName) |-> Sureness(signals[n], PersonScore(signals[n]))]
           asProject == [n \in ToSet(FoundName) |-> Sureness(signals[n], ProjectScore(signals[n]))]
           persons == Ranked("person", asPerson, MostPeople)
           projects == Ranked("project", asProject, MostProjects)
           others == Ranked("uncertain", Frequency, MostUncertain)
<1>1. /\ at' = "confirm" /\ notes' = notes /\ chosen' = chosen /\ signals' = signals /\ confirmed' = confirmed
      /\ detected' = IF chosen.prose + chosen.code = 0 THEN detected
                     ELSE [person |-> persons, project |-> projects, uncertain |-> others]
  BY DEF DetectEntities
<1>2. ProseFirst' /\ ConfirmedApart'
  BY <1>1 DEF DetectionInv, ProseFirst, ConfirmedApart
<1>3. CASE chosen.prose + chosen.code = 0
  <2>1. detected' = detected /\ ~(chosen'.prose + chosen'.code > 0)
    BY <1>1, <1>3
  <2>2. BestKept'
    BY <2>1 DEF BestKept
  <2> QED BY <1>1, <1>2, <2>1, <2>2 DEF DetectionInv
<1>4. CASE chosen.prose + chosen.code # 0
  <2>1. detected'.person = persons /\ detected'.project = projects /\ detected'.uncertain = others
    BY <1>1, <1>4
  <2>2. \A n \in Found : signals[n] \in SignalRec
    BY SignalsMean DEF DetectionInv
  <2>3. \A n \in Found : asPerson[n] = Sureness(signals[n], PersonScore(signals[n]))
                          /\ asProject[n] = Sureness(signals[n], ProjectScore(signals[n]))
    BY DEF Found
  <2>4. \A n \in Found : Classified(signals[n]) # "uncertain" => asPerson[n] \in Int /\ asProject[n] \in Int
    <3> SUFFICES ASSUME NEW n \in Found, Classified(signals[n]) # "uncertain"
                 PROVE  asPerson[n] \in Int /\ asProject[n] \in Int
      OBVIOUS
    <3> DEFINE s == signals[n]
    <3>1. s \in SignalRec /\ Classified(s) # "uncertain"
      BY <2>2
    <3>a. asPerson[n] = Sureness(s, PersonScore(s)) /\ asProject[n] = Sureness(s, ProjectScore(s))
      BY <2>3
    <3> HIDE DEF s, asPerson, asProject
    <3>2. PersonScore(s) \in Nat /\ ProjectScore(s) \in Nat /\ PersonScore(s) + ProjectScore(s) > 0
      BY <3>1, ScoresMean, EvidenceGood
    <3>3. Sureness(s, PersonScore(s)) \in Int /\ Sureness(s, ProjectScore(s)) \in Int
      BY <3>1, <3>2, SurenessNumber
    <3> QED BY <3>a, <3>3
  <2>5. \A n \in Found : Frequency[n] \in Int
    BY DetectionAssumption DEF Found
  <2>6. MostPeople \in Nat /\ MostProjects \in Nat /\ MostUncertain \in Nat
    BY DetectionAssumption
  <2> HIDE DEF asPerson, asProject
  <2>7. /\ Lists(persons, "person", signals)
        /\ \A n \in Found : Classified(signals[n]) = "person" /\ n \notin ToSet(persons) =>
             Len(persons) = MostPeople /\ \A m \in ToSet(persons) : asPerson[m] >= asPerson[n]
    BY <2>4, <2>6, RankedMeans
  <2>8. Lists(projects, "project", signals)
    BY <2>4, <2>6, RankedMeans
  <2>9. /\ Lists(others, "uncertain", signals)
        /\ \A n \in Found : Classified(signals[n]) = "uncertain" /\ n \notin ToSet(others) =>
             Len(others) = MostUncertain /\ \A m \in ToSet(others) : Frequency[m] >= Frequency[n]
    BY <2>5, <2>6, RankedMeans
  <2> HIDE DEF persons, projects, others
  <2>10. \A m \in ToSet(persons) : m \in Found
    BY <2>7 DEF Lists, ToSet
  <2>11. BestKept'
    BY <1>1, <2>1, <2>3, <2>7, <2>9, <2>10 DEF BestKept, Found
  <2> QED BY <1>1, <1>2, <2>1, <2>7, <2>8, <2>9, <2>11 DEF DetectionInv
<1> QED BY <1>3, <1>4

LEMMA AcceptFits ==
  ASSUME DetectionInv, AcceptAll
  PROVE  DetectionInv'
<1>1. /\ confirmed' = [person |-> detected.person, project |-> detected.project] /\ at' = "done" /\ at = "confirm"
      /\ notes' = notes /\ chosen' = chosen /\ signals' = signals /\ detected' = detected
  BY DEF AcceptAll
<1>2. BestKept' /\ ProseFirst'
  BY <1>1 DEF DetectionInv, BestKept, ProseFirst
<1>3. ConfirmedApart'
  <2>1. ASSUME NEW n \in ToSet(detected.person), n \in ToSet(detected.project) PROVE FALSE
    <3>1. Classified(signals[n]) = "person"
      BY <2>1 DEF DetectionInv, Lists, ToSet
    <3>2. Classified(signals[n]) = "project"
      BY <2>1 DEF DetectionInv, Lists, ToSet
    <3> QED BY <3>1, <3>2
  <2>2. confirmed'.person = detected.person /\ confirmed'.project = detected.project
    BY <1>1
  <2> QED BY <2>1, <2>2 DEF ConfirmedApart
<1> QED BY <1>1, <1>2, <1>3 DEF DetectionInv

\* What is left of a list, with a name that may be added.
LEMMA LeftOf ==
  ASSUME NEW list \in Seq(Found), NEW numbers \in SUBSET DOMAIN list, NEW kind, NEW more,
         NEW n \in ToSet(WithoutNumbers(list, numbers) \o Added(kind, more)), n # NewName
  PROVE  n \in ToSet(list)
<1> DEFINE T == Found \cup {NewName}
           K == DOMAIN list \ numbers
           p == Picked(list, K)
           a == Added(kind, more)
<1>1. list \in Seq(T) /\ DOMAIN list = 1..Len(list) /\ K \in SUBSET (1..Len(list))
  OBVIOUS
<1>2. a \in Seq(T) /\ ToSet(a) \subseteq {NewName}
  <2>1. <<NewName>> \in Seq(T) /\ <<>> \in Seq(T)
    OBVIOUS
  <2>2. a = <<NewName>> \/ a = <<>>
    BY DEF Added
  <2>3. ToSet(<<NewName>>) = {NewName} /\ ToSet(<<>>) = {}
    BY DEF ToSet
  <2> HIDE DEF a, T
  <2> QED BY <2>1, <2>2, <2>3
<1>3. p \in Seq(T) /\ \A x \in ToSet(p) : \E k \in K : x = list[k]
  <2> HIDE DEF K, T
  <2> QED BY <1>1, SomeOf
<1>4. ToSet(p \o a) = ToSet(p) \cup ToSet(a)
  <2> HIDE DEF p, a, T
  <2> QED BY <1>2, <1>3, JoinedRows
<1>5. WithoutNumbers(list, numbers) = p
  BY DEF WithoutNumbers
<1>6. n \in ToSet(p)
  <2> HIDE DEF p, a
  <2> QED BY <1>2, <1>4, <1>5 DEF a
<1> QED BY <1>1, <1>3, <1>6 DEF ToSet

\* By hand, an uncertain name is called one thing, and the lists are apart before.
LEMMA ConfirmFits ==
  ASSUME DetectionInv, ConfirmByHand
  PROVE  DetectionInv'
<1>1. /\ at' = "done" /\ at = "confirm"
      /\ notes' = notes /\ chosen' = chosen /\ signals' = signals /\ detected' = detected
  BY DEF ConfirmByHand
<1>2. BestKept' /\ ProseFirst'
  BY <1>1 DEF DetectionInv, BestKept, ProseFirst
<1>3. PICK call \in [DOMAIN detected.uncertain -> {"person", "project", "skip"}] :
       LET called(kind) == Picked(detected.uncertain, {i \in DOMAIN call : call[i] = kind})
           people == detected.person \o called("person")
           projects == detected.project \o called("project")
       IN \E wrong \in SUBSET DOMAIN people, wrongs \in SUBSET DOMAIN projects,
             more \in SUBSET {"person", "project"} :
            confirmed' = [person |-> WithoutNumbers(people, wrong) \o Added("person", more),
                          project |-> WithoutNumbers(projects, wrongs) \o Added("project", more)]
  BY DEF ConfirmByHand
<1> DEFINE U == detected.uncertain
           K(kind) == {i \in DOMAIN call : call[i] = kind}
           called(kind) == Picked(U, K(kind))
           people == detected.person \o called("person")
           projects == detected.project \o called("project")
<1>4. PICK wrong \in SUBSET DOMAIN people : \E wrongs \in SUBSET DOMAIN projects : \E more \in SUBSET {"person", "project"} :
            confirmed' = [person |-> WithoutNumbers(people, wrong) \o Added("person", more),
                          project |-> WithoutNumbers(projects, wrongs) \o Added("project", more)]
  BY <1>3
<1>5. PICK wrongs \in SUBSET DOMAIN projects : \E more \in SUBSET {"person", "project"} :
            confirmed' = [person |-> WithoutNumbers(people, wrong) \o Added("person", more),
                          project |-> WithoutNumbers(projects, wrongs) \o Added("project", more)]
  BY <1>4
<1>6. PICK more \in SUBSET {"person", "project"} :
            confirmed' = [person |-> WithoutNumbers(people, wrong) \o Added("person", more),
                          project |-> WithoutNumbers(projects, wrongs) \o Added("project", more)]
  BY <1>5
<1>7. /\ U \in Seq(Found) /\ \A i, j \in 1..Len(U) : U[i] = U[j] => i = j
      /\ \A i \in 1..Len(U) : Classified(signals[U[i]]) = "uncertain"
  BY DEF DetectionInv, Lists
<1>8. DOMAIN call = 1..Len(U)
  BY <1>7
<1> HIDE DEF U
<1>9. \A kind : K(kind) \in SUBSET (1..Len(U))
  BY <1>8
<1>10. \A kind : called(kind) \in Seq(Found) /\ \A x \in ToSet(called(kind)) : \E k \in K(kind) : x = U[k]
  <2> SUFFICES ASSUME NEW kind
               PROVE  called(kind) \in Seq(Found) /\ \A x \in ToSet(called(kind)) : \E k \in K(kind) : x = U[k]
    OBVIOUS
  <2>1. K(kind) \in SUBSET (1..Len(U))
    BY <1>9
  <2> HIDE DEF K
  <2> QED BY <1>7, <2>1, SomeOf
<1>11. \A kind : \A k \in K(kind) : k \in 1..Len(U) /\ call[k] = kind
  BY <1>9
<1> HIDE DEF called, K
<1>12. detected.person \in Seq(Found) /\ detected.project \in Seq(Found)
  BY DEF DetectionInv, Lists
<1>13. /\ people \in Seq(Found) /\ ToSet(people) = ToSet(detected.person) \cup ToSet(called("person"))
       /\ projects \in Seq(Found) /\ ToSet(projects) = ToSet(detected.project) \cup ToSet(called("project"))
  BY <1>10, <1>12, JoinedRows
<1> HIDE DEF people, projects
<1>14. ConfirmedApart'
  <2>1. /\ confirmed'.person = WithoutNumbers(people, wrong) \o Added("person", more)
        /\ confirmed'.project = WithoutNumbers(projects, wrongs) \o Added("project", more)
    BY <1>6
  <2>2. SUFFICES ASSUME NEW n \in ToSet(confirmed'.person), n \in ToSet(confirmed'.project), n # NewName
                 PROVE  FALSE
    BY DEF ConfirmedApart
  <2>3. n \in ToSet(people)
    BY <1>13, <2>1, <2>2, LeftOf
  <2>4. n \in ToSet(projects)
    BY <1>13, <2>1, <2>2, LeftOf
  <2>5. ASSUME NEW kind, n \in ToSet(called(kind)) PROVE \E k \in 1..Len(U) : call[k] = kind /\ n = U[k]
    BY <1>10, <1>11, <2>5
  <2>6. n \in ToSet(detected.person) => Classified(signals[n]) = "person"
    <3>1. Lists(detected.person, "person", signals)
      BY DEF DetectionInv
    <3> QED BY ONLY <3>1 DEF Lists, ToSet
  <2>7. n \in ToSet(detected.project) => Classified(signals[n]) = "project"
    <3>1. Lists(detected.project, "project", signals)
      BY DEF DetectionInv
    <3> QED BY ONLY <3>1 DEF Lists, ToSet
  <2>8. ASSUME NEW kind, n \in ToSet(called(kind)) PROVE Classified(signals[n]) = "uncertain"
    BY <1>7, <2>5, <2>8
  <2>9. ~(n \in ToSet(called("person")) /\ n \in ToSet(called("project")))
    <3> SUFFICES ASSUME n \in ToSet(called("person")), n \in ToSet(called("project")) PROVE FALSE
      OBVIOUS
    <3>1. PICK k \in 1..Len(U) : call[k] = "person" /\ n = U[k]
      BY <2>5
    <3>2. PICK l \in 1..Len(U) : call[l] = "project" /\ n = U[l]
      BY <2>5
    <3> QED BY <1>7, <3>1, <3>2
  <2> QED BY <1>13, <2>3, <2>4, <2>6, <2>7, <2>8, <2>9
<1> QED BY <1>1, <1>2, <1>14 DEF DetectionInv

LEMMA DetectionInvStep == DetectionInv /\ [DetectionNext]_detectionVars => DetectionInv'
<1> SUFFICES ASSUME DetectionInv, [DetectionNext]_detectionVars PROVE DetectionInv'
  OBVIOUS
<1>1. CASE ScanForDetection
  BY <1>1, ScanFits
<1>2. CASE DetectEntities
  BY <1>2, DetectFits
<1>3. CASE AcceptAll
  BY <1>3, AcceptFits
<1>4. CASE ConfirmByHand
  BY <1>4, ConfirmFits
<1>5. CASE UNCHANGED detectionVars
  BY <1>5 DEF detectionVars, DetectionInv, BestKept, ProseFirst, ConfirmedApart
<1> QED BY <1>1, <1>2, <1>3, <1>4, <1>5 DEF DetectionNext

LEMMA DetectionInvSound == DetectionInv => DetectionSound
<1> SUFFICES ASSUME DetectionInv PROVE DetectionSound
  OBVIOUS
<1>1. \A n \in Found : signals[n] \in SignalRec
  BY SignalsMean DEF DetectionInv
<1>2. OnGoodEvidence
  <2>1. ASSUME NEW n \in ToSet(detected.person)
        PROVE  Cardinality(AllKinds(signals[n])) >= 2 /\ PersonScore(signals[n]) > 2 * ProjectScore(signals[n])
    <3>1. n \in Found /\ Classified(signals[n]) = "person"
      BY DEF DetectionInv, Lists, ToSet
    <3> QED BY <1>1, <3>1, EvidenceGood
  <2>2. ASSUME NEW n \in ToSet(detected.project)
        PROVE  ProjectScore(signals[n]) > 2 * PersonScore(signals[n])
    <3>1. n \in Found /\ Classified(signals[n]) = "project"
      BY DEF DetectionInv, Lists, ToSet
    <3> QED BY <1>1, <3>1, EvidenceGood
  <2> QED BY <2>1, <2>2 DEF OnGoodEvidence
<1> QED BY <1>2 DEF DetectionInv, DetectionSound

\* A name is put forward as a person on signals of two kinds and a score more than
\* twice the other one, a project likewise on its score; a name left off a list finds
\* it full of names no less sure; what the user confirms is apart, but for a name of
\* the user's own; and code is read only beside little prose, all of which is read
\* (entity_detector.py: classify_entity, detect_entities, confirm_entities,
\* scan_for_detection).
THEOREM DetectionsAreSound == DetectionSpec => []DetectionSound
<1>1. DetectionSpec => []DetectionInv
  BY DetectionInvInit, DetectionInvStep, PTL DEF DetectionSpec
<1> QED BY <1>1, DetectionInvSound, PTL

-----------------------------------------------------------------------------
(* All parts in one run: what holds of a part holds of the whole.          *)

\* The run begins where each of its parts does.
LEMMA IntakeBegins ==
  IntakeInit => /\ IngestInit /\ ScanInit /\ ConvoInit /\ TrackersInit /\ ChunkInit /\ RegistryInit
                /\ HooksInit /\ MigrationInit /\ PagingInit /\ DetectionInit
BY DEF IntakeInit

\* One part moves, the others stay as they are.
LEMMA IntakeSteps ==
  [IntakeNext]_intakeVars =>
    /\ [IngestNext]_ingestVars /\ [ScanNext]_scanVars /\ [ConvoNext]_convoVars /\ [TrackersNext]_trackerVars
    /\ [ChunkNext]_chunkVars /\ [RegistryNext]_registryVars /\ [HooksNext]_hookVars /\ [MigrationNext]_migrationVars
    /\ [PagingNext]_pagingVars /\ [DetectionNext]_detectionVars
<1> DEFINE Each ==
             /\ [IngestNext]_ingestVars /\ [ScanNext]_scanVars /\ [ConvoNext]_convoVars /\ [TrackersNext]_trackerVars
             /\ [ChunkNext]_chunkVars /\ [RegistryNext]_registryVars /\ [HooksNext]_hookVars
             /\ [MigrationNext]_migrationVars /\ [PagingNext]_pagingVars /\ [DetectionNext]_detectionVars
           Stay ==
             /\ UNCHANGED ingestVars /\ UNCHANGED scanVars /\ UNCHANGED convoVars /\ UNCHANGED trackerVars
             /\ UNCHANGED chunkVars /\ UNCHANGED registryVars /\ UNCHANGED hookVars /\ UNCHANGED migrationVars
             /\ UNCHANGED pagingVars
<1>1. UNCHANGED mostVars => Stay
  BY DEF mostVars
<1>2. UNCHANGED textVars => UNCHANGED detectionVars
  BY DEF textVars
<1>3. UNCHANGED intakeVars => Each
  BY <1>1, <1>2 DEF intakeVars
<1>4. IngestMoves => Each
  BY <1>2 DEF IngestMoves
<1>5. ScanMoves => Each
  BY <1>2 DEF ScanMoves
<1>6. ConvoMoves => Each
  BY <1>2 DEF ConvoMoves
<1>7. TrackersMoves => Each
  BY <1>2 DEF TrackersMoves
<1>8. ChunkMoves => Each
  BY <1>2 DEF ChunkMoves
<1>9. RegistryMoves => Each
  BY <1>2 DEF RegistryMoves
<1>10. CodesMoves => Each
  BY <1>2 DEF CodesMoves, RegistryNext
<1>11. HooksMoves => Each
  BY <1>2 DEF HooksMoves
<1>12. MigrationMoves => Each
  BY <1>2 DEF MigrationMoves
<1>13. PagingMoves => Each
  BY <1>2 DEF PagingMoves
<1>14. TranscriptMoves => Each
  BY <1>1 DEF TranscriptMoves
<1>15. MegaMoves => Each
  BY <1>1 DEF MegaMoves
<1>16. DetectionMoves => Each
  BY <1>1 DEF DetectionMoves
<1> HIDE DEF Each
<1>17. [IntakeNext]_intakeVars => Each
  BY <1>3, <1>4, <1>5, <1>6, <1>7, <1>8, <1>9, <1>10, <1>11, <1>12, <1>13, <1>14, <1>15, <1>16 DEF IntakeNext
<1> QED BY <1>17 DEF Each

\* THEOREM.  The types of all parts that fill a castle.
THEOREM IntakeIsTyped == IntakeSpec => []IntakeTypeOK
<1>1. TrackersInit => TrackersInv /\ TrackersBounds
  BY TrackersInvInit, BoundsInit
<1>2. TrackersInv /\ TrackersBounds /\ [TrackersNext]_trackerVars => (TrackersInv /\ TrackersBounds)'
  BY TrackersInvStep, BoundsStep
<1>3. ScanInv => ScanTypeOK
  BY DEF ScanInv, ScanTypeOK
<1>4. IntakeSpec => ConvoSpec /\ HooksSpec /\ MigrationSpec
  BY IntakeBegins, IntakeSteps, PTL DEF IntakeSpec, ConvoSpec, HooksSpec, MigrationSpec
<1>5. IntakeSpec => []IngestInv /\ []ScanInv
  BY IntakeBegins, IntakeSteps, IngestInitStep, IngestKeeps, ScanStarts, ScanStep, PTL DEF IntakeSpec
<1>6. IntakeSpec => [](TrackersInv /\ TrackersBounds)
  BY <1>1, <1>2, IntakeBegins, IntakeSteps, PTL DEF IntakeSpec
<1>7. IntakeSpec => []RegistryInv /\ []PagingInv
  BY IntakeBegins, IntakeSteps, RegistryInvInit, RegistryInvStep, PagingBegins, PagingStep, PTL DEF IntakeSpec
<1>8. IntakeSpec => []IngestTypeOK /\ []ScanTypeOK /\ []TrackersTypeOK /\ []RegistryTypeOK /\ []PagingTypeOK
  BY <1>3, <1>5, <1>6, <1>7, InvIsTyped, BoundsAreTyped, RegistryInvIsTyped, PagingInvIsTyped, PTL
<1> QED BY <1>4, <1>8, ConvosAreSound, HooksAreSound, MigrationIsSafe, PTL DEF IntakeTypeOK

\* The mega-files of a run that is about them begin as when they are alone, and are
\* left alone by the others.
LEMMA MegaPart ==
  IntakeSpec => [](part = "megafiles" => MegaInv)
<1>1. IntakeInit => (part = "megafiles" => MegaInv)
  BY MegaInvInit DEF IntakeInit, OthersRest
<1>2. [IntakeNext]_intakeVars => part' = part
  BY DEF IntakeNext, intakeVars, IngestMoves, ScanMoves, ConvoMoves, TrackersMoves, ChunkMoves, RegistryMoves,
         CodesMoves, HooksMoves, MigrationMoves, PagingMoves, TranscriptMoves, MegaMoves, DetectionMoves
<1>3. [IntakeNext]_intakeVars /\ part = "megafiles" => [MegaNext]_megaVars
  <2>1. UNCHANGED textVars => UNCHANGED megaVars
    BY DEF textVars
  <2>2. IntakeNext /\ part = "megafiles" => MegaNext
    BY DEF IntakeNext, IngestMoves, ScanMoves, ConvoMoves, TrackersMoves, ChunkMoves, RegistryMoves,
           CodesMoves, HooksMoves, MigrationMoves, PagingMoves, TranscriptMoves, MegaMoves, DetectionMoves
  <2> QED BY <2>1, <2>2 DEF intakeVars
<1>4. (part = "megafiles" => MegaInv) /\ [IntakeNext]_intakeVars => (part = "megafiles" => MegaInv)'
  BY <1>2, <1>3, MegaInvStep
<1> QED BY <1>1, <1>4, PTL DEF IntakeSpec

\* So do the transcripts.
LEMMA TranscriptPart ==
  IntakeSpec => [](part = "transcripts" => TranscriptInv)
<1>1. IntakeInit => (part = "transcripts" => TranscriptInv)
  BY TranscriptBegins DEF IntakeInit, OthersRest
<1>2. [IntakeNext]_intakeVars => part' = part
  BY DEF IntakeNext, intakeVars, IngestMoves, ScanMoves, ConvoMoves, TrackersMoves, ChunkMoves, RegistryMoves,
         CodesMoves, HooksMoves, MigrationMoves, PagingMoves, TranscriptMoves, MegaMoves, DetectionMoves
<1>3. [IntakeNext]_intakeVars /\ part = "transcripts" => [TranscriptNext]_transcriptVars
  <2>1. UNCHANGED textVars => UNCHANGED transcriptVars
    BY DEF textVars
  <2>2. IntakeNext /\ part = "transcripts" => TranscriptNext
    BY DEF IntakeNext, IngestMoves, ScanMoves, ConvoMoves, TrackersMoves, ChunkMoves, RegistryMoves,
           CodesMoves, HooksMoves, MigrationMoves, PagingMoves, TranscriptMoves, MegaMoves, DetectionMoves
  <2> QED BY <2>1, <2>2 DEF intakeVars
<1>4. (part = "transcripts" => TranscriptInv) /\ [IntakeNext]_intakeVars => (part = "transcripts" => TranscriptInv)'
  BY <1>2, <1>3, TranscriptKept, TranscriptSteps
<1> QED BY <1>1, <1>4, PTL DEF IntakeSpec

\* THEOREM.  Text on its way to a drawer is cut, parsed and split as ChunkSound,
\* TranscriptsSound and MegaSound say, whichever part of the intake has it.
THEOREM TextIsSound == IntakeSpec => []TextSound
<1>1. IntakeSpec => ChunkSpec
  BY IntakeBegins, IntakeSteps, PTL DEF IntakeSpec, ChunkSpec
<1>2. IntakeSpec => []ChunkSound
  BY <1>1, ChunksAreSound
<1>3. /\ ChunkSound
      /\ part = "transcripts" => TranscriptInv
      /\ part = "megafiles" => MegaInv
      => TextSound
  BY TranscriptInvSound, MegaInvIsSound DEF TextSound
<1> QED BY <1>2, <1>3, TranscriptPart, MegaPart, PTL

\* THEOREM.  What holds of mining, scanning, transcripts, hooks and migrations when
\* each is run alone holds of the whole, with the same exceptions (unsettled files,
\* torn transcripts, disturbed builds of the digest).
THEOREM IntakeIsSound ==
  IntakeSpec => /\ [](ScanSound /\ TextSound /\ HooksSound /\ MigrationSafe)
                /\ ConvoSound /\ IngestSound
<1>1. IngestInv /\ [IngestNext]_ingestVars =>
        [FinishMine => \A f \in File \ unsettled : disk'[f].size > 0 => Mirrored(f)']_ingestVars
  BY FinishMirrors
<1>2. IntakeSpec => IngestInit /\ [][IngestNext]_ingestVars
  BY IntakeBegins, IntakeSteps, PTL DEF IntakeSpec
<1>3. IntakeSpec => IngestSound
  BY <1>1, <1>2, IngestInitStep, IngestKeeps, InvIsOneContent, PTL DEF IngestSound, MirrorsUndisturbed
<1>4. IntakeSpec => ConvoSpec /\ HooksSpec /\ MigrationSpec /\ ScanSpec
  BY IntakeBegins, IntakeSteps, PTL DEF IntakeSpec, ConvoSpec, HooksSpec, MigrationSpec, ScanSpec
<1> QED BY <1>3, <1>4, ConvosAreSound, HooksAreSound, MigrationIsSafe, ScansAreSound, TextIsSound, PTL

\* THEOREM.  Names on their way to the registry, in the run of all parts: what the
\* detector puts forward, and what the registry and the codes keep of it.
THEOREM NamesAreSound == IntakeSpec => NamesSound
<1>1. IntakeSpec => RegistryInit /\ [][RegistryNext]_registryVars /\ DetectionSpec
  BY IntakeBegins, IntakeSteps, PTL DEF IntakeSpec, DetectionSpec
<1> QED BY <1>1, RegistryAnyPace, DetectionsAreSound, PTL DEF NamesSound

\* THEOREM.  The trackers, in the run of all parts: only what is gone is quarantined,
\* only what was decided is filed; and alone the sweep quarantines after StaleAfter
\* failures in a row, hiccups included, and keeps the registry of the user.
THEOREM TrackersAreSound == IntakeSpec => []TrackersSound
<1>1. IntakeSpec => TrackersInit /\ [][TrackersNext]_trackerVars
  BY IntakeBegins, IntakeSteps, PTL DEF IntakeSpec
<1> QED BY <1>1, TrackersAnyPace, PTL

\* THEOREM.  The transfer in pages, in the run of all parts: if the rows come in the
\* order of their ids, and all records fit into one push, it loses none.
THEOREM PagesAreSound ==
  ASSUME AllFit, OrderedById
  PROVE  IntakeSpec => []PagingSound
<1>1. IntakeSpec => PagingSpec
  BY IntakeBegins, IntakeSteps, PTL DEF IntakeSpec, PagingSpec
<1>2. PagingSpec => []NoHole /\ []NothingSkipped
  BY PagesLoseNothing
<1> QED BY <1>1, <1>2, PTL DEF PagingSound
=============================================================================
