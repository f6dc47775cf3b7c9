------------------------------ MODULE Migration ------------------------------
(***************************************************************************)
(* Moving a ChromaDB palace into a new castle (migrate.py): the target     *)
(* must not exist or be empty; the sidecar files are copied where there    *)
(* are none, then the drawers are written in batches; an exception removes *)
(* what was made, a crash does not.                                        *)
(***************************************************************************)
EXTENDS Integers, FiniteSets

CONSTANTS
  OldDrawer,        \* the drawers of the palace that have a document
  Sidecar,          \* SIDECAR_FILES and the wal directory
  MigrationBatch,   \* BATCH_SIZE
  MaxTries          \* bound on runs

ASSUME MigrationAssumption ==
  /\ OldDrawer # {} /\ IsFiniteSet(OldDrawer) /\ "none" \notin Sidecar
  /\ MigrationBatch \in Nat \ {0} /\ MaxTries \in Nat

VARIABLES
  inPalace,   \* the sidecars the palace has
  castle,     \* the target directory: there or not, and the drawers in it
  beside,     \* the sidecars next to the target: absent, torn, copied, or its own
  own,        \* history: the sidecars that were there before the first run
  migrate,    \* the run: what it does next, the sidecars it has copied and those
              \* it has still to look at
  outcome,    \* of the last run
  tornBefore, \* history: a run died, or failed while it copied
  tries

migrationVars == <<inPalace, castle, beside, own, migrate, outcome, tornBefore, tries>>

NoCastle == [there |-> FALSE, drawers |-> {}]
Off == [pc |-> "off", copied |-> {}, left |-> {}, copying |-> "none"]

MigrationInit ==
  /\ inPalace \in SUBSET Sidecar /\ own \in SUBSET Sidecar
  /\ castle \in {NoCastle, [there |-> TRUE, drawers |-> {}]}
  /\ beside = [s \in Sidecar |-> IF s \in own THEN "own" ELSE "absent"]
  /\ migrate = Off /\ outcome = "none" /\ tornBefore = FALSE /\ tries = 0

\* A target that is not empty is refused.
Refuse ==
  /\ migrate.pc = "off" /\ castle.drawers # {} /\ tries < MaxTries
  /\ tries' = tries + 1 /\ outcome' = "refused"
  /\ UNCHANGED <<inPalace, castle, beside, own, migrate, tornBefore>>

StartMigrate ==
  /\ migrate.pc = "off" /\ castle.drawers = {} /\ tries < MaxTries
  /\ tries' = tries + 1 /\ outcome' = "none"
  /\ castle' = [castle EXCEPT !.there = TRUE]
  /\ migrate' = [Off EXCEPT !.pc = "copy", !.left = inPalace]
  /\ UNCHANGED <<inPalace, beside, own, tornBefore>>

\* Mutant: a sidecar that the target has is copied over.
ToCopyAny(s) == TRUE

ToCopy(s) == beside[s] = "absent"

\* A sidecar is passed over, or its copy begins and then ends.
BeginCopy(s) ==
  /\ migrate.pc = "copy" /\ migrate.copying = "none" /\ s \in migrate.left
  /\ IF ToCopy(s)
     THEN /\ beside' = [beside EXCEPT ![s] = "torn"]
          /\ migrate' = [migrate EXCEPT !.copying = s, !.left = @ \ {s}]
     ELSE migrate' = [migrate EXCEPT !.left = @ \ {s}] /\ UNCHANGED beside
  /\ UNCHANGED <<inPalace, castle, own, outcome, tornBefore, tries>>

EndCopy ==
  /\ migrate.copying # "none"
  /\ beside' = [beside EXCEPT ![migrate.copying] = "copied"]
  /\ migrate' = [migrate EXCEPT !.copied = @ \cup {migrate.copying}, !.copying = "none"]
  /\ UNCHANGED <<inPalace, castle, own, outcome, tornBefore, tries>>

CopiedAll ==
  /\ migrate.pc = "copy" /\ migrate.left = {} /\ migrate.copying = "none"
  /\ migrate' = [migrate EXCEPT !.pc = "write"]
  /\ UNCHANGED <<inPalace, castle, beside, own, outcome, tornBefore, tries>>

\* Mutant: the last batch is left out when it is not full.
BatchesFull(left) == {B \in SUBSET left : Cardinality(B) = MigrationBatch}

Batches(left) ==
  {B \in SUBSET left : Cardinality(B) = IF Cardinality(left) < MigrationBatch THEN Cardinality(left) ELSE MigrationBatch}

LeftToWrite == OldDrawer \ castle.drawers

WriteDrawers ==
  /\ migrate.pc = "write" /\ LeftToWrite # {}
  /\ \E B \in Batches(LeftToWrite) : castle' = [castle EXCEPT !.drawers = @ \cup B]
  /\ UNCHANGED <<inPalace, beside, own, migrate, outcome, tornBefore, tries>>

EndMigrate ==
  /\ migrate.pc = "write"
  /\ ~\E B \in Batches(LeftToWrite) : B # {}
  /\ migrate' = Off /\ outcome' = "migrated"
  /\ UNCHANGED <<inPalace, castle, beside, own, tornBefore, tries>>

\* An exception: the target directory is removed, and the sidecars that
\* _copy_sidecars has reported, which is none if it was the one that raised.
MigrateRaises ==
  /\ migrate.pc # "off"
  /\ castle' = NoCastle
  /\ beside' = [s \in Sidecar |-> IF migrate.pc = "write" /\ s \in migrate.copied THEN "absent" ELSE beside[s]]
  /\ migrate' = Off /\ outcome' = "raised"
  /\ tornBefore' = (tornBefore \/ migrate.copying # "none")
  /\ UNCHANGED <<inPalace, own, tries>>

MigrateDies ==
  /\ migrate.pc # "off"
  /\ migrate' = Off /\ outcome' = "died"
  /\ tornBefore' = (tornBefore \/ migrate.copying # "none")
  /\ UNCHANGED <<inPalace, castle, beside, own, tries>>

MigrationNext ==
  \/ Refuse \/ StartMigrate \/ EndCopy \/ CopiedAll \/ WriteDrawers \/ EndMigrate
  \/ MigrateRaises \/ MigrateDies
  \/ \E s \in Sidecar : BeginCopy(s)

MigrationSpec == MigrationInit /\ [][MigrationNext]_migrationVars

-----------------------------------------------------------------------------
(* Properties.                                                             *)

\* The type invariant.
MigrationTypeOK ==
  /\ castle.drawers \subseteq OldDrawer /\ (castle.drawers # {} => castle.there)
  /\ beside \in [Sidecar -> {"absent", "torn", "copied", "own"}]
  /\ migrate.copied \subseteq Sidecar /\ migrate.left \subseteq Sidecar
  /\ outcome \in {"none", "refused", "migrated", "raised", "died"}

\* A migration that returns has brought over every drawer and every sidecar,
\* after any runs that failed or died, except that a sidecar whose copying was
\* cut stays torn; one that raises leaves no drawer, so that it can be repeated;
\* and neither touches a sidecar that the target had of its own.
MigrationSafe ==
  /\ outcome = "migrated" =>
       /\ castle.drawers = OldDrawer
       /\ \A s \in inPalace : beside[s] \in {"copied", "own"} \/ (tornBefore /\ beside[s] = "torn")
  /\ outcome = "raised" => castle.drawers = {}
  /\ \A s \in own : beside[s] = "own"
=============================================================================
