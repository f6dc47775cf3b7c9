------------------------------ MODULE MCIntake ------------------------------
(***************************************************************************)
(* Everything that brings records into a castle, checked in one run: the   *)
(* miners and what is read by them, the trackers, the registry and the     *)
(* detection of names, the hooks, the migration and the paged pull.  The   *)
(* parts share no state here, so that a behaviour is one of one part,      *)
(* chosen at the start; the others stay as they are.                       *)
(***************************************************************************)
EXTENDS Ingest, ProjectScan, ConvoMining, Trackers, Chunking, Registry, Hooks, Migration, SyncPaging,
  Transcripts, MegaFiles, Detection

VARIABLE part

Part == {"mine", "scan", "convos", "trackers", "chunks", "registry", "codes", "hooks", "migration", "paging",
         "transcripts", "megafiles", "detection"}

-----------------------------------------------------------------------------
(* Constants.                                                              *)

\* ProjectScan: rules of every kind, and directories of one name below others.
MCRule(pattern, anchored, dirOnly, negated) ==
  [pattern |-> pattern, anchored |-> anchored, dirOnly |-> dirOnly, negated |-> negated]
MCDir == {<<>>, <<"a">>, <<"b">>, <<"b", "a">>}
MCLeaf == {<<"x">>, <<"a", "x">>, <<"b", "a", "x">>, <<"b", "s">>}
MCRuleList ==
  {<<>>,
   <<MCRule(<<"x">>, FALSE, FALSE, FALSE)>>,
   <<MCRule(<<"a">>, FALSE, TRUE, FALSE)>>,
   <<MCRule(<<"*">>, FALSE, FALSE, FALSE), MCRule(<<"x">>, FALSE, FALSE, TRUE)>>,
   <<MCRule(<<"**", "a">>, TRUE, FALSE, FALSE)>>}
MCInclude == {{}, {<<"b">>}, {<<"b", "a", "x">>}}

\* Registry: one name is a common word and another is an alias of it; for the
\* codes, both begin alike.
MCWord == {"may", "max"}
MCAlias == [w \in {"max"} |-> "may"]
MCRoster == {<<>>, <<"may", "max">>, <<"max", "max">>}
MCShort == [w \in MCWord |-> "MA"]
MCLong == [w \in MCWord |-> w]

\* SyncPaging.
MCNode == {1, 2}
MCId == 1..3

\* MegaFiles: two files of one stem, one of which may hold any few lines.
MCMegaSource == {"f", "g"}
MCStem == [s \in MCMegaSource |-> "f"]
MCHeld ==
  {[s \in MCMegaSource |-> IF s = "f" THEN held ELSE <<"head", line, "text", "head", "stamp">>] :
     held \in BoundedSeq({"head", "again", "stamp", "text"}, 4), line \in {"stamp", "text"}}

\* Detection: a name with signals of all kinds and numbers, beside a plain one and
\* one that leans to a project.
MCFoundName == <<"x", "y", "z">>
MCFrequency == [x |-> 9, y |-> 5, z |-> 5]
MCPlain ==
  [dialogue |-> <<1>>, verbs |-> <<2>>, pronoun |-> 0, direct |-> 0, project |-> <<>>, versioned |-> 0, code |-> 0]
MCProject ==
  [dialogue |-> <<>>, verbs |-> <<>>, pronoun |-> 1, direct |-> 0, project |-> <<1>>, versioned |-> 1, code |-> 1]
MCSignals ==
  {[x |-> s, y |-> MCPlain, z |-> t] :
     s \in [dialogue : {<<>>, <<1, 1, 1>>}, verbs : {<<>>, <<1, 2>>}, pronoun : 0..1, direct : 0..1,
             project : {<<>>, <<2>>}, versioned : 0..1, code : {0}],
     t \in {MCProject, [MCPlain EXCEPT !.verbs = <<>>]}}
MCDigestSize == [d \in {1, 2} |-> 3 - d]
MCNotes ==
  {[prose |-> 0, code |-> 0], [prose |-> 2, code |-> 3], [prose |-> 3, code |-> 1], [prose |-> 5, code |-> 1]}

-----------------------------------------------------------------------------
(* A part that does not move starts in one state.                          *)

OthersRest ==
  /\ IF part = "mine" THEN TRUE ELSE disk = [f \in File |-> Missing]
  /\ IF part = "scan" THEN TRUE
     ELSE /\ git = [d \in Dir |-> <<>>] /\ swamp = [d \in Dir |-> <<>>] /\ global = <<>>
          /\ included = {} /\ options = [gitignore |-> FALSE, only |-> TRUE]
  /\ IF part = "convos" THEN TRUE
     ELSE /\ source = [f \in Transcript |-> [at |-> 1, size |-> 0]]
          /\ sameRoom = FALSE /\ wing = CHOOSE w \in Wing : TRUE
  /\ IF part = "trackers" THEN TRUE
     ELSE /\ forge = [r \in Repo |-> [gone |-> FALSE, closed |-> FALSE, text |-> 1, decided |-> FALSE]]
          /\ alone = TRUE
  /\ IF part = "chunks" THEN TRUE ELSE text = <<>> /\ lines = <<>>
  /\ IF part = "codes" THEN roster \in MCRoster \ {<<>>} ELSE roster = <<>>
  /\ IF part = "migration" THEN TRUE ELSE inPalace = {} /\ own = {} /\ castle = NoCastle
  /\ IF part = "transcripts" THEN TranscriptInit
     ELSE export = [form |-> "claude", entries |-> <<>>] /\ transcript = <<>> /\ units = {} /\ stage = "export"
  /\ IF part = "megafiles" THEN MegaInit
     ELSE /\ folder = [n \in {SourceName(f) : f \in MegaSource} |-> <<>>]
          /\ toSplit = {} /\ splitting = NoMegaFile /\ splits = 0 /\ stops = 0
  /\ IF part = "detection" THEN TRUE
     ELSE notes = [prose |-> 0, code |-> 0] /\ signals = (CHOOSE s \in Signals : TRUE)

IntakeInit ==
  /\ part \in Part
  /\ OthersRest
  /\ IngestInit /\ ScanInit /\ ConvoInit /\ TrackersInit /\ ChunkInit /\ RegistryInit
  /\ HooksInit /\ MigrationInit /\ PagingInit
  /\ DetectionInit

-----------------------------------------------------------------------------
(* One part moves.                                                         *)

textVars == <<transcriptVars, megaVars, detectionVars>>

\* The variables of all parts but these three.
mostVars ==
  <<ingestVars, scanVars, convoVars, trackerVars, chunkVars, registryVars, hookVars, migrationVars, pagingVars>>

IngestMoves ==
  /\ part = "mine" /\ IngestNext
  /\ UNCHANGED <<part, textVars, scanVars, convoVars, trackerVars, chunkVars, registryVars, hookVars, migrationVars, pagingVars>>

ScanMoves ==
  /\ part = "scan" /\ ScanNext
  /\ UNCHANGED <<part, textVars, ingestVars, convoVars, trackerVars, chunkVars, registryVars, hookVars, migrationVars, pagingVars>>

ConvoMoves ==
  /\ part = "convos" /\ ConvoNext
  /\ UNCHANGED <<part, textVars, ingestVars, scanVars, trackerVars, chunkVars, registryVars, hookVars, migrationVars, pagingVars>>

TrackersMoves ==
  /\ part = "trackers" /\ TrackersNext
  /\ UNCHANGED <<part, textVars, ingestVars, scanVars, convoVars, chunkVars, registryVars, hookVars, migrationVars, pagingVars>>

ChunkMoves ==
  /\ part = "chunks" /\ ChunkNext
  /\ UNCHANGED <<part, textVars, ingestVars, scanVars, convoVars, trackerVars, registryVars, hookVars, migrationVars, pagingVars>>

RegistryMoves ==
  /\ part = "registry" /\ RegistryNext
  /\ UNCHANGED <<part, textVars, ingestVars, scanVars, convoVars, trackerVars, chunkVars, hookVars, migrationVars, pagingVars>>

CodesMoves ==
  /\ part = "codes" /\ Coding
  /\ UNCHANGED <<part, textVars, ingestVars, scanVars, convoVars, trackerVars, chunkVars, hookVars, migrationVars, pagingVars>>

HooksMoves ==
  /\ part = "hooks" /\ HooksNext
  /\ UNCHANGED <<part, textVars, ingestVars, scanVars, convoVars, trackerVars, chunkVars, registryVars, migrationVars, pagingVars>>

MigrationMoves ==
  /\ part = "migration" /\ MigrationNext
  /\ UNCHANGED <<part, textVars, ingestVars, scanVars, convoVars, trackerVars, chunkVars, registryVars, hookVars, pagingVars>>

PagingMoves ==
  /\ part = "paging" /\ PagingNext
  /\ UNCHANGED <<part, textVars, ingestVars, scanVars, convoVars, trackerVars, chunkVars, registryVars, hookVars, migrationVars>>

TranscriptMoves ==
  /\ part = "transcripts" /\ TranscriptNext
  /\ UNCHANGED <<part, mostVars, megaVars, detectionVars>>

MegaMoves ==
  /\ part = "megafiles" /\ MegaNext
  /\ UNCHANGED <<part, mostVars, transcriptVars, detectionVars>>

DetectionMoves ==
  /\ part = "detection" /\ DetectionNext
  /\ UNCHANGED <<part, mostVars, transcriptVars, megaVars>>

IntakeNext ==
  \/ IngestMoves
  \/ ScanMoves
  \/ ConvoMoves
  \/ TrackersMoves
  \/ ChunkMoves
  \/ RegistryMoves
  \/ CodesMoves
  \/ HooksMoves
  \/ MigrationMoves
  \/ PagingMoves
  \/ TranscriptMoves
  \/ MegaMoves
  \/ DetectionMoves

\* The fairness of the parts that state some.
IntakeFairness ==
  /\ WF_ingestVars(part = "mine" /\ IngestStep)
  /\ WF_trackerVars(part = "trackers" /\ StartSweep)
  /\ WF_trackerVars(part = "trackers" /\ SweepStep)
  /\ WF_trackerVars(part = "trackers" /\ UserStep)
  /\ WF_trackerVars(part = "trackers" /\ TokenRefreshed)
  /\ WF_registryVars(part = "codes" /\ Coding)
  /\ WF_pagingVars(part = "paging" /\ Begin)
  /\ WF_pagingVars(part = "paging" /\ Page)
  /\ WF_pagingVars(part = "paging" /\ Apply)

intakeVars == <<part, mostVars, textVars>>

IntakeSpec == IntakeInit /\ [][IntakeNext]_intakeVars /\ IntakeFairness

-----------------------------------------------------------------------------
(* Properties.                                                             *)

\* The type invariants of the parts.
IntakeTypeOK ==
  /\ IngestTypeOK /\ ScanTypeOK /\ ConvoTypeOK /\ TrackersTypeOK /\ RegistryTypeOK
  /\ HooksTypeOK /\ MigrationTypeOK /\ PagingTypeOK

\* Text on its way to a drawer: what is cut into pieces (mining/miner.py), what is
\* read from the export of a chat (mining/normalize.py, mining/convo.py), and what
\* is split before it is mined (split_mega_files.py) is neither lost nor doubled.
TextSound ==
  /\ ChunkSound
  /\ part = "transcripts" => TranscriptsSound
  /\ part = "megafiles" => MegaSound

\* Names on their way to the registry: what the detector takes for a person or a
\* project (entity_detector.py), and what the registry and the codes of the
\* onboarding make of them (entity_registry.py, onboarding.py).
NamesSound == RegistrySound /\ []DetectionSound

\* What is begun or owed comes to an end: a run of the miner (mining/miner.py), the
\* polling of a repository that is gone (trackers/), the codes of everyone on the
\* roster (onboarding.py), and the records a peer lacks (sync.py).
IntakeEnds == MineEnds /\ GoneIsQuarantined /\ EveryoneCoded /\ CatchesUp
=============================================================================
