------------------------------- MODULE Ingest -------------------------------
(***************************************************************************)
(* Mining a project directory (mining/miner.py): mine() takes the files of *)
(* the project, one after the other or through a pool of workers, skips    *)
(* those whose stored drawers carry the file's modification time, and      *)
(* replaces the drawers of the others through a buffer that is embedded    *)
(* and written when full.  Files change while it runs, and it may die.     *)
(*                                                                         *)
(* A content is known by the moment of its writing, `at`, which is also    *)
(* the file's modification time; a step is one call on the file system or  *)
(* on the collection, or one chunk put in the buffer.                      *)
(***************************************************************************)
EXTENDS Integers, FiniteSets

CONSTANTS
  File,
  MaxChunks,    \* chunks in the largest content
  BatchSize,    \* EmbeddingBuffer.batch_size
  Window,       \* _PARALLEL_WINDOW
  MaxEdits,     \* bound on edits
  MaxDeaths,    \* bound on deaths of the process
  MaxMines      \* bound on runs

ASSUME IngestAssumption ==
  /\ "none" \notin File
  /\ MaxChunks \in Nat /\ MaxEdits \in Nat /\ MaxDeaths \in Nat /\ MaxMines \in Nat
  /\ BatchSize \in Nat \ {0} /\ Window \in Nat \ {0}

Time == 0..MaxEdits + 1   \* 0: the file is missing, and os.path.getmtime raises
Missing == [at |-> 0, size |-> 0]

VARIABLES
  disk,      \* the content of each file: when it was written, and its number of
             \* chunks (0: too small, or rejected by _mining_rejection_reason)
  drawers,   \* the drawers of the wing: file, chunk_index, content, source_mtime
  mode,      \* "off", or the way the run under way works
  todo,      \* files the run has not looked at
  inflight,  \* files at the workers, with the content read, or Missing if not yet
  current,   \* the file whose chunks are going to the buffer
  buffer,    \* the drawers in the EmbeddingBuffer
  clock,     \* the time of the last edit
  deaths, mines,
  unsettled  \* history: files edited during a run, or half written at a death,
             \* since their last edit between two runs

ingestVars == <<disk, drawers, mode, todo, inflight, current, buffer, clock, deaths, mines, unsettled>>

NoCurrent == [file |-> "none", at |-> 0, size |-> 0, next |-> 0, mtime |-> 0]

IngestInit ==
  /\ disk \in [File -> {Missing} \cup [at : {1}, size : 1..MaxChunks]]
  /\ drawers = {} /\ mode = "off" /\ todo = {} /\ inflight = {}
  /\ current = NoCurrent /\ buffer = {}
  /\ clock = 1 /\ deaths = 0 /\ mines = 0 /\ unsettled = {}

DrawersOf(f) == {d \in drawers : d.file = f}

StartMine ==
  /\ mode = "off" /\ mines < MaxMines
  /\ mode' \in {"sequential", "parallel"}
  /\ todo' = {f \in File : disk[f].at # 0}
  /\ mines' = mines + 1
  /\ UNCHANGED <<disk, drawers, inflight, current, buffer, clock, deaths, unsettled>>

\* Mutant: any stored drawer means the file is mined (check_mtime=False).
MinedAnyTime(f, d) == TRUE

\* The drawer's source_mtime is that of the file now.
UpToDate(f, d) == d.mtime # 0 /\ d.mtime = disk[f].at

\* _file_already_mined looks at one drawer of the file, whichever comes first.
Look(f) ==
  /\ f \in todo /\ current = NoCurrent
  /\ Cardinality(inflight) < (IF mode = "parallel" THEN Window ELSE 1)
  /\ todo' = todo \ {f}
  /\ \/ /\ \E d \in DrawersOf(f) : UpToDate(f, d)
        /\ UNCHANGED inflight
     \/ /\ IF DrawersOf(f) = {} THEN TRUE ELSE \E d \in DrawersOf(f) : ~UpToDate(f, d)
        /\ inflight' = inflight \cup {[file |-> f, read |-> FALSE, is |-> Missing]}
  /\ UNCHANGED <<disk, drawers, mode, current, buffer, clock, deaths, mines, unsettled>>

\* The content is read, routed and chunked; an unreadable, rejected or too small
\* file is skipped, and so is one at which the worker raises.
Read(w) ==
  /\ w \in inflight /\ ~w.read
  /\ inflight' = (inflight \ {w}) \cup
       (IF disk[w.file].size = 0 THEN {} ELSE {[file |-> w.file, read |-> TRUE, is |-> disk[w.file]]})
  /\ UNCHANGED <<disk, drawers, mode, todo, current, buffer, clock, deaths, mines, unsettled>>

WorkerFails(w) ==
  /\ mode = "parallel" /\ w \in inflight
  /\ inflight' = inflight \ {w}
  /\ unsettled' = unsettled \cup {w.file}
  /\ UNCHANGED <<disk, drawers, mode, todo, current, buffer, clock, deaths, mines>>

\* Mutant: the drawers of the former content stay.
PurgedNone(f) == drawers

\* _delete_existing_file_drawers.
Purged(f) == drawers \ DrawersOf(f)

\* The drawers of the former content go; the parallel run takes the
\* modification time now, for all chunks.
Replace(w) ==
  /\ w \in inflight /\ w.read /\ current = NoCurrent
  /\ inflight' = inflight \ {w}
  /\ drawers' = Purged(w.file)
  /\ current' = [file |-> w.file, at |-> w.is.at, size |-> w.is.size, next |-> 0,
                 mtime |-> disk[w.file].at]
  /\ UNCHANGED <<disk, mode, todo, buffer, clock, deaths, mines, unsettled>>

\* The sequential run takes the modification time anew for each chunk.
NextDrawer ==
  [file |-> current.file, index |-> current.next, text |-> current.at,
   mtime |-> IF mode = "sequential" THEN disk[current.file].at ELSE current.mtime]

\* upsert: the id is made of file and chunk index.  The room is part of it too,
\* but drawers of other rooms have been purged.
Stored(ds) ==
  {d \in drawers : \A e \in ds : <<d.file, d.index>> # <<e.file, e.index>>} \cup ds

\* Mutant: a full buffer is emptied but not written.
FlushForgets(ds) == buffer' = {} /\ UNCHANGED drawers

Flush(ds) == buffer' = {} /\ drawers' = Stored(ds)

\* Mutant: one chunk too many is waited for.
AdvancedPast == [current EXCEPT !.next = @ + 1]

Advanced == IF current.next + 1 = current.size THEN NoCurrent ELSE [current EXCEPT !.next = @ + 1]

AddChunk ==
  /\ current.next < current.size
  /\ LET ds == buffer \cup {NextDrawer}
     IN IF Cardinality(ds) >= BatchSize THEN Flush(ds) ELSE buffer' = ds /\ UNCHANGED drawers
  /\ current' = Advanced
  /\ UNCHANGED <<disk, mode, todo, inflight, clock, deaths, mines, unsettled>>

\* The last flush.
FinishMine ==
  /\ mode # "off" /\ todo = {} /\ inflight = {} /\ current = NoCurrent
  /\ Flush(buffer)
  /\ mode' = "off"
  /\ UNCHANGED <<disk, todo, inflight, current, clock, deaths, mines, unsettled>>

\* The process dies, or an embedding or an upsert raises: the buffer is lost.
MineDies ==
  /\ mode # "off" /\ deaths < MaxDeaths
  /\ deaths' = deaths + 1
  /\ mode' = "off" /\ todo' = {} /\ inflight' = {} /\ current' = NoCurrent /\ buffer' = {}
  /\ unsettled' = unsettled \cup {current.file} \cup {d.file : d \in buffer}
  /\ UNCHANGED <<disk, drawers, clock, mines>>

\* Someone writes or removes a file, at any moment.
Edit(f) ==
  /\ clock <= MaxEdits
  /\ clock' = clock + 1
  /\ \E size \in 0..MaxChunks : disk' = [disk EXCEPT ![f] = [at |-> clock + 1, size |-> size]]
  /\ unsettled' = IF mode = "off" THEN unsettled \ {f} ELSE unsettled \cup {f}
  /\ UNCHANGED <<drawers, mode, todo, inflight, current, buffer, deaths, mines>>

RemoveFile(f) ==
  /\ disk[f] # Missing
  /\ disk' = [disk EXCEPT ![f] = Missing]
  /\ UNCHANGED <<drawers, mode, todo, inflight, current, buffer, clock, deaths, mines, unsettled>>

IngestStep ==
  \/ \E f \in File : Look(f)
  \/ \E w \in inflight : Read(w) \/ Replace(w)
  \/ AddChunk \/ FinishMine

IngestNext ==
  \/ IngestStep \/ StartMine \/ MineDies
  \/ \E w \in inflight : WorkerFails(w)
  \/ \E f \in File : Edit(f) \/ RemoveFile(f)

\* A run does not pause: workers answer or raise.
IngestSpec == IngestInit /\ [][IngestNext]_ingestVars /\ WF_ingestVars(IngestStep)

-----------------------------------------------------------------------------
(* Properties.                                                             *)

DrawerType(f) == [file : {f}, index : 0..MaxChunks - 1, text : 1..MaxEdits + 1, mtime : Time]

\* The type invariant.
IngestTypeOK ==
  /\ disk \in [File -> [at : Time, size : 0..MaxChunks]]
  /\ \A d \in drawers \cup buffer : d \in DrawerType(d.file) /\ d.file \in File
  /\ mode \in {"off", "sequential", "parallel"} /\ todo \subseteq File
  /\ \A w \in inflight : w.file \in File /\ w.is \in [at : Time, size : 0..MaxChunks]
  /\ current # NoCurrent => current.file \in File /\ current.next < current.size
  /\ unsettled \subseteq File \cup {"none"}

\* All drawers of a file, in the collection and in the buffer, are of one
\* content and are its first chunks: whatever the file's former length, its
\* edits during a run, and the moment the run dies, no drawer of an earlier
\* content stays beside the new ones.
OneContent ==
  \A f \in File :
    LET ds == {d \in drawers \cup buffer : d.file = f}
    IN /\ \A d, e \in ds : d.text = e.text
       /\ {d.index : d \in ds} = 0..Cardinality(ds) - 1

\* The whole content of a file as it is now is stored.
Mirrored(f) == {<<d.index, d.text>> : d \in DrawersOf(f)} = (0..disk[f].size - 1) \X {disk[f].at}

\* A run that finishes leaves every file of the project stored as it is, unless
\* it was edited during a run or half written when a run died: the skipped
\* files too, on the word of one drawer's modification time.
MirrorsUndisturbed ==
  [][FinishMine => \A f \in File \ unsettled : disk'[f].size > 0 => Mirrored(f)']_ingestVars

\* The two together: what is stored of a file is one content of it, and the
\* present one when it can be.
IngestSound == []OneContent /\ MirrorsUndisturbed

\* Every run comes to an end.
MineEnds == mode # "off" ~> mode = "off"
=============================================================================
