---------------------------- MODULE ConvoMining ----------------------------
(***************************************************************************)
(* Mining conversation transcripts (mining/convo.py): mine_convos takes    *)
(* one transcript after the other, skips those whose drawers carry the     *)
(* file's modification time, purges the drawers of the others before it    *)
(* reads the file, and writes the new ones in batches.  Transcripts grow   *)
(* while it runs; it may die; and the same files are mined as project      *)
(* files (mining/miner.py), whose drawers have the same source_file.       *)
(*                                                                         *)
(* A content is known by the moment of its writing, which is the file's    *)
(* modification time.                                                      *)
(***************************************************************************)
EXTENDS Integers, FiniteSets

CONSTANTS
  Transcript,
  Wing,         \* wings a run may file into
  MaxTurns,     \* chunks in the longest content
  UpsertBatch,  \* UPSERT_BATCH
  MaxTalks,    \* bound on changes of transcripts
  MaxFalls,     \* bound on deaths
  MaxRuns       \* bound on runs

ASSUME ConvoAssumption ==
  /\ "none" \notin Transcript
  /\ MaxTurns \in Nat /\ MaxTalks \in Nat /\ MaxFalls \in Nat /\ MaxRuns \in Nat
  /\ UpsertBatch \in Nat \ {0}

VARIABLES
  source,     \* the content of each transcript: when written, and its number of
              \* chunks (0: not a transcript, unreadable or too short)
  filed,      \* drawers: file, chunk index, wing, ingest_mode, content, source_mtime
  sameRoom,   \* whether both ways of mining route to one room, so that their ids meet
  phase,      \* "off", or what the run does next: "check" a file, "ingest" it,
              \* take its "stat", or "write" its drawers
  wing,       \* of the run
  left,       \* transcripts the run has not looked at
  item,       \* the transcript at work, with what is known of it
  now,        \* the time of the last write
  falls, runs,
  torn        \* history: transcripts changed between the reading of the content
              \* and of its time, or half written when a run died

convoVars == <<source, filed, sameRoom, phase, wing, left, item, now, falls, runs, torn>>

NoItem == [file |-> "none", at |-> 0, size |-> 0, done |-> 0, mtime |-> 0]

ConvoInit ==
  /\ source \in [Transcript -> [at : {1}, size : 0..MaxTurns]]
  /\ filed = {} /\ sameRoom \in BOOLEAN
  /\ phase = "off" /\ wing \in Wing /\ left = {} /\ item = NoItem
  /\ now = 1 /\ falls = 0 /\ runs = 0 /\ torn = {}

ConvosOf(f) == {d \in filed : d.file = f /\ d.mode = "convos"}

StartRun ==
  /\ phase = "off" /\ runs < MaxRuns
  /\ phase' = "check" /\ left' = Transcript /\ wing' \in Wing
  /\ runs' = runs + 1
  /\ UNCHANGED <<source, filed, sameRoom, item, now, falls, torn>>

\* _file_already_mined with check_mtime: the first drawer among those of
\* ingest_mode "convos" has the time of the file.
MinedAsIs(f) == \E d \in ConvosOf(f) : d.mtime = source[f].at

\* Mutants: drawers of both ways of mining are purged; those in the wing only.
PurgeAll(f) == {d \in filed : d.file # f}

PurgeWing(f) == filed \ {d \in ConvosOf(f) : d.wing = wing}

\* _purge_source_file: in every wing, and only drawers mined as conversations.
Purge(f) == filed \ ConvosOf(f)

\* A transcript is skipped, or its drawers are purged and it is taken up.
Skip(f) ==
  /\ phase = "check" /\ f \in left
  /\ MinedAsIs(f)
  /\ left' = left \ {f}
  /\ UNCHANGED <<source, filed, sameRoom, phase, wing, item, now, falls, runs, torn>>

TakeUp(f) ==
  /\ phase = "check" /\ f \in left
  /\ ~MinedAsIs(f)
  /\ left' = left \ {f}
  /\ filed' = Purge(f)
  /\ torn' = torn \ {f}
  /\ item' = [NoItem EXCEPT !.file = f]
  /\ phase' = "ingest"
  /\ UNCHANGED <<source, sameRoom, wing, now, falls, runs>>

\* The content is normalized and chunked.  A file without chunks, or one that
\* cannot be read or parsed, is passed over: its drawers are gone already.
IngestFile ==
  /\ phase = "ingest"
  /\ \/ /\ source[item.file].size > 0
        /\ item' = [item EXCEPT !.at = source[item.file].at, !.size = source[item.file].size]
        /\ phase' = "stat"
     \/ /\ source[item.file].size = 0
        /\ item' = NoItem /\ phase' = "check"
  /\ UNCHANGED <<source, filed, sameRoom, wing, left, now, falls, runs, torn>>

\* _source_mtime, after the content has been read.
TakeTime ==
  /\ phase = "stat"
  /\ item' = [item EXCEPT !.mtime = source[item.file].at]
  /\ phase' = "write"
  /\ UNCHANGED <<source, filed, sameRoom, wing, left, now, falls, runs, torn>>

ConvoDrawer(f, k, m, w, text, mtime) ==
  [file |-> f, index |-> k, mode |-> m, wing |-> w, text |-> text, mtime |-> mtime]

\* The drawers that upserting ds leaves: ids are made of wing, room, file, index.
Upserted(ds) ==
  {d \in filed : \A e \in ds :
     <<d.file, d.index, d.wing>> # <<e.file, e.index, e.wing>> \/ (d.mode # e.mode /\ ~sameRoom)} \cup ds

Batch(last) == item.done + 1..(IF item.done + UpsertBatch < last THEN item.done + UpsertBatch ELSE last)

\* Mutant: the last chunk is left out.
BatchShort == Batch(item.size - 1)

\* The chunks of the next batch.
NextChunks == Batch(item.size)

WriteBatch ==
  /\ phase = "write"
  /\ filed' = Upserted({ConvoDrawer(item.file, k, "convos", wing, item.at, item.mtime) : k \in NextChunks})
  /\ IF item.done + UpsertBatch >= item.size
     THEN item' = NoItem /\ phase' = "check"
     ELSE item' = [item EXCEPT !.done = @ + UpsertBatch] /\ UNCHANGED phase
  /\ UNCHANGED <<source, sameRoom, wing, left, now, falls, runs, torn>>

FinishRun ==
  /\ phase = "check" /\ left = {}
  /\ phase' = "off"
  /\ UNCHANGED <<source, filed, sameRoom, wing, left, item, now, falls, runs, torn>>

\* The process dies, or an upsert raises.
RunDies ==
  /\ phase # "off" /\ falls < MaxFalls
  /\ falls' = falls + 1
  /\ torn' = IF item.done > 0 THEN torn \cup {item.file} ELSE torn
  /\ phase' = "off" /\ left' = {} /\ item' = NoItem
  /\ UNCHANGED <<source, filed, sameRoom, wing, now, runs>>

\* Someone adds to a transcript, or rewrites it.
Write(f) ==
  /\ now <= MaxTalks
  /\ now' = now + 1
  /\ \E size \in 0..MaxTurns : source' = [source EXCEPT ![f] = [at |-> now + 1, size |-> size]]
  /\ torn' = IF item.file # f THEN torn \ {f} ELSE IF phase = "stat" THEN torn \cup {f} ELSE torn
  /\ UNCHANGED <<filed, sameRoom, phase, wing, left, item, falls, runs>>

\* The same file is mined as a project file: process_file purges the drawers of
\* file and wing, of conversations too.
MineAsProject(f, w) ==
  /\ phase = "off" /\ source[f].size > 0
  /\ filed' = {d \in filed : d.file # f \/ d.wing # w}
                \cup {ConvoDrawer(f, k, "registry", w, source[f].at, source[f].at) : k \in 1..source[f].size}
  /\ torn' = IF {d \in filed' : d.file = f /\ d.mode = "convos"} = {} THEN torn \ {f} ELSE torn
  /\ UNCHANGED <<source, sameRoom, phase, wing, left, item, now, falls, runs>>

ConvoNext ==
  \/ StartRun \/ IngestFile \/ TakeTime \/ WriteBatch \/ FinishRun \/ RunDies
  \/ \E f \in Transcript :
       Skip(f) \/ TakeUp(f) \/ Write(f) \/ \E w \in Wing : MineAsProject(f, w)

ConvoSpec == ConvoInit /\ [][ConvoNext]_convoVars

-----------------------------------------------------------------------------
(* Properties.                                                             *)

\* The type invariant.
ConvoTypeOK ==
  /\ \A d \in filed :
       /\ d.file \in Transcript /\ d.index \in 1..MaxTurns /\ d.wing \in Wing
       /\ d.mode \in {"convos", "registry"} /\ d.text \in 1..MaxTalks + 1 /\ d.mtime \in 1..MaxTalks + 1
  /\ phase \in {"off", "check", "ingest", "stat", "write"}
  /\ left \subseteq Transcript /\ torn \subseteq Transcript
  /\ item = NoItem <=> phase \in {"off", "check"}

\* The conversation drawers of a transcript are of one content and one wing,
\* through growth, deaths and runs that file into different wings.
OneFiling ==
  \A f \in Transcript : \A d, e \in ConvosOf(f) : d.text = e.text /\ d.wing = e.wing /\ d.mtime = e.mtime

\* A transcript that is skipped is stored as it is: its drawers are those of the
\* whole present content (mining.md:167, "Unchanged transcripts are still
\* skipped").  The code keeps this only for transcripts that did not change
\* between two system calls and were not half written at a death.
SkippedIsStored ==
  [][\A f \in Transcript \ torn :
       Skip(f) => {<<d.index, d.text>> : d \in ConvosOf(f)} = (1..source[f].size) \X {source[f].at}]_convoVars

\* Drawers that the project miner has filed for the same path survive the purge
\* ("registry drawers for the same path survive (#1528)", convo.py:70); only a
\* drawer that gets the same id, in the same room, takes the place of one.
RegistrySurvives ==
  [][\A d \in filed \ filed' : d.mode = "registry" =>
       \/ \E w \in Wing : MineAsProject(d.file, w)
       \/ sameRoom /\ \E e \in filed' : e.mode = "convos" /\ <<e.file, e.index, e.wing>> = <<d.file, d.index, d.wing>>]_convoVars

\* The three together: what a run that cannot finish, a transcript that grows
\* under it, or the other miner may do to the drawers of a transcript.
ConvoSound == []OneFiling /\ SkippedIsStored /\ RegistrySurvives
=============================================================================
