----------------------------- MODULE MegaFiles -----------------------------
(***************************************************************************)
(* Splitting files that hold several sessions of a terminal                *)
(* (split_mega_files.py), before they are mined.  A line is what the       *)
(* splitter makes of it: the head of a session ("head"), the mark of a     *)
(* session that was only taken up again ("again"), a time ("stamp") or     *)
(* other text.  The names and the subject that also go into the name of a  *)
(* session's file come from its text as its time does: they are part of    *)
(* the "stamp".                                                            *)
(***************************************************************************)
EXTENDS Integers, Sequences, SequencesExt, FiniteSetsExt, Rows

CONSTANTS
  MegaSource,     \* the files of the directory, in no order that matters
  Stem,           \* the stem that names a file's sessions: cut and cleaned, two may be alike
  Held,           \* what they may hold: functions from MegaSource to sequences of lines
  Near,           \* lines after a head in which "again" is looked for
  MinLines,       \* shorter sessions are dropped
  MinSessions,    \* --min-sessions
  MaxSplits,      \* bound on the runs of the splitter
  MaxStops        \* bound on the crashes

ASSUME MegaAssumption ==
  /\ Near \in Nat \ {0} /\ MinLines \in Nat \ {0} /\ MinSessions \in Nat
  /\ MaxSplits \in Nat /\ MaxStops \in Nat
  /\ Stem \in [MegaSource -> MegaSource]
  /\ Held \subseteq [MegaSource -> Seq({"head", "again", "stamp", "text"})]

VARIABLES
  folder,     \* the files of the directory, by name
  toSplit,    \* the mega-files the run has found and not yet split
  splitting,  \* the one being split: its name and sessions, how many are done, what is written
  splits,     \* bound: runs begun
  stops       \* bound: crashes

megaVars == <<folder, toSplit, splitting, splits, stops>>

NoMegaFile == [source |-> <<>>, sessions |-> <<>>, done |-> 0, written |-> FALSE]

\* The file of a session is named by the stem of the file it was cut from.
SourceName(f) == [suffix |-> "txt", stem |-> <<f>>]
BackupName(n) == [suffix |-> "mega_backup", stem |-> n.stem]

MegaInit ==
  /\ \E held \in Held : folder = [n \in {SourceName(f) : f \in MegaSource} |-> held[n.stem[1]]]
  /\ toSplit = {} /\ splitting = NoMegaFile /\ splits = 0 /\ stops = 0

-----------------------------------------------------------------------------
(* The sessions of a text.                                                 *)

\* is_true_session_start: nothing near the head says it was taken up again.
TrueStart(text, i) == \A j \in i..(i + Near - 1) : j \in DOMAIN text => text[j] # "again"

\* find_session_boundaries.
Boundaries(text) == {i \in DOMAIN text : text[i] = "head" /\ TrueStart(text, i)}

\* A stamped session is named by its time, another by its place in the file.
SessionName(n, session, i) ==
  [suffix |-> "txt",
   stem |-> <<Stem[n.stem[1]]>> \o Tail(n.stem) \o <<IF "stamp" \in ToSet(session) THEN 0 ELSE i>>]

\* The sessions of a text, each to the next boundary, with the name of its file;
\* what stands before the first and the tiny ones are dropped.
Sessions(n, text) ==
  LET starts == Ascending(Boundaries(text))
      session == [i \in DOMAIN starts |->
                    SubSeq(text, starts[i], IF i = Len(starts) THEN Len(text) ELSE starts[i + 1] - 1)]
      named == [i \in DOMAIN starts |-> [name |-> SessionName(n, session[i], i), text |-> session[i]]]
  IN Picked(named, {i \in DOMAIN named : Len(named[i].text) >= MinLines})

-----------------------------------------------------------------------------
(* A run of the splitter.                                                  *)

\* main lists the .txt files that hold enough sessions; the files of earlier
\* sessions are among those it reads.
FindMegaFiles ==
  /\ splits < MaxSplits /\ toSplit = {} /\ splitting = NoMegaFile
  /\ toSplit' = {n \in DOMAIN folder :
                n.suffix = "txt" /\ Cardinality(Boundaries(folder[n])) >= MinSessions}
  /\ splits' = splits + 1
  /\ UNCHANGED <<folder, splitting, stops>>

\* split_file reads the file again: with less than two sessions it has nothing
\* to do, whatever --min-sessions says.
OpenMegaFile ==
  \E n \in toSplit :
    /\ splitting = NoMegaFile
    /\ toSplit' = toSplit \ {n}
    /\ splitting' = IF Cardinality(Boundaries(folder[n])) < 2 THEN NoMegaFile
               ELSE [source |-> n, sessions |-> Sessions(n, folder[n]), done |-> 0, written |-> FALSE]
    /\ UNCHANGED <<folder, splits, stops>>

\* The directory with a file written, over whatever had the name, or renamed.
WithFile(n, text) == [m \in DOMAIN folder \cup {n} |-> IF m = n THEN text ELSE folder[m]]
WithRenamed(n, to) == [m \in (DOMAIN folder \ {n}) \cup {to} |-> IF m = to THEN folder[n] ELSE folder[m]]

\* A session's file is written.
WriteSession ==
  /\ splitting # NoMegaFile /\ splitting.done < Len(splitting.sessions)
  /\ LET s == splitting.sessions[splitting.done + 1]
     IN folder' = WithFile(s.name, s.text)
  /\ splitting' = [splitting EXCEPT !.done = @ + 1, !.written = TRUE]
  /\ UNCHANGED <<toSplit, splits, stops>>

\* Mutant: the file is renamed before its sessions are written.
RenameMegaFileFirst ==
  /\ splitting # NoMegaFile /\ splitting.done = 0 /\ splitting.source \in DOMAIN folder
  /\ folder' = WithRenamed(splitting.source, BackupName(splitting.source))
  /\ splitting' = [splitting EXCEPT !.done = IF splitting.sessions = <<>> THEN 0 ELSE 1]
  /\ UNCHANGED <<toSplit, splits, stops>>

\* The file is renamed once its sessions are written; with none written it stays.
RenameMegaFile ==
  /\ splitting # NoMegaFile /\ splitting.done = Len(splitting.sessions)
  /\ folder' = IF splitting.written
               THEN WithRenamed(splitting.source, BackupName(splitting.source))
               ELSE folder
  /\ splitting' = NoMegaFile
  /\ UNCHANGED <<toSplit, splits, stops>>

\* The run dies; the file it was writing is cut anywhere.
StopSplitting ==
  /\ stops < MaxStops /\ (toSplit # {} \/ splitting # NoMegaFile)
  /\ \/ UNCHANGED folder
     \/ /\ splitting.done < Len(splitting.sessions)
        /\ LET s == splitting.sessions[splitting.done + 1]
           IN \E cut \in 0..(Len(s.text) - 1) : folder' = WithFile(s.name, SubSeq(s.text, 1, cut))
  /\ toSplit' = {} /\ splitting' = NoMegaFile /\ stops' = stops + 1
  /\ UNCHANGED splits

MegaNext == FindMegaFiles \/ OpenMegaFile \/ WriteSession \/ RenameMegaFile \/ StopSplitting

MegaSpec == MegaInit /\ [][MegaNext]_megaVars

-----------------------------------------------------------------------------
(* Properties.                                                             *)

\* A mega-file, under its own name or that of its backup, and its sessions.
NameNow(f) == IF SourceName(f) \in DOMAIN folder THEN SourceName(f) ELSE BackupName(SourceName(f))
SessionsOf(f) == ToSet(Sessions(NameNow(f), folder[NameNow(f)]))

\* A mega-file that was renamed is split: each of its sessions stands whole under
\* its name, wherever a run died before; unless a mega-file has another session of
\* that name, or has the same one and is still to be split.
RenamedIsSplit ==
  \A f \in MegaSource : SourceName(f) \notin DOMAIN folder =>
    \A s \in SessionsOf(f) :
      \/ s.name \in DOMAIN folder /\ folder[s.name] = s.text
      \/ \E g \in MegaSource : \E t \in SessionsOf(g) :
           t.name = s.name /\ (t.text # s.text \/ SourceName(g) \in DOMAIN folder)

\* What a run writes is one session, which no later run splits again.
SessionsStayWhole ==
  \A n \in DOMAIN folder : \A s \in ToSet(Sessions(n, folder[n])) : Cardinality(Boundaries(s.text)) = 1

\* The lines of a file that is split stay in the directory, in the file or in its
\* backup: those of no session, too.
OriginalsKept ==
  \A f \in MegaSource : SourceName(f) \in DOMAIN folder \/ BackupName(SourceName(f)) \in DOMAIN folder

\* Two sessions of one file have one name only if both are stamped.
UnstampedApart ==
  \A i, j \in DOMAIN splitting.sessions :
    i # j /\ splitting.sessions[i].name = splitting.sessions[j].name =>
      "stamp" \in ToSet(splitting.sessions[i].text) \cap ToSet(splitting.sessions[j].text)

\* What the splitter promises.
MegaSound == RenamedIsSplit /\ SessionsStayWhole /\ OriginalsKept /\ UnstampedApart
=============================================================================
