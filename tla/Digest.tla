------------------------------- MODULE Digest -------------------------------
(***************************************************************************)
(* The digest of a castle that is handed to an agent at the start of a     *)
(* session (services/digest.py): the newest drawers of a project, read     *)
(* page by page while others write, the rooms of the project, taken from   *)
(* the catalog the service has cached (services/catalog.py), and the cut   *)
(* to a number of lines and bytes.  A project is one wing with its         *)
(* drawers, in the order of the collection's scan.                         *)
(***************************************************************************)
EXTENDS Integers, Sequences, FiniteSetsExt, Rows

CONSTANTS
  Shelves,       \* collections to begin with: sequences of [id, room, time]
  Note,          \* drawers that may be filed meanwhile
  Lengths,       \* lengths of the lines of whole digests
  NewestShown,   \* RECENT_DRAWERS
  RoomsShown,    \* TOP_ROOMS
  ScanPage,      \* _SCAN_BATCH, and BATCH_SIZE of the catalog
  LinesCap, BytesCap,   \* DIGEST_MAX_LINES, DIGEST_MAX_BYTES
  MarkerBytes,   \* bytes of the marker of a cut digest, with its two line breaks
  MaxAdded, MaxMoved    \* bounds on drawers filed, and filed again or deleted, before
                        \* the digest and during it

\* Ids are the keys of a collection.
ASSUME DigestAssumption ==
  /\ Note \subseteq [id : Nat, room : Nat, time : Nat] /\ Lengths \subseteq Seq(Nat)
  /\ Shelves \subseteq Seq([id : Nat, room : Nat, time : Nat])
  /\ \A s \in Shelves : \A i, j \in DOMAIN s : s[i].id = s[j].id => i = j
  /\ {NewestShown, RoomsShown, ScanPage, LinesCap, BytesCap, MarkerBytes} \subseteq Nat \ {0}
  /\ LinesCap > 2 /\ MarkerBytes <= BytesCap /\ {MaxAdded, MaxMoved} \subseteq Nat

VARIABLES
  shelf,        \* the drawers of the project: [id, room, time]
  atStart,      \* those that were there when the digest was begun
  inventory,    \* the catalog view of the service: not built, being scanned for, or
                \* cached; what it has read; and, history, whether others have written since
  reading,      \* the digest: its step, whether the catalog knew the project and was of
                \* the shelf as it was, the offset, what it has read, the lines it has made
  overflow,     \* rooms shown, and those that are only counted
  printed,      \* the digest after the cut: the lengths before and after, and whether it is marked
  added, moved  \* bounds; moved is counted anew from the start of the digest

digestVars == <<shelf, atStart, inventory, reading, overflow, printed, added, moved>>

NoInventory == [is |-> "none", read |-> <<>>, stale |-> FALSE]

DigestInit ==
  /\ shelf \in Shelves /\ atStart = {} /\ added = 0 /\ moved = 0
  /\ inventory = NoInventory
  /\ reading = [pc |-> "off", known |-> FALSE, fresh |-> FALSE, offset |-> 0, read |-> <<>>, newest |-> <<>>, lines |-> <<>>]
  /\ overflow = [shown |-> <<>>, more |-> 0] /\ printed = [whole |-> <<>>, lines |-> <<>>, marked |-> FALSE]

-----------------------------------------------------------------------------
(* The writers of the collection.                                          *)

OnShelf == {shelf[i].id : i \in DOMAIN shelf}

\* The service itself writes between its requests, and drops its catalog; others
\* write at any time, and leave it as it is.
Wrote(here) ==
  IF here THEN reading.pc = "off" /\ inventory.is # "scan" /\ inventory' = NoInventory
  ELSE inventory' = [inventory EXCEPT !.stale = inventory.is # "none"]

\* New drawers come last in a scan; one without a date has time 0.
FileNote(here) ==
  /\ reading.pc # "done" /\ added < MaxAdded
  /\ \E d \in Note : d.id \notin OnShelf /\ shelf' = Append(shelf, d)
  /\ Wrote(here)
  /\ added' = added + 1
  /\ UNCHANGED <<atStart, reading, overflow, printed, moved>>

\* A drawer is deleted, or filed again at the end of the scan.
MoveNote(here) ==
  /\ reading.pc # "done" /\ moved < MaxMoved
  /\ \E i \in DOMAIN shelf : \E again \in BOOLEAN :
       shelf' = IF again THEN Append(RemoveAt(shelf, i), shelf[i]) ELSE RemoveAt(shelf, i)
  /\ Wrote(here)
  /\ moved' = moved + 1
  /\ UNCHANGED <<atStart, reading, overflow, printed, added>>

-----------------------------------------------------------------------------
(* _project_section.                                                       *)

\* A page of the shelf: one that is not full is the last.
NotesFrom(offset) ==
  SubSeq(shelf, offset + 1, IF offset + ScanPage < Len(shelf) THEN offset + ScanPage ELSE Len(shelf))

\* _get_view, unless it is cached: asked for here, or by a request before.
ListNotes ==
  /\ reading.pc = "off" /\ inventory.is # "cached"
  /\ LET page == NotesFrom(Len(inventory.read))
     IN inventory' = [inventory EXCEPT !.read = @ \o page, !.is = IF Len(page) < ScanPage THEN "cached" ELSE "scan"]
  /\ UNCHANGED <<shelf, atStart, reading, overflow, printed, added, moved>>

\* The rooms of the project in the catalog.
RoomCount(r) == Cardinality({i \in DOMAIN inventory.read : inventory.read[i].room = r})
Rooms == {inventory.read[i].room : i \in DOMAIN inventory.read}
MoreUsed ==
  {rs \in Rooms \X Rooms :
     RoomCount(rs[1]) > RoomCount(rs[2]) \/ (RoomCount(rs[1]) = RoomCount(rs[2]) /\ rs[1] < rs[2])}

\* Mutant: the overflow counts all rooms.
RoomsLeftAll(n) == n

RoomsLeft(n) == n - RoomsShown

\* The rooms, those with most drawers first, then by name; what is left is counted.
\* A project that the catalog does not know has no section.
StartDigest ==
  /\ reading.pc = "off" /\ inventory.is = "cached"
  /\ LET ranked == Ordered(Rooms, MoreUsed)
         left == RoomsLeft(Len(ranked))
     IN overflow' = [shown |-> SubSeq(ranked, 1, IF left > 0 THEN RoomsShown ELSE Len(ranked)),
                     more |-> IF left > 0 THEN left ELSE 0]
  /\ reading' = [reading EXCEPT !.pc = IF inventory.read = <<>> THEN "done" ELSE "scan",
                                !.known = inventory.read # <<>>, !.fresh = ~inventory.stale]
  /\ atStart' = ToSet(shelf) /\ moved' = 0
  /\ UNCHANGED <<shelf, inventory, printed, added>>

\* _scan_meta, of the collection as it is.
ScanNotes ==
  /\ reading.pc = "scan"
  /\ LET page == NotesFrom(reading.offset)
     IN reading' = [reading EXCEPT !.read = @ \o page, !.offset = @ + Len(page),
                      !.pc = IF Len(page) < ScanPage THEN "rank" ELSE "scan"]
  /\ UNCHANGED <<shelf, atStart, inventory, overflow, printed, added, moved>>

\* Mutant: the oldest first.
LaterFirst(d, e) == d.time < e.time

Later(d, e) == d.time > e.time \/ (d.time = e.time /\ d.id > e.id)

\* The places of the dated drawers read, the newest first.
DatedRead == {i \in DOMAIN reading.read : reading.read[i].time > 0}
Newer ==
  {ij \in DatedRead \X DatedRead :
     \/ Later(reading.read[ij[1]], reading.read[ij[2]])
     \/ ~Later(reading.read[ij[2]], reading.read[ij[1]]) /\ ij[1] < ij[2]}

\* As many as are shown.
RankNewest ==
  /\ reading.pc = "rank"
  /\ LET most == IF Cardinality(DatedRead) < NewestShown THEN Cardinality(DatedRead) ELSE NewestShown
     IN reading' = [reading EXCEPT !.pc = "get",
                      !.newest = [k \in 1..most |-> reading.read[Ordered(DatedRead, Newer)[k]]]]
  /\ UNCHANGED <<shelf, atStart, inventory, overflow, printed, added, moved>>

\* Their documents are fetched by id; one that is gone leaves an empty line.
GetNewest ==
  /\ reading.pc = "get"
  /\ reading' = [reading EXCEPT !.pc = "done",
                   !.lines = [k \in DOMAIN reading.newest |->
                                [id |-> reading.newest[k].id, text |-> reading.newest[k].id \in OnShelf]]]
  /\ UNCHANGED <<shelf, atStart, inventory, overflow, printed, added, moved>>

-----------------------------------------------------------------------------
(* _trim, on the lengths of the lines.                                     *)

\* Bytes of the lines joined.
JoinedBytes(lines) ==
  LET upto[n \in 0..Len(lines)] == IF n = 0 THEN 0 ELSE upto[n - 1] + lines[n] + (IF n = 1 THEN 0 ELSE 1)
  IN upto[Len(lines)]

\* Mutant: the marker's lines are not reckoned with.
LinesLeftAll == LinesCap

LinesLeft == LinesCap - 2

\* A digest within both caps stays; else lines are dropped from its end until it
\* and the marker are.
Trimmed(lines) ==
  IF Len(lines) <= LinesCap /\ JoinedBytes(lines) <= BytesCap THEN [lines |-> lines, marked |-> FALSE]
  ELSE LET cut == SubSeq(lines, 1, IF Len(lines) < LinesLeft THEN Len(lines) ELSE LinesLeft)
           fits == {n \in 0..Len(cut) : JoinedBytes(SubSeq(cut, 1, n)) <= BytesCap - MarkerBytes}
       IN [lines |-> SubSeq(cut, 1, Max(fits)), marked |-> TRUE]

\* build_digest joins the sections, whatever they hold, and cuts the whole.
TrimDigest ==
  /\ reading.pc = "done" /\ printed.whole = <<>>
  /\ \E lines \in Lengths :
       printed' = [whole |-> lines, lines |-> Trimmed(lines).lines, marked |-> Trimmed(lines).marked]
  /\ UNCHANGED <<shelf, atStart, inventory, reading, overflow, added, moved>>

DigestNext ==
  \/ \E here \in BOOLEAN : FileNote(here) \/ MoveNote(here)
  \/ ListNotes \/ StartDigest \/ ScanNotes \/ RankNewest \/ GetNewest \/ TrimDigest

DigestSpec == DigestInit /\ [][DigestNext]_digestVars

-----------------------------------------------------------------------------
(* Properties.                                                             *)

\* While drawers are only filed, the lines are the newest of a set of drawers that
\* has all that were there at the start: no page is skipped, none is read twice.  A
\* catalog that is older than the project's first drawer leaves the section out.
NewestShownFirst ==
  reading.pc = "done" /\ moved = 0 /\ (reading.known \/ reading.fresh) =>
    /\ \A k, l \in DOMAIN reading.newest : k # l => reading.newest[k].id # reading.newest[l].id
    /\ \A d \in atStart :
         d.time > 0 /\ d \notin ToSet(reading.newest) =>
           /\ Len(reading.newest) = NewestShown
           /\ \A e \in ToSet(reading.newest) : Later(e, d)

\* A line without text stands for a drawer that was deleted meanwhile.
GoneHaveNoText ==
  reading.pc = "done" /\ moved = 0 => \A k \in DOMAIN reading.lines : reading.lines[k].text

\* The rooms shown and those counted are all rooms with a drawer at the start, unless
\* others have written since the service scanned for its catalog.
RoomsAddUp ==
  reading.pc # "off" =>
    /\ Len(overflow.shown) <= RoomsShown
    /\ reading.fresh => Len(overflow.shown) + overflow.more = Cardinality({d.room : d \in atStart})

\* "Hard cap" (digest.py:6): no digest, however long its lines, is longer than the
\* caps with its marker, and one that fits is not cut.
CapsHold ==
  /\ Len(printed.lines) + (IF printed.marked THEN 2 ELSE 0) <= LinesCap
  /\ JoinedBytes(printed.lines) + (IF printed.marked THEN MarkerBytes ELSE 0) <= BytesCap
  /\ ~printed.marked => printed.lines = printed.whole
  /\ Len(printed.whole) <= LinesCap /\ JoinedBytes(printed.whole) <= BytesCap => ~printed.marked

\* What a digest promises, which is given the catalog it was made with.
DigestSound == NewestShownFirst /\ GoneHaveNoText /\ RoomsAddUp /\ CapsHold
=============================================================================
