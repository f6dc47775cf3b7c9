------------------------------ MODULE Chunking ------------------------------
(***************************************************************************)
(* How a text becomes drawers.  chunk_text (mining/miner.py) cuts a file   *)
(* into overlapping pieces at the best break near the end of each window;  *)
(* chunk_exchanges (mining/convo.py) makes one unit of a user's turn and   *)
(* the answer to it.  A step is one turn of the loop.                      *)
(*                                                                         *)
(* Positions count from 0, as in Python.  In a transcript, a line is as    *)
(* long as one character.                                                  *)
(***************************************************************************)
EXTENDS Integers, Sequences, SequencesExt, FiniteSetsExt

CONSTANTS
  ChunkSize, ChunkOverlap,
  MinChunk,      \* MIN_CHUNK_SIZE of the project miner
  MinExchange,   \* MIN_CHUNK_SIZE of the conversation miner
  MaxText        \* bound on the length of the texts and transcripts considered

ASSUME ChunkingAssumption ==
  /\ ChunkSize \in Nat /\ ChunkOverlap \in Nat /\ ChunkOverlap < ChunkSize \div 2
  /\ MinChunk \in Nat \ {0} /\ MinExchange \in Nat /\ MaxText \in Nat

VARIABLES
  text,      \* the file: letters, full stops, blanks and newlines
  lines,     \* the transcript: users' turns (">"), rules ("---"), other lines
  place,     \* start, or the number of the line looked at
  pieces     \* the pieces taken, [from, to), and whether each is kept

chunkVars == <<text, lines, place, pieces>>

Blanks == {" ", "newline"}
At(i) == text[i + 1]
Blank(i) == At(i) \in Blanks

ChunkInit ==
  /\ \/ /\ text \in BoundedSeq(Blanks \cup {"a", "."}, MaxText)
        /\ text # <<>> => ~Blank(0) /\ ~Blank(Len(text) - 1)     \* strip
        /\ lines = <<>>
     \/ text = <<>> /\ lines \in BoundedSeq({"turn", "rule", "line"}, MaxText)
  /\ place = 0 /\ pieces = <<>>

-----------------------------------------------------------------------------
(* Files.                                                                  *)

\* Mutant: a break in the front half of the window is good enough.
BackHalfAny == place

\* min_break.
BackHalf == place + ChunkSize \div 2

\* _find_chunk_break: the last paragraph, line, sentence or word boundary of the
\* window if it lies in the back half; a full stop at the end of the window
\* counts, whatever follows.
ChunkBreak(end) ==
  LET window == place..end - 1
      boundaries == <<
        {p \in window : p + 1 < end /\ At(p) = "newline" /\ At(p + 1) = "newline"},
        {p \in window : At(p) = "newline"},
        {p + 1 : p \in {q \in window : At(q) = "." /\ (q + 1 < end => Blank(q + 1))}},
        {p \in window : At(p) = " "}>>
      good == {k \in DOMAIN boundaries : \E p \in boundaries[k] : p >= BackHalf}
  IN IF good = {} THEN end ELSE Max(boundaries[Min(good)])

End ==
  IF place + ChunkSize < Len(text) THEN ChunkBreak(place + ChunkSize) ELSE Len(text)

\* The first position from p at which the text is, or is not, blank.
NextPlace(p, blank) == Min({q \in p..Len(text) : q = Len(text) \/ Blank(q) = blank})

\* The next piece begins ChunkOverlap before the break, or if that is inside a
\* word, at the next word.
NextStart(end) ==
  LET p == end - ChunkOverlap
  IN IF p <= 0 THEN 0
     ELSE IF Blank(p - 1) THEN p ELSE NextPlace(NextPlace(p, TRUE), FALSE)

\* The length of a piece when it is stripped.
Stripped(from, to) ==
  LET ink == {i \in from..to - 1 : ~Blank(i)} IN IF ink = {} THEN 0 ELSE Max(ink) - Min(ink) + 1

NextPiece ==
  /\ place < Len(text)
  /\ pieces' = Append(pieces, [from |-> place, to |-> End, kept |-> Stripped(place, End) >= MinChunk])
  /\ place' = IF End < Len(text) THEN NextStart(End) ELSE End
  /\ UNCHANGED <<text, lines>>

-----------------------------------------------------------------------------
(* Transcripts.                                                            *)

IsMarker(i) == lines[i + 1] # "line"

\* The line after the answer that begins at i.
AnswerEnd(i) == Min({j \in i..Len(lines) : j = Len(lines) \/ IsMarker(j)})

\* Mutant: what is left after the last full slice is dropped.
SlicesWhole(from, to) ==
  [k \in 1..(to - from) \div ChunkSize |-> [from |-> from + (k - 1) * ChunkSize, to |-> from + k * ChunkSize, kept |-> TRUE]]

\* _emit_bounded: nothing of a unit up to the floor, else all of it.
Slices(from, to) ==
  [k \in 1..(to - from + ChunkSize - 1) \div ChunkSize |->
     [from |-> from + (k - 1) * ChunkSize, to |-> Min({from + k * ChunkSize, to}), kept |-> TRUE]]

\* _chunk_by_exchange, one line or one exchange at a time; lines before the first
\* turn, and between a rule and the next turn, are passed over.
NextExchange ==
  /\ place < Len(lines)
  /\ IF lines[place + 1] = "turn"
     THEN LET end == AnswerEnd(place + 1)
          IN /\ place' = end
             /\ pieces' = pieces \o (IF end - place > MinExchange THEN Slices(place, end) ELSE <<>>)
     ELSE place' = place + 1 /\ UNCHANGED pieces
  /\ UNCHANGED <<text, lines>>

ChunkNext == NextPiece \/ NextExchange

ChunkSpec == ChunkInit /\ [][ChunkNext]_chunkVars

-----------------------------------------------------------------------------
(* Properties.                                                             *)

\* Every piece begins after the one before it, so that the loop ends, and none
\* is longer than ChunkSize.
Advancing ==
  /\ \A k \in DOMAIN pieces : pieces[k].from < pieces[k].to /\ pieces[k].to - pieces[k].from <= ChunkSize
  /\ \A k \in 1..Len(pieces) - 1 : pieces[k].from < pieces[k + 1].from
  /\ pieces # <<>> => Last(pieces).from < place

\* The word that position i is in, as a set of positions.
WordAt(i) == {j \in 0..Len(text) - 1 : \A k \in Min({i, j})..Max({i, j}) : ~Blank(k)}

\* Every character that the loop has passed is in a piece, and in one that is
\* kept unless the piece is too small or mostly blank; only of words longer than
\* the overlap, cut at the end of a window, may the rest be missing.
TextKept ==
  \A i \in 0..Min({place, Len(text)}) - 1 : ~Blank(i) =>
    \/ \E k \in DOMAIN pieces : /\ i \in pieces[k].from..pieces[k].to - 1
                                /\ pieces[k].kept \/ Stripped(i, pieces[k].to) < MinChunk
    \/ Cardinality(WordAt(i)) > ChunkOverlap

\* A line that answers a turn is kept, with its turn, in slices that follow each
\* other without a gap, unless turn and answer together are below the floor.
AnswersKept ==
  \A i \in 0..Min({place, Len(lines)}) - 1 :
    LET turns == {j \in 0..i : lines[j + 1] = "turn" /\ \A k \in j + 1..i : ~IsMarker(k)}
        holding == {k \in DOMAIN pieces : i \in pieces[k].from..pieces[k].to - 1}
    IN IF turns = {} THEN holding = {}
       ELSE \A t \in turns : Cardinality(holding) = IF AnswerEnd(t + 1) - t > MinExchange THEN 1 ELSE 0

\* Chunking ends, bounds its pieces, and drops nothing but noise.
ChunkSound == Advancing /\ (lines = <<>> => TextKept) /\ (text = <<>> => AnswersKept)
=============================================================================
