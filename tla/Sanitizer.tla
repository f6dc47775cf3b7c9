----------------------------- MODULE Sanitizer -----------------------------
(***************************************************************************)
(* What is searched for when an agent has put its system prompt before the *)
(* question (query_sanitizer.py, called by services/search.py).  A text is *)
(* a sequence of tokens of equal length: words, question marks and line    *)
(* breaks, labels such as "Query:", and the tags of two kinds.  Each       *)
(* action is one return of sanitize_query, in their order.                 *)
(***************************************************************************)
EXTENDS Integers, Sequences, FiniteSetsExt, Rows

CONSTANTS
  RawQuery,     \* the queries of agents
  SafeLength,   \* SAFE_QUERY_LENGTH
  MinLength,    \* MIN_QUERY_LENGTH
  MaxLength     \* MAX_QUERY_LENGTH

ASSUME SanitizerAssumption ==
  /\ {SafeLength, MinLength, MaxLength} \subseteq Nat \ {0}
  /\ MinLength <= SafeLength /\ SafeLength <= MaxLength /\ RawQuery \subseteq Seq(STRING)

VARIABLES
  raw,     \* the query, without the line breaks around it
  clean,   \* what is searched for
  how      \* "no" while it is not yet sanitized, or the method

sanitizerVars == <<raw, clean, how>>

-----------------------------------------------------------------------------
(* Pieces of a text.                                                       *)

Blank == "line"

\* strip.
Strip(text) ==
  LET solid == {i \in DOMAIN text : text[i] # Blank}
  IN IF solid = {} THEN <<>> ELSE SubSeq(text, Min(solid), Max(solid))

\* The last MaxLength of a text.
LastPart(text) == SubSeq(text, IF Len(text) > MaxLength THEN Len(text) - MaxLength + 1 ELSE 1, Len(text))

\* The first and last places of the lines that are not empty.
Segments ==
  {s \in (DOMAIN raw) \X (DOMAIN raw) :
     /\ s[1] <= s[2] /\ \A k \in s[1]..s[2] : raw[k] # Blank
     /\ s[1] = 1 \/ raw[s[1] - 1] = Blank
     /\ s[2] = Len(raw) \/ raw[s[2] + 1] = Blank}

Piece(s) == SubSeq(raw, s[1], s[2])
LastOf(segments) == CHOOSE s \in segments : \A t \in segments : t[1] <= s[1]
LongEnough(text) == Len(text) >= MinLength

SanitizerInit ==
  /\ \E text \in RawQuery : raw = Strip(text)
  /\ clean = <<>> /\ how = "no"

-----------------------------------------------------------------------------
(* The methods.                                                            *)

\* What stands between a tag and the next one that closes it.
Tagged(open, close) ==
  {t \in (DOMAIN raw) \X (DOMAIN raw) :
     /\ raw[t[1]] = open /\ raw[t[2]] = close /\ t[1] < t[2]
     /\ \A k \in t[1] + 1..t[2] - 1 : raw[k] # close
     /\ \A k \in 1..t[1] - 1 : raw[k] = open => \E l \in k..t[1] : raw[l] = close}

\* Mutant: the first tags are taken.
TaggedTextFirst(tags) == LET t == CHOOSE t \in tags : \A u \in tags : u[1] >= t[1] IN SubSeq(raw, t[1] + 1, t[2] - 1)

TaggedText(tags) == LET t == LastOf(tags) IN SubSeq(raw, t[1] + 1, t[2] - 1)

\* _extract_labeled_tail: <query> before <user_query>, for its candidates come last;
\* else what follows a label.  The pattern of a label runs to the end of the text,
\* other labels in it or not: its last match is the one of the first label.
LabeledTail ==
  LET queries == Tagged("<query>", "</query>")
      users == Tagged("<user_query>", "</user_query>")
      labels == {i \in DOMAIN raw : raw[i] = "label" /\ Strip(SubSeq(raw, i + 1, Len(raw))) # <<>>}
  IN Strip(IF queries # {} THEN TaggedText(queries)
           ELSE IF users # {} THEN TaggedText(users)
           ELSE IF labels # {} THEN SubSeq(raw, Min(labels) + 1, Len(raw))
           ELSE <<>>)

\* The lines that end in a question mark.  The sentences that are looked at when
\* there is none are split at question marks and hold none.
Questions == {s \in Segments : raw[s[2]] = "?"}

Answers(text, method) == how = "no" /\ clean' = text /\ how' = method /\ UNCHANGED raw

Labeled == LongEnough(LabeledTail)
AsksLast == Questions # {} /\ LongEnough(Piece(LastOf(Questions)))
LongSegments == {s \in Segments : LongEnough(Piece(s))}

Passthrough == Len(raw) <= SafeLength /\ Answers(raw, "passthrough")

TakeLabeled == Len(raw) > SafeLength /\ Labeled /\ Answers(LastPart(LabeledTail), "labeled_tail")

\* Of the questions only the last is looked at: one too short is not made up for
\* by another.
TakeQuestion ==
  /\ Len(raw) > SafeLength /\ ~Labeled /\ AsksLast
  /\ Answers(LastPart(Piece(LastOf(Questions))), "question_extraction")

TakeTail ==
  /\ Len(raw) > SafeLength /\ ~Labeled /\ ~AsksLast /\ LongSegments # {}
  /\ Answers(LastPart(Piece(LastOf(LongSegments))), "tail_sentence")

Truncate ==
  /\ Len(raw) > SafeLength /\ ~Labeled /\ ~AsksLast /\ LongSegments = {}
  /\ Answers(Strip(LastPart(raw)), "tail_truncation")

SanitizerNext == Passthrough \/ TakeLabeled \/ TakeQuestion \/ TakeTail \/ Truncate

SanitizerSpec == SanitizerInit /\ [][SanitizerNext]_sanitizerVars

-----------------------------------------------------------------------------
(* Properties.                                                             *)

\* Something is searched for whenever something was asked, it is a piece of the
\* query in its order, and it is short enough that no prompt dominates it.
CleanIsPiece ==
  how # "no" /\ raw # <<>> =>
    /\ clean # <<>> /\ Len(clean) <= MaxLength
    /\ \E i \in DOMAIN raw : i + Len(clean) - 1 <= Len(raw) /\ clean = SubSeq(raw, i, i + Len(clean) - 1)

\* "Step 2 question extraction ... near-full recovery" (query_sanitizer.py:14): a
\* question on the last line, long enough and within the cap, is found whole behind
\* any prompt without labels.
LastQuestionFound ==
  how # "no" /\ Questions # {} /\ ~(\E i \in DOMAIN raw : raw[i] \in {"label", "<query>", "<user_query>"}) =>
    LET q == Piece(LastOf(Questions))
    IN q = Piece(LastOf(Segments)) /\ LongEnough(q) /\ Len(q) <= MaxLength /\ Len(raw) > SafeLength => clean = q

\* A query of an agent that marks it, in one pair of tags and at enough length, is
\* found whole, whatever stands before and after it.
MarkedQueryFound ==
  how # "no" /\ Len(raw) > SafeLength =>
    \A t \in Tagged("<query>", "</query>") :
      (\A u \in Tagged("<query>", "</query>") : u[1] <= t[1]) =>
        LET q == Strip(SubSeq(raw, t[1] + 1, t[2] - 1))
        IN LongEnough(q) /\ Len(q) <= MaxLength => clean = q

\* No search is made for the prompt alone: without questions and labels, what is
\* searched for ends where the last line of enough length ends.
TailReached ==
  how \in {"tail_sentence", "tail_truncation"} =>
    \E i \in Len(clean)..Len(raw) :
      /\ clean = SubSeq(raw, i - Len(clean) + 1, i)
      /\ \A s \in Segments : s[1] > i => ~LongEnough(Piece(s))

SanitizerSound == CleanIsPiece /\ LastQuestionFound /\ MarkedQueryFound /\ TailReached

\* "We take the *last* explicit label because system prompts may contain earlier
\* examples" (query_sanitizer.py:53): not kept, the first label takes the rest with
\* all later ones.
LastLabelTaken ==
  how = "labeled_tail" =>
    \A i \in DOMAIN raw : raw[i] = "label" /\ (\A k \in i + 1..Len(raw) : raw[k] = "word") /\ LongEnough(SubSeq(raw, i + 1, Len(raw)))
      => \A k \in DOMAIN clean : clean[k] # "label"
=============================================================================
