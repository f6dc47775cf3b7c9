-------------------------------- MODULE Dedup --------------------------------
(***************************************************************************)
(* Removing near-identical drawers of one source file (dedup.py): the      *)
(* longest first, a drawer is dropped if the collection's nearest          *)
(* neighbours of it, as many as are kept so far, hold a kept one within    *)
(* the threshold.  The deletion comes last, in batches.                    *)
(*                                                                         *)
(* A drawer is a number; `at` is where its document lies on a line, the    *)
(* distance of two documents is that of their places.                      *)
(***************************************************************************)
EXTENDS Integers, FiniteSets

CONSTANTS
  DedupDrawer, Place, Size,
  ShortSize,      \* documents below this size are dropped (20 characters)
  Threshold,
  MostResults,    \* 5
  DeleteBatch     \* 500

ASSUME DedupAssumption ==
  /\ IsFiniteSet(DedupDrawer) /\ Place \subseteq Nat /\ Size \subseteq Nat
  /\ ShortSize \in Nat /\ Threshold \in Nat /\ MostResults \in Nat \ {0} /\ DeleteBatch \in Nat \ {0}

VARIABLES
  doc,       \* of each drawer of the group: its place and its size
  present,   \* the drawers in the collection
  unjudged, kept, toDelete,
  dedupRun   \* "judge", "delete" or "off"

dedupVars == <<doc, present, unjudged, kept, toDelete, dedupRun>>

DedupInit ==
  /\ doc \in [DedupDrawer -> [at : Place, size : Size]]
  /\ present = DedupDrawer /\ unjudged = DedupDrawer /\ kept = {} /\ toDelete = {}
  /\ dedupRun = "judge"

Distance(d, e) == IF doc[d].at < doc[e].at THEN doc[e].at - doc[d].at ELSE doc[d].at - doc[e].at

AtMost2(m, n) == IF m < n THEN m ELSE n

\* What a query for the document of d may return: n drawers, none of the others
\* nearer, d itself among the nearest.
Neighbours(d, n) ==
  {S \in SUBSET present : Cardinality(S) = AtMost2(n, Cardinality(present)) /\
     \A s \in S, t \in present \ S : Distance(d, s) <= Distance(d, t)}

\* Mutant: any close neighbour will do.
DuplicateOf(d, S) == \E s \in S : Distance(d, s) < Threshold

Duplicate(d, S) == \E s \in S \cap kept : Distance(d, s) < Threshold

Longest(d) == d \in unjudged /\ \A e \in unjudged : doc[e].size <= doc[d].size

\* One drawer of the sorted list.
Judge(d) ==
  /\ dedupRun = "judge" /\ Longest(d)
  /\ unjudged' = unjudged \ {d}
  /\ \/ doc[d].size < ShortSize /\ toDelete' = toDelete \cup {d} /\ UNCHANGED kept
     \/ doc[d].size >= ShortSize /\ kept = {} /\ kept' = {d} /\ UNCHANGED toDelete
     \/ /\ doc[d].size >= ShortSize /\ kept # {}
        /\ \E S \in Neighbours(d, AtMost2(Cardinality(kept), MostResults)) :
             IF Duplicate(d, S)
             THEN toDelete' = toDelete \cup {d} /\ UNCHANGED kept
             ELSE kept' = kept \cup {d} /\ UNCHANGED toDelete
  /\ UNCHANGED <<doc, present, dedupRun>>

\* A query that raises keeps the drawer.
QueryRaises(d) ==
  /\ dedupRun = "judge" /\ Longest(d) /\ doc[d].size >= ShortSize /\ kept # {}
  /\ unjudged' = unjudged \ {d} /\ kept' = kept \cup {d}
  /\ UNCHANGED <<doc, present, toDelete, dedupRun>>

\* A dry run, or a run with nothing to delete, ends here.
JudgedAll ==
  /\ dedupRun = "judge" /\ unjudged = {}
  /\ dedupRun' \in IF toDelete = {} THEN {"off"} ELSE {"off", "delete"}
  /\ UNCHANGED <<doc, present, unjudged, kept, toDelete>>

DeleteSome ==
  /\ dedupRun = "delete"
  /\ \E B \in SUBSET toDelete :
       /\ Cardinality(B) = AtMost2(DeleteBatch, Cardinality(toDelete))
       /\ present' = present \ B /\ toDelete' = toDelete \ B
  /\ dedupRun' = IF toDelete' = {} THEN "off" ELSE "delete"
  /\ UNCHANGED <<doc, unjudged, kept>>

\* Dying leaves the rest undeleted; a later run judges what is left.
DedupDies ==
  /\ dedupRun # "off"
  /\ unjudged' = present /\ kept' = {} /\ toDelete' = {} /\ dedupRun' = "judge"
  /\ UNCHANGED <<doc, present>>

DedupNext ==
  \/ \E d \in DedupDrawer : Judge(d) \/ QueryRaises(d)
  \/ JudgedAll \/ DeleteSome \/ DedupDies

DedupSpec == DedupInit /\ [][DedupNext]_dedupVars

-----------------------------------------------------------------------------
(* Properties.                                                             *)

\* The type invariant.
DedupTypeOK ==
  /\ present \subseteq DedupDrawer /\ unjudged \subseteq present
  /\ kept \subseteq present \ toDelete /\ toDelete \subseteq present
  /\ dedupRun \in {"judge", "delete", "off"}

\* A chain of near-duplicates of length k leads from d to a drawer that is still
\* there and no shorter.
Represented(d) ==
  \E e \in present : e \notin toDelete /\ doc[e].size >= doc[d].size
                     /\ Distance(d, e) < Threshold * Cardinality(DedupDrawer)

\* Nothing that is worth keeping goes without a like: what is deleted, or going
\* to be, is short or has a longer near-duplicate that stays.
DedupSafe ==
  /\ \A d \in toDelete : doc[d].size < ShortSize \/
       \E e \in kept : Distance(d, e) < Threshold /\ doc[e].size >= doc[d].size
  /\ \A d \in DedupDrawer \ present : doc[d].size < ShortSize \/ Represented(d)
=============================================================================
