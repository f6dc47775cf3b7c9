--------------------------- MODULE DistillInOrder ---------------------------
(***************************************************************************)
(* What distill does to a collection, however it is run: the records get   *)
(* their summaries in the order in which they were read, at most WriteSize *)
(* of them at a time, and a run that does not fail reaches the last one.   *)
(***************************************************************************)
EXTENDS Integers

CONSTANTS N, WriteSize

VARIABLES
  written,  \* the records updated so far
  ended     \* "no", "done" or "failed"

Init == written = {} /\ ended = "no"

Write ==
  /\ ended = "no"
  /\ \E from, to \in 1..N :
       /\ written = 1..(from - 1)
       /\ to - from < WriteSize
       /\ written' = written \cup from..to
  /\ UNCHANGED ended

Finish == ended = "no" /\ written = 1..N /\ ended' = "done" /\ UNCHANGED written

Fail == ended = "no" /\ ended' = "failed" /\ UNCHANGED written

Next == Write \/ Finish \/ Fail

Spec == Init /\ [][Next]_<<written, ended>>
=============================================================================
