----------------------------- MODULE MCKGReview -----------------------------
(* Three candidates for the object of one subject and predicate.           *)
EXTENDS KGReview

CONSTANTS c1, c2, c3

MCCandidate == {c1, c2, c3}
MCName == {"Clerk", "Auth0", "clerk"}

\* Two spellings of one entity.
IgnoringCase == [x \in MCName |-> IF x = "Clerk" THEN "clerk" ELSE x]

\* c3 is edited before it is accepted.
MCOffered ==
  [c \in MCCandidate |->
     CASE c = c1 -> {"Clerk"} [] c = c2 -> {"Auth0"} [] c = c3 -> {"clerk", "Auth0"}]

Invalidating == {TRUE}
BothWays == {TRUE, FALSE}
OneEnded == {c2}
TwoAsserted == {c1, c2}
=============================================================================
