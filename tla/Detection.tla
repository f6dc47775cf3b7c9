----------------------------- MODULE Detection -----------------------------
(***************************************************************************)
(* Finding the people and projects that a directory of notes is about      *)
(* (entity_detector.py): the files to look at, the signals of each name in *)
(* them, what each name is taken for, and what the user makes of it.  The  *)
(* matching of patterns is left out: a name comes with the number of       *)
(* matches of each kind.                                                   *)
(***************************************************************************)
EXTENDS Integers, Sequences, SequencesExt, FiniteSetsExt, Rows

CONSTANTS
  FoundName,    \* names that occur often enough, in the order of their frequency
  Signals,      \* what may be found for them: functions from names to signals
  Frequency,    \* how often each occurs
  MostPeople, MostProjects, MostUncertain,   \* entries that are kept of each list
  Notes,        \* directories: numbers of files of prose and of code
  MaxFound,     \* files that are looked at
  NewName       \* a name that the user adds

ASSUME DetectionAssumption ==
  /\ FoundName \in Seq(ToSet(FoundName)) /\ IsInjective(FoundName)
  /\ Frequency \in [ToSet(FoundName) -> Nat]
  /\ \A s \in Signals : \A n \in ToSet(FoundName) :
       s[n] \in [dialogue : Seq(Nat), verbs : Seq(Nat), pronoun : Nat, direct : Nat,
                project : Seq(Nat), versioned : Nat, code : Nat]
  /\ Notes \subseteq [prose : Nat, code : Nat] /\ NewName \notin ToSet(FoundName)
  /\ {MostPeople, MostProjects, MostUncertain, MaxFound} \subseteq Nat

VARIABLES
  notes,      \* the files of the directory: how many of prose, how many of code
  chosen,     \* how many of each are looked at
  signals,    \* what is found for each name: matches per pattern (dialogue, verbs,
              \* project) or in all (pronoun, direct, versioned, code)
  detected,   \* the lists of names: person, project, uncertain
  confirmed,  \* what the user leaves of them
  at          \* "scan", "detect", "confirm" or "done"

detectionVars == <<notes, chosen, signals, detected, confirmed, at>>

DetectionInit ==
  /\ notes \in Notes /\ chosen = [prose |-> 0, code |-> 0]
  /\ signals \in Signals
  /\ detected = [person |-> <<>>, project |-> <<>>, uncertain |-> <<>>]
  /\ confirmed = [person |-> <<>>, project |-> <<>>]
  /\ at = "scan"

-----------------------------------------------------------------------------
(* What a name is taken for.                                               *)

Summed(hits) ==
  LET sum[i \in 0..Len(hits)] == IF i = 0 THEN 0 ELSE sum[i - 1] + hits[i]
  IN sum[Len(hits)]

\* score_entity.
PersonScore(s) == 3 * Summed(s.dialogue) + 2 * Summed(s.verbs) + 2 * s.pronoun + 4 * s.direct
ProjectScore(s) == 2 * Summed(s.project) + 3 * s.versioned + 3 * s.code

\* The signals for a person, in the order they are looked for: one for each
\* pattern of dialogue and of verbs that matches at all.
PersonSignals(s) ==
  LET matching(hits, kind) == [i \in 1..Cardinality({k \in DOMAIN hits : hits[k] > 0}) |-> kind]
  IN matching(s.dialogue, "dialogue") \o matching(s.verbs, "action")
     \o (IF s.pronoun > 0 THEN <<"pronoun">> ELSE <<>>) \o (IF s.direct > 0 THEN <<"addressed">> ELSE <<>>)

\* Mutant: signals are counted, not their kinds.
KindsSeenAny(s) == DOMAIN PersonSignals(s)

\* classify_entity looks at the three signals that score_entity hands on.
KindsSeen(s) == LET all == PersonSignals(s) IN ToSet(SubSeq(all, 1, IF Len(all) < 3 THEN Len(all) ELSE 3))

MostlyPerson(s) == 10 * PersonScore(s) >= 7 * (PersonScore(s) + ProjectScore(s))
MostlyProject(s) == 10 * PersonScore(s) <= 3 * (PersonScore(s) + ProjectScore(s))

Classified(s) ==
  IF PersonScore(s) + ProjectScore(s) = 0 THEN "uncertain"
  ELSE IF MostlyPerson(s) THEN IF Cardinality(KindsSeen(s)) >= 2 /\ PersonScore(s) >= 5 THEN "person" ELSE "uncertain"
  ELSE IF MostlyProject(s) THEN "project" ELSE "uncertain"

\* The confidence, in hundredths, of a person or project: 0.5 and half of the
\* share of its side, rounded, and at most 0.99.
Sureness(s, mine) ==
  LET total == PersonScore(s) + ProjectScore(s)
      percent == (101 * total + 100 * mine) \div (2 * total)
  IN IF percent > 99 THEN 99 ELSE percent

-----------------------------------------------------------------------------
(* The steps.                                                              *)

\* Mutant: code is looked at as well.
CodeWantedAlways == TRUE

\* Code is looked at only beside less than three files of prose.
CodeWanted == notes.prose < 3

Least(m, n) == IF m < n THEN m ELSE n

\* scan_for_detection, with MaxFound files at most; prose comes first.
ScanForDetection ==
  /\ at = "scan"
  /\ LET prose == Least(notes.prose, MaxFound)
     IN chosen' = [prose |-> prose, code |-> IF CodeWanted THEN Least(notes.code, MaxFound - prose) ELSE 0]
  /\ at' = "detect"
  /\ UNCHANGED <<notes, signals, detected, confirmed>>

\* The names of a kind, the surest or most frequent first, and the first most of them.
Ranked(kind, value, most) ==
  LET places == {i \in DOMAIN FoundName : Classified(signals[FoundName[i]]) = kind}
      before == {ij \in places \X places :
                   LET v == value[FoundName[ij[1]]]
                       w == value[FoundName[ij[2]]]
                   IN v > w \/ (v = w /\ ij[1] < ij[2])}
      order == Ordered(places, before)
  IN [k \in 1..Least(most, Cardinality(places)) |-> FoundName[order[k]]]

\* detect_entities; without a file there is nothing to find.
DetectEntities ==
  /\ at = "detect"
  /\ detected' = IF chosen.prose + chosen.code = 0 THEN detected
              ELSE LET names == ToSet(FoundName)
                   IN [person |-> Ranked("person", [n \in names |-> Sureness(signals[n], PersonScore(signals[n]))], MostPeople),
                       project |-> Ranked("project", [n \in names |-> Sureness(signals[n], ProjectScore(signals[n]))], MostProjects),
                       uncertain |-> Ranked("uncertain", Frequency, MostUncertain)]
  /\ at' = "confirm"
  /\ UNCHANGED <<notes, chosen, signals, confirmed>>

\* confirm_entities with yes: what is uncertain is left out.
AcceptAll ==
  /\ at = "confirm"
  /\ confirmed' = [person |-> detected.person, project |-> detected.project]
  /\ at' = "done"
  /\ UNCHANGED <<notes, chosen, signals, detected>>

\* The entries of a list whose numbers are not given.
WithoutNumbers(list, numbers) == Picked(list, DOMAIN list \ numbers)

Added(kind, more) == IF kind \in more THEN <<NewName>> ELSE <<>>

\* With the user at hand, the uncertain ones are put into the lists or skipped, in
\* their order; then numbers are taken from the lists as they are shown by then,
\* and a name may be added to either.  To skip all and take none is "enter".
ConfirmByHand ==
  /\ at = "confirm"
  /\ \E call \in [DOMAIN detected.uncertain -> {"person", "project", "skip"}] :
       LET called(kind) == Picked(detected.uncertain, {i \in DOMAIN call : call[i] = kind})
           people == detected.person \o called("person")
           projects == detected.project \o called("project")
       IN \E wrong \in SUBSET DOMAIN people, wrongs \in SUBSET DOMAIN projects,
             more \in SUBSET {"person", "project"} :
            confirmed' = [person |-> WithoutNumbers(people, wrong) \o Added("person", more),
                          project |-> WithoutNumbers(projects, wrongs) \o Added("project", more)]
  /\ at' = "done"
  /\ UNCHANGED <<notes, chosen, signals, detected>>

DetectionNext == ScanForDetection \/ DetectEntities \/ AcceptAll \/ ConfirmByHand

DetectionSpec == DetectionInit /\ [][DetectionNext]_detectionVars

-----------------------------------------------------------------------------
(* Properties.                                                             *)

\* The kinds of all signals of a name, however many there are.
AllKinds(s) == ToSet(PersonSignals(s))

\* "Require TWO different signal categories to confidently classify as a person.
\* One signal type with many hits ... is not enough" (entity_detector.py:586); a
\* project has a signal of its own, and none that outweighs it.
OnGoodEvidence ==
  /\ \A n \in ToSet(detected.person) :
       Cardinality(AllKinds(signals[n])) >= 2 /\ PersonScore(signals[n]) > 2 * ProjectScore(signals[n])
  /\ \A n \in ToSet(detected.project) :
       ProjectScore(signals[n]) > 2 * PersonScore(signals[n])

\* A list that leaves out a name is full, of names no less sure.
BestKept ==
  at \in {"confirm", "done"} /\ chosen.prose + chosen.code > 0 =>
    \A n \in ToSet(FoundName) :
      /\ Classified(signals[n]) = "person" /\ n \notin ToSet(detected.person) =>
           /\ Len(detected.person) = MostPeople
           /\ \A m \in ToSet(detected.person) :
                Sureness(signals[m], PersonScore(signals[m])) >= Sureness(signals[n], PersonScore(signals[n]))
      /\ Classified(signals[n]) = "uncertain" /\ n \notin ToSet(detected.uncertain) =>
           /\ Len(detected.uncertain) = MostUncertain
           /\ \A m \in ToSet(detected.uncertain) : Frequency[m] >= Frequency[n]

\* No name is confirmed as both, but one that the user adds to both.
ConfirmedApart == ToSet(confirmed.person) \cap ToSet(confirmed.project) \subseteq {NewName}

\* Code is read for names only where there is little prose.
ProseFirst == chosen.code > 0 => chosen.prose < 3 /\ chosen.prose = notes.prose

\* What the detector promises; that any two kinds of signals suffice it does not,
\* for the third signal is the last that is looked at.
DetectionSound == OnGoodEvidence /\ BestKept /\ ConfirmedApart /\ ProseFirst

\* "Require TWO different signal categories" (entity_detector.py:586), read as what
\* is enough: not kept, three patterns of one kind hide all later kinds.
TwoKindsSuffice ==
  \A n \in ToSet(FoundName) :
    MostlyPerson(signals[n]) /\ PersonScore(signals[n]) >= 5 /\ Cardinality(AllKinds(signals[n])) >= 2
      => Classified(signals[n]) = "person"
=============================================================================
