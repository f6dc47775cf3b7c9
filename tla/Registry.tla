------------------------------ MODULE Registry ------------------------------
(***************************************************************************)
(* The registry of people and projects (entity_registry.py): one JSON file *)
(* that a process reads once, changes in memory and writes back whole and  *)
(* in place after each change, while other processes do the same; and the  *)
(* codes that the wizard and the onboarding give to names.                 *)
(*                                                                         *)
(* Words are compared in lower case.  Writing is two steps, the truncation *)
(* and the rest; a file that is read in between, or after a death there,   *)
(* does not parse, and counts as empty.                                    *)
(***************************************************************************)
EXTENDS Naturals, Sequences, SequencesExt

CONSTANTS
  Session,      \* processes
  Word,
  Common,       \* words of COMMON_ENGLISH_WORDS
  Alias,        \* word -> the person it stands for; of some words
  Seeds,        \* the sets of people that an onboarding ends with
  Roster,       \* the lists of names that codes are given to
  Short, Long,  \* word -> its first three, its first four letters
  MaxChanges,   \* bound on changes of the registry
  MaxTears      \* bound on deaths while writing

ASSUME RegistryAssumption ==
  /\ Common \subseteq Word /\ DOMAIN Alias \subseteq Word
  /\ Seeds \subseteq SUBSET Word /\ Roster \subseteq Seq(Word)
  /\ DOMAIN Short = Word /\ DOMAIN Long = Word
  /\ MaxChanges \in Nat /\ MaxTears \in Nat

VARIABLES
  file,       \* what a reader of the file gets
  open,       \* processes that have read it
  mind,       \* the registry of each of them
  writing,    \* processes that have truncated the file
  changes, tears,
  whole,      \* history: the last complete content of the file
  behind,     \* history: processes that another one has written after they read
  vouched,    \* history: words that a person or the detector has vouched for
  roster,     \* the names still to be given a code
  codes,      \* name -> code, of the names that have one
  code        \* the code tried for the first of roster, or ""

registryVars == <<file, open, mind, writing, changes, tears, whole, behind, vouched, roster, codes, code>>

\* people: word -> source; flags: ambiguous_flags; research: wiki_cache, word ->
\* the inferred type, or "none", and whether it is confirmed.
EmptyRegistry ==
  [people |-> [w \in Word |-> "no"], projects |-> {}, flags |-> {},
   research |-> [w \in Word |-> [type |-> "none", confirmed |-> FALSE]]]

Opened(s) == s \in open /\ s \notin writing

People(d) == {w \in Word : d.people[w] # "no"}

RegistryInit ==
  /\ file = EmptyRegistry /\ whole = EmptyRegistry
  /\ open = {} /\ mind = [s \in Session |-> EmptyRegistry]
  /\ writing = {} /\ changes = 0 /\ tears = 0 /\ behind = {} /\ vouched = {}
  /\ roster \in Roster /\ codes = <<>> /\ code = ""

-----------------------------------------------------------------------------
(* The file.                                                               *)

Load(s) ==
  /\ s \notin open
  /\ open' = open \cup {s}
  /\ mind' = [mind EXCEPT ![s] = file]
  /\ behind' = IF file = whole THEN behind \ {s} ELSE behind \cup {s}
  /\ UNCHANGED <<file, writing, changes, tears, whole, vouched, roster, codes, code>>

\* Every operation ends with save(), which begins by truncating the file.
Changed(s, data) ==
  /\ Opened(s) /\ changes < MaxChanges
  /\ changes' = changes + 1
  /\ mind' = [mind EXCEPT ![s] = data]
  /\ writing' = writing \cup {s}
  /\ file' = EmptyRegistry
  /\ UNCHANGED <<open, tears, whole, behind, roster, codes, code>>

Save(s) ==
  /\ s \in writing
  /\ writing' = writing \ {s}
  /\ file' = mind[s] /\ whole' = mind[s]
  /\ behind' = behind \cup (open \ {s})
  /\ UNCHANGED <<open, mind, changes, tears, vouched, roster, codes, code>>

Close(s) ==
  /\ Opened(s)
  /\ open' = open \ {s} /\ mind' = [mind EXCEPT ![s] = EmptyRegistry]
  /\ UNCHANGED <<file, writing, changes, tears, whole, behind, vouched, roster, codes, code>>

DiesWriting(s) ==
  /\ s \in writing /\ tears < MaxTears
  /\ tears' = tears + 1
  /\ writing' = writing \ {s}
  /\ open' = open \ {s} /\ mind' = [mind EXCEPT ![s] = EmptyRegistry]
  /\ UNCHANGED <<file, changes, whole, behind, vouched, roster, codes, code>>

-----------------------------------------------------------------------------
(* The operations.                                                         *)

\* Mutant: seeding begins with an empty registry.
SeedBase(d) == EmptyRegistry

SeedOn(d) == d

\* seed: people, and the aliases they are known by, are set, others stay; the
\* projects are replaced; the flags are computed anew from all people.
Seeded(d, people, projects) ==
  LET named == people \cup {a \in DOMAIN Alias : Alias[a] \in people}
      known == People(SeedOn(d)) \cup named
  IN [SeedOn(d) EXCEPT
        !.people = [w \in Word |-> IF w \in named THEN "onboarding" ELSE @[w]],
        !.projects = projects,
        !.flags = known \cap Common]

Seed(s, people, projects) ==
  /\ Changed(s, Seeded(mind[s], people, projects))
  /\ vouched' = vouched \cup people \cup projects \cup {a \in DOMAIN Alias : Alias[a] \in people}

\* Mutant: what is learned is not compared with the common words.
FlagsAsWere(d, w) == d.flags

FlagsWith(d, w) == d.flags \cup ({w} \cap Common)

\* learn_from_text, for a word the detector takes for a person.
Learn(s, w) ==
  /\ Opened(s) /\ w \notin People(mind[s]) \cup mind[s].projects
  /\ Changed(s, [mind[s] EXCEPT !.people[w] = "learned", !.flags = FlagsWith(mind[s], w)])
  /\ vouched' = vouched \cup {w}

\* research: a word once looked up is not looked up again, not even if the
\* encyclopedia could not be reached.
Research(s, w) ==
  /\ Opened(s) /\ mind[s].research[w].type = "none"
  /\ \E type \in {"person", "concept", "unknown"} :
       Changed(s, [mind[s] EXCEPT !.research[w] = [type |-> type, confirmed |-> FALSE]])
  /\ UNCHANGED vouched

\* Mutant: what is looked up is confirmed.
ConfirmAll(d, w) == [v \in Word |-> [d.research[v] EXCEPT !.confirmed = TRUE]]

ConfirmOne(d, w) ==
  IF d.research[w].type = "none" THEN d.research ELSE [d.research EXCEPT ![w].confirmed = TRUE]

\* confirm_research: the type that was confirmed is kept beside the inferred one,
\* where lookup does not read it.
Confirm(s, w, type) ==
  /\ Opened(s)
  /\ LET d == [mind[s] EXCEPT !.research = ConfirmOne(mind[s], w)]
     IN Changed(s, IF type = "person"
                   THEN [d EXCEPT !.people[w] = "wiki", !.flags = FlagsWith(d, w)] ELSE d)
  /\ vouched' = vouched \cup {w}

\* lookup, without a sentence around the word.
LookUp(d, w) ==
  IF w \in People(d) THEN "person"
  ELSE IF w \in d.projects THEN "project"
  ELSE IF d.research[w].confirmed THEN d.research[w].type ELSE "unknown"

-----------------------------------------------------------------------------
(* The codes of aaak_entities.md.                                          *)

Taken(c) == \E n \in DOMAIN codes : codes[n] = c

FirstCode ==
  /\ roster # <<>> /\ code = ""
  /\ code' = Short[Head(roster)]
  /\ UNCHANGED <<file, open, mind, writing, changes, tears, whole, behind, vouched, roster, codes>>

\* A turn of the loop: a code that is taken is replaced by the first four letters,
\* whether or not these are taken.
LongerCode ==
  /\ code # "" /\ Taken(code)
  /\ code' = Long[Head(roster)]
  /\ UNCHANGED <<file, open, mind, writing, changes, tears, whole, behind, vouched, roster, codes>>

\* Mutant: the code is not compared with those given.
FreeAlways == TRUE

Free == ~Taken(code)

GiveCode ==
  /\ code # "" /\ Free
  /\ codes' = [n \in DOMAIN codes \cup {Head(roster)} |-> IF n = Head(roster) THEN code ELSE codes[n]]
  /\ roster' = Tail(roster) /\ code' = ""
  /\ UNCHANGED <<file, open, mind, writing, changes, tears, whole, behind, vouched>>

Coding == FirstCode \/ LongerCode \/ GiveCode

RegistryNext ==
  \/ Coding
  \/ \E s \in Session :
       \/ Load(s) \/ Save(s) \/ Close(s) \/ DiesWriting(s)
       \/ \E people \in Seeds, projects \in {{}, Word} : Seed(s, people, projects)
       \/ \E w \in Word : \/ Learn(s, w) \/ Research(s, w)
                          \/ \E type \in {"person", "place"} : Confirm(s, w, type)

RegistrySpec == RegistryInit /\ [][RegistryNext]_registryVars /\ WF_registryVars(Coding)

-----------------------------------------------------------------------------
(* Properties.                                                             *)

Datum(d) ==
  /\ \A w \in Word : d.people[w] \in {"no", "onboarding", "learned", "wiki"}
  /\ d.projects \subseteq Word /\ d.flags \subseteq Word

\* The type invariant.
RegistryTypeOK ==
  /\ Datum(file) /\ Datum(whole)
  /\ open \subseteq Session /\ \A s \in Session : Datum(mind[s])
  /\ writing \cup behind \subseteq Session /\ vouched \subseteq Word
  /\ DOMAIN codes \subseteq Word

Registries == {file} \cup {mind[s] : s \in open}

\* A person whose name is a common word is flagged, however the name came in, so
\* that sentences are looked at before the word is taken for a name.
FlagsComplete == \A d \in Registries : People(d) \cap Common \subseteq d.flags

\* A word nobody has vouched for is unknown, whatever the encyclopedia says of it.
UnvouchedUnknown == \A d \in Registries : \A w \in Word \ vouched : LookUp(d, w) = "unknown"

\* Two names have two codes, unless one of them is on the list twice.
CodesDistinct == \A m, n \in DOMAIN codes : codes[m] = codes[n] => m = n

\* A process that has read the last complete content, and that no other has
\* written since, keeps everybody that was registered.
PeopleKept == [][\A s \in Session : Save(s) /\ s \notin behind => People(whole) \subseteq People(whole')]_registryVars

\* No two names of the list begin with the same four letters, and none is on it twice.
Codable == \A i, j \in DOMAIN roster : i # j => Long[roster[i]] # Long[roster[j]]

\* Then everyone gets a code.
EveryoneCoded == Codable /\ codes = <<>> ~> roster = <<>>

\* The registry keeps and flags whom it was told of, and codes tell names apart.
RegistrySound == [](FlagsComplete /\ UnvouchedUnknown /\ CodesDistinct) /\ PeopleKept
=============================================================================
