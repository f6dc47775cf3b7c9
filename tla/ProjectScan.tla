----------------------------- MODULE ProjectScan -----------------------------
(***************************************************************************)
(* Which files of a project are mined (mining/miner.py, scan_project): a   *)
(* walk from the top of the project that keeps lists of the ignore files   *)
(* in force and leaves out directories before it enters them.  Paths are   *)
(* sequences of names, relative to the project.  A step is one directory.  *)
(***************************************************************************)
EXTENDS Integers, Sequences, SequencesExt, FiniteSets, Rows

CONSTANTS
  Dir,         \* the directories, <<>> the project itself
  Leaf,        \* the files
  SkipName,    \* the names in SKIP_DIRS and SKIP_FILENAMES
  Unreadable,  \* files whose suffix is not in READABLE_EXTENSIONS
  Refused,     \* symbolic links, files that are too large or vanish
  RuleList,    \* the contents ignore files may have
  Include      \* the sets of paths include_ignored may name

ASSUME ScanAssumption ==
  /\ Dir \cup Leaf \subseteq Seq(STRING) /\ IsFiniteSet(Dir)
  /\ <<>> \in Dir /\ Dir \cap Leaf = {}
  /\ \A p \in Dir \cup Leaf : p # <<>> => Front(p) \in Dir

VARIABLES
  git, swamp,    \* the rules of .gitignore and .swampcastleignore in each directory
  global,        \* the rules of the .swampcastleignore in the home directory
  included,      \* include_paths
  options,       \* respect_gitignore, only_force_included
  walk,          \* directories still to visit, in order
  activeGit, activeSwamp,   \* directories whose ignore files are in force, in order
  found          \* the files returned

scanVars == <<git, swamp, global, included, options, walk, activeGit, activeSwamp, found>>

\* At most one directory has an ignore file of each kind, or all have the same.
Placement == {[d \in Dir |-> IF d \in D THEN r ELSE <<>>] : D \in {Dir} \cup {{d} : d \in Dir}, r \in RuleList}

ScanInit ==
  /\ git \in Placement /\ swamp \in Placement /\ global \in RuleList
  /\ included \in Include
  /\ options \in [gitignore : BOOLEAN, only : BOOLEAN]
  /\ walk = <<<<>>>> /\ activeGit = <<>> /\ activeSwamp = <<>> /\ found = {}

-----------------------------------------------------------------------------
(* One rule and one ignore file.                                           *)

\* fnmatch of one name.
NameMatches(name, pattern) == pattern \in {"*", "**"} \/ name = pattern

\* _match_from_root: the pattern matches a beginning of the path; ** stands for
\* any number of names.
MatchFromRoot(parts, pattern) ==
  LET m[i \in 1..Len(parts) + 1, j \in 1..Len(pattern) + 1] ==
        IF j > Len(pattern) THEN TRUE
        ELSE IF i > Len(parts) THEN \A k \in j..Len(pattern) : pattern[k] = "**"
        ELSE IF pattern[j] = "**" THEN m[i, j + 1] \/ m[i + 1, j]
        ELSE NameMatches(parts[i], pattern[j]) /\ m[i + 1, j + 1]
  IN m[1, 1]

\* _rule_matches.  A rule for directories is tried on those above a file.
RuleMatches(rule, path, isDir) ==
  LET parts == IF rule.dirOnly /\ ~isDir /\ path # <<>> THEN Front(path) ELSE path
  IN /\ parts # <<>>
     /\ IF rule.anchored \/ Len(rule.pattern) > 1
        THEN MatchFromRoot(parts, rule.pattern)
        ELSE \E k \in DOMAIN parts : NameMatches(parts[k], rule.pattern[1])

\* GitignoreMatcher.matches: the last rule that matches decides.
Verdict(rules, path, isDir) ==
  LET hits == {k \in DOMAIN rules : RuleMatches(rules[k], path, isDir)}
  IN IF hits = {} THEN "none" ELSE IF rules[Max(hits)].negated THEN "keep" ELSE "ignore"

\* What the ignore file of a directory says of a path: nothing unless the path
\* is below it (relative_to raises ValueError).
VerdictOf(rulesOf, d, path) ==
  IF IsPrefix(d, path) THEN Verdict(rulesOf[d], SubSeq(path, Len(d) + 1, Len(path)), path \in Dir)
  ELSE "none"

GlobalVerdict(path) == Verdict(global, path, path \in Dir)

\* _ignore_decision: the last ignore file that decides.
Decision(rulesOf, active, path) ==
  LET decided == {k \in DOMAIN active : VerdictOf(rulesOf, active[k], path) # "none"}
  IN IF decided = {} THEN "none" ELSE VerdictOf(rulesOf, active[Max(decided)], path)

\* The first of three decisions that is one is to ignore.
FirstSays(decisions) ==
  \E k \in DOMAIN decisions : decisions[k] = "ignore" /\ \A l \in 1..k - 1 : decisions[l] = "none"

GitDecision(gits, path) == IF options.gitignore THEN Decision(git, gits, path) ELSE "none"

\* Mutant: .gitignore is asked before the global .swampcastleignore.
IgnoredGitFirst(path, gits, swamps) ==
  FirstSays(<<Decision(swamp, swamps, path), GitDecision(gits, path), GlobalVerdict(path)>>)

\* _is_ignored_by_precedence.
Ignored(path, gits, swamps) ==
  FirstSays(<<Decision(swamp, swamps, path), GlobalVerdict(path), GitDecision(gits, path)>>)

-----------------------------------------------------------------------------
(* The walk.                                                               *)

\* Mutant: directories that lead to an included path are not entered.
ForcedBelowOnly(path) == \E p \in included : IsPrefix(p, path)

\* is_force_included: the path, or one above or below it, was named.
Forced(path) == \E p \in included : IsPrefix(p, path) \/ IsPrefix(path, p)

\* Matchers of directories that do not contain the one visited are dropped.
StillActive(active, d) == Picked(active, {k \in DOMAIN active : IsPrefix(active[k], d)})

Activated(rulesOf, active, d) ==
  StillActive(active, d) \o (IF rulesOf[d] = <<>> THEN <<>> ELSE <<d>>)

Enters(d, gits, swamps) ==
  Forced(d) \/ (Last(d) \notin SkipName /\ ~Ignored(d, gits, swamps))

Takes(f, gits, swamps) ==
  /\ options.only => Forced(f)
  /\ Forced(f) \/ Last(f) \notin SkipName
  /\ f \notin Unreadable \/ f \in included
  /\ Forced(f) \/ ~Ignored(f, gits, swamps)
  /\ f \notin Refused

Within(S, d) == {p \in S : p # <<>> /\ Front(p) = d}

Visit ==
  /\ walk # <<>>
  /\ LET d == Head(walk)
         gits == IF options.gitignore THEN Activated(git, activeGit, d) ELSE activeGit
         swamps == Activated(swamp, activeSwamp, d)
     IN /\ activeGit' = gits /\ activeSwamp' = swamps
        /\ found' = found \cup {f \in Within(Leaf, d) : Takes(f, gits, swamps)}
        /\ \E sub \in SetToSeqs({e \in Within(Dir, d) : Enters(e, gits, swamps)}) :
             walk' = sub \o Tail(walk)
  /\ UNCHANGED <<git, swamp, global, included, options>>

\* Nothing is walked when only named paths are wanted and none is named.
ScanNext == ~(options.only /\ included = {}) /\ Visit

ScanSpec == ScanInit /\ [][ScanNext]_scanVars

-----------------------------------------------------------------------------
(* Properties.                                                             *)

\* The type invariant.
ScanTypeOK ==
  /\ walk \in Seq(Dir) /\ activeGit \in Seq(Dir) /\ activeSwamp \in Seq(Dir)
  /\ found \subseteq Leaf

Ancestors(rulesOf, d) ==
  LET above == [k \in 1..Len(d) + 1 |-> SubSeq(d, 1, k - 1)]
  IN Picked(above, {k \in DOMAIN above : rulesOf[above[k]] # <<>>})

\* What the rules say of a path by itself: the ignore files in force are those
\* of the directories that contain it.
Wanted(f) ==
  /\ Takes(f, Ancestors(git, Front(f)), Ancestors(swamp, Front(f)))
  /\ \A d \in Dir \ {<<>>} : IsPrefix(d, f) =>
       Enters(d, Ancestors(git, Front(d)), Ancestors(swamp, Front(d)))

\* The files mined do not depend on the order of the walk: the lists of active
\* matchers, cut and grown on the way, hold exactly the ignore files above each
\* path, and never one of a directory next to it.
FindsTheWanted ==
  walk = <<>> => found = {f \in Leaf : Wanted(f)}

\* A file that was named to be included is found, however deep below ignored or
\* generated directories, unless it may not be read.
IncludedIsFound ==
  walk = <<>> => \A f \in Leaf : f \in included \ Refused => f \in found

\* A rule of the project's .swampcastleignore has the last word, and one of the
\* global file comes before .gitignore (docs and _is_ignored_by_precedence).
SwampOverGit ==
  \A f \in found \ {g \in Leaf : Forced(g)} :
    GlobalVerdict(f) = "ignore" => \E d \in Dir : VerdictOf(swamp, d, f) = "keep"

\* The three together: the files mined are those the rules want, in whatever
\* order the directories come.
ScanSound == FindsTheWanted /\ IncludedIsFound /\ SwampOverGit
=============================================================================
