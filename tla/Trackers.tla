------------------------------ MODULE Trackers ------------------------------
(***************************************************************************)
(* The registry of issue trackers and its sweep (mining/tracker.py), in    *)
(* the runtime configuration file (runtime_config.py): sweep_trackers goes *)
(* through the entries it read at its start, files the decisions of each   *)
(* repository and notes success or failure, while the user registers and   *)
(* removes repositories and changes settings.  Every change of the file is *)
(* a load, a change and a save that empties the file and writes it again.  *)
(***************************************************************************)
EXTENDS Integers, FiniteSets

CONSTANTS
  Repo,
  StaleAfter,    \* STALE_AFTER
  MaxEvents,     \* bound on changes of a repository's ticket
  MaxFaults,     \* bound on hiccups, token losses and deaths
  MaxUserEdits   \* bound on the user's commands

ASSUME TrackersAssumption ==
  /\ StaleAfter \in Nat \ {0} /\ MaxEvents \in Nat /\ MaxFaults \in Nat /\ MaxUserEdits \in Nat

VARIABLES
  config,      \* the file: an entry for each registered repository, and a setting
  forge,       \* each repository: gone or not, and its ticket: closed or not, its
               \* text, and whether it has ever been closed
  token,       \* whether the credentials are good
  decision,    \* the text of the decision drawer of each repository, 0 for none
  sweep,       \* the sweep: what it does next and what it holds
  user,        \* the user's command: what it does next and what it holds
  alone,       \* the sweep and the user's commands never overlap
  events, faults, edits,
  streak,      \* history: how often in a row each repository was found gone
  noted,       \* history: failures of any kind noted of each repository in a row
  lastGone,    \* history: whether the last failure said that it is gone
  registered   \* history: the repositories the user has registered

trackerVars == <<config, forge, token, decision, sweep, user, alone,
                 events, faults, edits, streak, noted, lastGone, registered>>

Unregistered == [state |-> "none", failures |-> 0]
Fresh == [state |-> "active", failures |-> 0]

\* A file that a save has emptied and not written yet cannot be parsed.
Torn == [entries |-> [r \in Repo |-> Unregistered], setting |-> -1]

Resting == [pc |-> "off", left |-> {}, entry |-> [r \in Repo |-> Unregistered], repo |-> "none",
            seen |-> [closed |-> FALSE, text |-> 0], outcome |-> "none", holds |-> Torn]
NoCommand == [pc |-> "off", op |-> "none", repo |-> "none", holds |-> Torn]

TrackersInit ==
  /\ config = [entries |-> [r \in Repo |-> Unregistered], setting |-> 0]
  /\ forge \in [Repo -> {[gone |-> FALSE, closed |-> c, text |-> 1, decided |-> c] : c \in BOOLEAN}]
  /\ token = TRUE /\ decision = [r \in Repo |-> 0]
  /\ sweep = Resting /\ user = NoCommand /\ alone \in BOOLEAN
  /\ events = 0 /\ faults = 0 /\ edits = 0
  /\ streak = [r \in Repo |-> 0] /\ noted = [r \in Repo |-> 0] /\ lastGone = [r \in Repo |-> FALSE] /\ registered = {}

AtMost(k, bound) == IF k > bound THEN bound ELSE k

-----------------------------------------------------------------------------
(* The sweep.                                                              *)

\* list_tracker_repos; the sweep raises if the file cannot be parsed.
StartSweep ==
  /\ sweep.pc = "off" /\ config # Torn
  /\ alone => user.pc = "off"
  /\ sweep' = [Resting EXCEPT !.pc = "entry", !.entry = config.entries,
                 !.left = {r \in Repo : config.entries[r].state # "none"}]
  /\ UNCHANGED <<config, forge, token, decision, user, alone, events, faults, edits, streak, noted, lastGone, registered>>

\* A stale entry is passed over; of the others the maps and issues are fetched.
\* The forge answers, or the call fails: as a hiccup, for bad credentials, or
\* because the repository is gone (_classify_forge_error).
Fetch(r) ==
  /\ sweep.pc = "entry" /\ r \in sweep.left
  /\ \/ /\ sweep.entry[r].state # "active"
        /\ sweep' = [sweep EXCEPT !.left = @ \ {r}]
        /\ UNCHANGED faults
     \/ /\ sweep.entry[r].state = "active" /\ token /\ ~forge[r].gone
        /\ sweep' = [sweep EXCEPT !.left = @ \ {r}, !.repo = r, !.pc = "comments",
                       !.seen = [closed |-> forge[r].closed, text |-> forge[r].text]]
        /\ UNCHANGED faults
     \/ /\ sweep.entry[r].state = "active" /\ ~token
        /\ sweep' = Resting           \* credentials are global: the sweep stops
        /\ UNCHANGED faults
     \/ /\ sweep.entry[r].state = "active" /\ token /\ forge[r].gone
        /\ sweep' = [sweep EXCEPT !.left = @ \ {r}, !.repo = r, !.pc = "load", !.outcome = "gone"]
        /\ UNCHANGED faults
     \/ /\ sweep.entry[r].state = "active" /\ faults < MaxFaults
        /\ sweep' = [sweep EXCEPT !.left = @ \ {r}, !.repo = r, !.pc = "load", !.outcome = "transient"]
        /\ faults' = faults + 1
  /\ UNCHANGED <<config, forge, token, decision, user, alone, events, edits, streak, noted, lastGone, registered>>

\* Mutant: open tickets are filed too.
WorthFilingAny == TRUE

\* Open tickets are not memories yet.
WorthFiling == sweep.seen.closed

\* The comments of a closed ticket are fetched, its resolution is the last, and
\* the drawer is written if it changed.
FileDecision ==
  /\ sweep.pc = "comments"
  /\ LET r == sweep.repo
     IN IF token /\ ~forge[r].gone
        THEN /\ decision' = IF WorthFiling THEN [decision EXCEPT ![r] = forge[r].text] ELSE decision
             /\ sweep' = [sweep EXCEPT !.pc = "load", !.outcome = "ok"]
        ELSE /\ UNCHANGED decision
             /\ sweep' = IF token THEN [sweep EXCEPT !.pc = "load", !.outcome = "gone"] ELSE Resting
  /\ UNCHANGED <<config, forge, token, user, alone, events, faults, edits, streak, noted, lastGone, registered>>

\* Mutant: any failure quarantines in the end.
StateAfterAny(failures) == IF failures >= StaleAfter THEN "stale" ELSE "active"

StateAfter(failures) ==
  IF sweep.outcome = "gone" /\ failures >= StaleAfter THEN "stale" ELSE "active"

\* Mutant: a success leaves the count as it is.
CountKept == IF sweep.outcome = "ok" THEN sweep.entry[sweep.repo].failures
             ELSE AtMost(sweep.entry[sweep.repo].failures + 1, StaleAfter)

\* consecutive_failures, counted from the entry read at the start (and here no
\* further than StaleAfter, above which nothing depends on it).
Count == IF sweep.outcome = "ok" THEN 0
         ELSE AtMost(sweep.entry[sweep.repo].failures + 1, StaleAfter)

\* _update_entry: the file is loaded, and saved in two steps; a repository
\* that has been removed is not brought back.  The state is only ever set to
\* stale.  If the file cannot be parsed the sweep raises.
LoadForUpdate ==
  /\ sweep.pc = "load"
  /\ LET r == sweep.repo
         was == config.entries[r]
         now == [state |-> IF StateAfter(Count) = "stale" THEN "stale" ELSE was.state, failures |-> Count]
     IN sweep' = IF config = Torn THEN Resting
                 ELSE [sweep EXCEPT !.pc = "empty",
                         !.holds = [config EXCEPT !.entries[r] = IF was = Unregistered THEN was ELSE now]]
  /\ UNCHANGED <<config, forge, token, decision, user, alone, events, faults, edits, streak, noted, lastGone, registered>>

EmptyForUpdate ==
  /\ sweep.pc = "empty"
  /\ config' = Torn
  /\ sweep' = [sweep EXCEPT !.pc = "save"]
  /\ UNCHANGED <<forge, token, decision, user, alone, events, faults, edits, streak, noted, lastGone, registered>>

SaveUpdate ==
  /\ sweep.pc = "save"
  /\ config' = sweep.holds
  /\ sweep' = [sweep EXCEPT !.pc = "entry", !.holds = Torn, !.outcome = "none", !.repo = "none",
                 !.seen = Resting.seen]
  /\ streak' = [streak EXCEPT ![sweep.repo] =
       CASE sweep.outcome = "ok" -> 0
         [] sweep.outcome = "gone" -> AtMost(@ + 1, StaleAfter)
         [] sweep.outcome = "transient" -> @]      \* "no state change" (tracker.py:51)
  /\ noted' = [noted EXCEPT ![sweep.repo] =
       IF sweep.outcome = "ok" THEN 0 ELSE AtMost(@ + 1, StaleAfter)]
  /\ lastGone' = [lastGone EXCEPT ![sweep.repo] = sweep.outcome = "gone"]
  /\ UNCHANGED <<forge, token, decision, user, alone, events, faults, edits, registered>>

EndSweep ==
  /\ sweep.pc = "entry" /\ sweep.left = {}
  /\ sweep' = Resting
  /\ UNCHANGED <<config, forge, token, decision, user, alone, events, faults, edits, streak, noted, lastGone, registered>>

-----------------------------------------------------------------------------
(* The user: register and remove a repository, or run the wizard, which    *)
(* keeps what it loaded until its questions are answered.                  *)

Command(op, r) ==
  /\ user.pc = "off" /\ edits < MaxUserEdits /\ config # Torn
  /\ alone => sweep.pc = "off"
  /\ op = "register" => config.entries[r] = Unregistered /\ ~forge[r].gone
  /\ op = "remove" => config.entries[r] # Unregistered
  /\ edits' = edits + 1
  /\ user' = [pc |-> "empty", op |-> op, repo |-> r, holds |->
       CASE op = "register" -> [config EXCEPT !.entries[r] = Fresh]
         [] op = "remove" -> [config EXCEPT !.entries[r] = Unregistered]
         [] op = "wizard" -> [config EXCEPT !.setting = 1 - @]]
  /\ UNCHANGED <<config, forge, token, decision, sweep, alone, events, faults, streak, noted, lastGone, registered>>

EmptyForCommand ==
  /\ user.pc = "empty"
  /\ config' = Torn
  /\ user' = [user EXCEPT !.pc = "save"]
  /\ UNCHANGED <<forge, token, decision, sweep, alone, events, faults, edits, streak, noted, lastGone, registered>>

SaveCommand ==
  /\ user.pc = "save"
  /\ config' = user.holds
  /\ user' = NoCommand
  /\ LET r == user.repo
     IN /\ registered' = IF user.op = "register" THEN registered \cup {r}
                         ELSE IF user.op = "remove" THEN registered \ {r} ELSE registered
        /\ streak' = IF user.op = "register" THEN [streak EXCEPT ![r] = 0] ELSE streak
        /\ noted' = IF user.op = "register" THEN [noted EXCEPT ![r] = 0] ELSE noted
  /\ UNCHANGED <<forge, token, decision, sweep, alone, events, faults, edits, lastGone>>

-----------------------------------------------------------------------------
(* The forge, the credentials, and deaths.                                 *)

TicketChanges(r) ==
  /\ events < MaxEvents
  /\ events' = events + 1
  /\ \E closed \in BOOLEAN :
       forge' = [forge EXCEPT ![r].closed = closed, ![r].text = @ + 1, ![r].decided = @ \/ closed]
  /\ UNCHANGED <<config, token, decision, sweep, user, alone, faults, edits, streak, noted, lastGone, registered>>

RepoGoes(r) ==
  /\ ~forge[r].gone
  /\ forge' = [forge EXCEPT ![r].gone = TRUE]
  /\ UNCHANGED <<config, token, decision, sweep, user, alone, events, faults, edits, streak, noted, lastGone, registered>>

TokenExpires ==
  /\ token /\ faults < MaxFaults
  /\ token' = FALSE /\ faults' = faults + 1
  /\ UNCHANGED <<config, forge, decision, sweep, user, alone, events, edits, streak, noted, lastGone, registered>>

TokenRefreshed ==
  /\ ~token /\ token' = TRUE
  /\ UNCHANGED <<config, forge, decision, sweep, user, alone, events, faults, edits, streak, noted, lastGone, registered>>

\* The sweep or the command dies; a file it has emptied stays empty.
Dies ==
  /\ faults < MaxFaults /\ faults' = faults + 1
  /\ \/ sweep.pc # "off" /\ sweep' = Resting /\ UNCHANGED user
     \/ user.pc # "off" /\ user' = NoCommand /\ UNCHANGED sweep
  /\ UNCHANGED <<config, forge, token, decision, alone, events, edits, streak, noted, lastGone, registered>>

SweepStep ==
  \/ \E r \in Repo : Fetch(r)
  \/ FileDecision \/ LoadForUpdate \/ EmptyForUpdate \/ SaveUpdate \/ EndSweep

UserStep == EmptyForCommand \/ SaveCommand

TrackersNext ==
  \/ StartSweep \/ SweepStep \/ UserStep \/ TokenExpires \/ TokenRefreshed \/ Dies
  \/ \E r \in Repo :
       \/ \E op \in {"register", "remove", "wizard"} : Command(op, r)
       \/ TicketChanges(r) \/ RepoGoes(r)

\* The timer starts sweeps again and again, and neither a sweep nor a command
\* pauses for ever; the user refreshes the credentials in the end.
TrackersSpec ==
  /\ TrackersInit /\ [][TrackersNext]_trackerVars
  /\ WF_trackerVars(StartSweep) /\ WF_trackerVars(SweepStep) /\ WF_trackerVars(UserStep)
  /\ WF_trackerVars(TokenRefreshed)

-----------------------------------------------------------------------------
(* Properties.                                                             *)

\* The type invariant.
TrackersTypeOK ==
  /\ config.entries \in [Repo -> [state : {"none", "active", "stale"}, failures : 0..StaleAfter]]
  /\ config.setting \in -1..1 /\ (config.setting = -1 => config = Torn)
  /\ sweep.pc \in {"off", "entry", "comments", "load", "empty", "save"}
  /\ user.pc \in {"off", "empty", "save"}
  /\ decision \in [Repo -> 0..MaxEvents + 1]

\* A repository is quarantined only when it is gone (tracker.py:19-20), whatever
\* becomes of the registry during a sweep; and as long as nobody changes that
\* during a sweep, after StaleAfter failures in a row, of which the last says so.
\* Hiccups count here, as they do in sweep_trackers.
QuarantineOfGone ==
  \A r \in Repo : config.entries[r].state = "stale" =>
    /\ forge[r].gone
    /\ alone => noted[r] = StaleAfter /\ lastGone[r]

\* The same as documented: a hiccup is "skip this run, no state change"
\* (tracker.py:51) and "transient errors skip once" (tracker.py:21), so that a
\* quarantine takes StaleAfter sweeps that found the repository gone.  The code
\* does not keep this: a hiccup raises consecutive_failures like any failure.
QuarantineEarned ==
  alone => \A r \in Repo : config.entries[r].state = "stale" => streak[r] = StaleAfter

\* Undecided things are not memories: a decision drawer exists only of a ticket
\* that has been closed, though ticket and comments are fetched in two calls.
DecidedOnly == \A r \in Repo : decision[r] # 0 => forge[r].decided

\* What the user has registered is what the file holds, when no command is in
\* the middle of its change: no save brings back or forgets a repository.  It
\* takes that the sweep and the commands do not overlap, and that no save was cut.
RegistryFaithful ==
  alone /\ config # Torn /\ user.pc = "off" =>
    {r \in Repo : config.entries[r].state # "none"} = registered

\* A repository that is gone leaves the sweep for good, quarantined or removed
\* (unless a death has cut the file): hiccups, an expired token and commands that
\* write back an older registry only put it off.
GoneIsQuarantined ==
  \A r \in Repo : forge[r].gone ~> [](config.entries[r].state # "active")

\* The three together: what the sweep and the user's commands, each of which
\* loads and saves the whole file, leave of the registry and of the decisions.
TrackersSound == QuarantineOfGone /\ DecidedOnly /\ RegistryFaithful
=============================================================================
