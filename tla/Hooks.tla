-------------------------------- MODULE Hooks --------------------------------
(***************************************************************************)
(* The hooks of a client (hooks_cli.py).  hook_stop asks for a save every  *)
(* SAVE_INTERVAL exchanges and notes in a file where it asked last;        *)
(* hook_session_start serves the cached digest of the project and has an   *)
(* old one rebuilt by a process of its own, through a temporary file that  *)
(* all rebuilds of a project share.                                        *)
(*                                                                         *)
(* A digest is known by the state of the memory it was built from; a file  *)
(* is a sequence of pieces, each known by the digest it is a piece of.     *)
(***************************************************************************)
EXTENDS Integers, Sequences, SequencesExt

CONSTANTS
  Builder,        \* processes that rebuild the digest
  SaveInterval,
  MaxExchanges,   \* bound on exchanges of the session
  MaxMemories,    \* bound on changes of the memory
  DigestSize      \* the pieces of the digest of each state of the memory

Memories == 1..(MaxMemories + 1)

ASSUME HooksAssumption ==
  /\ SaveInterval \in Nat \ {0} /\ MaxExchanges \in Nat /\ MaxMemories \in Nat
  /\ DigestSize \in [Memories -> Nat \ {0}]

VARIABLES
  exchanges,  \* human messages in the transcript
  lastSave,   \* the number in the marker file, 0 if there is none
  asked,      \* history: where a save was last asked for
  saving,     \* the client is in a save cycle (stop_hook_active)
  unnoted,    \* history: the marker could not be written
  hookVerdict,\* what hook_stop last answered, and at which number of exchanges
  memory,     \* the state of the memory
  cache, tmp, \* the two files: there or not, and the pieces in it
  old,        \* the cache is older than DIGEST_REFRESH_SECONDS
  builders,   \* each builder: what it does next, its digest, which of the two
              \* files the one it has opened is now called, and whether no other
              \* has had that file open while it has
  undisturbed \* history: nor had any while the one did that left the cache

hookVars == <<exchanges, lastSave, asked, saving, unnoted, hookVerdict,
              memory, cache, tmp, old, builders, undisturbed>>
saveVars == <<exchanges, lastSave, asked, saving, unnoted, hookVerdict>>
digestVars == <<memory, cache, tmp, old, builders, undisturbed>>

NoFile == [there |-> FALSE, text |-> <<>>]
NoBuild == [pc |-> "off", digest |-> 0, holds |-> "none", apart |-> FALSE]

HooksInit ==
  /\ exchanges = 0 /\ lastSave = 0 /\ asked = 0 /\ saving = FALSE /\ unnoted = FALSE
  /\ hookVerdict = [ask |-> FALSE, at |-> 0]
  /\ memory = 1 /\ cache = NoFile /\ tmp = NoFile /\ old = FALSE
  /\ builders = [b \in Builder |-> NoBuild] /\ undisturbed = TRUE

-----------------------------------------------------------------------------
(* hook_stop.                                                              *)

Exchange ==
  /\ exchanges < MaxExchanges /\ exchanges' = exchanges + 1 /\ saving' = FALSE
  /\ UNCHANGED <<lastSave, asked, unnoted, hookVerdict>> /\ UNCHANGED digestVars

\* Mutant: one exchange too late.
SaveDueLate(count) == count - lastSave > SaveInterval

SaveDue(count) == count - lastSave >= SaveInterval /\ count > 0

\* The transcript is counted (0 if it cannot be read), the marker read, and if a
\* save is due the marker is written, or fails to be, before the client is asked.
HookStop ==
  /\ \E count \in {exchanges, 0} :
       IF ~saving /\ SaveDue(count)
       THEN /\ \/ lastSave' = count /\ UNCHANGED unnoted
               \/ lastSave' \in {lastSave, 0} /\ unnoted' = TRUE
            /\ asked' = count /\ saving' = TRUE
            /\ hookVerdict' = [ask |-> TRUE, at |-> asked]
       ELSE /\ hookVerdict' = [ask |-> FALSE, at |-> IF count = exchanges /\ ~saving THEN count ELSE 0]
            /\ UNCHANGED <<lastSave, asked, saving, unnoted>>
  /\ UNCHANGED exchanges /\ UNCHANGED digestVars

-----------------------------------------------------------------------------
(* The digest.                                                             *)

MemoryGrows ==
  /\ memory <= MaxMemories /\ memory' = memory + 1
  /\ UNCHANGED saveVars /\ UNCHANGED <<cache, tmp, old, builders, undisturbed>>

Ages ==
  /\ cache.there /\ ~old /\ old' = TRUE
  /\ UNCHANGED saveVars /\ UNCHANGED <<memory, cache, tmp, builders, undisturbed>>

\* A session starts: a cold cache is built by the hook itself, an old one by a
\* process of its own (_spawn_digest_refresh); either reads the memory.
BeginBuild(b) ==
  /\ builders[b].pc = "off" /\ (~cache.there \/ old)
  /\ builders' = [builders EXCEPT ![b] = [NoBuild EXCEPT !.pc = "open", !.digest = memory]]
  /\ UNCHANGED saveVars /\ UNCHANGED <<memory, cache, tmp, old, undisturbed>>

\* Mutant: the digest is written to the cache itself.
OpensCache == "cache"

Opens == "tmp"

Empty == [there |-> TRUE, text |-> <<>>]

AtTheFile(b) == builders[b].pc \in {"write", "replace"}

\* write_text empties the file, which another builder may have open, ...
OpenFile(b) ==
  /\ builders[b].pc = "open"
  /\ builders' = [c \in Builder |->
       IF c = b THEN [builders[b] EXCEPT !.pc = "write", !.holds = Opens, !.apart = ~\E d \in Builder : AtTheFile(d)]
       ELSE [builders[c] EXCEPT !.apart = FALSE]]
  /\ IF Opens = "tmp" THEN tmp' = Empty /\ UNCHANGED cache ELSE cache' = Empty /\ UNCHANGED tmp
  /\ UNCHANGED saveVars /\ UNCHANGED <<memory, old, undisturbed>>

Digest(d) == [k \in 1..DigestSize[d] |-> d]

\* A handle writes from its own place, the start of the file: what another has put
\* there since, and is longer, keeps its tail.
Over(text, d) == Digest(d) \o SubSeq(text, DigestSize[d] + 1, Len(text))

\* ... and writes it, under whatever name it has by now.
WriteFile(b) ==
  /\ builders[b].pc = "write"
  /\ LET Filled(file) == [there |-> TRUE, text |-> Over(file.text, builders[b].digest)]
     IN /\ tmp' = IF builders[b].holds = "tmp" THEN Filled(tmp) ELSE tmp
        /\ cache' = IF builders[b].holds = "cache" THEN Filled(cache) ELSE cache
  /\ builders' = [builders EXCEPT ![b].pc = "replace"]
  /\ UNCHANGED saveVars /\ UNCHANGED <<memory, old, undisturbed>>

\* tmp.replace(cache): the file opened by others changes its name, or loses it.
ReplaceCache(b) ==
  /\ builders[b].pc = "replace"
  /\ IF tmp.there
     THEN /\ cache' = tmp /\ tmp' = NoFile /\ old' = FALSE
          /\ undisturbed' = builders[b].apart
          /\ builders' = [c \in Builder |->
               IF c = b THEN NoBuild
               ELSE [builders[c] EXCEPT !.holds =
                       CASE @ = "tmp" -> "cache" [] @ = "cache" -> "gone" [] OTHER -> @]]
     ELSE /\ builders' = [builders EXCEPT ![b] = NoBuild]     \* FileNotFoundError
          /\ UNCHANGED <<cache, tmp, old, undisturbed>>
  /\ UNCHANGED saveVars /\ UNCHANGED memory

BuilderDies(b) ==
  /\ builders[b].pc # "off"
  /\ builders' = [builders EXCEPT ![b] = NoBuild]
  /\ UNCHANGED saveVars /\ UNCHANGED <<memory, cache, tmp, old, undisturbed>>

HooksNext ==
  \/ Exchange \/ HookStop \/ MemoryGrows \/ Ages
  \/ \E b \in Builder : BeginBuild(b) \/ OpenFile(b) \/ WriteFile(b) \/ ReplaceCache(b) \/ BuilderDies(b)

HooksSpec == HooksInit /\ [][HooksNext]_hookVars

-----------------------------------------------------------------------------
(* Properties.                                                             *)

\* The type invariant.
HooksTypeOK ==
  /\ exchanges \in 0..MaxExchanges /\ lastSave \in 0..exchanges /\ asked \in 0..exchanges
  /\ memory \in Memories /\ cache.text \in Seq(1..memory) /\ tmp.text \in Seq(1..memory)
  /\ \A b \in Builder : builders[b].digest \in 0..memory /\ builders[b].holds \in {"none", "tmp", "cache", "gone"}

\* Saves are asked for SaveInterval exchanges apart and not later than that
\* at the next stop, through unreadable transcripts and save cycles, unless
\* the marker could not be written.
SavesSpaced ==
  ~unnoted =>
    /\ hookVerdict.ask => asked - hookVerdict.at >= SaveInterval
    /\ ~hookVerdict.ask /\ hookVerdict.at > 0 => hookVerdict.at - asked < SaveInterval

WholeText(file) == \E d \in Memories : file.text = Digest(d)

\* A session that starts is served a whole digest if the builder that left it had
\* the temporary file to itself, from opening it to the replacement: whatever
\* builders of other times died at, or leave in that file later.
DigestWhole == cache.there /\ undisturbed => WholeText(cache)

\* That every session is served a whole digest is not kept: of two builders that
\* have the file open at once, the shorter digest over the longer one leaves a mix
\* of both, and one may replace the cache by what the other has just emptied.
AlwaysWhole == cache.there => WholeText(cache)

\* Sessions are asked to save in time and served whole digests of undisturbed builds.
HooksSound == SavesSpaced /\ DigestWhole
=============================================================================
