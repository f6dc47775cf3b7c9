---------------------------- MODULE Transcripts ----------------------------
(***************************************************************************)
(* From the export of a chat program to the units that are filed.          *)
(* normalize (mining/normalize.py) tries one parser after the other and    *)
(* writes a transcript in which a message of the user begins with ">";     *)
(* chunk_exchanges (mining/convo.py) cuts it into units.                   *)
(*                                                                         *)
(* A text stands for what it does to a reader of lines: it holds nothing   *)
(* ("none"), only what the harness injected ("noise"), words, words after  *)
(* a quotation ("cited"), or a rule between words ("rule").                *)
(***************************************************************************)
EXTENDS Integers, Sequences, SequencesExt, FiniteSetsExt, Rows

CONSTANTS
  MaxEntries,   \* bound on the entries of an export
  MaxNodes      \* bound on the nodes of a message tree

ASSUME TranscriptAssumption == MaxEntries \in Nat /\ MaxNodes \in Nat \ {0}

VARIABLES
  export,       \* the file: its form and its entries
  transcript,   \* the lines of the transcript
  units,        \* the units cut from it, as sets of line numbers
  stage         \* "export", "transcript", "raw" (no parser took it) or "units"

transcriptVars == <<export, transcript, units, stage>>

Entry(type, texts) == {[type |-> type, text |-> t] : t \in texts}

\* The entries of each form: the lines of a JSONL session ("broken" does not
\* parse), the items of a list of chat messages, those of a Slack channel.
EntryOf ==
  [claude |-> Entry("user", {"noise", "words"}) \cup Entry("assistant", {"words", "cited", "rule"})
              \cup Entry("broken", {"none"}),
   codex  |-> Entry("session_meta", {"none"}) \cup Entry("user_message", {"words"})
              \cup Entry("agent_message", {"none", "words", "rule"}) \cup Entry("response_item", {"words"}),
   pi     |-> Entry("session", {"none"}) \cup Entry("message/user", {"words", "noise"})
              \cup Entry("message/assistant", {"words", "cited"}) \cup Entry("message/toolResult", {"words"}),
   chats  |-> Entry("human", {"words"}) \cup Entry("ai", {"none", "words", "cited"}) \cup Entry("tool", {"words"}),
   slack  |-> Entry("x", {"words", "none"}) \cup Entry("y", {"words"}) \cup Entry("z", {"words"})]

\* The mapping of a ChatGPT export, in its order: a node's parent (0: none), and
\* its message unless it is a synthetic root.
TreeNode ==
  [parent : 0..MaxNodes,
   message : {<<>>} \cup {<<[role |-> r, text |-> "words"]>> : r \in {"user", "assistant"}}]

IsForest(nodes) ==
  /\ \A i \in DOMAIN nodes : nodes[i].parent \in {0} \cup DOMAIN nodes
  /\ \E depth \in [DOMAIN nodes -> DOMAIN nodes] :
       \A i \in DOMAIN nodes : nodes[i].parent # 0 => depth[i] = depth[nodes[i].parent] + 1

TranscriptInit ==
  /\ \/ \E form \in DOMAIN EntryOf : \E entries \in BoundedSeq(EntryOf[form], MaxEntries) :
          export = [form |-> form, entries |-> entries]
     \/ \E nodes \in {ns \in BoundedSeq(TreeNode, MaxNodes) : ns # <<>> /\ IsForest(ns)} :
          export = [form |-> "tree", entries |-> nodes]
  /\ transcript = <<>> /\ units = {} /\ stage = "export"

-----------------------------------------------------------------------------
(* The parsers: the messages each finds in an export.                      *)

Message(role, text) == [role |-> role, text |-> text]

\* The entries of some types, unless their text is in nothing.
EntriesOf(types, nothing) ==
  Picked(export.entries, {k \in DOMAIN export.entries : /\ export.entries[k].type \in types
                                                       /\ export.entries[k].text \notin nothing})

\* The messages of the entries whose type has a role.
Messages(role, nothing) ==
  LET said == EntriesOf(DOMAIN role, nothing)
  IN [k \in DOMAIN said |-> Message(role[said[k].type], said[k].text)]

Has(type) == \E k \in DOMAIN export.entries : export.entries[k].type = type

\* _try_claude_code_jsonl.
ClaudeCode == Messages([user |-> "user", assistant |-> "assistant"], {"none", "noise"})

\* Mutant: response items, which repeat the agent's messages, are taken as well.
CodexTwice ==
  Messages([user_message |-> "user", agent_message |-> "assistant", response_item |-> "assistant"], {"none"})

\* _try_codex_jsonl: noise is not stripped; without the session's head nothing is taken.
Codex ==
  IF Has("session_meta")
  THEN Messages([user_message |-> "user", agent_message |-> "assistant"], {"none"})
  ELSE <<>>

\* _try_pi_jsonl.
Pi ==
  IF Has("session")
  THEN Messages([type \in {"message/user", "message/assistant"} |->
                   IF type = "message/user" THEN "user" ELSE "assistant"], {"none", "noise"})
  ELSE <<>>

\* _try_claude_ai_json.
ClaudeAi == Messages([human |-> "user", ai |-> "assistant"], {"none"})

\* _try_chatgpt_json: from a root, a synthetic one before others, along the first
\* child of every node.
Children(i) == {j \in DOMAIN export.entries : export.entries[j].parent = i}

Root ==
  LET synthetic == {i \in Children(0) : export.entries[i].message = <<>>}
  IN Min(IF synthetic # {} THEN synthetic ELSE Children(0))

\* The nodes on the way, 0 behind the last.
Branch ==
  LET way[n \in 0..Len(export.entries)] ==
        IF n = 0 THEN Root
        ELSE IF way[n - 1] = 0 \/ Children(way[n - 1]) = {} THEN 0
        ELSE Min(Children(way[n - 1]))
  IN way

ChatGpt ==
  LET met == {n \in DOMAIN Branch : Branch[n] # 0 /\ export.entries[Branch[n]].message # <<>>}
      places == Ascending(met)
  IN [k \in 1..Cardinality(met) |-> export.entries[Branch[places[k]]].message[1]]

\* _try_slack_json: the first speaker is the user; a speaker who is new gets the
\* role that the last message did not have.
Slack ==
  LET said == EntriesOf({"x", "y", "z"}, {"none"})
      Other(role) == IF role = "user" THEN "assistant" ELSE "user"
      roles[k \in 0..Len(said)] ==
        IF k = 0 THEN <<>>
        ELSE LET before == {j \in 1..k - 1 : said[j].type = said[k].type}
             IN Append(roles[k - 1],
                       IF before # {} THEN roles[k - 1][Min(before)]
                       ELSE IF k = 1 THEN "user" ELSE Other(roles[k - 1][k - 1]))
  IN [k \in DOMAIN said |-> Message(roles[Len(said)][k], said[k].text)]

\* _try_normalize_json: the parsers in their order; each wants two messages.  A
\* parser takes nothing of another one's form.
Parsed ==
  LET ms == CASE export.form = "claude" -> ClaudeCode
              [] export.form = "codex" -> Codex
              [] export.form = "pi" -> Pi
              [] export.form = "chats" -> ClaudeAi
              [] export.form = "tree" -> ChatGpt
              [] OTHER -> Slack
  IN IF Len(ms) >= 2 THEN ms ELSE <<>>

-----------------------------------------------------------------------------
(* The transcript and its units.                                           *)

Kinds(text) ==
  CASE text = "cited" -> <<"quote", "line">>
    [] text = "rule" -> <<"line", "rule", "line">>
    [] OTHER -> <<"line">>

\* The lines of message k: the first one of a user's is marked.
Lines(ms, k) ==
  [i \in DOMAIN Kinds(ms[k].text) |->
     [kind |-> IF i = 1 /\ ms[k].role = "user" THEN "turn" ELSE Kinds(ms[k].text)[i], of |-> k]]

\* Mutant: a turn takes whatever follows it for its answer.
AnsweredAny(ms, k) == k < Len(ms) /\ ms[k].role = "user"

Answered(ms, k) == k < Len(ms) /\ ms[k].role = "user" /\ ms[k + 1].role = "assistant"

\* _messages_to_transcript: a blank line after every message but one that is
\* answered.
Block(ms, k) ==
  Lines(ms, k) \o (IF Answered(ms, k) THEN <<>> ELSE <<[kind |-> "blank", of |-> k]>>)

\* The blocks of the messages one after the other: their lines by message, and
\* within it by place.
TranscriptOf(ms) ==
  LET places == UNION {{k} \X DOMAIN Block(ms, k) : k \in DOMAIN ms}
      order == {pq \in places \X places :
                  \/ pq[1][1] < pq[2][1]
                  \/ pq[1][1] = pq[2][1] /\ pq[1][2] < pq[2][2]}
      at == Ordered(places, order)
  IN [n \in 1..Cardinality(places) |-> Block(ms, at[n][1])[at[n][2]]]

Normalize ==
  /\ stage = "export"
  /\ transcript' = TranscriptOf(Parsed)
  /\ stage' = IF Parsed = <<>> THEN "raw" ELSE "transcript"
  /\ UNCHANGED <<export, units>>

Marked(i) == transcript[i].kind \in {"turn", "quote"}

\* _chunk_by_exchange: a marked line and what follows, up to the next one or a rule.
ExchangeAt(i) ==
  {j \in i..Len(transcript) : \A k \in i + 1..j : ~Marked(k) /\ transcript[k].kind # "rule"}

\* _chunk_by_paragraph: the lines between two blank ones.
ParagraphAt(i) ==
  {j \in DOMAIN transcript : \A k \in Min({i, j})..Max({i, j}) : transcript[k].kind # "blank"}

\* chunk_exchanges: by exchange if three lines are marked.
ChunkExchanges ==
  /\ stage = "transcript"
  /\ units' = IF Cardinality({i \in DOMAIN transcript : Marked(i)}) >= 3
              THEN {ExchangeAt(i) : i \in {j \in DOMAIN transcript : Marked(j)}}
              ELSE {ParagraphAt(i) : i \in {j \in DOMAIN transcript : transcript[j].kind # "blank"}}
  /\ stage' = "units"
  /\ UNCHANGED <<export, transcript>>

TranscriptNext == Normalize \/ ChunkExchanges

TranscriptSpec == TranscriptInit /\ [][TranscriptNext]_transcriptVars

-----------------------------------------------------------------------------
(* Properties.                                                             *)

\* The lines of message k that hold text.
TextLines(k) == {i \in DOMAIN transcript : transcript[i].of = k /\ transcript[i].kind # "blank"}

\* The entries in which a person or the model says something.
Said ==
  EntriesOf({"user", "human", "user_message", "message/user", "assistant", "ai", "agent_message",
             "message/assistant", "x", "y", "z"},
            IF export.form = "codex" THEN {"none"} ELSE {"none", "noise"})

\* A linear export that became a transcript has in it, in order and once, every
\* entry in which a person or the model says something: as many messages as there
\* are such entries, each with the lines of its text, and nothing that tools or the
\* harness said.
SaidOnce ==
  stage # "export" /\ transcript # <<>> /\ export.form # "tree" =>
    /\ {transcript[i].of : i \in DOMAIN transcript} = DOMAIN Said
    /\ \A k \in DOMAIN Said : Cardinality(TextLines(k)) = Len(Kinds(Said[k].text))
    /\ \A i \in 1..Len(transcript) - 1 : transcript[i].of <= transcript[i + 1].of

\* In a Slack conversation of two, the two are told apart throughout.
TwoSides ==
  export.form = "slack" /\ stage # "export" /\ transcript # <<>> =>
    LET turns == {transcript[i].of : i \in {j \in DOMAIN transcript : transcript[j].kind = "turn"}}
    IN Cardinality({Said[k].type : k \in DOMAIN Said}) = 2 =>
         \A k, l \in DOMAIN Said : (Said[k].type = Said[l].type) <=> (k \in turns <=> l \in turns)

\* In a ChatGPT export in which no message was asked for again, nothing on the way
\* from its root to its end is left out.
BranchWhole ==
  export.form = "tree" /\ stage # "export"
    /\ Cardinality(Children(0)) = 1 /\ (\A i \in DOMAIN export.entries : Cardinality(Children(i)) <= 1) =>
      LET said == {i \in DOMAIN export.entries : export.entries[i].message # <<>>}
      IN Cardinality(said) >= 2 =>
           /\ {transcript[i].of : i \in DOMAIN transcript} = 1..Cardinality(said)
           /\ \A k \in 1..Cardinality(said) : Cardinality(TextLines(k)) = 1

\* A turn of the user opens a unit, which ends before the next turn, and the first
\* words of the answer that the transcript put below it are in that unit, unless
\* the answer opens with a quotation of its own.
TurnsAreUnits ==
  stage = "units" =>
    \A i \in DOMAIN transcript : transcript[i].kind = "turn" =>
      \E u \in units :
        /\ i = Min(u)
        /\ \A j \in u : transcript[j].kind = "turn" => j = i
        /\ i < Len(transcript) /\ transcript[i + 1].kind = "line" => i + 1 \in u

\* Every line from the first turn on that is not behind a rule is filed, and once.
LinesFiledOnce ==
  stage = "units" =>
    \A i \in DOMAIN transcript : transcript[i].kind \in {"turn", "line", "quote"} =>
      LET marks == {j \in 1..i : Marked(j)}
      IN /\ Cardinality({u \in units : i \in u}) <= 1
         /\ marks # {} /\ (\A j \in Max(marks)..i : transcript[j].kind # "rule") =>
              \E u \in units : i \in u

\* What was said is filed once, in order, each turn with its answer.
TranscriptsSound == SaidOnce /\ TwoSides /\ BranchWhole /\ TurnsAreUnits /\ LinesFiledOnce
=============================================================================
