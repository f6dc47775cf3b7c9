------------------------------ MODULE Requests ------------------------------
(***************************************************************************)
(* One client of the MCP server (mcp/server.py): its requests, one at a    *)
(* time over stdin, the tools they call (mcp/tools.py), and the two trails *)
(* they leave: the log of writes (wal.py) and the record of the session    *)
(* (audit/adherence.py).  Either trail may fail to be written, which       *)
(* nobody is told; the collection may raise, which fails the request; the  *)
(* server may die between two steps, and the client call again.            *)
(*                                                                         *)
(* A content is what a drawer is made from, and is its id; a diary entry   *)
(* is known by its place among those written.                              *)
(***************************************************************************)
EXTENDS Naturals, Sequences, SequencesExt

CONSTANTS
  Content,
  Alike,         \* pairs of contents that check_duplicate finds similar
  DiaryLike,     \* contents that it finds similar to a diary entry
  Saves,         \* the lists of items that checkpoints are called with
  MaxRequests,   \* bound on requests of a session
  MaxServers,    \* bound on sessions
  MaxFailures    \* bound on failures of the trails and of the collection

ASSUME RequestsAssumption ==
  /\ Alike \subseteq Content \X Content /\ DiaryLike \subseteq Content /\ Saves \subseteq Seq(Content)
  /\ MaxRequests \in Nat /\ MaxServers \in Nat /\ MaxFailures \in Nat

Tool == {"search", "add_drawer", "checkpoint", "delete_drawer", "no_such_tool", "bad_arguments"}

VARIABLES
  filed,      \* the drawers of the collection
  buried,     \* drawers with a tombstone
  diary,      \* diary entries in the collection
  log,        \* the operations in the log
  record,     \* the calls in the session's record, or NoSession
  saved,      \* the calls in its file, or NoSession
  task,       \* the request being served
  answer,     \* the last answer
  asked,      \* requests of the session
  servers, failures,
  unlogged,   \* history: operations whose log entry could not be written
  changed     \* history: the calls of the session that changed the collection

requestVars == <<filed, buried, diary, log, record, saved, task, answer, asked, servers, failures, unlogged, changed>>

NoSession == <<"no session">>
NoTask == [tool |-> "none", at |-> "idle", items |-> <<>>, added |-> {}, twins |-> {}, gone |-> {}]
NoAnswer == [tool |-> "none", is |-> "none", added |-> {}, twins |-> {}, gone |-> {}]

RequestsInit ==
  /\ filed = {} /\ buried = {} /\ diary = 0 /\ log = {}
  /\ record = NoSession /\ saved = NoSession
  /\ task = NoTask /\ answer = NoAnswer
  /\ asked = 0 /\ servers = 1 /\ failures = 0
  /\ unlogged = {} /\ changed = {}

Answered(is) ==
  /\ answer' = [tool |-> task.tool, is |-> is, added |-> task.added, twins |-> task.twins, gone |-> task.gone]
  /\ task' = NoTask

\* Mutant: only the first call of a session is written to its file.
RecordedFirst(tool) ==
  IF record = NoSession THEN UNCHANGED <<record, saved, failures>>
  ELSE /\ record' = Append(record, tool) /\ UNCHANGED failures
       /\ saved' = IF record = <<>> THEN record' ELSE saved

\* record_call: written before the tool is looked up, and again with every later call.
Recorded(tool) ==
  IF record = NoSession THEN UNCHANGED <<record, saved, failures>>
  ELSE /\ record' = Append(record, tool)
       /\ \/ saved' = record' /\ UNCHANGED failures
          \/ failures < MaxFailures /\ failures' = failures + 1 /\ UNCHANGED saved

\* initialize; nothing keeps a client from calling tools without it.
Initialize ==
  /\ task = NoTask /\ asked = 0 /\ record = NoSession
  /\ record' = <<>>
  /\ \/ saved' = <<>> /\ UNCHANGED failures
     \/ failures < MaxFailures /\ failures' = failures + 1 /\ saved' = NoSession
  /\ UNCHANGED <<filed, buried, diary, log, task, answer, asked, servers, unlogged, changed>>

\* tools/call.
CallTool(tool, items) ==
  /\ task = NoTask /\ asked < MaxRequests
  /\ asked' = asked + 1
  /\ Recorded(tool)
  /\ task' = [NoTask EXCEPT !.tool = tool, !.items = items,
                            !.at = IF tool = "checkpoint" THEN "item" ELSE tool]
  /\ UNCHANGED <<filed, buried, diary, log, answer, servers, unlogged, changed>>

\* An unknown tool is an error; what the model of the arguments refuses is told to
\* the client before anything is filed.
Refuse ==
  /\ task.at \in {"no_such_tool", "bad_arguments"}
  /\ Answered("error")
  /\ UNCHANGED <<filed, buried, diary, log, record, saved, asked, servers, failures, unlogged, changed>>

Search ==
  /\ task.at = "search"
  /\ Answered("result")
  /\ UNCHANGED <<filed, buried, diary, log, record, saved, asked, servers, failures, unlogged, changed>>

\* check_duplicate looks at the whole collection, hidden drawers and diary entries included.
HasTwin(c) == (\E d \in filed : d = c \/ <<c, d>> \in Alike) \/ (diary > 0 /\ c \in DiaryLike)

\* The next item of a checkpoint is compared; when the index fails it is filed.
CompareItem ==
  /\ task.at = "item" /\ task.items # <<>>
  /\ \/ /\ HasTwin(Head(task.items))
        /\ task' = [task EXCEPT !.items = Tail(@), !.twins = @ \cup {Head(task.items)}]
        /\ UNCHANGED failures
     \/ /\ ~HasTwin(Head(task.items))
        /\ task' = [task EXCEPT !.at = "add_drawer"]
        /\ UNCHANGED failures
     \/ /\ failures < MaxFailures /\ failures' = failures + 1
        /\ task' = [task EXCEPT !.at = "add_drawer"]
  /\ UNCHANGED <<filed, buried, diary, log, record, saved, answer, asked, servers, unlogged, changed>>

\* WalWriter.log swallows what goes wrong.
Logged(op) ==
  \/ log' = log \cup {op} /\ UNCHANGED <<unlogged, failures>>
  \/ failures < MaxFailures /\ failures' = failures + 1 /\ unlogged' = unlogged \cup {op} /\ UNCHANGED log

LogAdd ==
  /\ task.at = "add_drawer"
  /\ Logged(<<"add_drawer", Head(task.items)>>)
  /\ task' = [task EXCEPT !.at = "upsert"]
  /\ UNCHANGED <<filed, buried, diary, record, saved, answer, asked, servers, changed>>

\* A known drawer, hidden or not, is left alone and reported as added.
FileDrawer ==
  /\ task.at = "upsert"
  /\ filed' = filed \cup {Head(task.items)}
  /\ changed' = IF Head(task.items) \in filed THEN changed ELSE changed \cup {task.tool}
  /\ task' = [task EXCEPT !.added = @ \cup {Head(task.items)}, !.items = Tail(@),
                          !.at = IF task.tool = "checkpoint" THEN "item" ELSE "done"]
  /\ UNCHANGED <<buried, diary, log, record, saved, answer, asked, servers, failures, unlogged>>

LogDiary ==
  /\ task.at = "item" /\ task.items = <<>>
  /\ Logged(<<"diary_write", diary + 1>>)
  /\ task' = [task EXCEPT !.at = "diary"]
  /\ UNCHANGED <<filed, buried, diary, record, saved, answer, asked, servers, changed>>

WriteDiary ==
  /\ task.at = "diary"
  /\ diary' = diary + 1
  /\ changed' = changed \cup {task.tool}
  /\ task' = [task EXCEPT !.at = "done"]
  /\ UNCHANGED <<filed, buried, log, record, saved, answer, asked, servers, failures, unlogged>>

\* delete_drawer: one that is not there is told so.
FindDrawer ==
  /\ task.at = "delete_drawer"
  /\ IF Head(task.items) \in filed THEN task' = [task EXCEPT !.at = "bury"] /\ UNCHANGED answer ELSE Answered("result")
  /\ UNCHANGED <<filed, buried, diary, log, record, saved, asked, servers, failures, unlogged, changed>>

\* The tombstone, without a grace period; its entry in the log comes after it.
Bury ==
  /\ task.at = "bury"
  /\ buried' = buried \cup {Head(task.items)}
  /\ changed' = changed \cup {task.tool}
  /\ task' = [task EXCEPT !.at = "log"]
  /\ UNCHANGED <<filed, diary, log, record, saved, answer, asked, servers, failures, unlogged>>

LogBurial ==
  /\ task.at = "log"
  /\ Logged(<<"create_tombstone", Head(task.items)>>)
  /\ task' = [task EXCEPT !.at = "unbury"]
  /\ UNCHANGED <<filed, buried, diary, record, saved, answer, asked, servers, changed>>

\* gc_collect: the tombstone is deleted, then the drawer; then both are logged.
Unbury ==
  /\ task.at = "unbury"
  /\ buried' = buried \ {Head(task.items)}
  /\ task' = [task EXCEPT !.at = "collect"]
  /\ UNCHANGED <<filed, diary, log, record, saved, answer, asked, servers, failures, unlogged, changed>>

Collect ==
  /\ task.at = "collect"
  /\ filed' = filed \ {Head(task.items)}
  /\ task' = [task EXCEPT !.at = "log_gc", !.gone = {Head(task.items)}]
  /\ UNCHANGED <<buried, diary, log, record, saved, answer, asked, servers, failures, unlogged, changed>>

LogCollected ==
  /\ task.at = "log_gc"
  /\ Logged(<<"gc_collect", Head(task.items)>>)
  /\ task' = [task EXCEPT !.at = "done"]
  /\ UNCHANGED <<filed, buried, diary, record, saved, answer, asked, servers, changed>>

Answer ==
  /\ task.at = "done"
  /\ Answered("result")
  /\ UNCHANGED <<filed, buried, diary, log, record, saved, asked, servers, failures, unlogged, changed>>

\* The embedder or the collection raises: the request fails with what was done
\* before it done.
CallRaises ==
  /\ task.at \in {"upsert", "diary", "delete_drawer", "bury", "unbury", "collect"} /\ failures < MaxFailures
  /\ failures' = failures + 1
  /\ Answered("error")
  /\ UNCHANGED <<filed, buried, diary, log, record, saved, asked, servers, unlogged, changed>>

\* The server dies, or the client closes its end; the next one begins anew.
NewServer ==
  /\ servers < MaxServers
  /\ servers' = servers + 1
  /\ record' = NoSession /\ saved' = NoSession
  /\ task' = NoTask /\ answer' = NoAnswer /\ asked' = 0 /\ changed' = {}
  /\ UNCHANGED <<filed, buried, diary, log, failures, unlogged>>

RequestsNext ==
  \/ Initialize \/ Refuse \/ Search \/ CompareItem \/ LogAdd \/ FileDrawer \/ LogDiary \/ WriteDiary
  \/ FindDrawer \/ Bury \/ LogBurial \/ Unbury \/ Collect \/ LogCollected \/ Answer \/ CallRaises \/ NewServer
  \/ \E tool \in {"search", "no_such_tool", "bad_arguments"} : CallTool(tool, <<>>)
  \/ \E tool \in {"add_drawer", "delete_drawer"}, c \in Content : CallTool(tool, <<c>>)
  \/ \E items \in Saves : CallTool("checkpoint", items)

RequestsSpec == RequestsInit /\ [][RequestsNext]_requestVars

-----------------------------------------------------------------------------
(* Properties.                                                             *)

\* The type invariant.
RequestsTypeOK ==
  /\ filed \cup buried \subseteq Content /\ diary \in Nat
  /\ record = NoSession \/ ToSet(record) \subseteq Tool
  /\ saved = NoSession \/ ToSet(saved) \subseteq Tool
  /\ task.tool \in Tool \cup {"none"} /\ task.items \in Seq(Content)
  /\ answer.is \in {"none", "result", "error"} /\ changed \subseteq Tool

\* Whatever is filed has its entry in the log, before it and for good, unless that
\* entry could not be written: whichever way the drawer came in, and whenever a
\* server died.  However a deletion ends, no tombstone outlives its drawer.
LoggedFirst ==
  /\ buried \subseteq filed
  /\ \A c \in filed : <<"add_drawer", c>> \in log \cup unlogged
  /\ \A n \in 1..diary : <<"diary_write", n>> \in log \cup unlogged

\* Until its next request the client can rely on an answer: a checkpoint has kept every
\* item, which is filed, or has a twin that is; a drawer added alone is filed; of a
\* drawer that was deleted neither the drawer nor a tombstone is left.
AnswersKept ==
  answer.is = "result" /\ task = NoTask =>
    /\ answer.added \subseteq filed
    /\ \A c \in answer.twins : HasTwin(c)
    /\ answer.gone \cap (filed \cup buried) = {}

\* What a session did to the collection is in the file of its record, up to what
\* could not be written: a server that is killed loses no call.
CallsSurvive ==
  record # NoSession /\ failures = 0 => /\ saved = record
                                        /\ changed \subseteq ToSet(saved)

\* The trails of a session agree with what it did, and its answers with what is kept.
RequestsSound == LoggedFirst /\ AnswersKept /\ CallsSurvive
=============================================================================
