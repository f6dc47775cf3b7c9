-------------------------- MODULE SyncReplication --------------------------
(***************************************************************************)
(* Replication of a collection between client castles and one hub: the     *)
(* engine (swampcastle/sync.py), the client session                        *)
(* (swampcastle/sync_client.py), the endpoints (swampcastle/sync_server.py)*)
(* and the writes other processes make meanwhile (sync_meta.py, lance.py). *)
(*                                                                         *)
(* A machine runs two kinds of process on the same collection: writers     *)
(* (the MCP server, the miner) and an engine (the `sync' command on a      *)
(* client, the FastAPI server on the hub).  Only the engine's own steps    *)
(* are ordered; a writer's step may fall between any two of them.          *)
(***************************************************************************)
EXTENDS SyncRecords

CONSTANTS
  Hub,         \* the node that serves /sync/*
  Editable,    \* Editable[n]: the ids the writers of node n create or rewrite
  Drift,       \* Drift[n]: how far node n's wall clock runs ahead
  SoleWriter,  \* TRUE: at most one write of a node is under way at a time
  Quiet,       \* TRUE: no local write lands while the engine is inside
               \* apply_changes
  Graceful,    \* TRUE: the hub's process ends only between two pushes, as
               \* uvicorn ends it on SIGTERM; FALSE: it may also be killed
  MaxWrites,   \* bound on the writes of a behaviour
  MaxFaults    \* bound on crashes, lost requests and aborted sessions

ASSUME ReplicationAssumption ==
  /\ Hub \in Node
  /\ Editable \in [Node -> SUBSET Id]
  /\ Drift \in [Node -> Nat]
  /\ SoleWriter \in BOOLEAN
  /\ Quiet \in BOOLEAN
  /\ Graceful \in BOOLEAN
  /\ MaxWrites \in Nat
  /\ MaxFaults \in Nat

Client == Node \ {Hub}

VARIABLES
  store,    \* store[n]: the collection of node n, a set with one record per id
  vv,       \* vv[n]: its version vector, as version_vector.json holds it
  seq,      \* seq[n]: its persistent sequence counter
  pending,  \* pending[n]: records stamped by a writer of n, not yet upserted
  now,      \* the number of stamps taken so far: true time
  job,      \* job[n]: the apply_changes call under way at n
  session,  \* session[c]: where client c is in SyncClient.sync
  wire,     \* wire[c]: the body of client c's push on its way to the hub
  up,       \* whether the hub's process has created its engine
  faults,   \* faults so far
  written   \* history: every version that was ever upserted by its author

vars == <<store, vv, seq, pending, now, job, session, wire, up, faults, written>>
localVars == <<seq, pending, now, written>>

NoJob == [cs |-> {}, accepted |-> {}, from |-> Hub]

\* Where a session is, the hub's vector it was shown, the records it was sent.
SessionAt(p, vec, records) == [pc |-> p, serverVV |-> vec, inbox |-> records]
Idle == SessionAt("idle", EmptyVV, {})

Job == [cs : SUBSET Version, accepted : SUBSET Version, from : Node]
Places == {"idle", "status", "push", "await", "merge", "pull", "fill"}
Session == [pc : Places,
            serverVV : VersionVector,
            inbox : SUBSET Version]

Applying(n) == job[n].cs # {}

Init ==
  /\ store = [n \in Node |-> {}]
  /\ vv = [n \in Node |-> EmptyVV]
  /\ seq = [n \in Node |-> 0]
  /\ pending = [n \in Node |-> {}]
  /\ now = 0
  /\ job = [n \in Node |-> NoJob]
  /\ session = [c \in Client |-> Idle]
  /\ wire = [c \in Client |-> {}]
  /\ up = FALSE
  /\ faults = 0
  /\ written = {}

-----------------------------------------------------------------------------
(* Writers.                                                                *)

\* Mutant: the counter's value is handed out before it is incremented.
StampedFromZero(n, i) ==
  [id |-> i, node |-> n, seq |-> seq[n], ts |-> now + 1 + Drift[n]]

\* What inject_sync_meta makes of a record: the next number of the counter
\* file and the wall clock of this machine.
Stamped(n, i) ==
  [id |-> i, node |-> n, seq |-> seq[n] + 1, ts |-> now + 1 + Drift[n]]

\* Mutant: the new value is not written back.
NextSeqNotSaved(n) == seq[n]

\* The counter file after next_seq(count=1).
NextSeq(n) == seq[n] + 1

\* A non-raw upsert begins: the record is stamped before it is embedded and
\* written, so others run between the stamp and the write.
Stamp(n, i) ==
  /\ now < MaxWrites
  /\ i \in Editable[n]
  /\ SoleWriter => pending[n] = {}
  /\ pending' = [pending EXCEPT ![n] = @ \cup {Stamped(n, i)}]
  /\ seq' = [seq EXCEPT ![n] = NextSeq(n)]
  /\ now' = now + 1
  /\ UNCHANGED <<store, vv, job, session, wire, up, faults, written>>

\* The stamped record replaces whatever the collection holds under its id.
Land(n, r) ==
  /\ r \in pending[n]
  /\ Quiet => ~Applying(n)
  /\ store' = [store EXCEPT ![n] = Upsert(@, {r})]
  /\ pending' = [pending EXCEPT ![n] = @ \ {r}]
  /\ written' = written \cup {r}
  /\ UNCHANGED <<vv, seq, now, job, session, wire, up, faults>>

-----------------------------------------------------------------------------
(* The two halves of SyncEngine.apply_changes.                             *)

\* Existing records are read and every incoming record is judged.
ApplyRead(n, cs, from) ==
  job' = [job EXCEPT ![n] = [cs |-> cs, accepted |-> Accepted(store[n], cs), from |-> from]]

\* The accepted records are upserted as they came, then the vector advances
\* over the whole change set, losers included, and is saved.
ApplyWrite(n) ==
  /\ store' = [store EXCEPT ![n] = Upsert(@, job[n].accepted)]
  /\ vv' = [vv EXCEPT ![n] = UpdateFromRecords(@, job[n].cs)]
  /\ job' = [job EXCEPT ![n] = NoJob]

\* Mutant: the vector is saved before the records are upserted.
CrashedVectorFirst(n) ==
  /\ \/ UNCHANGED vv
     \/ vv' = [vv EXCEPT ![n] = UpdateFromRecords(@, job[n].cs)]
  /\ UNCHANGED store
  /\ job' = [job EXCEPT ![n] = NoJob]

\* Mutant: the upsert is a delete and an add, and the process dies in between.
CrashedAfterDelete(n) ==
  /\ store' = [store EXCEPT ![n] = {r \in @ : \A u \in job[n].accepted : u.id # r.id}]
  /\ UNCHANGED vv
  /\ job' = [job EXCEPT ![n] = NoJob]

\* What a process that dies at node n leaves on disk: nothing of the call
\* under way; its upsert with the vector not saved; or its upsert with the
\* vector's file truncated by the interrupted save.  (The records of one
\* backend all carry an embedding or none does, so one of the two upserts of
\* the code is empty, and the other is one transaction of the backend.)
Crashed(n) ==
  /\ \/ UNCHANGED <<store, vv>>
     \/ /\ store' = [store EXCEPT ![n] = Upsert(@, job[n].accepted)]
        /\ \/ UNCHANGED vv
           \/ /\ UpdateFromRecords(vv[n], job[n].cs) # vv[n]
              /\ vv' = [vv EXCEPT ![n] = EmptyVV]
  /\ job' = [job EXCEPT ![n] = NoJob]

-----------------------------------------------------------------------------
(* The hub.                                                                *)

\* The hub's engine is created by the first request that needs it.
HubVV == IF up THEN vv[Hub] ELSE OpenedVV(vv[Hub], store[Hub])

OpenHub ==
  /\ up' = TRUE
  /\ vv' = [vv EXCEPT ![Hub] = HubVV]

\* POST /sync/push, first half.  The handler has no await between reading
\* the body and answering, so the hub works on one push at a time.
HubReceive(c) ==
  /\ wire[c] # {}
  /\ ~Applying(Hub)
  /\ wire' = [wire EXCEPT ![c] = {}]
  /\ ApplyRead(Hub, wire[c], c)
  /\ OpenHub
  /\ UNCHANGED <<localVars, store, session, faults>>

\* POST /sync/push, second half, and the client reading the response: the
\* winning records if there are any, or straight on to the pull.
HubCommit ==
  LET c == job[Hub].from
      winning == WinningRecords(store'[Hub], job[Hub].cs, job[Hub].accepted)
  IN /\ Applying(Hub)
     /\ ApplyWrite(Hub)
     /\ session' =
          IF session[c].pc # "await" THEN session
          ELSE [session EXCEPT ![c] =
                  SessionAt(IF winning = {} THEN "pull" ELSE "merge", @.serverVV, winning)]
     /\ UNCHANGED <<localVars, wire, up, faults>>

-----------------------------------------------------------------------------
(* The client: cmd_parley and SyncClient.sync.                             *)

\* The command creates its engine, which may rebuild the vector.
OpenEngine(c) ==
  /\ session[c].pc = "idle"
  /\ session' = [session EXCEPT ![c].pc = "status"]
  /\ vv' = [vv EXCEPT ![c] = OpenedVV(@, store[c])]
  /\ UNCHANGED <<localVars, store, job, wire, up, faults>>

\* GET /sync/status runs in a thread of its own, so it may answer while a
\* push is being applied.
GetStatus(c) ==
  /\ session[c].pc = "status"
  /\ OpenHub
  /\ session' = [session EXCEPT ![c] = SessionAt("push", HubVV, {})]
  /\ UNCHANGED <<localVars, store, job, wire, faults>>

\* The changes the hub's vector does not claim are read and sent.
\* (Bound: a client has at most one push outstanding at the hub.)
Push(c) ==
  LET cs == ChangesSince(store[c], session[c].serverVV)
  IN /\ session[c].pc = "push"
     /\ wire[c] = {}
     /\ Applying(Hub) => job[Hub].from # c
     /\ wire' = [wire EXCEPT ![c] = cs]
     /\ session' = [session EXCEPT ![c].pc = IF cs = {} THEN "pull" ELSE "await"]
     /\ UNCHANGED <<localVars, store, vv, job, up, faults>>

\* POST /sync/pull with the client's vector, all pages of it (pages are the
\* subject of module SyncPaging).
Pull(c) ==
  LET cs == ChangesSince(store[Hub], vv[c])
  IN /\ session[c].pc = "pull"
     /\ ~Applying(Hub)
     /\ OpenHub
     /\ session' = [session EXCEPT ![c] =
                      SessionAt(IF cs = {} THEN "idle" ELSE "fill", @.serverVV, cs)]
     /\ UNCHANGED <<localVars, store, job, wire, faults>>

\* The client judges the records it was sent: the winning records of the
\* push response ("merge") or the records it pulled ("fill").
ReadInbox(c) ==
  /\ session[c].pc \in {"merge", "fill"}
  /\ ~Applying(c)
  /\ ApplyRead(c, session[c].inbox, Hub)
  /\ UNCHANGED <<localVars, store, vv, session, wire, up, faults>>

\* ... and stores them, then pulls, or ends the session.
WriteInbox(c) ==
  /\ Applying(c)
  /\ ApplyWrite(c)
  /\ session' = [session EXCEPT ![c] =
                   SessionAt(IF @.pc = "merge" THEN "pull" ELSE "idle", @.serverVV, {})]
  /\ UNCHANGED <<localVars, wire, up, faults>>

\* Mutant: the client waits for an answer without a timeout.
TimeOutNever(c) == FALSE

\* No answer will come: the request or the hub was lost, urlopen times out
\* and the exception ends the command.
TimeOut(c) ==
  /\ session[c].pc = "await"
  /\ wire[c] = {}
  /\ Applying(Hub) => job[Hub].from # c
  /\ session' = [session EXCEPT ![c] = Idle]
  /\ UNCHANGED <<localVars, store, vv, job, wire, up, faults>>

-----------------------------------------------------------------------------
(* Faults.                                                                 *)

\* The client's command dies, or gives up waiting on an answer that is still
\* to come, wherever it is.
Abort(c) ==
  /\ faults < MaxFaults
  /\ session[c].pc # "idle"
  /\ Crashed(c)
  /\ session' = [session EXCEPT ![c] = Idle]
  /\ faults' = faults + 1
  /\ UNCHANGED <<localVars, wire, up>>

\* A push is lost on its way.
LosePush(c) ==
  /\ faults < MaxFaults
  /\ wire[c] # {}
  /\ wire' = [wire EXCEPT ![c] = {}]
  /\ faults' = faults + 1
  /\ UNCHANGED <<localVars, store, vv, job, session, up>>

\* The hub's process ends or dies.
HubCrash ==
  /\ faults < MaxFaults
  /\ up
  /\ Graceful => ~Applying(Hub)
  /\ Crashed(Hub)
  /\ up' = FALSE
  /\ faults' = faults + 1
  /\ UNCHANGED <<localVars, session, wire>>

-----------------------------------------------------------------------------
LocalWrite == \E n \in Node : \/ \E i \in Id : Stamp(n, i)
                              \/ \E r \in pending[n] : Land(n, r)

Next ==
  \/ LocalWrite
  \/ HubCommit
  \/ HubCrash
  \/ \E c \in Client :
       \/ OpenEngine(c) \/ GetStatus(c) \/ Push(c) \/ HubReceive(c)
       \/ Pull(c) \/ ReadInbox(c) \/ WriteInbox(c)
       \/ TimeOut(c) \/ Abort(c) \/ LosePush(c)

Spec == Init /\ [][Next]_vars

(***************************************************************************)
(* Fairness.  A write that was stamped lands; a process that can take its  *)
(* next step takes it; a user keeps running `swampcastle sync' on every    *)
(* client.  Weak fairness is enough also for requests the hub turns to     *)
(* between two pushes: once it has everything, no more pushes come.        *)
(***************************************************************************)
Fairness ==
  /\ \A n \in Node : WF_vars(\E r \in pending[n] : Land(n, r))
  /\ WF_vars(HubCommit)
  /\ \A c \in Client :
       /\ WF_vars(OpenEngine(c))
       /\ WF_vars(GetStatus(c))
       /\ WF_vars(Push(c))
       /\ WF_vars(HubReceive(c))
       /\ WF_vars(Pull(c))
       /\ WF_vars(ReadInbox(c))
       /\ WF_vars(WriteInbox(c))
       /\ WF_vars(TimeOut(c))

FairSpec == Spec /\ Fairness
=============================================================================
