------------------------------ MODULE Identity ------------------------------
(***************************************************************************)
(* Who a record comes from, and its number (sync_meta.py): the processes   *)
(* of one machine share a file with its id and a file with the last number *)
(* given out.  The second is changed under a lock, in three system calls;  *)
(* the first is written without one.  SyncReplication takes a stamp for    *)
(* one step; here are its steps, and the deaths between them.              *)
(***************************************************************************)
EXTENDS Integers, FiniteSets

CONSTANTS
  StampProcess,   \* processes of the machine; one that died is started again
  BatchOf,        \* sizes of the batches that are stamped
  MaxNumber,      \* bound on the numbers given out
  MaxMinted,      \* bound on the ids made up
  MaxFatal        \* bound on deaths

ASSUME IdentityAssumption ==
  /\ BatchOf \subseteq Nat \ {0} /\ 0 \notin StampProcess
  /\ {MaxNumber, MaxMinted, MaxFatal} \subseteq Nat

\* What the file of the id may hold besides an id: there is no file, nothing is
\* written yet.
NoId == -1
EmptyId == 0

VARIABLES
  idFile,   \* the id in the file, NoId or EmptyId
  seqFile,  \* the number in the other; 0: nothing
  holder,   \* the process that holds the lock, or 0
  stamper,  \* each process: its step, the id it goes by, the numbers it has for its batch
  stamps,   \* the stamps of all records: pairs of an id and a number
  minted,   \* ids made up so far
  emptied,  \* a process died when the file of the number was truncated and not yet written
  fatal     \* bound: deaths

identityVars == <<idFile, seqFile, holder, stamper, stamps, minted, emptied, fatal>>

Fresh == [pc |-> "idle", id |-> NoId, first |-> 0, count |-> 0]

IdentityInit ==
  /\ idFile = NoId /\ seqFile = 0 /\ holder = 0
  /\ stamper = [p \in StampProcess |-> Fresh]
  /\ stamps = {} /\ minted = 0 /\ emptied = FALSE /\ fatal = 0

Becomes(p, pc) == stamper' = [stamper EXCEPT ![p].pc = pc]

-----------------------------------------------------------------------------
(* inject_sync_meta: numbers first, then the id.                           *)

StartStamp(p) ==
  /\ stamper[p].pc = "idle"
  /\ \E n \in BatchOf : stamper' = [stamper EXCEPT ![p] = [@ EXCEPT !.pc = "lock", !.count = n]]
  /\ UNCHANGED <<idFile, seqFile, holder, stamps, minted, emptied, fatal>>

\* Mutant: the number is read before the lock is held.
MayEnterAny(p) == TRUE

\* flock: one process at a time, until it unlocks or dies.
MayEnter(p) == holder = 0

\* next_seq locks the file and reads it: an empty file counts as 0.
LockAndRead(p) ==
  /\ stamper[p].pc = "lock" /\ MayEnter(p) /\ seqFile + stamper[p].count <= MaxNumber
  /\ holder' = p
  /\ stamper' = [stamper EXCEPT ![p] = [@ EXCEPT !.pc = "truncate", !.first = seqFile + 1]]
  /\ UNCHANGED <<idFile, seqFile, stamps, minted, emptied, fatal>>

TruncateSeq(p) ==
  /\ stamper[p].pc = "truncate"
  /\ seqFile' = 0
  /\ Becomes(p, "write")
  /\ UNCHANGED <<idFile, holder, stamps, minted, emptied, fatal>>

\* Mutant: one number is taken from the file, whatever the size of the batch.
LastTakenOne(p) == stamper[p].first

LastTaken(p) == stamper[p].first + stamper[p].count - 1

WriteSeq(p) ==
  /\ stamper[p].pc = "write"
  /\ seqFile' = LastTaken(p)
  /\ holder' = IF holder = p THEN 0 ELSE holder
  /\ Becomes(p, "name")
  /\ UNCHANGED <<idFile, stamps, minted, emptied, fatal>>

\* node_id: the id the process goes by, that of the file, or a new one.
LookForId(p) ==
  /\ stamper[p].pc = "name"
  /\ IF stamper[p].id # NoId \/ idFile # NoId
     THEN stamper' = [stamper EXCEPT ![p] = [@ EXCEPT !.pc = "stamp",
                        !.id = IF stamper[p].id # NoId THEN stamper[p].id ELSE idFile]]
     ELSE Becomes(p, "mint")
  /\ UNCHANGED <<idFile, seqFile, holder, stamps, minted, emptied, fatal>>

\* Two that found no file each make up an id; write_text truncates, then writes.
MintId(p) ==
  /\ stamper[p].pc = "mint" /\ minted < MaxMinted
  /\ minted' = minted + 1
  /\ stamper' = [stamper EXCEPT ![p] = [@ EXCEPT !.pc = "save", !.id = minted + 1]]
  /\ idFile' = EmptyId
  /\ UNCHANGED <<seqFile, holder, stamps, emptied, fatal>>

SaveId(p) ==
  /\ stamper[p].pc = "save"
  /\ idFile' = stamper[p].id
  /\ Becomes(p, "stamp")
  /\ UNCHANGED <<seqFile, holder, stamps, minted, emptied, fatal>>

StampedBatch(p) == {<<stamper[p].id, n>> : n \in stamper[p].first .. (stamper[p].first + stamper[p].count - 1)}

StampBatch(p) ==
  /\ stamper[p].pc = "stamp"
  /\ stamps' = stamps \cup StampedBatch(p)
  /\ stamper' = [stamper EXCEPT ![p] = [Fresh EXCEPT !.id = stamper[p].id]]
  /\ UNCHANGED <<idFile, seqFile, holder, minted, emptied, fatal>>

\* The process is killed, at any step, and started again; the lock is released.
StamperDies(p) ==
  /\ fatal < MaxFatal
  /\ stamper' = [stamper EXCEPT ![p] = Fresh]
  /\ holder' = IF holder = p THEN 0 ELSE holder
  /\ emptied' = (emptied \/ stamper[p].pc = "write")
  /\ fatal' = fatal + 1
  /\ UNCHANGED <<idFile, seqFile, stamps, minted>>

IdentityNext ==
  \E p \in StampProcess :
    \/ StartStamp(p) \/ LockAndRead(p) \/ TruncateSeq(p) \/ WriteSeq(p)
    \/ LookForId(p) \/ MintId(p) \/ SaveId(p) \/ StampBatch(p) \/ StamperDies(p)

IdentitySpec == IdentityInit /\ [][IdentityNext]_identityVars

-----------------------------------------------------------------------------
(* Properties.                                                             *)

\* The numbers a process has taken and not yet used.
Taken(p) == IF stamper[p].pc \in {"name", "mint", "save", "stamp"}
            THEN stamper[p].first .. (stamper[p].first + stamper[p].count - 1) ELSE {}

\* "Atomically increment ... so concurrent processes on the same machine don't
\* collide" (sync_meta.py:87): no number is given out twice, whoever stamps with
\* whatever id and dies between whichever steps; unless one died after it
\* truncated the file and before it wrote.
NumbersOnce ==
  ~emptied =>
    /\ \A p, q \in StampProcess : p # q => Taken(p) \cap Taken(q) = {}
    /\ \A p \in StampProcess : \A s \in stamps : s[2] \notin Taken(p)

\* The file of the number is never behind what was given out, but while it is
\* written: the next process goes on from there.
NumberKept ==
  ~emptied /\ holder = 0 =>
    /\ \A s \in stamps : s[2] <= seqFile
    /\ \A p \in StampProcess : \A n \in Taken(p) : n <= seqFile

\* What a stamp promises to the replication.
StampsOnce == NumbersOnce /\ NumberKept
=============================================================================
