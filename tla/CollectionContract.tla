------------------------- MODULE CollectionContract -------------------------
(***************************************************************************)
(* What CollectionStore (storage/base.py) promises its callers: a          *)
(* collection maps ids to records, and each call on it takes effect once,  *)
(* at some moment between its start and its return.  Nothing is said of    *)
(* tables, files or transactions.                                          *)
(***************************************************************************)
CONSTANTS Process, Id, Doc, Meta, Absent, NoCall

VARIABLES
  held,   \* the record of each id, or Absent
  asked   \* the call each process has started that has not taken effect yet

Record == [doc : Doc, meta : Meta]
Partial(S, T) == UNION {[X -> T] : X \in SUBSET S}

\* upsert, add and delete put a record or Absent at some ids; update changes
\* the metadata at some ids.
Call ==
  [op : {"put"}, arg : Partial(Id, Record \cup {Absent})]
    \cup [op : {"update"}, arg : Partial(Id, Meta)]

Init ==
  /\ held \in [Id -> Record \cup {Absent}]
  /\ asked = [p \in Process |-> NoCall]

\* update leaves the document as it is, and passes over an unknown id.
Applied(c) ==
  [i \in Id |->
     IF i \notin DOMAIN c.arg \/ (c.op = "update" /\ held[i] = Absent) THEN held[i]
     ELSE IF c.op = "put" THEN c.arg[i]
     ELSE [held[i] EXCEPT !.meta = c.arg[i]]]

Ask(p, c) ==
  /\ asked[p] = NoCall
  /\ asked' = [asked EXCEPT ![p] = c]
  /\ UNCHANGED held

TakeEffect(p) ==
  /\ asked[p] # NoCall
  /\ held' = Applied(asked[p])
  /\ asked' = [asked EXCEPT ![p] = NoCall]

\* The process dies, or the call raises.
Abandon(p) ==
  /\ asked' = [asked EXCEPT ![p] = NoCall]
  /\ UNCHANGED held

Next ==
  \E p \in Process : TakeEffect(p) \/ Abandon(p) \/ \E c \in Call : Ask(p, c)

Spec == Init /\ [][Next]_<<held, asked>>
=============================================================================
