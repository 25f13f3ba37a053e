------------------------------- MODULE Sessions ------------------------------
(***************************************************************************)
(* Conversations kept for a user: vertex_sessions.py, whose ids are the    *)
(* hash of the user and of the case, and local/session.py, whose ids count *)
(* from one again after every restart.                                     *)
(***************************************************************************)
EXTENDS Naturals, Sequences, FiniteSets, SequencesExt

CONSTANTS
    People, Cases,
    NoCase,         \* create_session without a case_id
    MaxIds,         \* bound: ids the local counter gives in one process
    MaxMessages     \* bound: messages of one session

ASSUME SessionsAssumption == NoCase \notin Cases /\ MaxIds \in Nat /\ MaxMessages \in Nat

VARIABLES
    managed,        \* whether the managed adapter is bound
    store,          \* session id -> owner and messages
    count,          \* LocalSessionAdapter._n
    known,          \* ids each person was given, or has heard of
    shown           \* messages each person has been shown

svars == <<managed, store, count, known, shown>>

(***************************************************************************)
(* Slips: one mistake each.                                                *)
(***************************************************************************)
AnyHolder(sid, p) == sid \in DOMAIN store
-----------------------------------------------------------------------------
SInit ==
    /\ managed \in BOOLEAN
    /\ store = <<>> /\ count = 0
    /\ known = {}
    /\ shown = [p \in People |-> {}]

\* _audit_session_id, or the next number.
NextId == <<count + 1>>
NewId(p, c) == IF managed THEN <<p, c>> ELSE NextId

\* create_session.  The managed service refuses an id that exists (external).
Create(p, c) ==
    /\ managed \/ count < MaxIds
    /\ NewId(p, c) \notin DOMAIN store
    /\ store' = [i \in DOMAIN store \cup {NewId(p, c)} |->
                   IF i = NewId(p, c) THEN [owner |-> p, log |-> <<>>] ELSE store[i]]
    /\ count' = IF managed THEN count ELSE count + 1
    /\ known' = known \cup {NewId(p, c)}
    /\ UNCHANGED <<managed, shown>>

\* _assert_session_owner, on the id alone; LocalSessionAdapter.get, on the row.
RowIsOf(sid, p) == sid \in DOMAIN store /\ store[sid].owner = p
Owns(sid, p) == IF managed THEN sid[1] = p ELSE RowIsOf(sid, p)

\* What history returns of a session.
Messages(sid) == ToSet(store[sid].log)

\* append: refused for another's id.
Write(sid, p) ==
    /\ Owns(sid, p) /\ sid \in DOMAIN store
    /\ Len(store[sid].log) < MaxMessages
    /\ store' = [store EXCEPT ![sid].log = Append(@, p)]
    /\ UNCHANGED <<managed, count, known, shown>>

\* get, history: nothing for another's id, a lost session or a failed call.
Read(sid, p) ==
    /\ Owns(sid, p) /\ sid \in DOMAIN store
    /\ shown' = [shown EXCEPT ![p] = @ \cup Messages(sid)]
    /\ UNCHANGED <<managed, store, count, known>>

\* The process restarts: the in-process store is gone and counts from one,
\* while people keep the ids they were given.
Reboot ==
    /\ ~managed /\ count > 0
    /\ store' = <<>> /\ count' = 0
    /\ UNCHANGED <<managed, known, shown>>

SNext ==
    \/ \E p \in People, c \in Cases \cup {NoCase} : Create(p, c)
    \/ \E p \in People, sid \in known : Write(sid, p)
    \/ \E p \in People, sid \in known : Read(sid, p)
    \/ Reboot

SSpec == SInit /\ [][SNext]_svars
-----------------------------------------------------------------------------
(***************************************************************************)
(* Properties.                                                             *)
(***************************************************************************)
\* A person is only shown what they wrote, even with an id that names a
\* later session of someone else since a restart.  (_assert_session_owner,
\* LocalSessionAdapter.get)
HistoryIsOwn == \A p \in People : shown[p] \subseteq {p}
=============================================================================
