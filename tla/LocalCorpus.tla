----------------------------- MODULE LocalCorpus -----------------------------
(***************************************************************************)
(* The corpus stores of the laptop profiles (adapters/local) behind the    *)
(* ingestion service: API calls of several tenants, the command line's     *)
(* ingest and refresh, and restarts of the API process, all at once.       *)
(*                                                                         *)
(* The passage index and the anchored blocks are two tables of one SQLite  *)
(* file, each reached over a connection of its own; the freshness ledger   *)
(* is a second file.  Every store call is atomic, the sequence of calls    *)
(* that makes one request is not.  A call may fail without effect; or its  *)
(* last statement or its commit may fail, which leaves open on the         *)
(* connection what came before: no other connection can then write the     *)
(* file, and the next write on the same connection commits it.             *)
(*                                                                         *)
(* Content is the number of the request that brought it, 0 for the built-  *)
(* in documents.  One request is about one document; a refresh run takes   *)
(* its documents one after another, so it stands for one of them, and what *)
(* the others do to a change that one has left open is RunGoesOn, RunEnds. *)
(***************************************************************************)
EXTENDS Integers, FiniteSets

CONSTANTS
    Docs,          \* document ids
    Tenants,       \* tenants of verified callers
    Shared,        \* the empty tenant: trusted tooling and the registry
    Seeds,         \* keys <<document, owner>> of the built-in corpus
    MaxRequests,   \* bound: requests
    MaxInFlight,   \* bound: requests in flight together
    MaxFaults,     \* bound: store calls that fail
    MaxRestarts    \* bound: restarts of the API process

Owners == Tenants \cup {Shared}
Keys == Docs \X Owners
Requests == 1..MaxRequests

ASSUME LocalAssumption ==
    /\ Docs # {}
    /\ Shared \notin Tenants
    /\ Seeds \subseteq Keys
    /\ MaxRequests \in Nat /\ MaxInFlight \in Nat
    /\ MaxFaults \in Nat
    /\ MaxRestarts \in Nat

VARIABLES
    db,          \* the committed tables: index (passages) and blocks (anchors)
    txn,         \* a change left open on a connection, of the API or of a refresh run
    ledger,      \* the freshness row of each key
    registered,  \* the documents the reviewed registry lists
    trail,       \* <<request, decision>> audit records
    req,         \* what each request in flight asks for
    pc,          \* what it does next, or what its caller got
    api,         \* whether the API process has opened its stores
    alone,       \* history: no request on its document, and no seeding but its own,
                 \* overlapped it
    erased,      \* history: keys a delete has emptied and nobody refilled
    faults, restarts

stores == <<db, txn, ledger>>
history == <<alone, erased>>
bounds == <<faults, restarts>>
vars == <<stores, registered, trail, req, pc, api, history, bounds>>

Row(k, rev) == [doc |-> k[1], owner |-> k[2], rev |-> rev]
KeyOf(row) == <<row.doc, row.owner>>
Of(rows, k) == {row \in rows : KeyOf(row) = k}

\* The built-in corpus.
SeedRows == {Row(k, 0) : k \in Seeds}

(***************************************************************************)
(* Slips: one mistake each, not part of Next.                              *)
(***************************************************************************)
InScopeById(rows, k) == {row \in rows : row.doc = k[1]}
InScopeNothing(rows, k) == {}
SeedAlways(d, up) == "seedIndex"
TwiceFresh(rev, authority) == [state |-> "refreshed", rev |-> rev, authority |-> authority]
-----------------------------------------------------------------------------
Fresh(rev, authority) == [state |-> "fresh", rev |-> rev, authority |-> authority]
NoRow == [state |-> "absent", rev |-> 0, authority |-> "direct"]
FailedRow == [state |-> "failed", rev |-> 0, authority |-> "registry"]

\* The files as the constructors create them.
EmptyDb == [index |-> {}, blocks |-> {}]
EmptyLedger == [k \in Keys |-> NoRow]

NoTxn == [conn |-> "none", by |-> 0, owners |-> {}, db |-> EmptyDb]
NoRequest == [op |-> "none", key |-> <<CHOOSE d \in Docs : TRUE, Shared>>, deletes |-> FALSE]

Seedings == {"seedIndex", "seedBlocks"}
Busy == Seedings \cup {"hide", "screen", "dropIndex", "add", "put", "dropBlocks", "record",
                       "dropLedger", "audit", "recordFailure"}
Over == {"ok", "blocked", "error", "lost"}
InFlight(r) == pc[r] \in Busy
\* The API serves ingest, delete and retract; each command-line run is a process.
Served(r) == req[r].op \in {"ingest", "delete"}

\* Opening the stores: a table that is found empty is going to be seeded, the
\* index before the blocks are looked at.
OpensBlocks(d, up) == IF d.blocks = {} THEN "seedBlocks" ELSE up
Opens(d, up) == IF d.index = {} THEN "seedIndex" ELSE OpensBlocks(d, up)
\* seed replaces the whole index, put the blocks of the seeded keys.
SeedIndex(d) == [d EXCEPT !.index = SeedRows]
SeedBlocks(d) == [d EXCEPT !.blocks = {row \in @ : KeyOf(row) \notin Seeds} \cup SeedRows]
\* Whoever opens the stores now has something to seed.
Vacant == db.index = {} \/ db.blocks = {}
\* Somebody found a table empty and has not filled it yet.
Filling == api \in Seedings \/ \E r \in Requests : pc[r] \in Seedings

\* The rows an index deletion for key k reaches: an empty tenant is every tenant.
InScope(rows, k) ==
    {row \in rows : row.doc = k[1] /\ (k[2] = Shared \/ row.owner = k[2])}

-----------------------------------------------------------------------------
Init ==
    /\ db = SeedBlocks(SeedIndex(EmptyDb))
    /\ txn = NoTxn
    /\ ledger = EmptyLedger
    /\ registered \in SUBSET Docs
    /\ trail = {}
    /\ req = [r \in Requests |-> NoRequest]
    /\ pc = [r \in Requests |-> "idle"]
    /\ api = "up"
    /\ alone = [r \in Requests |-> TRUE]
    /\ erased = {}
    /\ faults = 0
    /\ restarts = 0

Goto(r, label) == pc' = [pc EXCEPT ![r] = label]

\* _write_audit
OnRecord(r, decision) == trail' = trail \cup {<<r, decision>>}

\* A request that is over is forgotten.
Replies(r, what) ==
    /\ Goto(r, what)
    /\ req' = [req EXCEPT ![r] = NoRequest]
    /\ alone' = [alone EXCEPT ![r] = TRUE]

\* An exception: the routes and the command line report it, a refresh that has
\* opened its stores first writes a FAILED row.
Escapes(r) ==
    IF req[r].op = "refresh" /\ pc[r] \notin Seedings \cup {"recordFailure"}
    THEN Goto(r, "recordFailure") /\ UNCHANGED <<req, alone>>
    ELSE Replies(r, "error")

(***************************************************************************)
(* A request arrives.  A command-line process opens the stores for itself, *)
(* and seeds a table it finds empty, which may no longer be empty then.    *)
(***************************************************************************)
Begin(r, op, k, deletes, label) ==
    /\ pc[r] = "idle"
    /\ \A s \in 1..(r - 1) : pc[s] # "idle"
    /\ Cardinality({s \in Requests : InFlight(s)}) < MaxInFlight
    /\ req' = [req EXCEPT ![r] = [op |-> op, key |-> k, deletes |-> deletes]]
    /\ Goto(r, label)
    /\ LET seeds == label \in Seedings
           others == {s \in Requests \ {r} : InFlight(s) /\ (req[s].key[1] = k[1] \/ seeds)}
       IN  /\ alone' = [s \in Requests |-> IF s = r THEN others = {} /\ ~Filling
                                          ELSE alone[s] /\ s \notin others]
           /\ erased' = (erased \ (IF deletes THEN {} ELSE {k})) \ (IF seeds /\ Vacant THEN Seeds ELSE {})

\* The route stamps the verified tenant, which is never empty.
ApiIngest(r) ==
    \E d \in Docs, t \in Tenants :
        /\ api = "up" /\ Begin(r, "ingest", <<d, t>>, FALSE, "screen")
        /\ UNCHANGED <<stores, registered, trail, api, bounds>>

\* DELETE /v1/documents/{id} and POST /v1/documents/{id}/retract call the same
\* service method with the same arguments.
ApiDelete(r) ==
    \E d \in Docs, t \in Tenants :
        /\ api = "up" /\ Begin(r, "delete", <<d, t>>, TRUE, "dropIndex")
        /\ UNCHANGED <<stores, registered, trail, api, bounds>>

\* The command line names no tenant.
CliIngest(r) ==
    \E d \in Docs :
        /\ Begin(r, "cli", <<d, Shared>>, FALSE, Opens(db, "screen"))
        /\ UNCHANGED <<stores, registered, trail, api, bounds>>

\* refresh_expired: known_ids are ids, whatever their tenant.
Expired(d) == \E o \in Owners : ledger[<<d, o>>].state \in {"failed", "expired"}
Known(d) == \E o \in Owners : ledger[<<d, o>>] # NoRow
Target(d) == d \in registered /\ (Expired(d) \/ ~Known(d))
Withdrawn(d) == d \notin registered /\ ledger[<<d, Shared>>].authority = "registry"

CliRefresh(r) ==
    \E d \in Docs :
        /\ \/ Target(d) /\ Begin(r, "refresh", <<d, Shared>>, FALSE, Opens(db, "hide"))
           \/ Withdrawn(d) /\ Begin(r, "refresh", <<d, Shared>>, TRUE, Opens(db, "dropIndex"))
        /\ UNCHANGED <<stores, registered, trail, api, bounds>>

(***************************************************************************)
(* Its steps, in the order of the service's calls.                         *)
(***************************************************************************)
\* Where a command-line process starts once its stores are open.
FirstCall(r) ==
    IF req[r].op = "cli" THEN "screen" ELSE IF req[r].deletes THEN "dropIndex" ELSE "hide"

\* The constructor's seeding; the lock was free in between.
Fill(r) ==
    /\ pc[r] \in Seedings /\ txn.conn = "none"
    /\ \/ /\ pc[r] = "seedIndex"
          /\ db' = SeedIndex(db)
          /\ Goto(r, OpensBlocks(db, FirstCall(r)))
       \/ /\ pc[r] = "seedBlocks"
          /\ db' = SeedBlocks(db)
          /\ Goto(r, FirstCall(r))
    /\ UNCHANGED <<txn, ledger, registered, trail, req, api, history, bounds>>

\* _hide_old_projection_before_refresh.  Local search does not read the ledger.
Hide(r) ==
    /\ pc[r] = "hide"
    /\ ledger' = [ledger EXCEPT ![req[r].key] = FailedRow]
    /\ Goto(r, "screen")
    /\ UNCHANGED <<db, txn, registered, trail, req, api, history, bounds>>

Screen(r) ==
    /\ pc[r] = "screen"
    /\ Goto(r, "dropIndex")
    /\ UNCHANGED <<stores, registered, trail, req, api, history, bounds>>

\* The verdict is recorded before the refusal is raised; the route turns it
\* into a reply.
Blocked(r) ==
    /\ pc[r] = "screen"
    /\ OnRecord(r, "blocked")
    /\ IF req[r].op = "ingest" THEN Replies(r, "blocked") ELSE Escapes(r)
    /\ UNCHANGED <<stores, registered, api, erased, bounds>>

\* SQLite lets one connection at a time hold changes.  Each run of the command
\* line has connections of its own.
Writable(r, table) ==
    txn.conn = "none" \/ (txn.conn = table /\ txn.by = 0 /\ Served(r))
\* What the connection that may write sees: its own open change, else the file.
Seen == IF txn.conn = "none" THEN db ELSE txn.db

\* One store call: new is its effect, half what its statements but the last do.
Writes(r, table, half, new, next) ==
    /\ Writable(r, table)
    /\ \/ /\ db' = new
          /\ txn' = NoTxn
          /\ Goto(r, next)
          /\ UNCHANGED <<req, alone, faults>>
       \/ /\ req[r].op # "cli"       \* that process ends, rolling it back
          /\ faults < MaxFaults
          /\ faults' = faults + 1
          /\ \E left \in {half, new} :
                txn' = [conn |-> table, by |-> IF Served(r) THEN 0 ELSE r,
                        owners |-> txn.owners \cup {req[r].key[2]}, db |-> left]
          /\ Escapes(r)
          /\ UNCHANGED db
    /\ UNCHANGED <<ledger, registered, trail, api, erased, restarts>>

DropIndex(r) ==
    /\ pc[r] = "dropIndex"
    /\ Writes(r, "index", Seen, [Seen EXCEPT !.index = @ \ InScope(@, req[r].key)],
              IF req[r].deletes THEN "dropBlocks" ELSE "add")

Add(r) ==
    /\ pc[r] = "add"
    /\ Writes(r, "index", Seen, [Seen EXCEPT !.index = @ \cup {Row(req[r].key, r)}], "put")

\* DELETE, then INSERT.
Put(r) ==
    /\ pc[r] = "put"
    /\ LET dropped == [Seen EXCEPT !.blocks = @ \ Of(@, req[r].key)]
       IN  Writes(r, "blocks", dropped,
                  [dropped EXCEPT !.blocks = @ \cup {Row(req[r].key, r)}], "record")

DropBlocks(r) ==
    /\ pc[r] = "dropBlocks"
    /\ Writes(r, "blocks", Seen, [Seen EXCEPT !.blocks = @ \ Of(@, req[r].key)], "dropLedger")

Record(r) ==
    /\ pc[r] = "record"
    /\ ledger' = [ledger EXCEPT ![req[r].key] =
                    Fresh(r, IF req[r].op = "refresh" THEN "registry" ELSE "direct")]
    /\ Goto(r, "audit")
    /\ UNCHANGED <<db, txn, registered, trail, req, api, history, bounds>>

DropLedger(r) ==
    /\ pc[r] = "dropLedger"
    /\ ledger' = [ledger EXCEPT ![req[r].key] = NoRow]
    /\ Goto(r, "audit")
    /\ UNCHANGED <<db, txn, registered, trail, req, api, history, bounds>>

Audit(r) ==
    /\ pc[r] = "audit"
    /\ OnRecord(r, "allowed")
    /\ Replies(r, "ok")
    /\ erased' = IF req[r].deletes /\ alone[r] THEN erased \cup {req[r].key} ELSE erased
    /\ UNCHANGED <<stores, registered, api, bounds>>

RecordFailure(r) ==
    /\ pc[r] = "recordFailure"
    /\ ledger' = [ledger EXCEPT ![req[r].key] = FailedRow]
    /\ Replies(r, "error")
    /\ UNCHANGED <<db, txn, registered, trail, api, erased, bounds>>

(***************************************************************************)
(* Failures, restarts, and the world outside.                              *)
(***************************************************************************)
\* Any call raises without effect.
Fails(r) ==
    /\ InFlight(r)
    /\ faults < MaxFaults
    /\ faults' = faults + 1
    /\ Escapes(r)
    /\ UNCHANGED <<stores, registered, trail, api, erased, restarts>>

\* "database is locked": another connection has a change open.
Locked(r) ==
    /\ \/ pc[r] \in Seedings /\ txn.conn # "none"
       \/ pc[r] \in {"dropIndex", "add"} /\ ~Writable(r, "index")
       \/ pc[r] \in {"put", "dropBlocks"} /\ ~Writable(r, "blocks")
    /\ Escapes(r)
    /\ UNCHANGED <<stores, registered, trail, api, erased, bounds>>

\* A run that has reported its failing document goes on to another one, whose
\* first write, to the index, commits what was left open there.
RunGoesOn ==
    /\ txn.by # 0 /\ ~InFlight(txn.by)
    /\ txn.conn = "index"
    /\ db' = txn.db
    /\ txn' = NoTxn
    /\ UNCHANGED <<ledger, registered, trail, req, pc, api, history, bounds>>

\* It ends, after documents that found the file locked, if there were others.
RunEnds ==
    /\ txn.by # 0 /\ ~InFlight(txn.by)
    /\ txn' = NoTxn
    /\ UNCHANGED <<db, ledger, registered, trail, req, pc, api, history, bounds>>

\* The API process ends and starts again: its requests are lost, its open
\* change is rolled back, and it opens its stores.
Restart ==
    /\ restarts < MaxRestarts
    /\ restarts' = restarts + 1
    /\ api' = Opens(db, "up")
    /\ LET gone == {r \in Requests : InFlight(r) /\ Served(r)}
           seeds == api' \in Seedings
       IN  /\ pc' = [r \in Requests |-> IF r \in gone THEN "lost" ELSE pc[r]]
           /\ req' = [r \in Requests |-> IF r \in gone THEN NoRequest ELSE req[r]]
           /\ alone' = [r \in Requests |-> r \in gone \/ (alone[r] /\ ~(seeds /\ InFlight(r)))]
           /\ erased' = IF Vacant THEN erased \ Seeds ELSE erased
    /\ txn' = IF txn.by = 0 THEN NoTxn ELSE txn
    /\ UNCHANGED <<db, ledger, registered, trail, faults>>

\* It seeds what it found empty before it serves anything.
ApiFill ==
    /\ api \in Seedings /\ txn.conn = "none"
    /\ \/ api = "seedIndex" /\ db' = SeedIndex(db) /\ api' = OpensBlocks(db, "up")
       \/ api = "seedBlocks" /\ db' = SeedBlocks(db) /\ api' = "up"
    /\ UNCHANGED <<txn, ledger, registered, trail, req, pc, history, bounds>>

\* A command-line process is killed, and a change it had open rolled back.
Killed(r) ==
    /\ InFlight(r) /\ ~Served(r)
    /\ faults < MaxFaults
    /\ faults' = faults + 1
    /\ Replies(r, "lost")
    /\ txn' = IF txn.by = r THEN NoTxn ELSE txn
    /\ UNCHANGED <<db, ledger, registered, trail, api, erased, restarts>>

\* A registry row reaches its TTL; a direct one never does.
Expire(k) ==
    /\ ledger[k].state = "fresh" /\ ledger[k].authority = "registry"
    /\ ledger' = [ledger EXCEPT ![k].state = "expired"]
    /\ UNCHANGED <<db, txn, registered, trail, req, pc, api, history, bounds>>

Withdraw(d) ==
    /\ d \in registered
    /\ registered' = registered \ {d}
    /\ UNCHANGED <<stores, trail, req, pc, api, history, bounds>>

\* Every request has been served and nothing can happen any more.
Finished ==
    /\ \A r \in Requests : pc[r] \in Over
    /\ UNCHANGED vars

Step(r) ==
    \/ Fill(r) \/ Hide(r) \/ Screen(r) \/ Blocked(r)
    \/ DropIndex(r) \/ Add(r) \/ Put(r) \/ DropBlocks(r)
    \/ Record(r) \/ DropLedger(r) \/ Audit(r) \/ RecordFailure(r)
    \/ Locked(r)

Next ==
    \/ \E r \in Requests :
        \/ ApiIngest(r) \/ ApiDelete(r) \/ CliIngest(r) \/ CliRefresh(r)
        \/ Step(r) \/ Fails(r) \/ Killed(r)
    \/ \E k \in Keys : Expire(k)
    \/ \E d \in Docs : Withdraw(d)
    \/ Restart \/ ApiFill
    \/ RunGoesOn \/ RunEnds
    \/ Finished

Spec == Init /\ [][Next]_vars
-----------------------------------------------------------------------------
(***************************************************************************)
(* Properties.                                                             *)
(***************************************************************************)
Rows == [doc : Docs, owner : Owners, rev : 0..MaxRequests]
Tables == [index : SUBSET Rows, blocks : SUBSET Rows]

\* Every variable holds a value of its kind.
TypeOK ==
    /\ db \in Tables
    /\ txn \in [conn : {"none", "index", "blocks"}, by : 0..MaxRequests, owners : SUBSET Owners,
                db : Tables]
    /\ ledger \in [Keys -> [state : {"absent", "fresh", "failed", "expired"},
                            rev : 0..MaxRequests, authority : {"direct", "registry"}]]
    /\ registered \subseteq Docs
    /\ trail \subseteq Requests \X {"allowed", "blocked"}
    /\ req \in [Requests -> [op : {"none", "ingest", "delete", "cli", "refresh"},
                             key : Keys, deletes : BOOLEAN]]
    /\ pc \in [Requests -> Busy \cup Over \cup {"idle"}]
    /\ api \in Seedings \cup {"up"}
    /\ alone \in [Requests -> BOOLEAN]
    /\ erased \subseteq Keys
    /\ faults \in 0..MaxFaults
    /\ restarts \in 0..MaxRestarts

\* What the three stores hold for owner o.
Theirs(o) ==
    <<{row \in db.index : row.owner = o}, {row \in db.blocks : row.owner = o},
      [d \in Docs |-> ledger[<<d, o>>]]>>

\* A step of one tenant's request changes no other tenant's documents, the
\* shared ones included, even when it commits what an earlier failure left
\* open: then only the tenants whose change that was.  (the tenant scoping
\* of delete_document, put, delete and upsert)
TenantsApart ==
    [][\A r \in Requests :
         (pc'[r] # pc[r] /\ pc'[r] # "lost" /\ InFlight(r) /\ req[r].key[2] # Shared)
           => \A o \in Owners \ ({req[r].key[2]} \cup txn.owners) :
                UNCHANGED Theirs(o)]_vars

\* The stores agree with what request r asked for.
Agrees(r) ==
    LET k == req[r].key
        rows == IF req[r].deletes THEN {} ELSE {Row(k, r)}
    IN  /\ Of(db.index, k) = rows
        /\ Of(db.blocks, k) = rows
        /\ IF req[r].deletes
           THEN ledger[k] = NoRow
           ELSE ledger[k].rev = r /\ ledger[k].state \in {"fresh", "expired"}

\* A request that reports success, and that no other on its document and no
\* self-seeding overlapped, leaves passages, anchors and ledger in agreement, whatever
\* failed requests left behind before it, and is on record.
\* (IngestionService.ingest, delete)
SuccessHeals ==
    [][\A r \in Requests :
         (pc[r] = "audit" /\ pc'[r] = "ok" /\ alone[r])
           => Agrees(r) /\ <<r, "allowed">> \in trail']_vars

\* What a tenant deleted stays deleted in all three stores until an ingest of
\* it begins: neither a change left open by an earlier failure nor a restart
\* brings it back.  Only a process that finds a table empty when it opens the
\* store restores the built-in documents.  (IngestionService.delete, the
\* self-seeding)
ErasedStaysErased ==
    \A k \in erased :
        /\ Of(db.index, k) = {}
        /\ Of(db.blocks, k) = {}
        /\ ledger[k] = NoRow
=============================================================================
