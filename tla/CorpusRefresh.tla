--------------------------- MODULE CorpusRefresh ---------------------------
(***************************************************************************)
(* The managed corpus refresh job: pipelines/refresh_job.py,               *)
(* pipelines/ingest.py, pipelines/acl_sync.py, the IngestionService they   *)
(* drive, and the GCS / AlloyDB adapters it writes through.                *)
(*                                                                         *)
(* A job execution takes the AlloyDB advisory lease, replaces the ACL      *)
(* projection, loads the registry, plans, and then works through one       *)
(* document at a time with one call to an external store per step.  No     *)
(* transaction spans two stores, so between any two steps the process may  *)
(* die, a call may fail, or a call may take effect and still report an     *)
(* error (a lost acknowledgement).                                         *)
(*                                                                         *)
(* Revisions are naturals; 0 means "absent".  A registry entry (title,     *)
(* version, ACL tags) and the bytes it points to are separate objects and  *)
(* are read at different moments, so a projection records both: meta is    *)
(* the revision of the registry entry, text that of the bytes.             *)
(***************************************************************************)
EXTENDS Naturals, FiniteSets

CONSTANTS
    Docs,          \* document ids of the shared ("" tenant) corpus
    Jobs,          \* job executions (Cloud Run tasks or an operator's CLI run)
    None,          \* no job / no document
    MaxRev,        \* bound: revisions a publisher puts out per document
    MaxAcl,        \* bound: revisions of the ACL bindings artifact
    Blocked,       \* content revisions the ingest guardrail refuses
    TTL,           \* corpus.ttl_days in clock ticks
    MaxTime,       \* bound on the clock
    MaxFaults,     \* bound: failed calls and crashes in one behaviour
    SessionDrops   \* may the database session holding the lease drop?

ASSUME ConstantsAssumption ==
    /\ None \notin Docs /\ None \notin Jobs
    /\ MaxRev \in Nat /\ MaxAcl \in Nat \ {0}
    /\ Blocked \subseteq Nat \ {0}
    /\ TTL \in Nat \ {0}
    /\ MaxTime \in Nat /\ MaxFaults \in Nat
    /\ SessionDrops \in BOOLEAN

VARIABLES
    \* what the publisher controls
    registry,      \* registry[d]: revision of d's registry entry, 0 if withdrawn
    bytes,         \* bytes[d]: revision of the object d's uri points to
    bindings,      \* revision of the reviewed ACL artifact
    clock,
    \* the stores
    blob,          \* blob[d]: redacted text object in the corpus bucket
    chunks,        \* chunks[d]: the documents + document_chunks rows
    ledger,        \* ledger[d]: the document_freshness row
    acl,           \* revision of the principal_acl_tags projection
    trail,         \* trail[d]: content of the newest completed ingest/delete on record
    lease,         \* the job whose session holds the advisory lock
    \* the locals of each execution
    pc, full, snap, tomb, todo, done, bad, doc, got,
    \* environment budget and history
    faults,
    withdrawn,     \* documents that have ever been withdrawn
    newest         \* newest[d]: the revisions last committed as fresh

world  == <<registry, bytes, bindings, clock, withdrawn>>
stores == <<blob, chunks, ledger, acl, trail, newest>>
locals == <<full, snap, tomb, todo, done, bad, doc, got>>
vars   == <<world, stores, lease, pc, locals, faults>>

Rev  == 0..MaxRev
Time == 0..(MaxTime + TTL)

NoRow   == [status |-> "absent", expires |-> 0, meta |-> 0, text |-> 0]
NoChunk == [meta |-> 0, text |-> 0]

\* Slip: a FAILED row that keeps the normal freshness window.
UnexpiredFailedRow == [status |-> "failed", expires |-> clock + TTL, meta |-> 0, text |-> 0]

\* A FAILED row is written already expired; nothing reads its version.
FailedRow == [status |-> "failed", expires |-> clock, meta |-> 0, text |-> 0]

\* Slip: the TTL is added to a time that already includes it.
TwiceFreshRow(m, t) ==
    [status |-> "fresh", expires |-> clock + TTL + TTL, meta |-> m, text |-> t]

FreshRow(m, t) ==
    [status |-> "fresh", expires |-> clock + TTL, meta |-> m, text |-> t]

\* Slip: a row that expires this very instant is not yet expired.
StrictlyExpired(row) == row.expires < clock

Expired(row) == row.expires <= clock

\* What a search can see: one SQL statement joins the chunk rows with their
\* freshness row and keeps fresh, unexpired ones.
Served(d) ==
    /\ chunks[d] # NoChunk
    /\ ledger[d].status = "fresh"
    /\ ledger[d].expires > clock

Registered(d, s) == s[d] # 0

-----------------------------------------------------------------------------
(* Publisher and time *)

Publish(d) ==
    /\ bytes[d] < MaxRev
    /\ bytes' = [bytes EXCEPT ![d] = @ + 1]
    /\ registry' = [registry EXCEPT ![d] = bytes[d] + 1]
    /\ UNCHANGED <<bindings, clock, withdrawn, stores, lease, pc, locals, faults>>

Withdraw(d) ==
    /\ registry[d] # 0
    /\ registry' = [registry EXCEPT ![d] = 0]
    /\ withdrawn' = withdrawn \cup {d}
    /\ UNCHANGED <<bytes, bindings, clock, stores, lease, pc, locals, faults>>

PublishBindings ==
    /\ bindings < MaxAcl
    /\ bindings' = bindings + 1
    /\ UNCHANGED <<registry, bytes, clock, withdrawn, stores, lease, pc, locals, faults>>

Tick ==
    /\ clock < MaxTime
    /\ clock' = clock + 1
    /\ UNCHANGED <<registry, bytes, bindings, withdrawn, stores, lease, pc, locals, faults>>

-----------------------------------------------------------------------------
(* Moving a job along *)

Goto(j, label) == pc' = [pc EXCEPT ![j] = label]

Fault == faults < MaxFaults /\ faults' = faults + 1

\* The call just made returned, or took effect and raised all the same.
Returns(j, label) ==
    \/ Goto(j, label) /\ UNCHANGED faults
    \/ Goto(j, "fail") /\ Fault

\* The process is gone, or run() returned: a later execution starts afresh,
\* and the session's advisory lock is free again.
Ends(j) ==
    /\ Goto(j, "idle")
    /\ lease' = IF lease = j THEN None ELSE lease
    /\ full' = [full EXCEPT ![j] = FALSE]
    /\ snap' = [snap EXCEPT ![j] = [d \in Docs |-> 0]]
    /\ tomb' = [tomb EXCEPT ![j] = {}]
    /\ todo' = [todo EXCEPT ![j] = {}]
    /\ done' = [done EXCEPT ![j] = {}]
    /\ bad'  = [bad EXCEPT ![j] = FALSE]
    /\ doc'  = [doc EXCEPT ![j] = None]
    /\ got'  = [got EXCEPT ![j] = 0]
    /\ UNCHANGED <<world, stores>>

Idle(j) == pc[j] = "idle"

-----------------------------------------------------------------------------
(* Slips: one plausible mistake in a step each.  They are not part of Next;  *)
(* putting one in the place of the step it distorts shows which property     *)
(* would notice.                                                             *)

\* The result of pg_try_advisory_lock is ignored.
AcquireUnchecked(j) ==
    /\ Idle(j)
    /\ lease' = IF lease = None THEN j ELSE lease
    /\ Goto(j, "aclDownload")
    /\ UNCHANGED <<world, stores, locals, faults>>

\* A removed registry document is only logged.
PlanWithoutTombstones(j) ==
    /\ pc[j] = "plan"
    /\ todo' = [todo EXCEPT ![j] = {d \in Docs : Registered(d, snap[j]) /\ Expired(ledger[d])}]
    /\ Goto(j, "loop")
    /\ UNCHANGED <<world, stores, lease, full, snap, tomb, done, bad, doc, got, faults>>

\* The freshness row goes first; the object in the bucket is forgotten.
TombRowFirst(j) ==
    /\ pc[j] = "tombBlob"
    /\ ledger' = [ledger EXCEPT ![doc[j]] = NoRow]
    /\ Returns(j, "tombChunks")
    /\ UNCHANGED <<world, blob, chunks, acl, trail, newest, lease, locals>>

\* The old projection stays up while the new one is fetched.
HideNothing(j) ==
    /\ pc[j] = "hide"
    /\ Goto(j, "fetch")
    /\ UNCHANGED <<world, stores, lease, locals, faults>>

\* The guardrail's verdict is not looked at.
ScreenIgnored(j) ==
    /\ pc[j] = "screen"
    /\ Goto(j, "upload")
    /\ UNCHANGED <<world, stores, lease, locals, faults>>

\* The row records what the source holds now, not what was indexed.
CommitCurrentSource(j) ==
    /\ pc[j] = "commit"
    /\ ledger' = [ledger EXCEPT ![doc[j]] = FreshRow(snap[j][doc[j]], bytes[doc[j]])]
    /\ newest' = [newest EXCEPT ![doc[j]] = [meta |-> snap[j][doc[j]], text |-> bytes[doc[j]]]]
    /\ Returns(j, "audit")
    /\ UNCHANGED <<world, blob, chunks, acl, trail, lease, locals>>

\* A failure of the audit sink is swallowed.
AuditBestEffort(j) ==
    /\ pc[j] = "audit"
    /\ \/ trail' = [trail EXCEPT ![doc[j]] = got[j]] /\ UNCHANGED faults
       \/ UNCHANGED trail /\ Fault
    /\ Goto(j, "loop")
    /\ done' = [done EXCEPT ![j] = @ \cup {doc[j]}]
    /\ UNCHANGED <<world, blob, chunks, ledger, acl, newest, lease, full, snap, tomb, todo,
                   bad, doc, got>>

\* The failed outcome does not reach the summary.
FailureUnreported(j) ==
    /\ pc[j] = "fail"
    /\ ledger' = [ledger EXCEPT ![doc[j]] = FailedRow]
    /\ Goto(j, "loop")
    /\ UNCHANGED <<world, blob, chunks, acl, trail, newest, lease, locals, faults>>

-----------------------------------------------------------------------------
(* run(): lease, ACL projection, registry, plan *)

\* pg_try_advisory_lock; an execution that finds it taken refuses and exits.
Acquire(j) ==
    /\ Idle(j)
    /\ lease = None
    /\ lease' = j
    /\ Goto(j, "aclDownload")
    /\ UNCHANGED <<world, stores, locals, faults>>

DownloadAcl(j) ==
    /\ pc[j] = "aclDownload"
    /\ got' = [got EXCEPT ![j] = bindings]
    /\ Goto(j, "aclReplace")
    /\ UNCHANGED <<world, stores, lease, full, snap, tomb, todo, done, bad, doc, faults>>

\* One transaction deletes every binding row and inserts the new set.
ReplaceAcl(j) ==
    /\ pc[j] = "aclReplace"
    /\ acl' = got[j]
    /\ got' = [got EXCEPT ![j] = 0]
    /\ Goto(j, "load")
    /\ UNCHANGED <<world, blob, chunks, ledger, trail, newest, lease, full, snap, tomb,
                   todo, done, bad, doc, faults>>

LoadRegistry(j) ==
    /\ pc[j] = "load"
    /\ snap' = [snap EXCEPT ![j] = registry]
    /\ Goto(j, "plan")
    /\ UNCHANGED <<world, stores, lease, full, tomb, todo, done, bad, doc, got, faults>>

\* refresh_all: every registry entry, and no tombstones.
PlanFull(j) ==
    /\ pc[j] = "plan"
    /\ full' = [full EXCEPT ![j] = TRUE]
    /\ todo' = [todo EXCEPT ![j] = {d \in Docs : Registered(d, snap[j])}]
    /\ Goto(j, "loop")
    /\ UNCHANGED <<world, stores, lease, snap, tomb, done, bad, doc, got, faults>>

\* refresh_expired: rows of withdrawn documents are tombstoned; registry
\* documents that are expired or have no row are ingested.
PlanExpired(j) ==
    /\ pc[j] = "plan"
    /\ LET known   == {d \in Docs : ledger[d] # NoRow}
           expired == {d \in known : Expired(ledger[d])}
           listed  == {d \in Docs : Registered(d, snap[j])}
       IN  /\ tomb' = [tomb EXCEPT ![j] = known \ listed]
           /\ todo' = [todo EXCEPT ![j] = listed \cap (expired \cup (Docs \ known))]
    /\ Goto(j, "loop")
    /\ UNCHANGED <<world, stores, lease, full, snap, done, bad, doc, got, faults>>

\* The download of an artifact, its validation or a read raised: run() lets the
\* exception out, and the context manager frees the lease on the way.
Abort(j) ==
    /\ pc[j] \in {"aclDownload", "aclReplace", "load", "plan"}
    /\ Ends(j)
    /\ Fault

NextTombstone(j) ==
    /\ pc[j] = "loop"
    /\ \E d \in tomb[j] :
          /\ doc' = [doc EXCEPT ![j] = d]
          /\ tomb' = [tomb EXCEPT ![j] = @ \ {d}]
    /\ Goto(j, "tombBlob")
    /\ UNCHANGED <<world, stores, lease, full, snap, todo, done, bad, got, faults>>

NextTarget(j) ==
    /\ pc[j] = "loop"
    /\ tomb[j] = {}
    /\ \E d \in todo[j] :
          /\ doc' = [doc EXCEPT ![j] = d]
          /\ todo' = [todo EXCEPT ![j] = @ \ {d}]
    /\ Goto(j, "hide")
    /\ UNCHANGED <<world, stores, lease, full, snap, tomb, done, bad, got, faults>>

PassOver(j) == pc[j] = "loop" /\ tomb[j] = {} /\ todo[j] = {}

Finish(j) ==
    /\ PassOver(j)
    /\ Ends(j)
    /\ UNCHANGED faults

-----------------------------------------------------------------------------
(* IngestionService.delete: the tombstone of a withdrawn registry document *)

TombBlob(j) ==
    /\ pc[j] = "tombBlob"
    /\ blob' = [blob EXCEPT ![doc[j]] = 0]
    /\ Returns(j, "tombChunks")
    /\ UNCHANGED <<world, chunks, ledger, acl, trail, newest, lease, locals>>

TombChunks(j) ==
    /\ pc[j] = "tombChunks"
    /\ chunks' = [chunks EXCEPT ![doc[j]] = NoChunk]
    /\ Returns(j, "tombLedger")
    /\ UNCHANGED <<world, blob, ledger, acl, trail, newest, lease, locals>>

TombLedger(j) ==
    /\ pc[j] = "tombLedger"
    /\ ledger' = [ledger EXCEPT ![doc[j]] = NoRow]
    /\ Returns(j, "tombAudit")
    /\ UNCHANGED <<world, blob, chunks, acl, trail, newest, lease, locals>>

TombAudit(j) ==
    /\ pc[j] = "tombAudit"
    /\ trail' = [trail EXCEPT ![doc[j]] = 0]
    /\ Returns(j, "loop")
    /\ UNCHANGED <<world, blob, chunks, ledger, acl, newest, lease, locals>>

-----------------------------------------------------------------------------
(* ingest_document: hide, fetch, redact and screen, store, commit, audit *)

Hide(j) ==
    /\ pc[j] = "hide"
    /\ ledger' = [ledger EXCEPT ![doc[j]] = FailedRow]
    /\ Returns(j, "fetch")
    /\ UNCHANGED <<world, blob, chunks, acl, trail, newest, lease, locals>>

Fetch(j) ==
    /\ pc[j] = "fetch"
    /\ got' = [got EXCEPT ![j] = bytes[doc[j]]]
    /\ Goto(j, "screen")
    /\ UNCHANGED <<world, stores, lease, full, snap, tomb, todo, done, bad, doc, faults>>

\* A blocked document is audited BLOCKED and raises.
Screen(j) ==
    /\ pc[j] = "screen"
    /\ Goto(j, IF got[j] \in Blocked THEN "fail" ELSE "upload")
    /\ UNCHANGED <<world, stores, lease, locals, faults>>

Upload(j) ==
    /\ pc[j] = "upload"
    /\ blob' = [blob EXCEPT ![doc[j]] = got[j]]
    /\ Returns(j, "put")
    /\ UNCHANGED <<world, chunks, ledger, acl, trail, newest, lease, locals>>

\* citation_store.put: one transaction replaces the documents row and chunks.
\* There is always a chunk to put: extraction that finds no text raises before
\* the screening (prepare_for_redaction), one of the ways "screen" fails.
Put(j) ==
    /\ pc[j] = "put"
    /\ chunks' = [chunks EXCEPT ![doc[j]] = [meta |-> snap[j][doc[j]], text |-> got[j]]]
    /\ Returns(j, "commit")
    /\ UNCHANGED <<world, blob, ledger, acl, trail, newest, lease, locals>>

Commit(j) ==
    /\ pc[j] = "commit"
    /\ ledger' = [ledger EXCEPT ![doc[j]] = FreshRow(snap[j][doc[j]], got[j])]
    /\ newest' = [newest EXCEPT ![doc[j]] = [meta |-> snap[j][doc[j]], text |-> got[j]]]
    /\ Returns(j, "audit")
    /\ UNCHANGED <<world, blob, chunks, acl, trail, lease, locals>>

Audit(j) ==
    /\ pc[j] = "audit"
    /\ trail' = [trail EXCEPT ![doc[j]] = got[j]]
    /\ \/ /\ Goto(j, "loop")
          /\ done' = [done EXCEPT ![j] = @ \cup {doc[j]}]
          /\ UNCHANGED faults
       \/ Goto(j, "fail") /\ Fault /\ UNCHANGED done
    /\ UNCHANGED <<world, blob, chunks, ledger, acl, newest, lease, full, snap, tomb, todo,
                   bad, doc, got>>

Calls == {"tombBlob", "tombChunks", "tombLedger", "tombAudit",
          "hide", "fetch", "screen", "upload", "put", "commit", "audit"}

\* A call raises without having taken effect: both loops catch it.
CallFails(j) ==
    /\ pc[j] \in Calls
    /\ Goto(j, "fail")
    /\ Fault
    /\ UNCHANGED <<world, stores, lease, locals>>

\* _record_failure: an already expired FAILED row, whose own failure is
\* swallowed; the pass goes on with the next document.
RecordFailure(j) ==
    /\ pc[j] = "fail"
    /\ \/ ledger' = [ledger EXCEPT ![doc[j]] = FailedRow] /\ UNCHANGED faults
       \/ UNCHANGED ledger /\ Fault
    /\ bad' = [bad EXCEPT ![j] = TRUE]
    /\ Goto(j, "loop")
    /\ UNCHANGED <<world, blob, chunks, acl, trail, newest, lease, full, snap, tomb, todo,
                   done, doc, got>>

-----------------------------------------------------------------------------
(* Crashes *)

\* The worker dies (or the task times out): its session dies with it.
Crash(j) ==
    /\ ~ Idle(j)
    /\ Ends(j)
    /\ Fault

\* The session that owns the lock drops while the worker lives on: the lock is
\* released by the server, and nothing in the pass looks at it again.
DropSession(j) ==
    /\ SessionDrops
    /\ lease = j
    /\ lease' = None
    /\ Fault
    /\ UNCHANGED <<world, stores, pc, locals>>

-----------------------------------------------------------------------------
Init ==
    /\ registry = [d \in Docs |-> 0]
    /\ bytes = [d \in Docs |-> 0]
    /\ bindings = 1
    /\ clock = 0
    /\ withdrawn = {}
    /\ blob = [d \in Docs |-> 0]
    /\ chunks = [d \in Docs |-> NoChunk]
    /\ ledger = [d \in Docs |-> NoRow]
    /\ acl = 0
    /\ trail = [d \in Docs |-> 0]
    /\ newest = [d \in Docs |-> NoChunk]
    /\ lease = None
    /\ pc = [j \in Jobs |-> "idle"]
    /\ full = [j \in Jobs |-> FALSE]
    /\ snap = [j \in Jobs |-> [d \in Docs |-> 0]]
    /\ tomb = [j \in Jobs |-> {}]
    /\ todo = [j \in Jobs |-> {}]
    /\ done = [j \in Jobs |-> {}]
    /\ bad = [j \in Jobs |-> FALSE]
    /\ doc = [j \in Jobs |-> None]
    /\ got = [j \in Jobs |-> 0]
    /\ faults = 0

Plan(j) == PlanFull(j) \/ PlanExpired(j)

Tombstone(j) == TombBlob(j) \/ TombChunks(j) \/ TombLedger(j) \/ TombAudit(j)

Ingest(j) ==
    \/ Hide(j) \/ Fetch(j) \/ Screen(j) \/ Upload(j)
    \/ Put(j) \/ Commit(j) \/ Audit(j)

\* What the worker does by itself once it holds the lease.
Work(j) ==
    \/ DownloadAcl(j) \/ ReplaceAcl(j) \/ LoadRegistry(j) \/ Plan(j)
    \/ NextTombstone(j) \/ NextTarget(j) \/ Finish(j)
    \/ Tombstone(j) \/ Ingest(j) \/ RecordFailure(j)

Breakdown(j) == CallFails(j) \/ Abort(j) \/ Crash(j) \/ DropSession(j)

Environment ==
    \/ \E d \in Docs : Publish(d) \/ Withdraw(d)
    \/ PublishBindings
    \/ Tick

Next ==
    \/ \E j \in Jobs : Acquire(j) \/ Work(j) \/ Breakdown(j)
    \/ Environment

Spec == Init /\ [][Next]_vars

(***************************************************************************)
(* A worker that is not killed makes progress, and the scheduler keeps     *)
(* starting executions.  Scheduled executions are expired-only: however    *)
(* often an operator runs --full, the daily one comes round again, hence   *)
(* strong fairness on PlanExpired.  Nothing is assumed of publishers, of   *)
(* time or of failures, which are finitely many (MaxFaults).               *)
(***************************************************************************)
Fairness ==
    /\ WF_vars(\E j \in Jobs : Acquire(j))
    /\ \A j \in Jobs : WF_vars(Work(j)) /\ SF_vars(PlanExpired(j))

FairSpec == Spec /\ Fairness
-----------------------------------------------------------------------------
(* Properties *)

Label == Calls \cup {"idle", "aclDownload", "aclReplace", "load", "plan", "loop", "fail"}

Row == [status : {"absent", "failed", "fresh"}, expires : Time, meta : Rev, text : Rev]

Projection == [meta : Rev, text : Rev]

WorldTyped ==
    /\ registry \in [Docs -> Rev] /\ bytes \in [Docs -> Rev]
    /\ bindings \in 1..MaxAcl
    /\ clock \in 0..MaxTime
    /\ withdrawn \subseteq Docs

StoresTyped ==
    /\ blob \in [Docs -> Rev] /\ trail \in [Docs -> Rev]
    /\ chunks \in [Docs -> Projection] /\ newest \in [Docs -> Projection]
    /\ ledger \in [Docs -> Row]
    /\ acl \in 0..MaxAcl

LocalsTyped ==
    /\ full \in [Jobs -> BOOLEAN] /\ bad \in [Jobs -> BOOLEAN]
    /\ snap \in [Jobs -> [Docs -> Rev]]
    /\ tomb \in [Jobs -> SUBSET Docs] /\ todo \in [Jobs -> SUBSET Docs]
    /\ done \in [Jobs -> SUBSET Docs]
    /\ doc \in [Jobs -> Docs \cup {None}]
    /\ got \in [Jobs -> 0..(MaxRev + MaxAcl)]

ControlTyped ==
    /\ pc \in [Jobs -> Label]
    /\ lease \in Jobs \cup {None}
    /\ faults \in 0..MaxFaults

\* The types of the variables.
TypeOK == WorldTyped /\ StoresTyped /\ LocalsTyped /\ ControlTyped

\* Two executions never work at the same time: the advisory lease serializes
\* ACL replacement and corpus mutation (refresh_job._managed_refresh_lease).
LeaseExclusive ==
    \A i, j \in Jobs : ~ Idle(i) /\ ~ Idle(j) => i = j

\* From the moment ingest_document has hidden a document until it commits the
\* new FRESH row, no search sees the document, whatever fails in between
\* (ingest._hide_old_projection_before_refresh).
HiddenWhileReingesting ==
    \A j \in Jobs :
        pc[j] \in {"fetch", "screen", "upload", "put", "commit"} => ~ Served(doc[j])

\* What a search sees of a document is exactly the version and the checksum
\* its freshness row records: the two are written by separate transactions
\* (citation_store.put, then ledger.upsert).
ServedIsWhatLedgerRecords ==
    \A d \in Docs :
        Served(d) => /\ chunks[d].meta = ledger[d].meta
                     /\ chunks[d].text = ledger[d].text

\* Content the guardrail refuses reaches neither the bucket nor the chunk rows,
\* in whatever order executions overlap (ingestion_service._ingest_inner).
BlockedNeverStored ==
    \A d \in Docs : chunks[d].text \notin Blocked /\ blob[d] \notin Blocked

\* Every stored copy of a document has a ledger row, so a pass that looks for
\* withdrawn documents in ledger.all() cannot overlook one, wherever an
\* earlier pass was interrupted (refresh_expired; delete drops the row last).
EveryCopyHasARow ==
    \A d \in Docs : ledger[d] = NoRow => blob[d] = 0 /\ chunks[d] = NoChunk

\* A registry document that no search sees is one refresh_expired will pick up
\* again: a failed, interrupted or expired ingest is never mistaken for fresh.
\* (A document withdrawn and then registered again is not covered: a tombstone
\* interrupted half way leaves it FRESH without chunks until its TTL.)
UnservedIsRetried ==
    \A d \in Docs \ withdrawn :
        ledger[d] = NoRow \/ Served(d) \/ Expired(ledger[d])

\* A document the running pass has reported as ingested stays fresh, matches
\* the registry entry the pass loaded in both stores, and has its audit record
\* (SourceOutcome "ingested"; IngestionService._write_audit propagates).
ReportedIngestHolds ==
    \A j \in Jobs : \A d \in done[j] :
        /\ ledger[d].status = "fresh"
        /\ chunks[d] = [meta |-> snap[j][d], text |-> blob[d]]
        /\ trail[d] = blob[d]

\* A pass that ends without a failed outcome (exit code 0) leaves the stores
\* equal to the registry it loaded: every registered document has its FRESH
\* row and chunks, and, unless it was a --full pass, nothing of an
\* unregistered one is left in any store (refresh_expired, main).
CleanPassConverges ==
    \A j \in Jobs : PassOver(j) /\ ~ bad[j] =>
        \A d \in Docs :
            IF Registered(d, snap[j])
            THEN /\ ledger[d].status = "fresh"
                 /\ \/ chunks[d] = [meta |-> ledger[d].meta, text |-> ledger[d].text]
                    \/ d \in withdrawn
            ELSE \/ full[j]
                 \/ ledger[d] = NoRow /\ chunks[d] = NoChunk /\ blob[d] = 0

\* No execution, however delayed, writes an older projection over a newer one:
\* neither the ACL bindings nor a document's registry entry nor its content
\* goes back (refresh_job.run loads both artifacts only under the lease).
NoOlderProjection ==
    [][ /\ acl' >= acl
        /\ \A d \in Docs :
              chunks[d] # NoChunk /\ chunks'[d] # NoChunk =>
                  /\ chunks'[d].meta >= chunks[d].meta
                  /\ chunks'[d].text >= chunks[d].text ]_vars

\* Whenever no execution runs, a row that says FRESH stands for an ingest that
\* was completed, audit record included (ingest.py: "Successful ingest is the
\* only path back to FRESH"; ingestion_service.py: an ingest "is not complete
\* until its immutable decision record exists").
FreshOnlyBySuccessfulIngest ==
    (\A j \in Jobs : Idle(j)) =>
        \A d \in Docs : ledger[d].status = "fresh" => trail[d] = ledger[d].text

\* The job implements the abstract corpus: served documents are only ever
\* hidden, or replaced through an interval in which they are hidden.
Corpus == INSTANCE ServedCorpus WITH
    served <- [d \in Docs |-> IF Served(d) THEN chunks[d] ELSE NoChunk]

ImplementsServedCorpus == Corpus!Spec

\* A document withdrawn for good is eventually gone from the bucket, the chunk
\* rows and the ledger (refresh_expired: "a withdrawn source cannot remain
\* retrievable indefinitely").
WithdrawnIsTombstoned ==
    \A d \in Docs :
        <>[](registry[d] = 0) =>
            <>[](blob[d] = 0 /\ chunks[d] = NoChunk /\ ledger[d] = NoRow)

\* A document withdrawn for good is eventually no longer served.
WithdrawnIsUnserved ==
    \A d \in Docs : <>[](registry[d] = 0) => <>[]~ Served(d)

\* A registered document whose content the guardrail accepts is never left
\* FAILED, expired or missing for good: if failures cease, it is fresh again and
\* again (each --full pass hides it for the time of its own re-ingest).
PublishedIsFresh ==
    \A d \in Docs :
        <>[](registry[d] # 0 /\ bytes[d] \notin Blocked) =>
            []<>(ledger[d].status = "fresh" /\ ~ Expired(ledger[d]))
=============================================================================
