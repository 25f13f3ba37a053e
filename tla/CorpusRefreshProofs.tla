------------------------ MODULE CorpusRefreshProofs ------------------------
(***************************************************************************)
(* Proofs about the refresh job, for any number of documents, executions,  *)
(* revisions and failures.                                                 *)
(***************************************************************************)
EXTENDS CorpusRefresh, TLAPS

Ingesting == {"screen", "upload", "put", "commit", "audit"}

\* What the step a job is at says about the locals it is about to use: the
\* type invariant alone is not inductive, because got holds the revision of
\* whichever object was downloaded last.
LocalsReady ==
    \A j \in Jobs :
        /\ pc[j] = "aclReplace" => got[j] \in 1..MaxAcl
        /\ pc[j] \in Calls \cup {"fail"} => doc[j] \in Docs
        /\ pc[j] \in Ingesting => got[j] \in Rev

TypeInv == TypeOK /\ LocalsReady

-----------------------------------------------------------------------------
(* Type correctness *)

\* The initial state is well typed.
LEMMA InitType == Init => TypeInv
BY ConstantsAssumption
DEF Init, TypeInv, TypeOK, WorldTyped, StoresTyped, LocalsTyped, ControlTyped, LocalsReady,
    Rev, Time, Label, Calls, Ingesting, Projection, Row, NoRow, NoChunk

\* Moving one job to a label its locals are ready for.
LEMMA MoveType ==
    ASSUME ControlTyped, LocalsReady, NEW j \in Jobs, NEW label \in Label, Goto(j, label),
           UNCHANGED <<doc, got>>,
           label = "aclReplace" => got[j] \in 1..MaxAcl,
           label \in Calls \cup {"fail"} => doc[j] \in Docs,
           label \in Ingesting => got[j] \in Rev
    PROVE  pc' \in [Jobs -> Label] /\ LocalsReady'
BY DEF ControlTyped, LocalsReady, Goto

\* A call on a document: it goes on to the next label, or to "fail".
LEMMA ReturnsType ==
    ASSUME ControlTyped, LocalsReady, NEW j \in Jobs, NEW label \in Label, Returns(j, label),
           UNCHANGED <<doc, got, lease>>, pc[j] \in Calls,
           label # "aclReplace",
           label \in Ingesting => got[j] \in Rev
    PROVE  ControlTyped' /\ LocalsReady'
<1>1. doc[j] \in Docs
  BY DEF LocalsReady
<1>2. faults' \in 0..MaxFaults
  BY ConstantsAssumption DEF ControlTyped, Returns, Fault
<1>3. "fail" \in Label /\ "fail" \notin Ingesting
  BY DEF Label, Ingesting
<1>4. CASE Goto(j, label)
  BY <1>1, <1>2, <1>4, MoveType DEF ControlTyped
<1>5. CASE Goto(j, "fail")
  BY <1>1, <1>2, <1>3, <1>5, MoveType DEF ControlTyped
<1>6. QED
  BY <1>4, <1>5 DEF Returns

\* Ending an execution resets its locals to well typed values.
LEMMA EndsType ==
    ASSUME TypeInv, NEW j \in Jobs, Ends(j), faults' \in 0..MaxFaults
    PROVE  TypeInv'
<1>1. WorldTyped' /\ StoresTyped'
  BY DEF Ends, TypeInv, TypeOK, WorldTyped, StoresTyped, world, stores
<1>2. LocalsTyped'
  BY ConstantsAssumption DEF Ends, TypeInv, TypeOK, LocalsTyped, Rev
<1>3. ControlTyped'
  BY DEF Ends, Goto, TypeInv, TypeOK, ControlTyped, Label
<1>4. LocalsReady'
  BY DEF Ends, Goto, TypeInv, TypeOK, ControlTyped, LocalsTyped, LocalsReady, Calls, Ingesting
<1>5. QED
  BY <1>1, <1>2, <1>3, <1>4 DEF TypeInv, TypeOK

\* The publisher and the clock keep the types.
LEMMA EnvironmentType ==
    ASSUME TypeInv, Environment
    PROVE  TypeInv'
<1>1. UNCHANGED <<stores, lease, pc, locals, faults>>
  BY DEF Environment, Publish, Withdraw, PublishBindings, Tick
<1>2. StoresTyped' /\ LocalsTyped' /\ ControlTyped' /\ LocalsReady'
  BY <1>1 DEF stores, locals, TypeInv, TypeOK, StoresTyped, LocalsTyped, ControlTyped,
              LocalsReady
<1>3. ASSUME NEW d \in Docs, Publish(d) PROVE WorldTyped'
  <2>1. bytes[d] + 1 \in Rev
    BY <1>3, ConstantsAssumption DEF Publish, TypeInv, TypeOK, WorldTyped, Rev
  <2>2. QED
    BY <1>3, <2>1 DEF Publish, TypeInv, TypeOK, WorldTyped
<1>4. ASSUME NEW d \in Docs, Withdraw(d) PROVE WorldTyped'
  BY <1>4, ConstantsAssumption DEF Withdraw, TypeInv, TypeOK, WorldTyped, Rev
<1>5. CASE PublishBindings
  BY <1>2, <1>5, ConstantsAssumption DEF PublishBindings, TypeInv, TypeOK, WorldTyped
<1>6. CASE Tick
  BY <1>2, <1>6, ConstantsAssumption DEF Tick, TypeInv, TypeOK, WorldTyped
<1>7. QED
  BY <1>2, <1>3, <1>4, <1>5, <1>6 DEF Environment, TypeInv, TypeOK

\* Steps of run() up to and including the loop over documents.
LEMMA RunType ==
    ASSUME TypeInv, NEW j \in Jobs,
           \/ Acquire(j) \/ DownloadAcl(j) \/ ReplaceAcl(j) \/ LoadRegistry(j)
           \/ PlanFull(j) \/ PlanExpired(j) \/ NextTombstone(j) \/ NextTarget(j)
    PROVE  TypeInv'
<1> USE ConstantsAssumption DEF TypeInv, TypeOK, WorldTyped, StoresTyped, LocalsTyped,
                ControlTyped, LocalsReady, Goto, Label, Calls, Ingesting
<1>1. CASE Acquire(j)
  BY <1>1 DEF Acquire, Idle, world, stores, locals
<1>2. CASE DownloadAcl(j)
  BY <1>2 DEF DownloadAcl, world, stores
<1>3. CASE ReplaceAcl(j)
  BY <1>3 DEF ReplaceAcl, world
<1>4. CASE LoadRegistry(j)
  BY <1>4 DEF LoadRegistry, world, stores
<1>5. CASE PlanFull(j)
  BY <1>5 DEF PlanFull, world, stores
<1>6. CASE PlanExpired(j)
  BY <1>6 DEF PlanExpired, world, stores
<1>7. CASE NextTombstone(j)
  BY <1>7 DEF NextTombstone, world, stores
<1>8. CASE NextTarget(j)
  BY <1>8 DEF NextTarget, world, stores
<1>9. QED
  BY <1>1, <1>2, <1>3, <1>4, <1>5, <1>6, <1>7, <1>8

\* Steps on one document whose effect is confined to one store.
LEMMA CallType ==
    ASSUME TypeInv, NEW j \in Jobs,
           \/ Tombstone(j) \/ Hide(j) \/ Upload(j) \/ Put(j) \/ Commit(j)
    PROVE  TypeInv'
<1>1. UNCHANGED <<world, locals, lease>>
  BY DEF Tombstone, TombBlob, TombChunks, TombLedger, TombAudit, Hide, Upload, Put, Commit,
         locals
<1>2. WorldTyped' /\ LocalsTyped' /\ UNCHANGED <<doc, got, lease>>
  BY <1>1 DEF TypeInv, TypeOK, WorldTyped, LocalsTyped, world, locals
<1>3. pc[j] \in Calls /\ doc[j] \in Docs
  BY DEF Tombstone, TombBlob, TombChunks, TombLedger, TombAudit, Hide, Upload, Put, Commit,
         Calls, TypeInv, LocalsReady
<1>4. pc[j] \in {"upload", "put", "commit"} => got[j] \in Rev
  BY DEF TypeInv, LocalsReady, Ingesting
<1>5. snap[j][doc[j]] \in Rev
  BY <1>3 DEF TypeInv, TypeOK, LocalsTyped
<1>6. ControlTyped' /\ LocalsReady'
  <2> USE <1>2, <1>3, <1>4, ReturnsType DEF Label, Calls, Ingesting, TypeInv, TypeOK
  <2>1. CASE TombBlob(j)
    BY <2>1 DEF TombBlob
  <2>2. CASE TombChunks(j)
    BY <2>2 DEF TombChunks
  <2>3. CASE TombLedger(j)
    BY <2>3 DEF TombLedger
  <2>4. CASE TombAudit(j)
    BY <2>4 DEF TombAudit
  <2>5. CASE Hide(j)
    BY <2>5 DEF Hide
  <2>6. CASE Upload(j)
    BY <2>6 DEF Upload
  <2>7. CASE Put(j)
    BY <2>7 DEF Put
  <2>8. CASE Commit(j)
    BY <2>8 DEF Commit
  <2>9. QED
    BY <2>1, <2>2, <2>3, <2>4, <2>5, <2>6, <2>7, <2>8 DEF Tombstone
<1>7. StoresTyped'
  <2> USE <1>3, <1>4, <1>5, ConstantsAssumption DEF TypeInv, TypeOK, StoresTyped
  <2>1. CASE TombBlob(j)
    BY <2>1 DEF TombBlob, Rev
  <2>2. CASE TombChunks(j)
    BY <2>2 DEF TombChunks, NoChunk, Projection, Rev
  <2>3. CASE TombLedger(j)
    BY <2>3 DEF TombLedger, NoRow, Row, Rev, Time
  <2>4. CASE TombAudit(j)
    BY <2>4 DEF TombAudit, Rev
  <2>5. CASE Hide(j)
    <3>1. FailedRow \in Row
      BY DEF FailedRow, Row, Rev, Time, WorldTyped
    <3>2. QED
      BY <2>5, <3>1 DEF Hide
  <2>6. CASE Upload(j)
    BY <2>6 DEF Upload
  <2>7. CASE Put(j)
    BY <2>7 DEF Put, Projection
  <2>8. CASE Commit(j)
    <3>1. got[j] \in Rev
      BY <2>8 DEF Commit
    <3>2. FreshRow(snap[j][doc[j]], got[j]) \in Row
      BY <3>1 DEF FreshRow, Row, Time, WorldTyped
    <3>3. [meta |-> snap[j][doc[j]], text |-> got[j]] \in Projection
      BY <3>1 DEF Projection
    <3>4. QED
      BY <2>8, <3>2, <3>3 DEF Commit
  <2>9. QED
    BY <2>1, <2>2, <2>3, <2>4, <2>5, <2>6, <2>7, <2>8 DEF Tombstone
<1>8. QED
  BY <1>2, <1>6, <1>7 DEF TypeInv, TypeOK

\* The remaining steps on one document.
LEMMA DocumentType ==
    ASSUME TypeInv, NEW j \in Jobs,
           \/ Fetch(j) \/ Screen(j) \/ Audit(j) \/ CallFails(j) \/ RecordFailure(j)
    PROVE  TypeInv'
<1> USE ConstantsAssumption DEF TypeInv, TypeOK, WorldTyped, LocalsTyped, ControlTyped,
                LocalsReady, Goto, Fault, Label, Calls, Ingesting
<1>1. CASE Fetch(j)
  BY <1>1 DEF Fetch, world, stores, Rev, StoresTyped
<1>2. CASE Screen(j)
  BY <1>2 DEF Screen, world, stores, locals, StoresTyped
<1>3. CASE Audit(j)
  <2>1. got[j] \in Rev /\ doc[j] \in Docs
    BY <1>3 DEF Audit
  <2>2. StoresTyped'
    BY <1>3, <2>1 DEF Audit, StoresTyped
  <2>3. WorldTyped' /\ LocalsTyped'
    BY <1>3, <2>1 DEF Audit, world
  <2>4. faults' \in 0..MaxFaults
    BY <1>3 DEF Audit
  <2>5. /\ pc' = [pc EXCEPT ![j] = "loop"] \/ pc' = [pc EXCEPT ![j] = "fail"]
        /\ UNCHANGED <<lease, doc, got>>
    BY <1>3 DEF Audit
  <2>6. ControlTyped' /\ LocalsReady'
    BY <2>1, <2>4, <2>5
  <2>7. QED
    BY <2>2, <2>3, <2>6
<1>4. CASE CallFails(j)
  BY <1>4 DEF CallFails, world, stores, locals, StoresTyped
<1>5. CASE RecordFailure(j)
  <2>1. FailedRow \in Row
    BY DEF FailedRow, Row, Rev, Time
  <2>2. ledger' \in [Docs -> Row]
    BY <1>5, <2>1 DEF RecordFailure, StoresTyped
  <2>3. UNCHANGED <<blob, chunks, acl, trail, newest>>
    BY <1>5 DEF RecordFailure
  <2>4. StoresTyped'
    BY <2>2, <2>3 DEF StoresTyped
  <2>5. WorldTyped' /\ LocalsTyped'
    BY <1>5 DEF RecordFailure, world
  <2>6. ControlTyped' /\ LocalsReady'
    BY <1>5 DEF RecordFailure
  <2>7. QED
    BY <2>4, <2>5, <2>6
<1>6. QED
  BY <1>1, <1>2, <1>3, <1>4, <1>5

\* Every step keeps the types.
LEMMA NextType == TypeInv /\ [Next]_vars => TypeInv'
<1> SUFFICES ASSUME TypeInv, [Next]_vars PROVE TypeInv'
  OBVIOUS
<1>1. ASSUME NEW j \in Jobs, Finish(j) \/ Abort(j) \/ Crash(j) PROVE TypeInv'
  <2>1. Ends(j) /\ faults' \in 0..MaxFaults
    BY <1>1, ConstantsAssumption DEF Finish, Abort, Crash, Fault, TypeInv, TypeOK, ControlTyped
  <2>2. QED
    BY <2>1, EndsType
<1>2. ASSUME NEW j \in Jobs, DropSession(j) PROVE TypeInv'
  BY <1>2, ConstantsAssumption
  DEF DropSession, Fault, TypeInv, TypeOK, WorldTyped, StoresTyped, LocalsTyped, ControlTyped,
      LocalsReady, world, stores, locals
<1>3. CASE UNCHANGED vars
  BY <1>3 DEF vars, world, stores, locals, TypeInv, TypeOK, WorldTyped, StoresTyped,
              LocalsTyped, ControlTyped, LocalsReady
<1>4. QED
  BY <1>1, <1>2, <1>3, EnvironmentType, RunType, CallType, DocumentType
  DEF Next, Work, Plan, Ingest, Breakdown

\* Every variable keeps its type, whatever fails and whenever.
THEOREM TypeCorrect == Spec => []TypeOK
<1>1. TypeInv => TypeOK
  BY DEF TypeInv
<1>2. QED
  BY <1>1, InitType, NextType, PTL DEF Spec

-----------------------------------------------------------------------------
(***************************************************************************)
(* What the lease and the order of the calls in one ingest or tombstone    *)
(* guarantee: the invariants of CorpusRefresh that relate the four stores. *)
(***************************************************************************)
(* The inductive invariant, part by part *)

\* Whoever works holds the lease.
LeaseOwner == \A j \in Jobs : ~ Idle(j) => lease = j

\* Between Hide and Commit the row of the document is FAILED.
HiddenRow ==
    \A j \in Jobs :
        pc[j] \in {"fetch", "screen", "upload", "put", "commit"} =>
            ledger[doc[j]].status = "failed"

\* What Commit is about to record is what Put has stored.
PutReached ==
    \A j \in Jobs :
        pc[j] = "commit" => chunks[doc[j]] = [meta |-> snap[j][doc[j]], text |-> got[j]]

\* A FRESH row describes the chunks, if a half-done tombstone left any.
FreshRowMatches ==
    \A d \in Docs :
        ledger[d].status = "fresh" =>
            chunks[d] \in {NoChunk, [meta |-> ledger[d].meta, text |-> ledger[d].text]}

\* How far a tombstone has come; the row is the last thing it drops.
TombstoneReached ==
    /\ EveryCopyHasARow
    /\ \A j \in Jobs :
          /\ pc[j] \in {"tombChunks", "tombLedger"} => blob[doc[j]] = 0
          /\ pc[j] = "tombLedger" => chunks[doc[j]] = NoChunk

StoresInv == HiddenRow /\ PutReached /\ FreshRowMatches /\ TombstoneReached

IInv == TypeInv /\ LeaseOwner /\ StoresInv

\* Only what passed the guardrail is on its way to a store, or in one.
ScreenedInv ==
    /\ BlockedNeverStored
    /\ \A j \in Jobs : pc[j] \in {"upload", "put", "commit", "audit"} => got[j] \notin Blocked

-----------------------------------------------------------------------------
(* The lease *)

\* Nobody is at work, nobody owns the lease.
LEMMA InitLease == Init => LeaseOwner
BY DEF Init, LeaseOwner, Idle

\* A job that works on keeps the lease it holds; the others stay where they are.
LEMMA WorkingKeepsLease ==
    ASSUME ControlTyped, LeaseOwner, NEW j \in Jobs, ~ Idle(j), UNCHANGED lease,
           NEW label, Goto(j, label)
    PROVE  LeaseOwner'
BY DEF ControlTyped, LeaseOwner, Idle, Goto

\* Every step keeps a busy execution the owner of the lease.
LEMMA LeaseStep ==
    ASSUME ~ SessionDrops, TypeInv, LeaseOwner, [Next]_vars
    PROVE  LeaseOwner'
<1> USE DEF TypeInv, TypeOK
<1>1. ASSUME NEW j \in Jobs, Acquire(j) PROVE LeaseOwner'
  <2>1. \A k \in Jobs : Idle(k)
    BY <1>1, ConstantsAssumption DEF Acquire, LeaseOwner
  <2>2. QED
    BY <1>1, <2>1 DEF Acquire, Goto, ControlTyped, LeaseOwner, Idle
<1>2. ASSUME NEW j \in Jobs, Ends(j) PROVE LeaseOwner'
  BY <1>2 DEF Ends, Goto, ControlTyped, LeaseOwner, Idle
<1>3. ASSUME NEW j \in Jobs, CallFails(j) \/ (Work(j) /\ ~ Finish(j)) PROVE LeaseOwner'
  <2>1. ~ Idle(j) /\ UNCHANGED lease
    BY <1>3
    DEF Work, DownloadAcl, ReplaceAcl, LoadRegistry, Plan, PlanFull, PlanExpired, NextTombstone,
        NextTarget, Tombstone, TombBlob, TombChunks, TombLedger, TombAudit, Ingest, Hide, Fetch,
        Screen, Upload, Put, Commit, Audit, RecordFailure, CallFails, Calls, Idle
  <2>2. PICK label : Goto(j, label)
    BY <1>3
    DEF Work, DownloadAcl, ReplaceAcl, LoadRegistry, Plan, PlanFull, PlanExpired, NextTombstone,
        NextTarget, Tombstone, TombBlob, TombChunks, TombLedger, TombAudit, Ingest, Hide, Fetch,
        Screen, Upload, Put, Commit, Audit, RecordFailure, CallFails, Returns
  <2>3. QED
    BY <2>1, <2>2, WorkingKeepsLease
<1>4. ASSUME Environment \/ UNCHANGED vars PROVE LeaseOwner'
  BY <1>4
  DEF Environment, Publish, Withdraw, PublishBindings, Tick, vars, LeaseOwner, Idle
<1>5. QED
  BY <1>1, <1>2, <1>3, <1>4
  DEF Next, Breakdown, Abort, Crash, DropSession, Work, Finish

\* While the session that holds the advisory lock lives as long as its worker,
\* executions never overlap (refresh_job._managed_refresh_lease).
THEOREM LeaseSerializes ==
    ASSUME ~ SessionDrops
    PROVE  Spec => []LeaseExclusive
<1>1. TypeInv /\ LeaseOwner => LeaseExclusive
  BY DEF LeaseOwner, LeaseExclusive
<1>2. Init => TypeInv /\ LeaseOwner
  BY InitType, InitLease
<1>3. TypeInv /\ LeaseOwner /\ [Next]_vars => TypeInv' /\ LeaseOwner'
  BY NextType, LeaseStep
<1>4. QED
  BY <1>1, <1>2, <1>3, PTL DEF Spec

-----------------------------------------------------------------------------
(* The guardrail *)

\* Nothing is stored or in hand.
LEMMA ScreenedInit == Init => ScreenedInv
BY ConstantsAssumption DEF Init, ScreenedInv, BlockedNeverStored, NoChunk

\* A step that writes neither the bucket nor the chunk rows, and takes no job
\* to one of the labels behind the guardrail that was not there before.
LEMMA ScreenedKept ==
    ASSUME TypeInv, ScreenedInv, UNCHANGED <<blob, chunks>>,
           \A k \in Jobs :
               pc'[k] \in {"upload", "put", "commit", "audit"} =>
                   /\ got'[k] = got[k]
                   /\ pc[k] \in {"upload", "put", "commit", "audit"} \/ got[k] \notin Blocked
    PROVE  ScreenedInv'
BY DEF ScreenedInv, BlockedNeverStored

\* Every step stores what was screened and nothing else.
LEMMA ScreenedStep ==
    ASSUME TypeInv, ScreenedInv, [Next]_vars
    PROVE  ScreenedInv'
<1>0. /\ pc \in [Jobs -> Label] /\ got \in [Jobs -> 0..(MaxRev + MaxAcl)]
      /\ blob \in [Docs -> Rev] /\ chunks \in [Docs -> Projection]
  BY DEF TypeInv, TypeOK, ControlTyped, LocalsTyped, StoresTyped
<1>1. ASSUME NEW j \in Jobs,
             \/ Acquire(j) \/ DownloadAcl(j) \/ ReplaceAcl(j) \/ LoadRegistry(j)
             \/ PlanFull(j) \/ PlanExpired(j) \/ NextTombstone(j) \/ NextTarget(j)
      PROVE  ScreenedInv'
  BY <1>0, <1>1, ScreenedKept
  DEF Acquire, DownloadAcl, ReplaceAcl, LoadRegistry, PlanFull, PlanExpired, NextTombstone,
      NextTarget, Goto, stores, locals
<1>2. ASSUME NEW j \in Jobs,
             \/ TombLedger(j) \/ TombAudit(j) \/ Hide(j) \/ Fetch(j) \/ Screen(j)
             \/ Audit(j) \/ CallFails(j) \/ RecordFailure(j)
      PROVE  ScreenedInv'
  BY <1>0, <1>2, ScreenedKept
  DEF TombLedger, TombAudit, Hide, Fetch, Screen, Audit, CallFails, RecordFailure, Goto,
      Returns, stores, locals
<1>3. ASSUME NEW j \in Jobs, Ends(j) PROVE ScreenedInv'
  BY <1>0, <1>3, ScreenedKept DEF Ends, Goto, stores
<1>4. ASSUME NEW j \in Jobs, TombBlob(j) \/ TombChunks(j) \/ Upload(j) \/ Put(j)
      PROVE  ScreenedInv'
  <2>1. UNCHANGED got
    BY <1>4 DEF TombBlob, TombChunks, Upload, Put, locals
  <2>2. \A k \in Jobs : pc'[k] \in {"upload", "put", "commit", "audit"} => got[k] \notin Blocked
    BY <1>0, <1>4 DEF TombBlob, TombChunks, Upload, Put, Returns, Goto, ScreenedInv
  <2>3. \A d \in Docs : blob'[d] \notin Blocked
    BY <1>0, <1>4, ConstantsAssumption
    DEF TombBlob, TombChunks, Upload, Put, ScreenedInv, BlockedNeverStored
  <2>4. \A d \in Docs : chunks'[d].text \notin Blocked
    BY <1>0, <1>4, ConstantsAssumption
    DEF TombBlob, TombChunks, Upload, Put, ScreenedInv, BlockedNeverStored, NoChunk
  <2>5. QED
    BY <2>1, <2>2, <2>3, <2>4 DEF ScreenedInv, BlockedNeverStored
<1>5. ASSUME NEW j \in Jobs, Commit(j) PROVE ScreenedInv'
  BY <1>0, <1>5, ScreenedKept DEF Commit, Returns, Goto, locals
<1>6. ASSUME \/ \E j \in Jobs : DropSession(j)
             \/ Environment
             \/ UNCHANGED vars
      PROVE  ScreenedInv'
  BY <1>6, ScreenedKept
  DEF DropSession, Environment, Publish, Withdraw, PublishBindings, Tick, vars, stores, locals
<1>7. QED
  BY <1>1, <1>2, <1>3, <1>4, <1>5, <1>6
  DEF Next, Breakdown, Abort, Crash, Work, Plan, Tombstone, Ingest, Finish

\* No content the guardrail refuses is ever stored, lease or no lease, whatever
\* fails (IngestionService._ingest_inner).
THEOREM GuardrailHolds == Spec => []BlockedNeverStored
<1>1. TypeInv /\ ScreenedInv => BlockedNeverStored
  BY DEF ScreenedInv
<1>2. Init => TypeInv /\ ScreenedInv
  BY InitType, ScreenedInit
<1>3. TypeInv /\ ScreenedInv /\ [Next]_vars => TypeInv' /\ ScreenedInv'
  BY NextType, ScreenedStep
<1>4. QED
  BY <1>1, <1>2, <1>3, PTL DEF Spec

-----------------------------------------------------------------------------
(* The four stores *)

\* The stores are empty.
LEMMA StoresInit == Init => StoresInv
BY DEF Init, StoresInv, HiddenRow, PutReached, FreshRowMatches, TombstoneReached,
       EveryCopyHasARow, NoRow, NoChunk

Midway == {"fetch", "screen", "upload", "put", "commit", "tombChunks", "tombLedger"}

\* A step that writes none of the three stores and does not take a job into
\* the middle of an ingest or a tombstone.
LEMMA StoresKept ==
    ASSUME TypeInv, StoresInv, UNCHANGED <<blob, chunks, ledger>>,
           \A k \in Jobs :
               pc'[k] \in Midway =>
                   pc'[k] = pc[k] /\ doc'[k] = doc[k] /\ snap'[k] = snap[k] /\ got'[k] = got[k]
    PROVE  StoresInv'
<1>1. EveryCopyHasARow' /\ FreshRowMatches'
  BY DEF StoresInv, TombstoneReached, EveryCopyHasARow, FreshRowMatches
<1>2. HiddenRow'
  BY DEF StoresInv, HiddenRow, Midway
<1>3. PutReached'
  BY DEF StoresInv, PutReached, Midway
<1>4. TombstoneReached'
  BY <1>1 DEF StoresInv, TombstoneReached, Midway
<1>5. QED
  BY <1>1, <1>2, <1>3, <1>4 DEF StoresInv

\* While one job works, no other job is in the middle of anything.
LEMMA Alone ==
    ASSUME TypeInv, LeaseOwner, NEW j \in Jobs, ~ Idle(j), NEW label, Goto(j, label)
    PROVE  \A k \in Jobs : pc'[k] # "idle" => k = j
BY DEF TypeInv, TypeOK, ControlTyped, LeaseOwner, Idle, Goto

\* A step that leaves the stores alone keeps what ties them together.
LEMMA QuietStep ==
    ASSUME IInv, NEW j \in Jobs,
           \/ Acquire(j) \/ DownloadAcl(j) \/ ReplaceAcl(j) \/ LoadRegistry(j)
           \/ PlanFull(j) \/ PlanExpired(j) \/ NextTombstone(j) \/ NextTarget(j)
           \/ TombAudit(j) \/ Audit(j) \/ CallFails(j) \/ Ends(j)
    PROVE  StoresInv'
<1>0. pc \in [Jobs -> Label] /\ snap \in [Jobs -> [Docs -> Rev]]
      /\ doc \in [Jobs -> Docs \cup {None}] /\ got \in [Jobs -> 0..(MaxRev + MaxAcl)]
  BY DEF IInv, TypeInv, TypeOK, ControlTyped, LocalsTyped
<1>1. UNCHANGED <<blob, chunks, ledger>>
  BY DEF Acquire, DownloadAcl, ReplaceAcl, LoadRegistry, PlanFull, PlanExpired, NextTombstone,
         NextTarget, TombAudit, Audit, CallFails, Ends, stores
<1>2. \A k \in Jobs \ {j} :
          pc'[k] = pc[k] /\ doc'[k] = doc[k] /\ snap'[k] = snap[k] /\ got'[k] = got[k]
  BY <1>0
  DEF Acquire, DownloadAcl, ReplaceAcl, LoadRegistry, PlanFull, PlanExpired, NextTombstone,
      NextTarget, TombAudit, Audit, CallFails, Ends, Goto, Returns, locals
<1>3. pc'[j] \notin Midway
  BY <1>0
  DEF Acquire, DownloadAcl, ReplaceAcl, LoadRegistry, PlanFull, PlanExpired, NextTombstone,
      NextTarget, TombAudit, Audit, CallFails, Ends, Goto, Returns, Midway
<1>4. QED
  BY <1>1, <1>2, <1>3, StoresKept DEF IInv

\* A step of the job that works, on the document it works on: what has to be
\* shown of that job and that document.
LEMMA WorkingStep ==
    ASSUME IInv, NEW j \in Jobs, ~ Idle(j), NEW label, Goto(j, label), doc[j] \in Docs,
           UNCHANGED <<doc, snap>>,
           \A d \in Docs \ {doc[j]} :
               blob'[d] = blob[d] /\ chunks'[d] = chunks[d] /\ ledger'[d] = ledger[d],
           ledger'[doc[j]] = NoRow => blob'[doc[j]] = 0 /\ chunks'[doc[j]] = NoChunk,
           ledger'[doc[j]].status = "fresh" =>
               chunks'[doc[j]] \in
                   {NoChunk, [meta |-> ledger'[doc[j]].meta, text |-> ledger'[doc[j]].text]},
           label \in {"fetch", "screen", "upload", "put", "commit"} =>
               ledger'[doc[j]].status = "failed",
           label = "commit" => chunks'[doc[j]] = [meta |-> snap[j][doc[j]], text |-> got'[j]],
           label \in {"tombChunks", "tombLedger"} => blob'[doc[j]] = 0,
           label = "tombLedger" => chunks'[doc[j]] = NoChunk
    PROVE  StoresInv'
<1>1. \A k \in Jobs : pc'[k] # "idle" => k = j
  BY Alone DEF IInv
<1>2. pc'[j] = label
  BY DEF Goto, IInv, TypeInv, TypeOK, ControlTyped
<1>3. EveryCopyHasARow' /\ FreshRowMatches'
  BY DEF IInv, StoresInv, TombstoneReached, EveryCopyHasARow, FreshRowMatches
<1>4. HiddenRow'
  BY <1>1, <1>2 DEF HiddenRow
<1>5. PutReached'
  BY <1>1, <1>2 DEF PutReached
<1>6. TombstoneReached'
  BY <1>1, <1>2, <1>3 DEF TombstoneReached
<1>7. QED
  BY <1>3, <1>4, <1>5, <1>6 DEF StoresInv

\* So does each step that writes one of them.
LEMMA StoringStep ==
    ASSUME IInv, NEW j \in Jobs,
           \/ TombBlob(j) \/ TombChunks(j) \/ TombLedger(j) \/ Hide(j) \/ Fetch(j)
           \/ Screen(j) \/ Upload(j) \/ Put(j) \/ Commit(j) \/ RecordFailure(j)
    PROVE  StoresInv'
<1>1. ~ Idle(j) /\ doc[j] \in Docs /\ UNCHANGED <<doc, snap>>
  BY DEF TombBlob, TombChunks, TombLedger, Hide, Fetch, Screen, Upload, Put, Commit,
         RecordFailure, Idle, IInv, TypeInv, LocalsReady, Calls, locals
<1>2. /\ blob \in [Docs -> Rev] /\ chunks \in [Docs -> Projection] /\ ledger \in [Docs -> Row]
      /\ got \in [Jobs -> 0..(MaxRev + MaxAcl)]
  BY DEF IInv, TypeInv, TypeOK, StoresTyped, LocalsTyped
<1>3. /\ ledger[doc[j]] = NoRow => blob[doc[j]] = 0 /\ chunks[doc[j]] = NoChunk
      /\ ledger[doc[j]].status = "fresh" =>
             chunks[doc[j]] \in
                 {NoChunk, [meta |-> ledger[doc[j]].meta, text |-> ledger[doc[j]].text]}
      /\ pc[j] \in {"fetch", "screen", "upload", "put", "commit"} =>
             ledger[doc[j]].status = "failed"
      /\ pc[j] = "commit" => chunks[doc[j]] = [meta |-> snap[j][doc[j]], text |-> got[j]]
      /\ pc[j] \in {"tombChunks", "tombLedger"} => blob[doc[j]] = 0
      /\ pc[j] = "tombLedger" => chunks[doc[j]] = NoChunk
  BY <1>1 DEF IInv, StoresInv, HiddenRow, PutReached, FreshRowMatches, TombstoneReached,
              EveryCopyHasARow
<1>4. CASE TombBlob(j)
  BY <1>1, <1>2, <1>3, <1>4, WorkingStep DEF TombBlob, Returns
<1>5. CASE TombChunks(j)
  BY <1>1, <1>2, <1>3, <1>5, WorkingStep DEF TombChunks, Returns
<1>6. CASE TombLedger(j)
  BY <1>1, <1>2, <1>3, <1>6, WorkingStep DEF TombLedger, Returns, NoRow
<1>7. CASE Hide(j)
  BY <1>1, <1>2, <1>3, <1>7, WorkingStep DEF Hide, Returns, FailedRow, NoRow
<1>8. CASE Fetch(j)
  BY <1>1, <1>2, <1>3, <1>8, WorkingStep DEF Fetch, stores
<1>9. CASE Screen(j)
  BY <1>1, <1>2, <1>3, <1>9, WorkingStep DEF Screen, stores
<1>10. CASE Upload(j)
  <2>1. ledger[doc[j]].status = "failed" /\ ledger[doc[j]] # NoRow
    BY <1>3, <1>10 DEF Upload, NoRow
  <2>2. UNCHANGED <<chunks, ledger>> /\ \A d \in Docs \ {doc[j]} : blob'[d] = blob[d]
    BY <1>1, <1>2, <1>10 DEF Upload
  <2>3. CASE Goto(j, "put")
    BY <1>1, <2>1, <2>2, <2>3, WorkingStep
  <2>4. CASE Goto(j, "fail")
    BY <1>1, <2>1, <2>2, <2>4, WorkingStep
  <2>5. QED
    BY <1>10, <2>3, <2>4 DEF Upload, Returns
<1>11. CASE Put(j)
  <2>1. ledger[doc[j]].status = "failed" /\ ledger[doc[j]] # NoRow
    BY <1>3, <1>11 DEF Put, NoRow
  <2>2. /\ UNCHANGED <<blob, ledger, got>>
        /\ \A d \in Docs \ {doc[j]} : chunks'[d] = chunks[d]
        /\ chunks'[doc[j]] = [meta |-> snap[j][doc[j]], text |-> got[j]]
    BY <1>1, <1>2, <1>11 DEF Put, locals
  <2>3. CASE Goto(j, "commit")
    BY <1>1, <2>1, <2>2, <2>3, WorkingStep
  <2>4. CASE Goto(j, "fail")
    BY <1>1, <2>1, <2>2, <2>4, WorkingStep
  <2>5. QED
    BY <1>11, <2>3, <2>4 DEF Put, Returns
<1>12. CASE Commit(j)
  BY <1>1, <1>2, <1>3, <1>12, WorkingStep DEF Commit, Returns, FreshRow, NoRow
<1>13. CASE RecordFailure(j)
  <2>1. Goto(j, "loop") /\ UNCHANGED <<blob, chunks>>
    BY <1>13 DEF RecordFailure
  <2>2. CASE UNCHANGED ledger
    BY <1>1, <1>3, <2>1, <2>2, WorkingStep
  <2>3. CASE ledger' = [ledger EXCEPT ![doc[j]] = FailedRow]
    <3>1. /\ ledger'[doc[j]].status = "failed" /\ ledger'[doc[j]] # NoRow
          /\ \A d \in Docs \ {doc[j]} : ledger'[d] = ledger[d]
      BY <1>1, <1>2, <2>3 DEF FailedRow, NoRow
    <3>2. QED
      BY <1>1, <2>1, <3>1, WorkingStep
  <2>4. QED
    BY <1>13, <2>2, <2>3 DEF RecordFailure
<1>14. QED
  BY <1>4, <1>5, <1>6, <1>7, <1>8, <1>9, <1>10, <1>11, <1>12, <1>13

\* Every step of the lease's owner is one or the other.
LEMMA StoresStep ==
    ASSUME ~ SessionDrops, IInv, [Next]_vars
    PROVE  StoresInv'
<1>1. ASSUME Environment \/ UNCHANGED vars PROVE StoresInv'
  BY <1>1, StoresKept
  DEF Environment, Publish, Withdraw, PublishBindings, Tick, vars, stores, locals, IInv
<1>2. QED
  BY <1>1, QuietStep, StoringStep
  DEF Next, Breakdown, Abort, Crash, DropSession, Work, Plan, Tombstone, Ingest, Finish

\* The invariant of the stores holds as long as sessions do not drop.
LEMMA InvariantHolds ==
    ASSUME ~ SessionDrops
    PROVE  Spec => []IInv
<1>1. Init => IInv
  BY InitType, InitLease, StoresInit DEF IInv
<1>2. IInv /\ [Next]_vars => IInv'
  BY NextType, LeaseStep, StoresStep DEF IInv
<1>3. QED
  BY <1>1, <1>2, PTL DEF Spec

\* No search sees a document between the hiding of its old projection and the
\* commit of the new one (ingest._hide_old_projection_before_refresh).
THEOREM HiddenUntilCommitted ==
    ASSUME ~ SessionDrops
    PROVE  Spec => []HiddenWhileReingesting
<1>1. IInv => HiddenWhileReingesting
  BY DEF IInv, StoresInv, HiddenRow, HiddenWhileReingesting, Served
<1>2. QED
  BY <1>1, InvariantHolds, PTL

\* What a search sees is what the freshness row records, although the chunks
\* and the row are written by two transactions.
THEOREM ServedMatchesLedger ==
    ASSUME ~ SessionDrops
    PROVE  Spec => []ServedIsWhatLedgerRecords
<1>1. IInv => ServedIsWhatLedgerRecords
  BY DEF IInv, StoresInv, FreshRowMatches, ServedIsWhatLedgerRecords, Served
<1>2. QED
  BY <1>1, InvariantHolds, PTL

\* A pass that looks for withdrawn documents in the ledger overlooks none.
THEOREM LedgerCoversCopies ==
    ASSUME ~ SessionDrops
    PROVE  Spec => []EveryCopyHasARow
<1>1. IInv => EveryCopyHasARow
  BY DEF IInv, StoresInv, TombstoneReached
<1>2. QED
  BY <1>1, InvariantHolds, PTL

-----------------------------------------------------------------------------
(***************************************************************************)
(* What a pass of the refresh job guarantees from its plan to its end, for *)
(* any number of documents, executions, revisions and failures.            *)
(*                                                                         *)
(* Three invariants stand on IInv, each on the one before.  OrderInv says  *)
(* that what a pass carries is never older than what it will overwrite;    *)
(* RowInv, what the kind of a document's ledger row says of its copies;    *)
(* PassInv, that a document is waiting, in hand, failed or settled.        *)
(***************************************************************************)
Tombstoning == {"tombBlob", "tombChunks", "tombLedger", "tombAudit"}

Passing == Calls \cup {"loop", "fail"}

NoOlderThan(x, meta, text) == x.meta <= meta /\ x.text <= text

\* What is registered is the newest publication, and nothing stored is newer.
PublishedOrder ==
    /\ acl <= bindings
    /\ \A d \in Docs :
          /\ registry[d] \in {0, bytes[d]}
          /\ NoOlderThan(chunks[d], bytes[d], bytes[d])
          /\ NoOlderThan(newest[d], bytes[d], bytes[d])

\* What a job holds is no older than the stores it will write it to.
CarriedOrder(j) ==
    /\ pc[j] = "aclReplace" => acl <= got[j] /\ got[j] <= bindings
    /\ pc[j] \in Passing \cup {"plan"} =>
          \A d \in Docs :
              /\ snap[j][d] <= bytes[d]
              /\ snap[j][d] # 0 => chunks[d].meta <= snap[j][d] /\ newest[d].meta <= snap[j][d]
    /\ pc[j] \in Calls \ Tombstoning => snap[j][doc[j]] # 0
    /\ pc[j] \in Ingesting =>
          /\ got[j] <= bytes[doc[j]]
          /\ chunks[doc[j]].text <= got[j] /\ newest[doc[j]].text <= got[j]
    /\ \A d \in todo[j] : snap[j][d] # 0
    /\ pc[j] \notin Passing => todo[j] = {}

OrderInv == PublishedOrder /\ \A j \in Jobs : CarriedOrder(j)

\* A document that is no longer registered was withdrawn, and only published
\* documents have rows.  A FRESH row without chunks is left by a tombstone.
RowsOfPublished ==
    \A d \in Docs :
        /\ registry[d] = 0 /\ bytes[d] # 0 => d \in withdrawn
        /\ ledger[d] # NoRow => bytes[d] # 0
        /\ ledger[d].status = "absent" => ledger[d] = NoRow
        /\ ledger[d].status = "failed" => Expired(ledger[d])
        /\ ledger[d].status = "fresh" => chunks[d] # NoChunk \/ d \in withdrawn

\* A tombstone is only ever of a document that was withdrawn.
TombsOfWithdrawn(j) ==
    /\ pc[j] = "plan" =>
          \A d \in Docs : snap[j][d] = 0 /\ ledger[d] # NoRow => d \in withdrawn /\ bytes[d] # 0
    /\ \A d \in tomb[j] : d \in withdrawn /\ bytes[d] # 0 /\ snap[j][d] = 0
    /\ pc[j] \in Tombstoning => doc[j] \in withdrawn /\ snap[j][doc[j]] = 0
    /\ pc[j] \in Calls \cup {"fail"} => bytes[doc[j]] # 0
    /\ pc[j] \notin Passing => tomb[j] = {}

RowInv == RowsOfPublished /\ \A j \in Jobs : TombsOfWithdrawn(j)

InHand(j, d) == pc[j] \in Calls \cup {"fail"} /\ doc[j] = d

\* How far the document in hand has come.
HandReached(j) ==
    /\ pc[j] \in {"put", "commit", "audit"} => blob[doc[j]] = got[j]
    /\ pc[j] = "audit" =>
          /\ ledger[doc[j]].status = "fresh"
          /\ ledger[doc[j]].meta = snap[j][doc[j]] /\ ledger[doc[j]].text = got[j]
          /\ chunks[doc[j]] = [meta |-> snap[j][doc[j]], text |-> got[j]]
    /\ pc[j] = "tombAudit" => ledger[doc[j]] = NoRow

Reported(j, d) ==
    /\ ledger[d].status = "fresh"
    /\ chunks[d] = [meta |-> snap[j][d], text |-> blob[d]]
    /\ trail[d] = blob[d]
    /\ snap[j][d] # 0

Ingested(d) ==
    /\ ledger[d].status = "fresh"
    /\ \/ chunks[d] = [meta |-> ledger[d].meta, text |-> ledger[d].text]
       \/ d \in withdrawn

Gone(d) == ledger[d] = NoRow /\ chunks[d] = NoChunk /\ blob[d] = 0

Settled(j, d) ==
    IF Registered(d, snap[j])
    THEN d \in todo[j] \/ Ingested(d)
    ELSE d \in tomb[j] \/ full[j] \/ Gone(d)

\* A document reported is not taken up again, and unless something failed every
\* document is in hand, waiting or settled.
PassInv(j) ==
    /\ HandReached(j)
    /\ \A d \in done[j] : Reported(j, d) /\ d \notin todo[j] /\ ~ InHand(j, d)
    /\ \A d \in todo[j] : ~ InHand(j, d)
    /\ pc[j] \notin Passing => done[j] = {}
    /\ pc[j] \in Passing => bad[j] \/ \A d \in Docs : InHand(j, d) \/ Settled(j, d)
-----------------------------------------------------------------------------
(* One execution at a time *)

\* Whatever an execution does: a step of its own, or its end.
JobStep(j) ==
    \/ Acquire(j) \/ DownloadAcl(j) \/ ReplaceAcl(j) \/ LoadRegistry(j) \/ Plan(j)
    \/ NextTombstone(j) \/ NextTarget(j) \/ Tombstone(j) \/ Ingest(j) \/ RecordFailure(j)
    \/ CallFails(j) \/ Ends(j)

Untouched(k) ==
    /\ pc'[k] = pc[k] /\ full'[k] = full[k] /\ snap'[k] = snap[k] /\ tomb'[k] = tomb[k]
    /\ todo'[k] = todo[k] /\ done'[k] = done[k] /\ bad'[k] = bad[k] /\ doc'[k] = doc[k]
    /\ got'[k] = got[k]

\* A step of one execution leaves the locals of the others alone.
LEMMA Frame ==
    ASSUME TypeInv, NEW j \in Jobs, JobStep(j), NEW k \in Jobs \ {j}
    PROVE  Untouched(k)
<1>0. /\ pc \in [Jobs -> Label] /\ snap \in [Jobs -> [Docs -> Rev]]
      /\ full \in [Jobs -> BOOLEAN] /\ bad \in [Jobs -> BOOLEAN]
      /\ tomb \in [Jobs -> SUBSET Docs] /\ todo \in [Jobs -> SUBSET Docs]
      /\ done \in [Jobs -> SUBSET Docs] /\ doc \in [Jobs -> Docs \cup {None}]
      /\ got \in [Jobs -> 0..(MaxRev + MaxAcl)]
  BY DEF TypeInv, TypeOK, ControlTyped, LocalsTyped
<1>1. CASE Acquire(j) \/ DownloadAcl(j) \/ ReplaceAcl(j) \/ LoadRegistry(j)
  BY <1>0, <1>1 DEF Acquire, DownloadAcl, ReplaceAcl, LoadRegistry, Goto, locals, Untouched
<1>2. CASE PlanFull(j) \/ PlanExpired(j) \/ NextTombstone(j) \/ NextTarget(j)
  BY <1>0, <1>2 DEF PlanFull, PlanExpired, NextTombstone, NextTarget, Goto, locals, Untouched
<1>3. CASE Tombstone(j)
  BY <1>0, <1>3
  DEF Tombstone, TombBlob, TombChunks, TombLedger, TombAudit, Returns, Goto, locals, Untouched
<1>4. CASE Hide(j) \/ Upload(j) \/ Put(j) \/ Commit(j)
  BY <1>0, <1>4 DEF Hide, Upload, Put, Commit, Returns, Goto, locals, Untouched
<1>5. CASE Fetch(j) \/ Screen(j) \/ Audit(j)
  BY <1>0, <1>5 DEF Fetch, Screen, Audit, Goto, locals, Untouched
<1>6. CASE CallFails(j) \/ RecordFailure(j)
  BY <1>0, <1>6 DEF CallFails, RecordFailure, Goto, locals, Untouched
<1>7. CASE Ends(j)
  BY <1>0, <1>7 DEF Ends, Goto, Untouched
<1>8. QED
  BY <1>1, <1>2, <1>3, <1>4, <1>5, <1>6, <1>7 DEF JobStep, Plan, Ingest

\* While one execution works, or begins to, the others are idle.
LEMMA OthersIdle ==
    ASSUME IInv, NEW j \in Jobs, Acquire(j) \/ ~ Idle(j), NEW k \in Jobs \ {j}
    PROVE  pc[k] = "idle"
BY ConstantsAssumption DEF IInv, LeaseOwner, Acquire, Idle

\* Next, by who takes the step.
LEMMA NextSteps ==
    ASSUME ~ SessionDrops, [Next]_vars
    PROVE  \/ \E j \in Jobs : JobStep(j) /\ (Acquire(j) \/ ~ Idle(j))
           \/ Environment
           \/ UNCHANGED vars
<1>1. ASSUME NEW j \in Jobs, Work(j) \/ Breakdown(j) PROVE JobStep(j) /\ ~ Idle(j)
  <2>1. JobStep(j)
    BY <1>1 DEF Work, Breakdown, JobStep, Finish, Abort, Crash, DropSession
  <2>2. ~ Idle(j)
    BY <1>1
    DEF Work, DownloadAcl, ReplaceAcl, LoadRegistry, Plan, PlanFull, PlanExpired, NextTombstone,
        NextTarget, Tombstone, TombBlob, TombChunks, TombLedger, TombAudit, Ingest, Hide, Fetch,
        Screen, Upload, Put, Commit, Audit, RecordFailure, Finish, PassOver, Breakdown,
        CallFails, Calls, Abort, Crash, DropSession, Idle
  <2>3. QED
    BY <2>1, <2>2
<1>2. QED
  BY <1>1 DEF Next, JobStep
-----------------------------------------------------------------------------
(* What a pass carries is not older than what it overwrites *)

\* Nothing is carried and nothing stored.
LEMMA OrderInit == Init => OrderInv
BY ConstantsAssumption
DEF Init, OrderInv, PublishedOrder, CarriedOrder, NoOlderThan, NoChunk, Passing, Calls,
    Tombstoning, Ingesting

\* An idle execution carries nothing.
LEMMA IdleCarries ==
    ASSUME NEW k \in Jobs, pc[k] = "idle", Untouched(k), CarriedOrder(k)
    PROVE  CarriedOrder(k)'
BY DEF CarriedOrder, Untouched, Passing, Calls, Tombstoning, Ingesting

\* Publishing only makes what is published newer.
LEMMA OrderWorld ==
    ASSUME TypeInv, OrderInv, Environment \/ UNCHANGED vars
    PROVE  OrderInv'
<1>1. UNCHANGED <<stores, pc, locals>>
  BY DEF Environment, Publish, Withdraw, PublishBindings, Tick, vars
<1>2. /\ bindings' >= bindings
      /\ \A d \in Docs : bytes'[d] >= bytes[d] /\ registry'[d] \in {0, bytes'[d]}
  BY DEF Environment, Publish, Withdraw, PublishBindings, Tick, vars, world, TypeInv, TypeOK,
         WorldTyped, OrderInv, PublishedOrder, Rev
<1>3. /\ bindings' \in Nat /\ bindings \in Nat
      /\ bytes \in [Docs -> Nat] /\ bytes' \in [Docs -> Nat]
  BY DEF Environment, Publish, Withdraw, PublishBindings, Tick, vars, world, TypeInv, TypeOK,
         WorldTyped, Rev
<1>4. /\ acl \in Nat /\ chunks \in [Docs -> [meta : Nat, text : Nat]]
      /\ newest \in [Docs -> [meta : Nat, text : Nat]]
      /\ snap \in [Jobs -> [Docs -> Nat]] /\ got \in [Jobs -> Nat]
      /\ \A j \in Jobs : pc[j] \in Calls \cup {"fail"} => doc[j] \in Docs
  BY ConstantsAssumption
  DEF TypeInv, TypeOK, StoresTyped, LocalsTyped, LocalsReady, Projection, Rev
<1>5. PublishedOrder'
  BY <1>1, <1>2, <1>3, <1>4 DEF stores, OrderInv, PublishedOrder, NoOlderThan
<1>6. ASSUME NEW j \in Jobs PROVE CarriedOrder(j)'
  BY <1>1, <1>2, <1>3, <1>4
  DEF stores, locals, OrderInv, CarriedOrder, Passing, Calls, Ingesting
<1>7. QED
  BY <1>5, <1>6 DEF OrderInv

\* The step of an execution that works, or begins to.
LEMMA OrderJob ==
    ASSUME TypeInv, OrderInv, NEW j \in Jobs, JobStep(j)
    PROVE  PublishedOrder' /\ CarriedOrder(j)'
<1>0. /\ pc \in [Jobs -> Label] /\ acl \in Nat /\ bindings \in Nat /\ bytes \in [Docs -> Nat]
      /\ registry \in [Docs -> Nat]
      /\ chunks \in [Docs -> [meta : Nat, text : Nat]]
      /\ newest \in [Docs -> [meta : Nat, text : Nat]]
      /\ snap \in [Jobs -> [Docs -> Nat]] /\ got \in [Jobs -> Nat]
      /\ todo \in [Jobs -> SUBSET Docs] /\ doc \in [Jobs -> Docs \cup {None}]
      /\ pc[j] \in Calls \cup {"fail"} => doc[j] \in Docs
  BY ConstantsAssumption
  DEF TypeInv, TypeOK, WorldTyped, StoresTyped, LocalsTyped, ControlTyped, LocalsReady,
      Projection, Rev
<1> USE DEF OrderInv, PublishedOrder, CarriedOrder, NoOlderThan, Passing, Calls, Tombstoning,
            Ingesting
<1>1. CASE Acquire(j) \/ DownloadAcl(j) \/ ReplaceAcl(j) \/ LoadRegistry(j)
  <2>1. CASE Acquire(j)
    BY <1>0, <2>1 DEF Acquire, Goto, Idle, world, stores, locals
  <2>2. CASE DownloadAcl(j)
    <3>1. /\ pc[j] = "aclDownload" /\ pc'[j] = "aclReplace" /\ got'[j] = bindings
          /\ UNCHANGED <<acl, bindings, registry, bytes, chunks, newest, snap, todo>>
      BY <1>0, <2>2 DEF DownloadAcl, Goto, world, stores
    <3>2. todo[j] = {} /\ PublishedOrder'
      BY <3>1
    <3>3. QED
      BY <1>0, <3>1, <3>2
  <2>3. CASE ReplaceAcl(j)
    BY <1>0, <2>3 DEF ReplaceAcl, Goto, world
  <2>4. CASE LoadRegistry(j)
    <3>1. /\ pc[j] = "load" /\ pc'[j] = "plan" /\ snap'[j] = registry
          /\ UNCHANGED <<acl, bindings, registry, bytes, chunks, newest, todo>>
      BY <1>0, <2>4 DEF LoadRegistry, Goto, world, stores
    <3>2. todo[j] = {} /\ PublishedOrder'
      BY <3>1
    <3>3. \A d \in Docs :
              /\ registry[d] <= bytes[d]
              /\ registry[d] # 0 =>
                     chunks[d].meta <= registry[d] /\ newest[d].meta <= registry[d]
      BY <1>0
    <3>4. QED
      BY <3>1, <3>2, <3>3
  <2>5. QED
    BY <1>1, <2>1, <2>2, <2>3, <2>4
<1>2. CASE PlanFull(j) \/ PlanExpired(j)
  BY <1>0, <1>2 DEF PlanFull, PlanExpired, Registered, Goto, world, stores
<1>3. CASE NextTombstone(j) \/ NextTarget(j)
  BY <1>0, <1>3 DEF NextTombstone, NextTarget, Goto, world, stores
<1>4. CASE Tombstone(j)
  <2>1. CASE TombBlob(j) \/ TombLedger(j) \/ TombAudit(j)
    BY <1>0, <2>1 DEF TombBlob, TombLedger, TombAudit, Returns, Goto, world, locals
  <2>2. CASE TombChunks(j)
    BY <1>0, <2>2 DEF TombChunks, Returns, Goto, world, locals, NoChunk
  <2>3. QED
    BY <1>4, <2>1, <2>2 DEF Tombstone
<1>5. CASE Hide(j) \/ Upload(j) \/ CallFails(j) \/ RecordFailure(j)
  BY <1>0, <1>5
  DEF Hide, Upload, CallFails, RecordFailure, Returns, Goto, world, stores, locals
<1>6. CASE Fetch(j) \/ Screen(j) \/ Audit(j)
  BY <1>0, <1>6 DEF Fetch, Screen, Audit, Goto, world, stores, locals
<1>7. CASE Put(j)
  <2>1. /\ pc[j] = "put" /\ pc'[j] \in {"commit", "fail"} /\ doc[j] \in Docs
        /\ chunks' = [chunks EXCEPT ![doc[j]] = [meta |-> snap[j][doc[j]], text |-> got[j]]]
        /\ UNCHANGED <<acl, bindings, registry, bytes, newest, snap, todo, doc, got>>
    BY <1>0, <1>7 DEF Put, Returns, Goto, world, locals
  <2>2. /\ chunks'[doc[j]].meta = snap[j][doc[j]] /\ chunks'[doc[j]].text = got[j]
        /\ \A d \in Docs \ {doc[j]} : chunks'[d] = chunks[d]
    BY <1>0, <2>1
  <2>3. /\ snap[j][doc[j]] <= bytes[doc[j]] /\ got[j] <= bytes[doc[j]]
        /\ snap[j][doc[j]] \in Nat /\ got[j] \in Nat
    BY <1>0, <2>1
  <2>4. PublishedOrder'
    BY <2>1, <2>2, <2>3
  <2>5. \A d \in Docs :
            /\ snap[j][d] <= bytes[d]
            /\ snap[j][d] # 0 => chunks'[d].meta <= snap[j][d] /\ newest'[d].meta <= snap[j][d]
    BY <2>1, <2>2, <2>3
  <2>6. chunks'[doc[j]].text <= got[j] /\ newest'[doc[j]].text <= got[j]
    BY <2>1, <2>2, <2>3
  <2>7. snap[j][doc[j]] # 0 /\ \A d \in todo[j] : snap[j][d] # 0
    BY <2>1
  <2>8. QED
    BY <2>1, <2>3, <2>4, <2>5, <2>6, <2>7
<1>8. CASE Commit(j)
  <2>1. /\ pc[j] = "commit" /\ pc'[j] \in {"audit", "fail"} /\ doc[j] \in Docs
        /\ newest' = [newest EXCEPT ![doc[j]] = [meta |-> snap[j][doc[j]], text |-> got[j]]]
        /\ UNCHANGED <<acl, bindings, registry, bytes, chunks, snap, todo, doc, got>>
    BY <1>0, <1>8 DEF Commit, Returns, Goto, world, locals
  <2>2. /\ newest'[doc[j]].meta = snap[j][doc[j]] /\ newest'[doc[j]].text = got[j]
        /\ \A d \in Docs \ {doc[j]} : newest'[d] = newest[d]
    BY <1>0, <2>1
  <2>3. /\ snap[j][doc[j]] <= bytes[doc[j]] /\ got[j] <= bytes[doc[j]]
        /\ snap[j][doc[j]] \in Nat /\ got[j] \in Nat
    BY <1>0, <2>1
  <2>4. PublishedOrder'
    BY <2>1, <2>2, <2>3
  <2>5. \A d \in Docs :
            /\ snap[j][d] <= bytes[d]
            /\ snap[j][d] # 0 => chunks'[d].meta <= snap[j][d] /\ newest'[d].meta <= snap[j][d]
    BY <2>1, <2>2, <2>3
  <2>6. chunks'[doc[j]].text <= got[j] /\ newest'[doc[j]].text <= got[j]
    BY <2>1, <2>2, <2>3
  <2>7. snap[j][doc[j]] # 0 /\ \A d \in todo[j] : snap[j][d] # 0
    BY <2>1
  <2>8. QED
    BY <2>1, <2>3, <2>4, <2>5, <2>6, <2>7
<1>9. CASE Ends(j)
  BY <1>0, <1>9 DEF Ends, Goto, world, stores
<1>10. QED
  BY <1>1, <1>2, <1>3, <1>4, <1>5, <1>6, <1>7, <1>8, <1>9 DEF JobStep, Plan, Ingest

\* Every step keeps what is carried at least as new as what is stored.
LEMMA OrderStep ==
    ASSUME ~ SessionDrops, IInv, OrderInv, [Next]_vars
    PROVE  OrderInv'
<1>1. ASSUME NEW j \in Jobs, JobStep(j), Acquire(j) \/ ~ Idle(j) PROVE OrderInv'
  <2>1. PublishedOrder' /\ CarriedOrder(j)'
    BY <1>1, OrderJob DEF IInv
  <2>2. ASSUME NEW k \in Jobs \ {j} PROVE CarriedOrder(k)'
    <3>1. pc[k] = "idle" /\ Untouched(k)
      BY <1>1, OthersIdle, Frame DEF IInv
    <3>2. CarriedOrder(k)
      BY DEF OrderInv
    <3>3. QED
      BY <3>1, <3>2, IdleCarries
  <2>3. QED
    BY <2>1, <2>2 DEF OrderInv
<1>2. QED
  BY <1>1, NextSteps, OrderWorld DEF IInv

\* What an execution carries is never older than what it will overwrite.
LEMMA OrderHolds ==
    ASSUME ~ SessionDrops
    PROVE  Spec => [](IInv /\ OrderInv)
<1>1. IInv /\ OrderInv /\ [Next]_vars => OrderInv'
  BY OrderStep
<1>2. QED
  BY OrderInit, <1>1, InvariantHolds, PTL DEF Spec

\* What one step may do to the chunk rows and the freshness row of a document.
\* Only a commit makes a row FRESH, and only of chunks that are there.
LEMMA WhatAStepStores ==
    ASSUME ~ SessionDrops, IInv, OrderInv, [Next]_vars
    PROVE  /\ acl <= acl'
           /\ \A d \in Docs :
                 \/ chunks'[d] = chunks[d]
                 \/ chunks'[d] = NoChunk
                 \/ /\ chunks[d].meta <= chunks'[d].meta /\ chunks[d].text <= chunks'[d].text
                    /\ ledger[d].status = "failed" /\ ledger'[d] = ledger[d]
<1>0. /\ acl \in Nat /\ chunks \in [Docs -> [meta : Nat, text : Nat]]
      /\ snap \in [Jobs -> [Docs -> Nat]] /\ got \in [Jobs -> Nat]
      /\ \A j \in Jobs : pc[j] \in Calls \cup {"fail"} => doc[j] \in Docs
  BY ConstantsAssumption
  DEF IInv, TypeInv, TypeOK, StoresTyped, LocalsTyped, LocalsReady, Projection, Rev
<1>1. ASSUME NEW j \in Jobs, Put(j), NEW d \in Docs
      PROVE  /\ UNCHANGED <<acl, ledger>>
             /\ \/ chunks'[d] = chunks[d]
                \/ /\ chunks[d].meta <= chunks'[d].meta /\ chunks[d].text <= chunks'[d].text
                   /\ ledger[d].status = "failed"
  <2>1. /\ pc[j] = "put" /\ doc[j] \in Docs /\ UNCHANGED <<acl, ledger>>
        /\ chunks' = [chunks EXCEPT ![doc[j]] = [meta |-> snap[j][doc[j]], text |-> got[j]]]
    BY <1>0, <1>1 DEF Put, Calls
  <2>2. CASE d # doc[j]
    BY <1>0, <2>1, <2>2
  <2>3. CASE d = doc[j]
    <3>1. chunks'[d].meta = snap[j][d] /\ chunks'[d].text = got[j]
      BY <1>0, <2>1, <2>3
    <3>2. ledger[d].status = "failed"
      BY <2>1, <2>3 DEF IInv, StoresInv, HiddenRow
    <3>3. chunks[d].text <= got[j] /\ snap[j][d] # 0 /\ chunks[d].meta <= snap[j][d]
      BY <2>1, <2>3
      DEF OrderInv, CarriedOrder, Ingesting, Passing, Calls, Tombstoning
    <3>4. QED
      BY <2>1, <3>1, <3>2, <3>3
  <2>4. QED
    BY <2>2, <2>3, <2>1
<1>2. ASSUME NEW j \in Jobs, ReplaceAcl(j) PROVE UNCHANGED chunks /\ acl <= acl'
  BY <1>2 DEF ReplaceAcl, OrderInv, CarriedOrder
<1>3. ASSUME NEW j \in Jobs, TombChunks(j)
      PROVE  UNCHANGED acl /\ \A d \in Docs : chunks'[d] = chunks[d] \/ chunks'[d] = NoChunk
  BY <1>0, <1>3 DEF TombChunks
<1>4. ASSUME NEW j \in Jobs, JobStep(j), ~ Put(j), ~ ReplaceAcl(j), ~ TombChunks(j)
      PROVE  UNCHANGED <<acl, chunks>>
  BY <1>4
  DEF JobStep, Acquire, DownloadAcl, LoadRegistry, Plan, PlanFull, PlanExpired, NextTombstone,
      NextTarget, Tombstone, TombBlob, TombLedger, TombAudit, Ingest, Hide, Fetch, Screen,
      Upload, Commit, Audit, RecordFailure, CallFails, Ends, stores
<1>5. ASSUME Environment \/ UNCHANGED vars PROVE UNCHANGED <<acl, chunks>>
  BY <1>5 DEF Environment, Publish, Withdraw, PublishBindings, Tick, vars, stores
<1>6. QED
  <2>1. ASSUME NEW j \in Jobs, JobStep(j), ~ Put(j) PROVE acl <= acl'
    BY <1>0, <1>2, <1>3, <1>4, <2>1
  <2>2. ASSUME NEW j \in Jobs, Put(j) PROVE acl <= acl'
    BY <1>0, <2>2 DEF Put
  <2>3. acl <= acl'
    BY <1>0, <1>5, <2>1, <2>2, NextSteps
  <2>4. QED
    BY <1>1, <1>2, <1>3, <1>4, <1>5, <2>3, NextSteps

\* No execution writes an older ACL projection, registry entry or content over
\* a newer one, however long it was delayed between loading and writing
\* (refresh_job.run, under the lease).
THEOREM ProjectionsNeverGoBack ==
    ASSUME ~ SessionDrops
    PROVE  Spec => NoOlderProjection
<1> DEFINE Forward ==
        /\ acl' >= acl
        /\ \A d \in Docs :
              chunks[d] # NoChunk /\ chunks'[d] # NoChunk =>
                  /\ chunks'[d].meta >= chunks[d].meta
                  /\ chunks'[d].text >= chunks[d].text
<1>1. ASSUME IInv, OrderInv, [Next]_vars PROVE Forward
  <2>1. /\ acl \in Nat /\ chunks \in [Docs -> [meta : Nat, text : Nat]]
    BY <1>1 DEF IInv, TypeInv, TypeOK, StoresTyped, Projection, Rev
  <2>2. /\ acl' \in Nat /\ chunks' \in [Docs -> [meta : Nat, text : Nat]]
    BY <1>1, NextType DEF IInv, TypeInv, TypeOK, StoresTyped, Projection, Rev
  <2>3. acl' >= acl
    BY <1>1, <2>1, <2>2, WhatAStepStores
  <2>4. ASSUME NEW d \in Docs, chunks[d] # NoChunk, chunks'[d] # NoChunk
        PROVE  chunks'[d].meta >= chunks[d].meta /\ chunks'[d].text >= chunks[d].text
    BY <1>1, <2>1, <2>2, <2>4, WhatAStepStores
  <2>5. QED
    BY <2>3, <2>4
<1> HIDE DEF Forward
<1>2. IInv /\ OrderInv /\ [Next]_vars => [Forward]_vars
  BY <1>1
<1>3. Spec => [][Forward]_vars
  BY <1>2, OrderHolds, PTL DEF Spec
<1>4. QED
  BY <1>3 DEF Forward, NoOlderProjection
-----------------------------------------------------------------------------
(* The job implements ServedCorpus *)

\* A step that commits nothing serves nothing that was not served before.
LEMMA OtherStepsOnlyHide ==
    ASSUME ~ SessionDrops, IInv, OrderInv, [Next]_vars, \A j \in Jobs : ~ Commit(j)
    PROVE  /\ UNCHANGED newest
           /\ \A d \in Docs : Served(d)' => Served(d) /\ chunks'[d] = chunks[d]
<1>0. /\ ledger \in [Docs -> Row] /\ clock \in Nat /\ clock' \in Nat /\ clock' >= clock
      /\ \A d \in Docs : ledger[d].expires \in Nat
      /\ \A j \in Jobs : pc[j] \in Calls \cup {"fail"} => doc[j] \in Docs
  <2>1. clock \in Nat /\ ledger \in [Docs -> Row]
    BY DEF IInv, TypeInv, TypeOK, WorldTyped, StoresTyped
  <2>2. clock' \in Nat
    BY NextType DEF IInv, TypeInv, TypeOK, WorldTyped
  <2>3. ASSUME NEW j \in Jobs, JobStep(j) PROVE clock' = clock
    BY <2>3
    DEF JobStep, Acquire, DownloadAcl, ReplaceAcl, LoadRegistry, Plan, PlanFull, PlanExpired,
        NextTombstone, NextTarget, Tombstone, TombBlob, TombChunks, TombLedger, TombAudit,
        Ingest, Hide, Fetch, Screen, Upload, Put, Commit, Audit, RecordFailure, CallFails,
        Ends, world
  <2>4. ASSUME Environment \/ UNCHANGED vars PROVE clock' = clock \/ clock' = clock + 1
    BY <2>4 DEF Environment, Publish, Withdraw, PublishBindings, Tick, vars, world
  <2>5. clock' >= clock
    BY <2>1, <2>3, <2>4, NextSteps
  <2>6. \A d \in Docs : ledger[d].expires \in Nat
    BY <2>1, ConstantsAssumption DEF Row, Time
  <2>7. QED
    BY <2>1, <2>2, <2>5, <2>6 DEF IInv, TypeInv, LocalsReady
<1>1. UNCHANGED newest
  <2>1. ASSUME NEW j \in Jobs, JobStep(j) PROVE UNCHANGED newest
    BY <2>1
    DEF JobStep, Acquire, DownloadAcl, ReplaceAcl, LoadRegistry, Plan, PlanFull, PlanExpired,
        NextTombstone, NextTarget, Tombstone, TombBlob, TombChunks, TombLedger, TombAudit,
        Ingest, Hide, Fetch, Screen, Upload, Put, Audit, RecordFailure, CallFails, Ends, stores
  <2>2. ASSUME Environment \/ UNCHANGED vars PROVE UNCHANGED newest
    BY <2>2 DEF Environment, Publish, Withdraw, PublishBindings, Tick, vars, stores
  <2>3. QED
    BY <2>1, <2>2, NextSteps
<1>2. ASSUME NEW d \in Docs PROVE ledger'[d] = ledger[d] \/ ledger'[d].status # "fresh"
  <2>1. ASSUME NEW j \in Jobs, JobStep(j), Hide(j) \/ TombLedger(j) \/ RecordFailure(j)
        PROVE  ledger'[d] = ledger[d] \/ ledger'[d].status # "fresh"
    BY <1>0, <2>1 DEF Hide, TombLedger, RecordFailure, FailedRow, NoRow
  <2>2. ASSUME NEW j \in Jobs, JobStep(j), ~ Hide(j), ~ TombLedger(j), ~ RecordFailure(j)
        PROVE  UNCHANGED ledger
    BY <2>2
    DEF JobStep, Acquire, DownloadAcl, ReplaceAcl, LoadRegistry, Plan, PlanFull, PlanExpired,
        NextTombstone, NextTarget, Tombstone, TombBlob, TombChunks, TombAudit, Ingest, Fetch,
        Screen, Upload, Put, Audit, CallFails, Ends, stores
  <2>3. ASSUME Environment \/ UNCHANGED vars PROVE UNCHANGED ledger
    BY <2>3 DEF Environment, Publish, Withdraw, PublishBindings, Tick, vars, stores
  <2>4. QED
    BY <2>1, <2>2, <2>3, NextSteps
<1>3. ASSUME NEW d \in Docs, Served(d)' PROVE Served(d) /\ chunks'[d] = chunks[d]
  <2>1. ledger'[d].status = "fresh" /\ ledger'[d].expires > clock' /\ chunks'[d] # NoChunk
    BY <1>3 DEF Served
  <2>2. ledger'[d] = ledger[d]
    BY <1>2, <2>1
  <2>3. chunks'[d] = chunks[d]
    BY <2>1, <2>2, WhatAStepStores
  <2>4. ledger[d].expires > clock
    BY <1>0, <2>1, <2>2
  <2>5. QED
    BY <2>1, <2>2, <2>3, <2>4 DEF Served
<1>4. QED
  BY <1>1, <1>3

\* A commit serves the content that was put and screened, and nothing was
\* served of the document before.
LEMMA CommitServes ==
    ASSUME ~ SessionDrops, IInv, OrderInv, ScreenedInv, NEW j \in Jobs, Commit(j),
           NEW d, d = doc[j]
    PROVE  /\ d \in Docs /\ ~ Served(d) /\ Served(d)'
           /\ newest' = [newest EXCEPT ![d] = chunks'[d]]
           /\ NoOlderThan(newest[d], chunks'[d].meta, chunks'[d].text)
           /\ chunks'[d].text \notin Blocked
           /\ \A e \in Docs \ {d} : (Served(e)' <=> Served(e)) /\ chunks'[e] = chunks[e]
<1>1. /\ pc[j] = "commit" /\ UNCHANGED <<chunks, clock>>
      /\ ledger' = [ledger EXCEPT ![d] = FreshRow(snap[j][d], got[j])]
      /\ newest' = [newest EXCEPT ![d] = [meta |-> snap[j][d], text |-> got[j]]]
  BY DEF Commit, world
<1>2. /\ d \in Docs /\ ledger \in [Docs -> Row] /\ clock \in Nat
      /\ newest \in [Docs -> Projection] /\ TTL \in Nat \ {0}
  BY <1>1, ConstantsAssumption
  DEF IInv, TypeInv, TypeOK, WorldTyped, StoresTyped, LocalsReady, Calls
<1>3. chunks[d] = [meta |-> snap[j][d], text |-> got[j]]
  BY <1>1 DEF IInv, StoresInv, PutReached
<1>4. ~ Served(d)
  BY <1>1 DEF IInv, StoresInv, HiddenRow, Served
<1>5. /\ snap[j][d] # 0 /\ newest[d].meta <= snap[j][d]
      /\ newest[d].text <= got[j]
  BY <1>1, <1>2 DEF OrderInv, CarriedOrder, Calls, Tombstoning, Passing, Ingesting
<1>6. Served(d)'
  <2>1. ledger'[d].status = "fresh" /\ ledger'[d].expires = clock + TTL
    BY <1>1, <1>2 DEF FreshRow
  <2>2. chunks'[d] # NoChunk
    BY <1>1, <1>3, <1>5 DEF NoChunk
  <2>3. clock + TTL > clock /\ clock' = clock
    BY <1>1, <1>2
  <2>4. QED
    BY <2>1, <2>2, <2>3 DEF Served
<1>7. got[j] \notin Blocked
  BY <1>1 DEF ScreenedInv
<1>8. \A e \in Docs \ {d} : (Served(e)' <=> Served(e)) /\ chunks'[e] = chunks[e]
  BY <1>1, <1>2 DEF Served
<1>9. QED
  BY <1>1, <1>2, <1>3, <1>4, <1>5, <1>6, <1>7, <1>8 DEF NoOlderThan

\* What readers see of the job's four stores is a behaviour of ServedCorpus: a
\* projection is never replaced in place, and what comes back is screened and
\* no older (ingest_document, refresh_expired).
THEOREM RefreshImplementsServedCorpus ==
    ASSUME ~ SessionDrops
    PROVE  Spec => ImplementsServedCorpus
<1> DEFINE seen == [d \in Docs |-> IF Served(d) THEN chunks[d] ELSE NoChunk]
<1>1. Init => Corpus!Init
  BY DEF Init, Corpus!Init, Corpus!Nothing, Served, NoChunk
<1>2. ASSUME IInv, OrderInv, ScreenedInv, [Next]_vars
      PROVE  [Corpus!Next]_<<seen, newest>>
  <2>1. ASSUME NEW j \in Jobs, Commit(j) PROVE Corpus!Next
    <3>0. PICK d : d = doc[j]
      OBVIOUS
    <3>1. /\ d \in Docs /\ ~ Served(d) /\ Served(d)'
          /\ newest' = [newest EXCEPT ![d] = chunks'[d]]
          /\ NoOlderThan(newest[d], chunks'[d].meta, chunks'[d].text)
          /\ chunks'[d].text \notin Blocked
          /\ \A e \in Docs \ {d} : (Served(e)' <=> Served(e)) /\ chunks'[e] = chunks[e]
      BY <1>2, <2>1, <3>0, CommitServes
    <3>2. newest \in [Docs -> [meta : Nat, text : Nat]]
      BY <1>2 DEF IInv, TypeInv, TypeOK, StoresTyped, Projection, Rev
    <3>3. newest'[d] = chunks'[d]
      BY <3>1, <3>2
    <3>4. chunks' \in [Docs -> [meta : Nat, text : Nat]]
      BY <1>2, NextType DEF IInv, TypeInv, TypeOK, StoresTyped, Projection, Rev
    <3>5. seen[d] = NoChunk
      BY <3>1
    <3>6. seen' = [seen EXCEPT ![d] = newest'[d]]
      BY <3>1, <3>3
    <3>7. newest'[d].meta >= newest[d].meta /\ newest'[d].text >= newest[d].text
      BY <3>1, <3>2, <3>3, <3>4 DEF NoOlderThan
    <3>8. Corpus!Serve(d)
      BY <3>1, <3>3, <3>5, <3>6, <3>7 DEF Corpus!Serve, Corpus!Nothing, NoChunk
    <3>9. QED
      BY <3>1, <3>8 DEF Corpus!Next
  <2>2. CASE \A j \in Jobs : ~ Commit(j)
    <3>1. /\ UNCHANGED newest
          /\ \A d \in Docs : Served(d)' => Served(d) /\ chunks'[d] = chunks[d]
      BY <1>2, <2>2, OtherStepsOnlyHide
    <3> DEFINE S == {d \in Docs : ~ Served(d)'}
    <3>2. seen' = [d \in Docs |-> IF d \in S THEN NoChunk ELSE seen[d]]
      BY <3>1
    <3>3. Corpus!Hide
      BY <3>1, <3>2 DEF Corpus!Hide, Corpus!Nothing, NoChunk
    <3>4. QED
      BY <3>3 DEF Corpus!Next
  <2>3. QED
    BY <2>1, <2>2
<1>3. IInv /\ OrderInv /\ ScreenedInv /\ [Next]_vars => [Corpus!Next]_<<seen, newest>>
  BY <1>2
<1>4. TypeInv /\ ScreenedInv /\ [Next]_vars => ScreenedInv'
  BY ScreenedStep
<1>5. IInv => TypeInv
  BY DEF IInv
<1>6. Spec => Corpus!Spec
  BY OrderHolds, ScreenedInit, <1>1, <1>3, <1>4, <1>5, PTL DEF Spec, Corpus!Spec
<1>7. QED
  BY <1>6 DEF ImplementsServedCorpus
-----------------------------------------------------------------------------
(* What the kind of a ledger row says *)

\* There are no rows.
LEMMA RowInit == Init => RowInv
BY ConstantsAssumption
DEF Init, RowInv, RowsOfPublished, TombsOfWithdrawn, NoRow, NoChunk, Passing, Calls, Tombstoning

\* An idle execution has no tombstone to write.
LEMMA IdleTombsNothing ==
    ASSUME NEW k \in Jobs, pc[k] = "idle", Untouched(k), TombsOfWithdrawn(k)
    PROVE  TombsOfWithdrawn(k)'
BY DEF TombsOfWithdrawn, Untouched, Passing, Calls, Tombstoning

\* Publishers and time turn no row into one that is taken for another.
LEMMA RowWorld ==
    ASSUME TypeInv, RowInv, Environment \/ UNCHANGED vars
    PROVE  RowInv'
<1>1. UNCHANGED <<stores, pc, locals>>
  BY DEF Environment, Publish, Withdraw, PublishBindings, Tick, vars
<1>2. /\ bytes \in [Docs -> Nat] /\ registry \in [Docs -> Nat] /\ clock \in Nat
      /\ \A d \in Docs : ledger[d].expires \in Nat
      /\ \A j \in Jobs : pc[j] \in Calls \cup {"fail"} => doc[j] \in Docs
      /\ tomb \in [Jobs -> SUBSET Docs]
  BY ConstantsAssumption
  DEF TypeInv, TypeOK, WorldTyped, StoresTyped, LocalsTyped, LocalsReady, Row, Time, Rev
<1>3. /\ withdrawn \subseteq withdrawn' /\ clock' \in Nat /\ clock' >= clock
      /\ \A d \in Docs : bytes[d] # 0 => bytes'[d] # 0
  BY <1>2 DEF Environment, Publish, Withdraw, PublishBindings, Tick, vars, world
<1>4. \A d \in Docs : registry'[d] = 0 /\ bytes'[d] # 0 => d \in withdrawn'
  BY <1>2 DEF Environment, Publish, Withdraw, PublishBindings, Tick, vars, world, RowInv,
              RowsOfPublished
<1>5. RowsOfPublished'
  BY <1>1, <1>2, <1>3, <1>4 DEF stores, RowInv, RowsOfPublished, Expired
<1>6. ASSUME NEW j \in Jobs PROVE TombsOfWithdrawn(j)'
  BY <1>1, <1>2, <1>3
  DEF stores, locals, RowInv, TombsOfWithdrawn, Passing, Calls, Tombstoning
<1>7. QED
  BY <1>5, <1>6 DEF RowInv

\* The step of an execution that works, or begins to.
LEMMA RowJob ==
    ASSUME IInv, OrderInv, RowInv, NEW j \in Jobs, JobStep(j)
    PROVE  RowsOfPublished' /\ TombsOfWithdrawn(j)'
<1>0. /\ pc \in [Jobs -> Label] /\ bytes \in [Docs -> Nat] /\ registry \in [Docs -> Nat]
      /\ clock \in Nat
      /\ chunks \in [Docs -> Projection] /\ ledger \in [Docs -> Row]
      /\ snap \in [Jobs -> [Docs -> Nat]] /\ got \in [Jobs -> Nat]
      /\ tomb \in [Jobs -> SUBSET Docs] /\ todo \in [Jobs -> SUBSET Docs]
      /\ doc \in [Jobs -> Docs \cup {None}]
      /\ pc[j] \in Calls \cup {"fail"} => doc[j] \in Docs
  BY ConstantsAssumption
  DEF IInv, TypeInv, TypeOK, WorldTyped, StoresTyped, LocalsTyped, ControlTyped, LocalsReady,
      Rev
<1> USE DEF RowInv, RowsOfPublished, TombsOfWithdrawn, Passing, Calls, Tombstoning
<1>1. CASE Acquire(j) \/ DownloadAcl(j) \/ ReplaceAcl(j)
  BY <1>0, <1>1
  DEF Acquire, DownloadAcl, ReplaceAcl, Goto, Idle, world, stores, locals, Expired
<1>2. CASE LoadRegistry(j)
  BY <1>0, <1>2 DEF LoadRegistry, Goto, world, stores, Expired
<1>3. CASE PlanFull(j) \/ PlanExpired(j)
  BY <1>0, <1>3 DEF PlanFull, PlanExpired, Registered, Goto, world, stores, Expired
<1>4. CASE NextTombstone(j)
  BY <1>0, <1>4 DEF NextTombstone, Goto, world, stores, Expired
<1>5. CASE NextTarget(j)
  <2>1. ASSUME NEW d \in todo[j] PROVE bytes[d] # 0
    BY <1>0, <1>5, <2>1 DEF NextTarget, OrderInv, CarriedOrder
  <2>2. QED
    BY <1>0, <1>5, <2>1 DEF NextTarget, Goto, world, stores, Expired
<1>6. CASE TombBlob(j) \/ TombAudit(j) \/ Upload(j) \/ CallFails(j)
  BY <1>0, <1>6
  DEF TombBlob, TombAudit, Upload, CallFails, Returns, Goto, world, stores, locals, Expired
<1>7. CASE Fetch(j) \/ Screen(j) \/ Audit(j)
  BY <1>0, <1>7 DEF Fetch, Screen, Audit, Goto, world, stores, locals, Expired
<1>8. CASE TombChunks(j)
  BY <1>0, <1>8 DEF TombChunks, Returns, Goto, world, locals, Expired
<1>9. CASE TombLedger(j)
  BY <1>0, <1>9 DEF TombLedger, Returns, Goto, world, locals, Expired, NoRow
<1>10. CASE Hide(j) \/ RecordFailure(j)
  <2>1. /\ pc[j] \in {"hide", "fail"} /\ pc'[j] \in {"fetch", "loop", "fail"}
        /\ UNCHANGED <<registry, bytes, clock, withdrawn, chunks, snap, tomb, doc>>
        /\ doc[j] \in Docs
        /\ UNCHANGED ledger \/ ledger' = [ledger EXCEPT ![doc[j]] = FailedRow]
    BY <1>0, <1>10 DEF Hide, RecordFailure, Returns, Goto, world, locals
  <2>2. \A d \in Docs : ledger'[d] \in {ledger[d], FailedRow}
    BY <1>0, <2>1
  <2>3. \A d \in Docs : ledger'[d] = ledger[d] \/ d = doc[j]
    BY <1>0, <2>1
  <2>4. FailedRow.status = "failed" /\ Expired(FailedRow)
    BY <1>0 DEF FailedRow, Expired
  <2>5. RowsOfPublished'
    BY <2>1, <2>2, <2>3, <2>4 DEF Expired
  <2>6. TombsOfWithdrawn(j)'
    BY <2>1
  <2>7. QED
    BY <2>5, <2>6
<1>11. CASE Put(j)
  <2>1. snap[j][doc[j]] # 0
    BY <1>11 DEF Put, OrderInv, CarriedOrder
  <2>2. QED
    BY <1>0, <1>11, <2>1 DEF Put, Returns, Goto, world, locals, Expired, NoChunk
<1>12. CASE Commit(j)
  <2>1. snap[j][doc[j]] # 0
    BY <1>12 DEF Commit, OrderInv, CarriedOrder
  <2>2. chunks[doc[j]] # NoChunk
    BY <1>12, <2>1 DEF Commit, IInv, StoresInv, PutReached, NoChunk
  <2>3. QED
    BY <1>0, <1>12, <2>2 DEF Commit, Returns, Goto, world, locals, Expired, FreshRow
<1>13. CASE Ends(j)
  BY <1>0, <1>13 DEF Ends, Goto, world, stores, Expired
<1>14. QED
  BY <1>1, <1>2, <1>3, <1>4, <1>5, <1>6, <1>7, <1>8, <1>9, <1>10, <1>11, <1>12, <1>13
  DEF JobStep, Plan, Tombstone, Ingest

\* Every step keeps what the kind of a row says of its document.
LEMMA RowStep ==
    ASSUME ~ SessionDrops, IInv, OrderInv, RowInv, [Next]_vars
    PROVE  RowInv'
<1>1. ASSUME NEW j \in Jobs, JobStep(j), Acquire(j) \/ ~ Idle(j) PROVE RowInv'
  <2>1. RowsOfPublished' /\ TombsOfWithdrawn(j)'
    BY <1>1, RowJob
  <2>2. ASSUME NEW k \in Jobs \ {j} PROVE TombsOfWithdrawn(k)'
    <3>1. pc[k] = "idle" /\ Untouched(k)
      BY <1>1, OthersIdle, Frame DEF IInv
    <3>2. TombsOfWithdrawn(k)
      BY DEF RowInv
    <3>3. QED
      BY <3>1, <3>2, IdleTombsNothing
  <2>3. QED
    BY <2>1, <2>2 DEF RowInv
<1>2. QED
  BY <1>1, NextSteps, RowWorld DEF IInv

\* A row's kind tells whether its document is published, withdrawn or to be retried.
LEMMA RowHolds ==
    ASSUME ~ SessionDrops
    PROVE  Spec => [](IInv /\ OrderInv /\ RowInv)
<1>1. IInv /\ OrderInv /\ RowInv /\ [Next]_vars => RowInv'
  BY RowStep
<1>2. QED
  BY OrderHolds, RowInit, <1>1, PTL DEF Spec

\* A document that was never withdrawn and that no search sees has no row or an
\* expired one, so that the next expired-only pass takes it up again, wherever
\* the passes before were interrupted (refresh_expired, _record_failure).
THEOREM UnservedDocumentsAreRetried ==
    ASSUME ~ SessionDrops
    PROVE  Spec => []UnservedIsRetried
<1>1. ASSUME IInv, RowInv, NEW d \in Docs \ withdrawn
      PROVE  ledger[d] = NoRow \/ Served(d) \/ Expired(ledger[d])
  <2>1. /\ ledger[d].status \in {"absent", "failed", "fresh"}
        /\ ledger[d].expires \in Nat /\ clock \in Nat
    BY <1>1, ConstantsAssumption
    DEF IInv, TypeInv, TypeOK, WorldTyped, StoresTyped, Row, Time
  <2>2. CASE ledger[d].status = "fresh"
    BY <1>1, <2>1, <2>2 DEF RowInv, RowsOfPublished, Served, Expired
  <2>3. CASE ledger[d].status # "fresh"
    BY <1>1, <2>1, <2>3 DEF RowInv, RowsOfPublished
  <2>4. QED
    BY <2>2, <2>3
<1>2. IInv /\ RowInv => UnservedIsRetried
  BY <1>1 DEF UnservedIsRetried
<1>3. QED
  BY RowHolds, <1>2, PTL
-----------------------------------------------------------------------------
(* Every document of a pass is waiting, in hand, failed or settled *)

\* No pass has begun.
LEMMA PassInit == Init => \A j \in Jobs : PassInv(j)
BY DEF Init, PassInv, HandReached, InHand, Passing, Calls

\* An idle execution has reported nothing.
LEMMA IdlePass ==
    ASSUME NEW k \in Jobs, pc[k] = "idle", Untouched(k), PassInv(k)
    PROVE  PassInv(k)'
BY DEF PassInv, HandReached, InHand, Untouched, Passing, Calls

\* A withdrawal settles no less.
LEMMA PassWorld ==
    ASSUME Environment \/ UNCHANGED vars, NEW j \in Jobs, PassInv(j)
    PROVE  PassInv(j)'
<1>1. UNCHANGED <<stores, pc, locals>> /\ withdrawn \subseteq withdrawn'
  BY DEF Environment, Publish, Withdraw, PublishBindings, Tick, vars, world
<1>2. QED
  BY <1>1 DEF stores, locals, PassInv, HandReached, InHand, Reported, Settled, Ingested, Gone,
              Registered

\* A call on the document in hand leaves what is said of the other documents.
LEMMA HandKept ==
    ASSUME NEW j \in Jobs, PassInv(j), HandReached(j)',
           pc[j] \in Calls \cup {"fail"}, pc'[j] \in Calls \cup {"fail"},
           UNCHANGED <<withdrawn, full, snap, tomb, todo, done, bad, doc>>,
           \A d \in Docs \ {doc[j]} :
               /\ blob'[d] = blob[d] /\ chunks'[d] = chunks[d]
               /\ ledger'[d] = ledger[d] /\ trail'[d] = trail[d],
           done[j] \subseteq Docs
    PROVE  PassInv(j)'
<1>1. \A d \in done[j] : d \in Docs \ {doc[j]} /\ Reported(j, d)
  BY DEF PassInv, InHand
<1>2. \A d \in done[j] : Reported(j, d)' /\ d \notin todo'[j] /\ ~ InHand(j, d)'
  BY <1>1 DEF PassInv, InHand, Reported
<1>3. \A d \in todo[j] : ~ InHand(j, d)'
  BY DEF PassInv, InHand
<1>4. bad[j] \/ \A d \in Docs : InHand(j, d)' \/ Settled(j, d)'
  <2>1. pc[j] \in Passing /\ pc'[j] \in Passing
    BY DEF Passing
  <2>2. ASSUME NEW d \in Docs \ {doc[j]}, Settled(j, d) PROVE Settled(j, d)'
    BY <2>2 DEF Settled, Ingested, Gone, Registered
  <2>3. QED
    BY <2>1, <2>2 DEF PassInv, InHand
<1>5. pc'[j] \in Passing
  BY DEF Passing
<1>6. QED
  BY <1>2, <1>3, <1>4, <1>5 DEF PassInv

\* Back at the loop: the document in hand is settled, or its failure reported.
LEMMA HandDone ==
    ASSUME NEW j \in Jobs, PassInv(j), pc[j] \in Calls \cup {"fail"}, pc'[j] = "loop",
           UNCHANGED <<withdrawn, full, snap, tomb, todo, doc>>,
           \A d \in Docs \ {doc[j]} :
               /\ blob'[d] = blob[d] /\ chunks'[d] = chunks[d]
               /\ ledger'[d] = ledger[d] /\ trail'[d] = trail[d],
           done[j] \subseteq Docs,
           \/ done'[j] = done[j]
           \/ done'[j] = done[j] \cup {doc[j]} /\ Reported(j, doc[j])',
           bad'[j] \/ (bad'[j] = bad[j] /\ Settled(j, doc[j])')
    PROVE  PassInv(j)'
<1>0. pc[j] \in Passing /\ pc'[j] \in Passing /\ pc'[j] \notin Calls \cup {"fail"}
  BY DEF Passing, Calls
<1>1. \A d \in done[j] : d \in Docs \ {doc[j]} /\ Reported(j, d)
  BY DEF PassInv, InHand
<1>2. \A d \in done[j] : Reported(j, d)' /\ d \notin todo'[j]
  <2>1. \A d \in done[j] : d \notin todo'[j]
    BY DEF PassInv
  <2>2. ASSUME NEW d \in done[j] PROVE Reported(j, d)'
    <3>1. /\ snap' = snap /\ chunks'[d] = chunks[d] /\ ledger'[d] = ledger[d]
          /\ blob'[d] = blob[d] /\ trail'[d] = trail[d] /\ Reported(j, d)
      BY <1>1
    <3>2. QED
      BY <3>1 DEF Reported
  <2>3. QED
    BY <2>1, <2>2
<1>3. doc[j] \notin todo'[j]
  BY DEF PassInv, InHand
<1>4. \A d \in Docs : ~ InHand(j, d)'
  BY <1>0 DEF InHand
<1>5. \A d \in done'[j] : Reported(j, d)' /\ d \notin todo'[j] /\ ~ InHand(j, d)'
  <2>1. \A d \in done'[j] : ~ InHand(j, d)'
    BY <1>0 DEF InHand
  <2>2. QED
    BY <1>2, <1>3, <2>1
<1>6. bad'[j] \/ \A d \in Docs : Settled(j, d)'
  <2>1. ASSUME NEW d \in Docs \ {doc[j]}, Settled(j, d) PROVE Settled(j, d)'
    BY <2>1 DEF Settled, Ingested, Gone, Registered
  <2>2. QED
    BY <1>0, <2>1 DEF PassInv, InHand
<1>7. HandReached(j)' /\ \A d \in todo'[j] : ~ InHand(j, d)'
  BY <1>0 DEF HandReached, InHand
<1>8. QED
  BY <1>0, <1>5, <1>6, <1>7 DEF PassInv

\* Before the loop, and when a document is taken up.
LEMMA PassPlans ==
    ASSUME IInv, OrderInv, RowInv, NEW j \in Jobs, PassInv(j),
           \/ Acquire(j) \/ DownloadAcl(j) \/ ReplaceAcl(j) \/ LoadRegistry(j) \/ Plan(j)
           \/ NextTombstone(j) \/ NextTarget(j) \/ Ends(j)
    PROVE  PassInv(j)'
<1>0. /\ pc \in [Jobs -> Label] /\ ledger \in [Docs -> Row]
      /\ full \in [Jobs -> BOOLEAN] /\ snap \in [Jobs -> [Docs -> Rev]]
      /\ tomb \in [Jobs -> SUBSET Docs] /\ todo \in [Jobs -> SUBSET Docs]
      /\ done \in [Jobs -> SUBSET Docs] /\ doc \in [Jobs -> Docs \cup {None}]
  BY DEF IInv, TypeInv, TypeOK, StoresTyped, LocalsTyped, ControlTyped
<1>1. CASE Acquire(j) \/ DownloadAcl(j) \/ ReplaceAcl(j) \/ LoadRegistry(j)
  <2>1. /\ pc[j] \notin Passing /\ pc'[j] \notin Passing /\ UNCHANGED <<done, todo>>
    BY <1>0, <1>1
    DEF Acquire, DownloadAcl, ReplaceAcl, LoadRegistry, Goto, Idle, Passing, Calls, locals
  <2>2. done[j] = {} /\ todo[j] = {}
    BY <2>1 DEF PassInv, OrderInv, CarriedOrder
  <2>3. QED
    BY <2>1, <2>2 DEF PassInv, HandReached, Passing, Calls
<1>2. CASE PlanFull(j) \/ PlanExpired(j)
  <2>1. /\ pc[j] = "plan" /\ pc'[j] = "loop"
        /\ UNCHANGED <<blob, chunks, ledger, trail, snap, done, withdrawn>>
    BY <1>0, <1>2 DEF PlanFull, PlanExpired, Goto, stores, world
  <2>2. done'[j] = {} /\ HandReached(j)' /\ \A d \in Docs : ~ InHand(j, d)'
    BY <2>1 DEF PassInv, HandReached, InHand, Passing, Calls
  <2>3. ASSUME NEW d \in Docs PROVE Settled(j, d)'
    <3>1. CASE PlanFull(j)
      BY <1>0, <2>1, <3>1 DEF PlanFull, Settled, Registered
    <3>2. CASE PlanExpired(j) /\ Registered(d, snap[j])
      <4>1. d \in todo'[j] \/ (ledger[d] # NoRow /\ ~ Expired(ledger[d]))
        BY <1>0, <3>2 DEF PlanExpired
      <4>2. ASSUME ledger[d] # NoRow, ~ Expired(ledger[d]) PROVE Ingested(d)'
        <5>1. ledger[d].status = "fresh"
          BY <1>0, <4>2 DEF Row, RowInv, RowsOfPublished
        <5>2. QED
          BY <2>1, <5>1
          DEF Ingested, RowInv, RowsOfPublished, IInv, StoresInv, FreshRowMatches
      <4>3. QED
        BY <2>1, <3>2, <4>1, <4>2 DEF Settled, Registered
    <3>3. CASE PlanExpired(j) /\ ~ Registered(d, snap[j])
      <4>1. d \in tomb'[j] \/ ledger[d] = NoRow
        BY <1>0, <3>3 DEF PlanExpired
      <4>2. ledger[d] = NoRow => Gone(d)'
        BY <2>1 DEF Gone, IInv, StoresInv, TombstoneReached, EveryCopyHasARow
      <4>3. QED
        BY <2>1, <3>3, <4>1, <4>2 DEF Settled, Registered
    <3>4. QED
      BY <1>2, <3>1, <3>2, <3>3
  <2>4. pc'[j] \in Passing
    BY <2>1 DEF Passing
  <2>5. \A d \in todo'[j] : ~ InHand(j, d)'
    BY <2>1 DEF InHand, Calls
  <2>6. QED
    BY <2>2, <2>3, <2>4, <2>5 DEF PassInv
<1>3. CASE NextTombstone(j) \/ NextTarget(j)
  <2>1. PICK d \in Docs :
            /\ doc' = [doc EXCEPT ![j] = d]
            /\ \/ d \in tomb[j] /\ tomb' = [tomb EXCEPT ![j] = @ \ {d}] /\ UNCHANGED todo
               \/ d \in todo[j] /\ todo' = [todo EXCEPT ![j] = @ \ {d}] /\ UNCHANGED tomb
    BY <1>0, <1>3 DEF NextTombstone, NextTarget
  <2>2. /\ pc[j] = "loop" /\ pc'[j] \in {"tombBlob", "hide"} /\ doc'[j] = d
        /\ UNCHANGED <<blob, chunks, ledger, trail, full, snap, done, bad, withdrawn>>
    BY <1>0, <1>3, <2>1 DEF NextTombstone, NextTarget, Goto, stores, world
  <2>3. /\ todo'[j] \subseteq todo[j] /\ d \notin todo'[j]
        /\ todo[j] \subseteq todo'[j] \cup {d} /\ tomb[j] \subseteq tomb'[j] \cup {d}
    <3>1. d \in tomb[j] => d \notin todo[j]
      BY DEF RowInv, TombsOfWithdrawn, OrderInv, CarriedOrder
    <3>2. QED
      BY <1>0, <2>1, <3>1
  <2>4. d \notin done[j]
    <3>1. d \in tomb[j] => snap[j][d] = 0
      BY DEF RowInv, TombsOfWithdrawn
    <3>2. d \in done[j] => snap[j][d] # 0 /\ d \notin todo[j]
      BY DEF PassInv, Reported
    <3>3. QED
      BY <2>1, <3>1, <3>2
  <2>5. \A e \in done[j] : Reported(j, e)' /\ e \notin todo'[j] /\ ~ InHand(j, e)'
    <3>1. \A e \in done[j] : Reported(j, e)'
      BY <2>2 DEF PassInv, Reported
    <3>2. \A e \in done[j] : e \notin todo'[j]
      BY <2>3 DEF PassInv
    <3>3. \A e \in done[j] : ~ InHand(j, e)'
      BY <2>2, <2>4 DEF InHand
    <3>4. QED
      BY <3>1, <3>2, <3>3
  <2>6. \A e \in todo'[j] : ~ InHand(j, e)'
    BY <2>2, <2>3 DEF InHand
  <2>7. bad[j] \/ \A e \in Docs : InHand(j, e)' \/ Settled(j, e)'
    <3>1. InHand(j, d)'
      BY <2>2 DEF InHand, Calls
    <3>2. ASSUME NEW e \in Docs \ {d}, Settled(j, e) PROVE Settled(j, e)'
      BY <2>2, <2>3, <3>2 DEF Settled, Ingested, Gone, Registered
    <3>3. pc[j] \in Passing /\ \A e \in Docs : ~ InHand(j, e)
      BY <2>2 DEF Passing, InHand, Calls
    <3>4. QED
      BY <3>1, <3>2, <3>3 DEF PassInv
  <2>8. pc'[j] \in Passing /\ HandReached(j)'
    BY <2>2 DEF Passing, Calls, HandReached
  <2>9. QED
    BY <2>2, <2>5, <2>6, <2>7, <2>8 DEF PassInv
<1>4. CASE Ends(j)
  BY <1>0, <1>4 DEF Ends, Goto, PassInv, HandReached, InHand, Passing, Calls
<1>5. QED
  BY <1>1, <1>2, <1>3, <1>4 DEF Plan

\* The calls on the document in hand.
LEMMA PassCalls ==
    ASSUME IInv, OrderInv, RowInv, NEW j \in Jobs, PassInv(j),
           Tombstone(j) \/ Ingest(j) \/ CallFails(j) \/ RecordFailure(j)
    PROVE  PassInv(j)'
<1>0. /\ pc \in [Jobs -> Label] /\ ledger \in [Docs -> Row] /\ chunks \in [Docs -> Projection]
      /\ blob \in [Docs -> Rev] /\ trail \in [Docs -> Rev]
      /\ snap \in [Jobs -> [Docs -> Rev]] /\ done \in [Jobs -> SUBSET Docs]
      /\ bad \in [Jobs -> BOOLEAN] /\ got \in [Jobs -> 0..(MaxRev + MaxAcl)]
      /\ pc[j] \in Calls \cup {"fail"} => doc[j] \in Docs
  BY DEF IInv, TypeInv, TypeOK, StoresTyped, LocalsTyped, ControlTyped, LocalsReady
<1>1. CASE Tombstone(j) /\ pc'[j] # "loop"
  <2>1. /\ pc[j] \in Tombstoning /\ pc'[j] \in Calls \cup {"fail"}
        /\ UNCHANGED <<withdrawn, full, snap, tomb, todo, done, bad, doc>>
        /\ \A d \in Docs \ {doc[j]} :
               /\ blob'[d] = blob[d] /\ chunks'[d] = chunks[d]
               /\ ledger'[d] = ledger[d] /\ trail'[d] = trail[d]
    BY <1>0, <1>1
    DEF Tombstone, TombBlob, TombChunks, TombLedger, TombAudit, Returns, Goto, Tombstoning,
        Calls, world, locals
  <2>2. HandReached(j)'
    BY <1>0, <1>1
    DEF Tombstone, TombBlob, TombChunks, TombLedger, TombAudit, Returns, Goto, HandReached,
        Calls, locals
  <2>3. done[j] \subseteq Docs /\ pc[j] \in Calls \cup {"fail"}
    BY <1>0, <2>1 DEF Tombstoning, Calls
  <2>4. QED
    BY <2>1, <2>2, <2>3, HandKept
<1>2. CASE Tombstone(j) /\ pc'[j] = "loop"
  <2>1. /\ pc[j] = "tombAudit"
        /\ UNCHANGED <<withdrawn, full, snap, tomb, todo, done, bad, doc>>
        /\ UNCHANGED <<blob, chunks, ledger>>
        /\ \A d \in Docs \ {doc[j]} : trail'[d] = trail[d]
    BY <1>0, <1>2
    DEF Tombstone, TombBlob, TombChunks, TombLedger, TombAudit, Returns, Goto, world, locals
  <2>2. doc[j] \in Docs /\ ~ Registered(doc[j], snap[j]) /\ Gone(doc[j])
    BY <1>0, <2>1
    DEF RowInv, TombsOfWithdrawn, PassInv, HandReached, Gone, Registered, Tombstoning, Calls,
        IInv, StoresInv, TombstoneReached, EveryCopyHasARow
  <2>3. Settled(j, doc[j])'
    BY <2>1, <2>2 DEF Settled, Gone, Registered
  <2>4. done[j] \subseteq Docs /\ pc[j] \in Calls \cup {"fail"}
    BY <1>0, <2>1 DEF Calls
  <2>5. QED
    BY <1>2, <2>1, <2>3, <2>4, HandDone
<1>3. CASE (Hide(j) \/ Fetch(j) \/ Screen(j) \/ CallFails(j)) /\ pc'[j] # "loop"
  <2>1. /\ pc[j] \in Calls \cup {"fail"} /\ pc'[j] \in {"fetch", "screen", "upload", "fail"}
        /\ UNCHANGED <<withdrawn, full, snap, tomb, todo, done, bad, doc>>
        /\ \A d \in Docs \ {doc[j]} :
               /\ blob'[d] = blob[d] /\ chunks'[d] = chunks[d]
               /\ ledger'[d] = ledger[d] /\ trail'[d] = trail[d]
    BY <1>0, <1>3
    DEF Hide, Fetch, Screen, CallFails, Returns, Goto, Calls, world, stores, locals
  <2>2. HandReached(j)' /\ pc'[j] \in Calls \cup {"fail"} /\ done[j] \subseteq Docs
    BY <1>0, <2>1 DEF HandReached, Calls
  <2>3. QED
    BY <2>1, <2>2, HandKept
<1>4. CASE Upload(j)
  <2>1. /\ pc[j] \in Calls \cup {"fail"} /\ pc'[j] \in {"put", "fail"} /\ doc[j] \in Docs
        /\ UNCHANGED <<withdrawn, full, snap, tomb, todo, done, bad, doc, got>>
        /\ UNCHANGED <<chunks, ledger, trail>>
        /\ blob'[doc[j]] = got[j] /\ \A d \in Docs \ {doc[j]} : blob'[d] = blob[d]
    BY <1>0, <1>4 DEF Upload, Returns, Goto, Calls, world, locals
  <2>2. HandReached(j)' /\ pc'[j] \in Calls \cup {"fail"} /\ done[j] \subseteq Docs
    BY <1>0, <2>1 DEF HandReached, Calls
  <2>3. QED
    BY <2>1, <2>2, HandKept
<1>5. CASE Put(j)
  <2>1. /\ pc[j] = "put" /\ pc'[j] \in {"commit", "fail"} /\ doc[j] \in Docs
        /\ UNCHANGED <<withdrawn, full, snap, tomb, todo, done, bad, doc, got>>
        /\ UNCHANGED <<blob, ledger, trail>>
        /\ \A d \in Docs \ {doc[j]} : chunks'[d] = chunks[d]
    BY <1>0, <1>5 DEF Put, Returns, Goto, Calls, world, locals
  <2>2. HandReached(j)' /\ pc'[j] \in Calls \cup {"fail"} /\ done[j] \subseteq Docs
    BY <1>0, <2>1 DEF HandReached, Calls, PassInv
  <2>3. pc[j] \in Calls \cup {"fail"}
    BY <2>1 DEF Calls
  <2>4. QED
    BY <2>1, <2>2, <2>3, HandKept
<1>6. CASE Commit(j)
  <2>1. /\ pc[j] = "commit" /\ pc'[j] \in {"audit", "fail"} /\ doc[j] \in Docs
        /\ UNCHANGED <<withdrawn, full, snap, tomb, todo, done, bad, doc, got>>
        /\ UNCHANGED <<blob, chunks, trail>>
        /\ ledger'[doc[j]] = FreshRow(snap[j][doc[j]], got[j])
        /\ \A d \in Docs \ {doc[j]} : ledger'[d] = ledger[d]
    BY <1>0, <1>6 DEF Commit, Returns, Goto, Calls, world, locals
  <2>2. /\ chunks[doc[j]] = [meta |-> snap[j][doc[j]], text |-> got[j]]
        /\ blob[doc[j]] = got[j]
    BY <2>1 DEF PassInv, HandReached, IInv, StoresInv, PutReached
  <2>3. HandReached(j)'
    BY <2>1, <2>2 DEF HandReached, FreshRow
  <2>4. pc[j] \in Calls \cup {"fail"} /\ pc'[j] \in Calls \cup {"fail"} /\ done[j] \subseteq Docs
    BY <1>0, <2>1 DEF Calls
  <2>5. QED
    BY <2>1, <2>3, <2>4, HandKept
<1>7. CASE Audit(j)
  <2>1. /\ pc[j] = "audit" /\ doc[j] \in Docs
        /\ UNCHANGED <<withdrawn, full, snap, tomb, todo, bad, doc, blob, chunks, ledger>>
        /\ trail'[doc[j]] = got[j] /\ \A d \in Docs \ {doc[j]} : trail'[d] = trail[d]
        /\ \/ pc'[j] = "loop" /\ done'[j] = done[j] \cup {doc[j]}
           \/ pc'[j] = "fail" /\ UNCHANGED done
    BY <1>0, <1>7 DEF Audit, Goto, Calls, world
  <2>2. /\ ledger[doc[j]].status = "fresh" /\ blob[doc[j]] = got[j]
        /\ ledger[doc[j]].meta = snap[j][doc[j]] /\ ledger[doc[j]].text = got[j]
        /\ chunks[doc[j]] = [meta |-> snap[j][doc[j]], text |-> got[j]]
    BY <2>1 DEF PassInv, HandReached
  <2>3. snap[j][doc[j]] # 0
    BY <2>1 DEF OrderInv, CarriedOrder, Calls, Tombstoning
  <2>4. Reported(j, doc[j])' /\ Settled(j, doc[j])'
    BY <2>1, <2>2, <2>3 DEF Reported, Settled, Ingested, Registered
  <2>5. pc[j] \in Calls \cup {"fail"} /\ done[j] \subseteq Docs
    BY <1>0, <2>1 DEF Calls
  <2>6. CASE pc'[j] = "loop"
    BY <2>1, <2>4, <2>5, <2>6, HandDone
  <2>7. CASE pc'[j] = "fail"
    <3>1. HandReached(j)'
      BY <2>7 DEF HandReached
    <3>2. QED
      BY <2>1, <2>5, <2>7, <3>1, HandKept
  <2>8. QED
    BY <2>1, <2>6, <2>7
<1>8. CASE RecordFailure(j)
  <2>1. /\ pc[j] = "fail" /\ pc'[j] = "loop" /\ doc[j] \in Docs /\ bad'[j]
        /\ UNCHANGED <<withdrawn, full, snap, tomb, todo, done, doc, blob, chunks, trail>>
        /\ \A d \in Docs \ {doc[j]} : ledger'[d] = ledger[d]
    BY <1>0, <1>8 DEF RecordFailure, Goto, world
  <2>2. pc[j] \in Calls \cup {"fail"} /\ done[j] \subseteq Docs
    BY <1>0, <2>1
  <2>3. QED
    BY <2>1, <2>2, HandDone
<1>9. QED
  <2>1. Hide(j) \/ Fetch(j) \/ Screen(j) \/ CallFails(j) => pc'[j] # "loop"
    BY <1>0 DEF Hide, Fetch, Screen, CallFails, Returns, Goto
  <2>2. QED
    BY <1>1, <1>2, <1>3, <1>4, <1>5, <1>6, <1>7, <1>8, <2>1 DEF Ingest

\* Every step keeps each document of a pass waiting, in hand, failed or settled.
LEMMA PassStep ==
    ASSUME ~ SessionDrops, IInv, OrderInv, RowInv, \A j \in Jobs : PassInv(j), [Next]_vars
    PROVE  \A j \in Jobs : PassInv(j)'
<1>1. ASSUME NEW j \in Jobs, JobStep(j), Acquire(j) \/ ~ Idle(j), NEW k \in Jobs
      PROVE  PassInv(k)'
  <2>1. CASE k = j
    BY <1>1, <2>1, PassPlans, PassCalls DEF JobStep
  <2>2. CASE k # j
    <3>1. pc[k] = "idle" /\ Untouched(k)
      BY <1>1, <2>2, OthersIdle, Frame DEF IInv
    <3>2. QED
      BY <3>1, IdlePass
  <2>3. QED
    BY <2>1, <2>2
<1>2. QED
  BY <1>1, NextSteps, PassWorld

\* No document falls out of a pass.
LEMMA PassHolds ==
    ASSUME ~ SessionDrops
    PROVE  Spec => [](IInv /\ OrderInv /\ RowInv /\ \A j \in Jobs : PassInv(j))
<1> DEFINE All == \A j \in Jobs : PassInv(j)
<1>1. IInv /\ OrderInv /\ RowInv /\ All /\ [Next]_vars => All'
  BY PassStep
<1>2. Init => All
  BY PassInit
<1> HIDE DEF All
<1>3. Spec => [](IInv /\ OrderInv /\ RowInv /\ All)
  BY RowHolds, <1>1, <1>2, PTL DEF Spec
<1>4. QED
  BY <1>3 DEF All

\* What the running pass has reported as ingested stays fresh, matches the
\* registry entry the pass loaded in both stores and has its audit record, to
\* the end of the pass (SourceOutcome "ingested").
THEOREM ReportedIngestsHold ==
    ASSUME ~ SessionDrops
    PROVE  Spec => []ReportedIngestHolds
<1>1. (\A j \in Jobs : PassInv(j)) => ReportedIngestHolds
  BY DEF PassInv, Reported, ReportedIngestHolds
<1>2. QED
  BY PassHolds, <1>1, PTL

\* A pass that ends with no failed outcome leaves the stores equal to the
\* registry it loaded: what is registered is fresh, and after an expired-only
\* pass nothing else is left in any store (refresh_expired, refresh_all, main).
THEOREM CleanPassesConverge ==
    ASSUME ~ SessionDrops
    PROVE  Spec => []CleanPassConverges
<1>1. ASSUME \A j \in Jobs : PassInv(j) PROVE CleanPassConverges
  <2>1. ASSUME NEW j \in Jobs, PassOver(j), ~ bad[j], NEW d \in Docs PROVE Settled(j, d)
    BY <1>1, <2>1 DEF PassInv, PassOver, Passing, InHand, Calls
  <2>2. QED
    BY <2>1 DEF CleanPassConverges, PassOver, Settled, Ingested, Gone
<1>2. QED
  BY PassHolds, <1>1, PTL
=============================================================================
