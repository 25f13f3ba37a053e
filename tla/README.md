# Verification of the enterprise knowledge base

TLA+ models of `src/enterprise_kb`, the TLC runs that check them on small
instances, and theorems about them that TLAPS proves for every instance.
Paths below are relative to `src/src/enterprise_kb/` unless they begin with
`src/`.  `PROJECT.json` maps every definition to the lines it stands for.

## 1. The system

A horizontal RAG service. A publisher releases source documents, a registry that
lists them and an ACL artifact; a scheduled **refresh job** copies them, redacted
and screened, into the governed stores; a **knowledge base service** answers
search and answer requests from those stores, filtering by tenant and ACL tags,
with every decision audited before it is returned. Profiles swap the adapters:
`gcp`/`platform` (AlloyDB, GCS, Gemini, Model Armor, DLP), `local` (SQLite and
deterministic stand-ins), `onprem` (stubs that fail at once).

| Component | State | Operations | Talks to | What is hard |
| --- | --- | --- | --- | --- |
| Refresh job (`pipelines/refresh_job.py`, `ingest.py`) | locals of one pass; the advisory lease | `run`, `refresh_expired`, `refresh_all`, `ingest_document`, tombstones | registry, ACL artifact, ingestion service, ledger | crashes, overlap, partial failure over three stores, retries |
| Ingestion service (`domain/ingestion_service.py`) | none | `ingest`, `delete` | parser, redaction, guardrail, bucket, chunk store, ledger, audit | the order of five calls without a transaction |
| Managed stores (`adapters/gcp/*`) | bucket objects; `documents`, `document_chunks`, `document_freshness`, `principal_acl_tags` | one transaction per call; a retrieval join | — | lost acknowledgements, joins across tables written at different times |
| ACL projection (`pipelines/acl_sync.py`, `iam_access_control.py`) | `principal_acl_tags` | atomic replacement; `resolve` | artifact, lease | stale writers, staleness between resolve and retrieve |
| Source fetch (`pipelines/fetch.py`) | none | `load_registry`, `fetch_document`, bounded download | GCS, HTTP | registry and bytes read at different moments |
| Freshness policy, ledger record | `status`, `expires_at` | expiry, staleness | clock | boundary instants |
| Knowledge base service (`domain/kb_service.py`, `_grounded.py`) | none between requests | `search`, `answer`, anchoring, self-critique | every port | any port raising, the corpus changing between calls, untrusted model output |
| Review policy (`domain/hitl.py`) | configuration | `evaluate` | — | thresholds, caps |
| Claim anchoring (`domain/anchors.py`), layout (`domain/layout.py`) | none | scoring and choosing a block | chunk store | ties, floors, stale chunks |
| Local stores (`adapters/local/*`) | SQLite tables in two files, three connections | add, delete, put, upsert; self-seeding | API threads, command-line processes | separately committed steps, changes left open, locks, restarts, tenants |
| API routes (`api/app.py`) | none | ingest, delete, retract, search, answer, status | services | concurrent requests on one document; whom a request is for |
| Agent callbacks and tools (`agent/callbacks.py`, `tools.py`) | the session's state | before/after model, after agent, `search_kb`, `answer_grounded` | guardrail, redaction, audit, identity | flags and texts that outlive a turn; whom a tool asks for |
| Policy (`domain/policy.py`) | read once | coercions, retraction entitlement | review policy, retraction route | values that are almost booleans or numbers |
| Configuration (`config.py`, `envread.py`, `managed_preflight.py`) | read once | profile, switches, bindings, preflight | every adapter | unset, empty and wrong values in two places |
| Identity (`api/security.py`, `iap_identity.py`, `local/identity.py`) | none | verify a service, a person; narrow | token issuers | several views of one profile |
| Long texts (`dlp_redaction.py`, `model_armor_guardrail.py`) | none | split, call, merge | DLP, Model Armor | cuts inside what is looked for |
| Sessions (`vertex_sessions.py`, `local/session.py`) | conversations | create, get, append, history | managed sessions | ids that are reused |
| Evaluation (`eval/run_eval.py`, `genai_eval.py`) | none | score, self-check, gate | the real service over fakes | a gate that passes what it should not |
| Front ends (`cli/main.py`, `mcp/server.py`) | none | the service's operations | services | whom they ask for |
| Memory bank, tracing, model clients, UI, infra | remote or none | thin clients | managed services | — |

What makes each correct, in short. *Refresh*: one writer at a time; nothing
half-written is ever served; served text is the text the ledger vouches for;
withdrawn documents go, published ones come back. *Service*: a caller sees only
what the tenant and every tag permit; nothing leaves without its audit record;
an answer cites what was retrieved; doubtful answers escalate. *Local stores*:
tenants never touch each other, a success repairs what failures left, what was
deleted stays deleted. *Agent*: a turn is audited with its own prompt, response
and verdict. *Start-up and identity*: nobody from
elsewhere is served unverified, whatever is misconfigured. *Long texts, layout,
anchors*: no cut hides anything, and an anchor names the block it was made for.
*Evaluation*: what passes does not leak.

## 2. Modules

| Module | Models |
| --- | --- |
| `CorpusRefresh` | The managed refresh job end to end: lease, ACL replacement, registry, plan, tombstone, ingest, failure record; crashes, failed calls, lost acknowledgements, dropped lease sessions; the publisher and time. |
| `ServedCorpus` | The abstract specification of what readers of the corpus are promised. `CorpusRefresh` implements it. |
| `Grounded` | The pure decisions of `_grounded.py`, `_clamp` and `KbReviewPolicy`. |
| `KbService` | The life of one search or answer request, composed with `Grounded`, while documents are removed and re-indexed. |
| `LocalCorpus` | The laptop's SQLite stores under API requests of several tenants, the command line's ingest and refresh, calls that fail or stop half way, open transactions, locks, restarts and self-seeding. |
| `AgentSession` | Turns of interleaved agent sessions: the three callbacks and the state they leave for each other. |
| `Sessions` | Stored conversations, managed and local, with restarts of the local store. |
| `Posture` | Which deployments start and whom a started one lets through. |
| `Screening` | Splitting and merging of long texts by DLP and Model Armor. |
| `Anchoring` | Lines to anchored blocks, twice; claims to the block a citation points at. |
| `BankPolicy` | Coercion of the `policy:` section, review outcome, retraction entitlement; composed with `Grounded`. |
| `FrontDoors` | HTTP, command line, MCP and agent: on whose behalf each searches, over both retrieval adapters and both directories; composed with `Grounded`. |
| `EvalGate` | The evaluation: fixtures, scorers, thresholds, self-check, gate. |
| `MCCorpusRefresh`, `MCKbService`, `MCLocalCorpus`, `MCFront` | Instances for TLC. |
| `CorpusRefreshProofs`, `KbServiceProofs`, `LocalCorpusProofs`, `ConversationProofs` (of `AgentSession` and `Sessions`), `EvalProofs`, `TextProofs` (of `Screening` and `Anchoring`), `DecisionProofs` | Theorems. |
| `FoldProofs` | What recursion computes: lemmas for the pure modules. |

Each module begins its list of actions with a few *slips*: operators that are
one plausible mistake in one step (a dropped guard, a missing reset). They are
not part of any next-state relation; each property is known to notice one.

### 2.1 CorpusRefresh

State: what the publisher controls (`registry`, `bytes`, `bindings`, `clock`);
the stores (`blob` the GCS object, `chunks` the `documents` and
`document_chunks` rows, `ledger` the `document_freshness` row, `acl`, the newest
*completed* audit record per document `trail`); the `lease`; and per execution
`j` its program counter and locals (`snap` is the registry it loaded, `tomb` and
`todo` what remains of the plan, `got` the artifact in hand).

One action is one call to an external store, in the code's order:
`Acquire → DownloadAcl → ReplaceAcl → LoadRegistry → PlanExpired | PlanFull →`
for each withdrawn document `TombBlob → TombChunks → TombLedger → TombAudit`, for
each target `Hide → Fetch → Screen → Upload → Put → Commit → Audit`, then
`Finish`. A store call may fail without effect (`CallFails`), or take effect and
raise (`Returns`); both lead to `RecordFailure`, which may itself fail. Anything
before the loops that raises ends the pass (`Abort`). `Crash` kills the worker,
and with it the session and the lease. `DropSession` ends only the session.

A registry entry and the bytes it points to are two objects, read at different
moments, so a projection records the revision of each (`meta`, `text`). Content
is a revision number; `Blocked` are the revisions the guardrail refuses.

Abstracted: all modelled rows are registry-owned and of the shared tenant, as
`_to_document` makes them; the ledger reads of the plan are one step (nothing but
the lease holder writes the ledger); documents are taken in any order, which
includes the code's; a refused lease attempt changes nothing and is no action; a
BLOCKED audit record is not tracked, the next step fails the document either way.
`Put` is never skipped, although the service skips it for a document without chunks:
extraction that finds no text raises in `prepare_for_redaction`, before the guardrail, and
is one of the ways `Screen` fails; text that is there makes at least one block.

### 2.2 Grounded and KbService

A passage has a document id, an owner (tenant or shared), tags and a revision. A
text is what the controls look for: `pii`, `harm`, `empty`. The redactor removes
`pii`; the guardrail refuses every `harm`ful text and may refuse any other, and what it
allows it may replace by a text of its own (`Screened`, the code's `sanitized_text`). That
it writes nothing personal or harmful itself is assumed of it.

The program counter follows `_search_inner` and `_answer_inner`: `screenQuery,
resolve, retrieve, screenPassages, auditSearch`, and for an answer `generate,
locate, critique, caveat, screenAnswer, auditAnswer`. `retrieve` may return any
set of the passages there are, because adapters differ in what they push into
the query and where they cut off; `resolve` any set of tags (`Sensitive` are those that contain one
of the policy's sensitive substrings); the models any ids,
confidences, texts and caveats. `Raises` is a port that throws, possible at every
label but the two whose exceptions the code swallows. `Reindex` and `Remove`
change the corpus at any time. Requests share nothing but the append-only sink,
so one request against a changing corpus has every interleaving of many.

### 2.3 LocalCorpus

State: `db`, the committed tables of the one file that holds the passage index
and the anchored blocks; `txn`, a change left open on one connection; `ledger`, a
second file; per request `req` and `pc`; `api`, whether the API process has opened its
stores. The API process keeps one connection per store for its life, a command-line run
opens its own. One action is one store call: `Hide → Screen → DropIndex → Add → Put →
Record → Audit` to ingest, `DropIndex → DropBlocks → DropLedger → Audit` to delete. The
route for `DELETE` and the one for `retract` end in the same service call. `Writes` is a
write of the shared file: it may fail without effect (`Fails`), find the file locked
(`Locked`), or stop in its last statement or its commit. What came before (for `Put`, the
DELETE without the INSERT) then stays open until the next write of that connection commits
it or the process ends. An exception in a refresh goes through `RecordFailure`; in a
request or the command line it ends it.

A refresh run is one process over many documents, taken one after another. One request
stands for one of them; what the rest of the run does to a change that one left open is
`RunGoesOn` (the next document's first write commits it, if it was the index's) and
`RunEnds` (the process ends and it is rolled back).

Opening the stores is not one step. The constructor of each table looks whether it is empty
and fills it afterwards, under the lock again (`Opens`, then `Fill` or `ApiFill`, the index
before the blocks), so another process may have written in between. Deleting with an empty
tenant reaches every tenant's passages but only the shared blocks (`InScope`, `Of`).

History variables: `alone` (no request on its document and no seeding overlapped this
request) and `erased` (keys a lone delete emptied; an ingest that begins, or a process that
opens a store with an empty table, takes them off). A pair of overlapping requests on one
document may leave rows of both: nothing in the code prevents it, so the
properties speak of what a request that overlapped with none leaves behind.

### 2.4 AgentSession and Sessions

A turn is `Speak → BeforeModel → Model → AfterModel → Tool → BeforeModel … →
Close`; a port that raises aborts it without a record. `kept` is the session
state under the callbacks' three keys, with the turn that wrote each value; it is
never cleared, so once a turn was blocked every later record of the session says
BLOCKED. What is stashed is the redacted text or the guardrail's own. A tool either lets
the turn go on or raises; whom it asks for, and when it refuses, is `AgentScope` of
`FrontDoors`. The ADK runtime (what it calls when, that a user's texts stay in the request,
whose identity a tool is handed) is external.

`Sessions` has the managed adapter, whose ids are functions of user and case and
whose ownership check looks at the id alone, and the local one, whose ids count
from one again in every process.

### 2.5 The pure decisions

`Posture`, `Screening`, `Anchoring`, `BankPolicy`, `FrontDoors` and `EvalGate` are
operators over one input: a deployment and a peer, a text and its findings, lines
or claims, a written section, a request with its directory and index, a product
with its golden file. `MCFront` takes any one input within the bounds and judges it.
The stated property of each is a reference definition independent of the
algorithm: the text redacted at once, the anchors of the original, the maximum
over all claims and blocks, the passages the caller may see.

## 3. Runs

| Run | Instance | Shows |
| --- | --- | --- |
| `CorpusRefresh_pass` | 2 documents, 2 executions, 2 revisions (one refused), 1 failure, TTL 1, clock to 1 | `TypeOK`, `LeaseExclusive`, `ReportedIngestHolds`, `CleanPassConverges` |
| `CorpusRefresh_deep` | 1 document, 2 executions, 3 revisions, 2 ACL artifacts, 2 failures, clock to 2, fairness | `HiddenWhileReingesting`, `ServedIsWhatLedgerRecords`, `EveryCopyHasARow`, `UnservedIsRetried`, `NoOlderProjection`, `ImplementsServedCorpus`; `WithdrawnIsTombstoned`, `PublishedIsFresh` |
| `CorpusRefresh_drop` | 1 document, 2 executions, 2 revisions, 1 failure, fairness, dropped sessions | `BlockedNeverStored`, `WithdrawnIsUnserved` hold even when executions overlap |
| `CorpusRefresh_overlap` | dropped sessions | **violation** of `NoOlderProjection` |
| `CorpusRefresh_audit` | 1 execution, 1 crash | **violation** of `FreshOnlyBySuccessfulIngest` |
| `KbService` | 2 ids, one of them owned twice, 2 callers, 2 tags (1 sensitive), 2 revisions | the seven properties of the service |
| `LocalCorpus` | 1 document, 1 tenant beside the shared owner, one built-in key, 3 requests, 2 of them at a time, 1 fault, 1 restart | `TypeOK`, `ErasedStaysErased`, `TenantsApart`, `SuccessHeals` |
| `Front` | 1 agent user (3 turns, 2 model calls each), 2 people and 1 case, and every input below | `TypeOK`, `AuditNeverUnderstates`, `AllowedRecordsPair`, `HistoryIsOwn`; `RemoteCallers`, `Views`, `ReviewedTenants`, `CutsHideNothing`, `WindowsMissNothing`, `UniqueAnchors`, `BestEvidence`, `StrictPolicy`, `HonestEvaluation`, `EntitledDoors` |
| `KbService_nan` | a model may report NaN | **violation** of `WeakAnswersEscalate` |
| `KbService_stale` | as `KbService` | **violation** of `LocatesWhatWasRetrieved` |
| `Front_policy` | as `Front` | **violation** of `MalformedNeverLoosens` |
| `Front_mcp` | as `Front` | **violation** of `McpReadsThePublic` |

Bounds. A document's passes interact only through that document's rows, so one
document shows every way its own passes can be cut short and repeated, and a
second shows what one pass does to several (tombstones before targets, one
failing and the other not). Two executions are enough for any overlap, the
properties being about pairs. Three revisions let an old, a served and a newer
one meet; two failures let a pass and its failure record, or its retry, both fail (the
safety properties are proved for any number).
TTL 1 with the clock to 2 expires a document, re-ingests it and expires it again.
In `KbService` one id with a shared and an own copy of different tags is the
smallest corpus in which the filters disagree; confidences lie below the floor,
above one, and at "not a number".

In `LocalCorpus` three requests are an ingest, a delete and a third that
overlaps either, fails or comes after a restart; one fault suffices because what
it leaves behind (an open change, a half-done request) is there for both others.
Two in flight are enough for an overlap. One tenant and the shared owner are the two kinds
of key the code tells apart.
In `Front`, agent sessions share nothing, so one user shows what two would; three turns
let one follow a blocked and an aborted one, and two model calls let a tool call stand
between them. Of the inputs: texts of seven characters of one or two bytes
with chunks of five bytes, so up to three pieces with every position of a space;
layouts of five lines of eight kinds (a row of pipes and a row of gaps are two); two
claims over three blocks of three words;
every deployment over eleven settings, in two families (who is let in, the other
settings); every value of each written setting, the others absent where they do
not meet; two examples with up to 97 more that go right, under the shipped thresholds
and two rubrics (one the self-check refuses, one that raises them); six passages in every
combination, so that a limit of one or two leaves some out. `MCFront` does not
vary what a decision does not read.

Deadlock is checked in every run but `Front`, where an input that was judged and
a session at its bounds have no next step. The terminal state of a `CorpusRefresh`
instance does not exist (an idle execution can always start); in `LocalCorpus` it
is `Finished`.

### Fairness

`FairSpec` assumes that a worker that is not killed takes its next step
(`WF(Work(j))`), that the scheduler starts an execution whenever the lease stays
free (`WF(Acquire)`; the daily cron of `src/infra/terraform/scheduler.tf`, which runs
the expired-only mode), and, as an operator may run `--full` any number of times
but the cron comes round each day, that expired-only plans keep being made
(`SF(PlanExpired(j))`). Nothing is assumed of publishers, time, or failures, of
which there are finitely many (`MaxFaults`).

### What the violations say

* `CorpusRefresh_overlap`: nothing after `pg_try_advisory_lock` looks at the lease
  again. If the owning session drops and the worker lives on, an old execution
  writes its ACL bindings or document over a newer execution's.
* `CorpusRefresh_audit`: the FRESH row is committed before the audit record. A crash
  in between leaves a served document that no record vouches for until its TTL.
* `KbService_nan`: `json.loads` accepts `NaN` and `max(0.0, min(1.0, nan))` is `1.0`.
* `KbService_stale`: the anchor, page, box and snippet come from whatever revision is
  stored when `_anchor` reads; the citation keeps the retrieved version.
* `Front_policy`: `policy.py:160` says a malformed override is "never looser by accident",
  but `_as_bool` reads any text that is not an affirmative word as False, so a mistyped
  `review_all_answers` switches the review floor off. `StrictPolicy` says what else loosens:
  nothing but a lower number and a list without a shipped tag.
* `Front_mcp`: `mcp/server.py:9` says an empty principal "sees untagged public data" and an
  MCP caller "reads the public corpus". No principals resolve to no tags, a caller without
  tags is answered with nothing, and `filter_by_allowed_tags` drops every untagged passage
  besides: an MCP caller is shown nothing.

The models also met disagreements and quirks that no run is spent on:

* `_grounded.py:117` says a tenant's own document deterministically shadows the shared one,
  but the choice is made among the passages the adapter returned: an own document that it
  has already filtered out or ranked away shadows nothing. `EntitledDoors` says what holds
  where the limit leaves nothing out.
* The managed `retract` is scoped to the caller's tenant while every managed row is of the
  shared one: the route answers "retracted" and nothing is removed.
* The laptop's `LIMIT` comes before the tenant and tag filters and before its own filters
  are read, so others' passages can crowd out all of a caller's; the managed one comes after.
* `managed_preflight` resolves the profile from the environment only; with the profile in
  settings.yaml alone the database check is skipped, which `Views` states and permits
  (`PreflightProfile`). The container image names it in the environment.
* An emptied tags list loosens the review of tagged answers as a shorter list does, which is
  what the operator wrote; a list of nothing but blanks does the same (`LoosensLevel`).
* A refresh run whose write stopped half way goes on to its next document with that change
  still open, and that document's first write commits it (`RunGoesOn`).
* Two examples with one query share a fixture, so the last one's documents are all either
  finds, and of a hundred examples a mean of 99 percent forgives one leak (`Telling`).
* A blocked turn makes every later record of its session BLOCKED; a replaced reply loses a
  tool call that came with it; a guardrail that raises ends the turn without a record.
* An identifier that lies in a chunk and in the bridge beside it is counted twice.

`UnservedIsRetried` and one clause of `CleanPassConverges` exempt a document that
was withdrawn and registered again: a tombstone interrupted after its chunk rows
leaves a FRESH row without chunks, which an expired-only pass takes for fresh
until its TTL.

## 4. Proofs

Checked by TLAPS 1.4.5 (Z3, Zenon, LS4), from the assumptions on constants named
in the modules. Every strengthening below was first checked by TLC.

**Corpus refresh** (`CorpusRefreshProofs`).
`TypeCorrect`, and `GuardrailHolds` (between `Screen` and `Put` what an execution has
in hand is not refused), need nothing of the lease. All else assumes
`~SessionDrops`; `CorpusRefresh_overlap` shows what becomes of `NoOlderProjection`
without it.

* `IInv`, for `LeaseSerializes`, `HiddenUntilCommitted`, `ServedMatchesLedger`,
  `LedgerCoversCopies`: a busy execution owns the lease (so there is one), its
  document's row is FAILED from `Hide` to `Commit`, past `Put` the chunk rows are the
  ones in hand, every FRESH row with chunk rows matches them, and a document without a
  row has no copy unless the running tombstone is past that store.
* `OrderInv`, for `ProjectionsNeverGoBack`: what is stored is no newer than what is
  published, and what the lease holder carries (bindings, registry, bytes in hand)
  lies between the two.
* `RefreshImplementsServedCorpus`: with `IInv`, each step of the job is a step of
  `ServedCorpus` or a stutter under the mapping of `CorpusRefresh`.
* `RowInv`, for `UnservedDocumentsAreRetried`: a FAILED row has expired already, a
  FRESH one has chunk rows unless its document was once withdrawn, and only such
  documents are ever tombstoned.
* `PassInv`, for `ReportedIngestsHold` and `CleanPassesConverge`: each document of the
  running pass is waiting, in hand, failed or settled, and a settled one equals the
  pass's snapshot. The conclusion is about the end of a pass, so what an invariant
  must carry is how much of the pass is over.

**Service** (`KbServiceProofs`). `DInv` carries `DisclosureIsPermitted`,
`AnswersCiteEvidence`, `RepliesRecorded`: what reaches the reply or the trail is drawn
from `passages`, permitted when they are admitted and fixed before anything is drawn
from them. `CitationsKeepTheirOwner` adds that a citation's owner is the one owner of
its id among the admitted (`OneOwnerPerId`); `NothingUnsafeIsReturned` how far a text
has come through redactor and guardrail; `DoubtedAnswersAreReviewed` that a doubt,
once raised, has lowered the confidence or stands in the tags. The last one assumes a
floor above 40 percent (an ungrounded answer is capped at exactly that, and a lower
floor is met by it) and a model that does not report NaN (`KbService_nan`).
`RequestTypeCorrect` holds of every reply of every port.

**Local stores** (`LocalCorpusProofs`). One inductive invariant, `LInv`, for all four
properties: beside types, (`Shaped`) what each kind of request may ask for,
(`OpenChangeIsTheirs`) that a change the API has open differs from the file only in rows of
the owners it names, (`AloneIsAlone`) that a lone request shares its
document with nobody in flight, (`FillingIsAlone`) that while somebody fills a table no
other request counts as alone and no built-in key as erased, (`WorkIsKept`) that past
each call a lone request's rows are in the store as that call left them, in the committed tables or in the change
open on the same connection, and (`ErasedIsGone`) that an erased key is gone from both.
Without the open change none is inductive: what a call that stopped leaves may be
committed many steps later by someone else. `Docs # {}` is assumed, so that there is a
request to speak of. Every action preserves `LInv` by a lemma of its own, on top of a
lemma that says what the action does to the stores.

**Agent and sessions** (`ConversationProofs`). `AInv` says of each
step of a turn whose text is kept: the prompt is the turn's own once a model call is
allowed, the response once a reply is accepted, and after a stop the flag is up. For
`HistoryIsOwn` nothing can be said of the ids people hold, as a local id may name
somebody else's session after a restart; what is invariant is that a row holds only
its owner's messages and that a managed id names the owner.

**Decisions** (`DecisionProofs`). Theorems about every input, not only those `MCFront`
samples; the run's property follows from each.
`EveryDeploymentVerifies` and `EveryViewAgrees` are of any deployment;
`EveryTenantIsReviewed` of any claims but those that themselves carry the reviewed
partition's name or no subject; `EveryPolicyStaysStrict` of any section, whatever stands
for its floor, its switches and its lists. `EveryDoorIsEntitled` is of any directory, request, and index whose
ranks are distinct naturals, of any size: `TopIsBounded` and `TopIsThere` (by the
least counterexample, since induction is out of reach) say that a limit keeps no more
than it says and that the best stays, `NothingIsCrowdedOut` that on the managed
adapter nothing permitted is hidden by something that is not; where the limit leaves out
nothing that matches, either adapter shows all a request has a right to.

**Evaluation** (`FoldProofs`, `EvalProofs`). `EveryEvaluationIsHonest`, and from it
`HonestEvaluationHolds`, is of any golden file and any finite corpus, and of rubrics that
lower no threshold or set one that the self-check refuses. A recursive
function, and so each fold of the community modules, is *some* function with its own
equation, so `FoldProofs` shows by the least counterexample, without the library's
induction theorems, that there is one (`DescentDefines`, `FoldExists`) and how to
reason about its values (`PeelingReaches`, `Counting`). From that: the file is read as
its good lines in order (`GoldenIsRead`), a sum of bounded scores is short by what some
of them are short (`FewFallShort`), so one leak shows in the mean of fewer than a
hundred examples (`OneFailureShows`), and one wrong anchor costs its example at least
its share of the documents (`PassedAnchorsWhatItFinds`). The limits are the gate's own
and not the proof's: of a hundred examples a mean of 99 percent forgives one, and of
49 documents or more the rounded share forgives a wrong block (`AnchorsMostOfIt`).

**Long texts, layout and claims** (`TextProofs`). Of texts, lines and lists of claims of
any length; `WindowsMissNothingHolds`, `CutsHideNothingHolds`, `UniqueAnchorsHold` and
`BestEvidenceHolds` follow from them.

* `NoPhraseEscapes`: the windows reach the end of the text, each short of the next by
  the overlap at least, so a phrase that fits the overlap lies in one of them.
* `EveryIdentifierIsRedacted` and `NoCutDoesHarm`: sizes in bytes are sums and split
  anywhere, so every chunk is joined up to the limit and ends at a space. The bridge
  reaches `Context` to either side of a cut, and because
  `Context + WidestChar <= ChunkBytes` the chunk after a cut does not end inside an
  identifier that crosses it, so every identifier is whole in a chunk or in a bridge. The
  masks that are merged are those of the findings: neither more is masked than was found, nor less.
* `EveryAnchorIsTheBestEvidence`: each claim keeps a block that supports it most, the
  fold over the claims keeps the one ahead, and as no two are ahead of each other
  (`AheadIsUnique`) the order of the claims does not matter. It assumes what the
  database's key gives: a document's blocks have places of their own (`Stored`).
* `EveryAnchorNamesOneBlock`: blocks are maximal runs of text, so two of them are apart
  and an anchor is a rank, on the page and in the document; ranks differ and have no
  gap. For the second parse, after redaction, `Corresponds` is the invariant of the
  loop that prepares the text: where the first `i` lines have gone. That map keeps order,
  page ends and where blocks start and end, so blocks correspond one to one, in order,
  and a bijection that keeps the order keeps the ranks.

The two about bytes assume that a character takes from one to `WidestChar` bytes, as
UTF-8 does (four).

Only model-checked: liveness (`WithdrawnIsTombstoned`, `PublishedIsFresh`,
`WithdrawnIsUnserved`), out of the prover's reach under fairness.

## 5. Not modelled

Ranking as such (a passage has a rank), prompt and JSON text, PDF extraction and the
widths of boxes, token signatures (good, bad or absent), the remote model, guardrail and
redactor (arbitrary within their contract), response shapes. The memory bank and
`ensure_fresh` have no caller. The `onprem` adapters are stubs that raise, those of
`platform` single remote calls, those of `live` model clients. User interface, scripts
and infrastructure are not part of the service.

A retraction beside the managed refresh job is left out because it touches no row the
job has (see above). `LocalCorpus` has the expired-only refresh; `--full` only takes
more documents through the same steps. Two overlapping local requests on one document
are modelled, but nothing is promised of what they leave.
A registered document whose id some tenant also uses is never ingested by
`refresh_expired` once that tenant's row exists (`Known` is by id): modelled, and no
promise of the source speaks of it.

## 6. What is left

Every safety property and action property a passing run checks is proved; liveness stays
with TLC. Most theorems of the refresh job assume that a session does not drop under a
live worker; a fencing token in the code would remove that assumption. The parts listed as
partly modelled could be taken further where the code gets more of its own logic.
