----------------------------- MODULE KbService ------------------------------
(***************************************************************************)
(* domain/kb_service.py: the life of one search or answer request, with    *)
(* the corpus changing under it.                                           *)
(*                                                                         *)
(* KnowledgeBaseService keeps no state between requests, and two requests  *)
(* share only the append-only audit sink, so one request at a time against *)
(* a changing corpus shows every interleaving there is.  Between any two   *)
(* port calls a document may be re-indexed or removed, and any port may    *)
(* raise.  The ACL projection is read once; its content is arbitrary.      *)
(*                                                                         *)
(* A text is abstracted to what the controls look for: pii (the redactor   *)
(* removes it), harm (the guardrail refuses or rewords it, and may do so   *)
(* to more), and whether there is any text at all.  The text of the query  *)
(* is not followed: retrieval may return anything whatever it was asked.   *)
(***************************************************************************)
EXTENDS Grounded, Sequences

CONSTANTS
    Docs,            \* document ids
    Tenants,         \* tenants besides Shared
    Tags,            \* ACL tags
    Sensitive,       \* those that escalate review
    Corpus,          \* the passages a request may find at first
    MaxRev,          \* bound: revisions of one document
    Floor,           \* policy.review.answer_confidence_floor, in percent
    Said,            \* confidence values a model may return
    EmptyRetrievalRaises   \* policy.answer.empty_retrieval_raises

Owners == Tenants \cup {Shared}

Passage == [doc : Docs, owner : Owners, tags : SUBSET Tags, rev : 1..MaxRev]

ASSUME KbAssumption ==
    /\ Shared \notin Tenants
    /\ Sensitive \subseteq Tags
    /\ Floor \in 0..100
    /\ MaxRev \in Nat \ {0}
    /\ Corpus \subseteq Passage
    /\ Said \subseteq [kind : {"number", "nan", "other"}, value : Int]
    /\ EmptyRetrievalRaises \in BOOLEAN

VARIABLES
    corpus,     \* the indexed passages
    pc,
    kind,       \* "search" or "answer"
    tenant,     \* the caller's verified tenant
    allowed,    \* the tags resolve() returned
    passages,   \* the admitted passages
    verdict,    \* the decision the next audit record carries
    cited,      \* the passages the draft cites
    located,    \* which revision's chunk each citation was refined to
    draft,      \* the answer text
    caveats,    \* the self-critique caveats accepted so far
    conf,       \* confidence in percent
    level,      \* review level
    doubt,      \* history: a signal that calls for enhanced review was seen
    trail,      \* this request's audit records
    reply       \* what the caller got

caller == <<kind, tenant>>
found  == <<allowed, passages>>
answer == <<cited, located, draft, caveats, conf, level, doubt>>
vars   == <<corpus, pc, caller, found, verdict, answer, trail, reply>>

Text == {t \in [pii : BOOLEAN, harm : BOOLEAN, empty : BOOLEAN] :
             t.empty => ~ t.pii /\ ~ t.harm}

Nothing == [pii |-> FALSE, harm |-> FALSE, empty |-> TRUE]

Redacted(text) == [text EXCEPT !.pii = FALSE]

Reworded == [pii |-> FALSE, harm |-> FALSE, empty |-> FALSE]

\* What an allowing verdict leaves in the place of a text: a text of the
\* guardrail's own (sanitized_text), or the text where it has none.
Screened(text) == {safe \in {text, Reworded} : ~ safe.harm}

\* A reported confidence that is no reason to trust the answer.
Doubts(s) == s.kind # "number" \/ s.value < Floor

Reply(outcome, disclosed) ==
    [outcome |-> outcome, disclosed |-> disclosed, text |-> draft, caveats |-> caveats,
     level |-> level]

\* A reply that carries neither evidence nor model text.
Refusal(outcome) ==
    [outcome |-> outcome, disclosed |-> {}, text |-> Nothing, caveats |-> {},
     level |-> "enhanced"]

Record(action, cites) == Append(trail, [action |-> action, decision |-> verdict, cited |-> cites])

Goto(label) == pc' = label

-----------------------------------------------------------------------------
(* The corpus changes: a refresh replaces a document, a tombstone removes it *)

Reindex(p) ==
    /\ p.rev < MaxRev
    /\ corpus' = (corpus \ {p}) \cup {[p EXCEPT !.rev = @ + 1]}
    /\ UNCHANGED <<pc, caller, found, verdict, answer, trail, reply>>

Remove(p) ==
    /\ corpus' = corpus \ {p}
    /\ UNCHANGED <<pc, caller, found, verdict, answer, trail, reply>>

-----------------------------------------------------------------------------
(* Slips: one plausible mistake each, not part of Next *)

\* A failing audit sink does not hold back the answer.
AuditAnswerBestEffort ==
    /\ pc = "auditAnswer"
    /\ trail' \in {trail, Record("answer", IF verdict = "allowed" THEN cited ELSE {})}
    /\ reply' = IF verdict = "allowed" THEN Reply("answered", cited) ELSE Refusal(verdict)
    /\ Goto("done")
    /\ UNCHANGED <<corpus, caller, found, verdict, answer>>

\* The more confident of the two models wins.
CritiqueTakesTheGreater ==
    /\ pc = "critique"
    /\ \E s \in Said, grounded \in BOOLEAN :
          /\ conf' = Greatest(conf, Clamp(s))
          /\ doubt' = (doubt \/ ~ grounded \/ Doubts(s))
    /\ Goto("screenAnswer")
    /\ UNCHANGED <<corpus, caller, found, verdict, cited, located, draft, caveats, level,
                   trail, reply>>

\* Caveats go out as the model wrote them.
CaveatUnredacted ==
    /\ pc = "caveat"
    /\ \E t \in Text : \E safe \in Screened(t) : caveats' = caveats \cup {safe}
    /\ pc' \in {"caveat", "screenAnswer"}
    /\ UNCHANGED <<corpus, caller, found, verdict, cited, located, draft, conf, level,
                   doubt, trail, reply>>

-----------------------------------------------------------------------------
(* _search_inner *)

Ask(k, t) ==
    /\ pc = "idle"
    /\ kind' = k
    /\ tenant' = t
    /\ Goto("screenQuery")
    /\ UNCHANGED <<corpus, found, verdict, answer, trail, reply>>

\* redact(query), then screen(INPUT).
ScreenQuery ==
    /\ pc = "screenQuery"
    /\ \/ Goto("resolve") /\ UNCHANGED verdict
       \/ Goto("auditSearch") /\ verdict' = "blocked"
    /\ UNCHANGED <<corpus, caller, found, answer, trail, reply>>

\* A caller who resolves to no tag is denied.
Resolve ==
    /\ pc = "resolve"
    /\ \E tags \in SUBSET Tags :
          /\ allowed' = tags
          /\ IF tags = {}
             THEN Goto("auditSearch") /\ verdict' = "escalated"
             ELSE Goto("retrieve") /\ UNCHANGED verdict
    /\ UNCHANGED <<corpus, caller, passages, answer, trail, reply>>

\* The adapter may return any of the passages there are: what it ranks and
\* cuts off, and whether it looks at tenant and tags, differs by profile.
Retrieve ==
    /\ pc = "retrieve"
    /\ \E returned \in SUBSET corpus : passages' = Admitted(returned, tenant, allowed)
    /\ Goto("screenPassages")
    /\ UNCHANGED <<corpus, caller, allowed, verdict, answer, trail, reply>>

ScreenPassages ==
    /\ pc = "screenPassages"
    /\ \/ verdict' = "allowed" /\ UNCHANGED passages
       \/ verdict' = "blocked" /\ passages' = {}
    /\ Goto("auditSearch")
    /\ UNCHANGED <<corpus, caller, allowed, answer, trail, reply>>

\* A blocked query keeps its verdict; one that found nothing is escalated.
AuditSearch ==
    /\ pc = "auditSearch"
    /\ trail' = Record("search", passages)
    /\ IF kind = "search"
       THEN /\ reply' = Reply("found", passages)
            /\ Goto("done")
            /\ UNCHANGED verdict
       ELSE /\ Goto(IF passages = {} THEN "auditAnswer" ELSE "generate")
            /\ verdict' = IF passages = {} /\ verdict = "allowed" THEN "escalated" ELSE verdict
            /\ UNCHANGED reply
    /\ UNCHANGED <<corpus, caller, found, answer>>

-----------------------------------------------------------------------------
(* _answer_inner *)

\* llm.generate, redact(answer), citations_for_document_ids.
Generate ==
    /\ pc = "generate"
    /\ \E used \in SUBSET Docs, s \in Said, t \in Text :
          /\ draft' = Redacted(t)
          /\ cited' = CitationsFor(used, passages)
          /\ conf' = Clamp(s)
          /\ doubt' = (t.empty \/ Doubts(s))
    /\ Goto("locate")
    /\ UNCHANGED <<corpus, caller, found, verdict, located, caveats, level, trail, reply>>

\* _anchor reads one document's chunks at a time, under the tenant of its
\* passage; 0 means the citation stays at page level.
Locate ==
    /\ pc = "locate"
    /\ \E c \in cited \ {l.cite : l \in located}, p \in passages :
          /\ p.doc = c.doc
          /\ \E rev \in {0} \cup {q.rev : q \in {r \in corpus : r.doc = p.doc /\ r.owner = p.owner}} :
                located' = located \cup {[cite |-> c, owner |-> p.owner, rev |-> rev]}
    /\ UNCHANGED <<corpus, pc, caller, found, verdict, cited, draft, caveats, conf, level,
                   doubt, trail, reply>>

Located ==
    /\ pc = "locate"
    /\ cited = {l.cite : l \in located}
    /\ conf' = IF draft.empty THEN Least(conf, 20) ELSE conf
    /\ Goto("critique")
    /\ UNCHANGED <<corpus, caller, found, verdict, cited, located, draft, caveats, level,
                   doubt, trail, reply>>

\* A critique that raises, or that cannot be parsed, changes nothing.
CritiqueUnusable ==
    /\ pc = "critique"
    /\ Goto("screenAnswer")
    /\ UNCHANGED <<corpus, caller, found, verdict, answer, trail, reply>>

Critique ==
    /\ pc = "critique"
    /\ \E s \in Said, grounded, scored \in BOOLEAN :
          /\ conf' = LET least == IF scored THEN Least(conf, Clamp(s)) ELSE conf
                     IN  IF grounded THEN least ELSE Least(least, 40)
          /\ doubt' = (doubt \/ ~ grounded \/ (scored /\ Doubts(s)))
          /\ \/ Goto("caveat")
             \/ grounded /\ Goto("screenAnswer")
    /\ UNCHANGED <<corpus, caller, found, verdict, cited, located, draft, caveats, level,
                   trail, reply>>

\* Each caveat is redacted and screened, and returned as the guardrail leaves it;
\* one refused caveat blocks the answer.
Caveat ==
    /\ pc = "caveat"
    /\ \/ /\ \E t \in Text : \E safe \in Screened(Redacted(t)) : caveats' = caveats \cup {safe}
          /\ pc' \in {"caveat", "screenAnswer"}
          /\ UNCHANGED verdict
       \/ verdict' = "blocked" /\ Goto("auditAnswer") /\ UNCHANGED caveats
    /\ UNCHANGED <<corpus, caller, found, cited, located, draft, conf, level, doubt,
                   trail, reply>>

ScreenAnswer ==
    /\ pc = "screenAnswer"
    /\ LET tags == UNION {p.tags : p \in passages}
       IN  /\ level' = Review(conf, tags, Floor, Sensitive)
           /\ doubt' = (doubt \/ tags \cap Sensitive # {})
    /\ \/ verdict' = "blocked" /\ UNCHANGED draft
       \/ verdict' = "allowed" /\ draft' \in Screened(draft)
    /\ Goto("auditAnswer")
    /\ UNCHANGED <<corpus, caller, found, cited, located, caveats, conf, trail, reply>>

\* The record comes first; an ungrounded query is then refused or degraded.
AuditAnswer ==
    /\ pc = "auditAnswer"
    /\ trail' = Record("answer", IF verdict = "allowed" THEN cited ELSE {})
    /\ reply' = CASE verdict = "allowed"   -> Reply("answered", cited)
                  [] verdict = "blocked"   -> Refusal("blocked")
                  [] verdict = "escalated" ->
                         Refusal(IF EmptyRetrievalRaises THEN "raised" ELSE "degraded")
    /\ Goto("done")
    /\ UNCHANGED <<corpus, caller, found, verdict, answer>>

\* Every port call but the two that are guarded (citation store, critique) lets
\* its exception through to the caller.
Guarded == {"locate", "critique"}

Raises ==
    /\ pc \notin {"idle", "done"} \cup Guarded
    /\ reply' = Refusal("error")
    /\ Goto("done")
    /\ UNCHANGED <<corpus, caller, found, verdict, answer, trail>>

NoReply == Refusal("none")

Init ==
    /\ corpus = Corpus
    /\ pc = "idle"
    /\ kind = "search" /\ tenant = Shared
    /\ allowed = {} /\ passages = {}
    /\ verdict = "none"
    /\ cited = {} /\ located = {}
    /\ draft = Nothing /\ caveats = {}
    /\ conf = 0
    /\ level = "standard" /\ doubt = FALSE
    /\ trail = <<>>
    /\ reply = NoReply

\* The request is over; the next one starts with fresh locals.
Close ==
    /\ pc = "done"
    /\ pc' = "idle"
    /\ kind' = "search" /\ tenant' = Shared
    /\ allowed' = {} /\ passages' = {}
    /\ verdict' = "none"
    /\ cited' = {} /\ located' = {}
    /\ draft' = Nothing /\ caveats' = {}
    /\ conf' = 0
    /\ level' = "standard" /\ doubt' = FALSE
    /\ trail' = <<>>
    /\ reply' = NoReply
    /\ UNCHANGED corpus

Step ==
    \/ ScreenQuery \/ Resolve \/ Retrieve \/ ScreenPassages \/ AuditSearch
    \/ Generate \/ Locate \/ Located \/ CritiqueUnusable \/ Critique \/ Caveat
    \/ ScreenAnswer \/ AuditAnswer
    \/ Raises

Next ==
    \/ \E k \in {"search", "answer"}, t \in Owners : Ask(k, t)
    \/ Step
    \/ Close
    \/ \E p \in corpus : Reindex(p) \/ Remove(p)

Spec == Init /\ [][Next]_vars
-----------------------------------------------------------------------------
(* Properties *)

Verdict == {"none", "allowed", "blocked", "escalated"}

AuditRecord == [action : {"search", "answer"}, decision : Verdict, cited : SUBSET Passage]

\* The types of the variables.
TypeOK ==
    /\ corpus \subseteq Passage
    /\ kind \in {"search", "answer"} /\ tenant \in Owners
    /\ allowed \subseteq Tags /\ passages \subseteq Passage
    /\ verdict \in Verdict
    /\ cited \subseteq Passage
    /\ located \subseteq [cite : Passage, owner : Owners, rev : 0..MaxRev]
    /\ draft \in Text /\ caveats \subseteq Text
    /\ conf \in 0..100
    /\ level \in {"standard", "enhanced"} /\ doubt \in BOOLEAN
    /\ trail \in Seq(AuditRecord)
    /\ Len(trail) <= 2

\* Everything a caller sees, and everything the audit trail says was cited, is
\* the caller's own or shared, and every one of its tags is among those the
\* caller resolved to (P-09; _search_inner).
DisclosedIsPermitted ==
    \A p \in reply.disclosed \cup UNION {trail[i].cited : i \in DOMAIN trail} :
        /\ p.owner \in {Shared, tenant}
        /\ p.tags # {} /\ p.tags \subseteq allowed

\* A citation is resolved in the chunks of the very owner whose passage was
\* retrieved, although the model and the answer name documents by id only
\* (prefer_unambiguous_document_owners, _anchor).
LocatedUnderItsOwner == \A l \in located : l.owner = l.cite.owner

\* Whatever the service returns, including a refusal, the newest audit record is
\* of the same action, decision and evidence, and nothing but an allowed request
\* is answered (_safe_record propagates).
RepliesAreOnRecord ==
    reply.outcome \notin {"none", "error"} =>
        /\ trail # <<>>
        /\ trail[Len(trail)] = [action |-> kind, decision |-> verdict, cited |-> reply.disclosed]
        /\ reply.outcome = "answered" => verdict = "allowed"

\* An answer is never left without provenance, whatever ids the model returns,
\* and it cites nothing that was not retrieved (B2).
AnswersAreGrounded ==
    reply.outcome = "answered" => reply.disclosed # {} /\ reply.disclosed \subseteq passages

\* Neither the answer nor a caveat the caller gets carries PII or harm, although
\* both come out of a model and the guardrail may answer with a text of its own;
\* nor does the draft carry PII when the second model reads it (P-04).
NothingUnsafeLeaves ==
    /\ \A t \in {reply.text} \cup reply.caveats : ~ t.pii /\ ~ t.harm
    /\ ~ draft.pii

\* An answer that either model doubts or puts no number on, that is empty, or
\* that rests on a sensitive passage is returned for ENHANCED review (P-06;
\* _clamp: "defaulting non-numerics to 0.0").  An ungrounded answer is capped at
\* 40 percent, so this needs a floor above that.
WeakAnswersEscalate == reply.outcome = "answered" /\ doubt => level = "enhanced"

\* A refined citation points into the revision that was retrieved (anchors.py:
\* resolution "can never point somewhere the retrieval did not").
LocatesWhatWasRetrieved == \A l \in located : l.rev \in {0, l.cite.rev}
=============================================================================
