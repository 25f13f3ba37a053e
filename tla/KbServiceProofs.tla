-------------------------- MODULE KbServiceProofs ---------------------------
(***************************************************************************)
(* What a request discloses, for every corpus, tag set and model reply.    *)
(*                                                                         *)
(* The three sets that reach a caller or the audit trail (the passages a   *)
(* search returns, the citations of an answer, the citations of a record)  *)
(* are all drawn from the admitted passages, and those are fixed before    *)
(* the first of them is filled; so it is enough that what _search_inner    *)
(* admits is permitted.                                                    *)
(***************************************************************************)
EXTENDS KbService, TLAPS

\* The labels at which nothing has been retrieved yet.
Early == {"idle", "screenQuery", "resolve", "retrieve"}

\* The labels at which an answer with citations is on its way.
Answering == {"locate", "critique", "caveat", "screenAnswer"}

Permitted(p, t, tags) == p.owner \in {Shared, t} /\ p.tags # {} /\ p.tags \subseteq tags

PassagesPermitted == \A p \in passages : Permitted(p, tenant, allowed)

NothingYet ==
    /\ pc \in Early => passages = {}
    /\ pc \in Early \cup {"screenPassages"} =>
           cited = {} /\ trail = <<>> /\ reply.disclosed = {}

DrawnFromPassages ==
    /\ cited \subseteq passages
    /\ reply.disclosed \subseteq passages
    /\ \A i \in DOMAIN trail : trail[i].cited \subseteq passages

\* A request that is or may still be answered has something to cite.
HasProvenance ==
    /\ pc = "generate" => passages # {}
    /\ pc \in Answering => cited # {}
    /\ pc = "auditAnswer" /\ verdict = "allowed" => cited # {}
    /\ reply.outcome = "answered" => reply.disclosed # {}

\* A verdict precedes every record, and a record every reply.
OnRecord ==
    /\ pc \in {"auditSearch", "auditAnswer"} => verdict # "none"
    /\ pc \in Answering \cup {"generate", "auditAnswer"} => kind = "answer"
    /\ pc # "done" => reply.outcome = "none"
    /\ RepliesAreOnRecord

Shapes ==
    /\ kind \in {"search", "answer"}
    /\ verdict \in Verdict
    /\ corpus \subseteq Passage
    /\ passages \subseteq Passage
    /\ trail \in Seq(AuditRecord)

DInv ==
    Shapes /\ PassagesPermitted /\ NothingYet /\ DrawnFromPassages /\ HasProvenance /\ OnRecord

-----------------------------------------------------------------------------
(* The operators of Grounded *)

\* What _search_inner admits was retrieved, and is permitted to the caller,
\* whatever the adapter returned (filter_by_tenant, filter_by_allowed_tags).
LEMMA AdmittedIsPermitted ==
    ASSUME NEW returned, NEW t, NEW tags
    PROVE  /\ Admitted(returned, t, tags) \subseteq returned
           /\ \A p \in Admitted(returned, t, tags) : Permitted(p, t, tags)
BY DEF Admitted, FilterByAllowedTags, PreferUnambiguousOwners, FilterByTenant, Permitted

\* A document id stands for one owner among the admitted passages, so that an
\* id alone names the evidence (prefer_unambiguous_document_owners).
LEMMA OneOwnerPerId ==
    ASSUME NEW returned, NEW t, NEW tags,
           NEW p \in Admitted(returned, t, tags), NEW q \in Admitted(returned, t, tags),
           p.doc = q.doc
    PROVE  p.owner = q.owner
<1> DEFINE visible == FilterByTenant(returned, t)
<1>1. p \in PreferUnambiguousOwners(visible, t) /\ q \in PreferUnambiguousOwners(visible, t)
      BY DEF Admitted, FilterByAllowedTags
<1>2. p \in visible /\ q \in visible
      BY <1>1 DEF PreferUnambiguousOwners
<1> HIDE DEF visible
<1>3. p.owner \in OwnersOf(q.doc, visible) /\ q.owner \in OwnersOf(p.doc, visible)
      BY <1>2 DEF OwnersOf
<1>4. \/ OwnersOf(p.doc, visible) = {p.owner}
      \/ p.owner = t
      BY <1>1 DEF PreferUnambiguousOwners
<1>5. \/ OwnersOf(q.doc, visible) = {q.owner}
      \/ q.owner = t
      BY <1>1 DEF PreferUnambiguousOwners
<1>6. QED
      BY <1>3, <1>4, <1>5

\* Whatever ids the model returns, the citations are retrieved passages, and
\* there is one if there was a passage (citations_for_document_ids).
LEMMA CitationsAreRetrieved ==
    ASSUME NEW used, NEW found_
    PROVE  /\ CitationsFor(used, found_) \subseteq found_
           /\ found_ # {} => CitationsFor(used, found_) # {}
<1> DEFINE known == used \cap {p.doc : p \in found_}
<1>1. CitationsFor(used, found_) = {p \in found_ : known = {} \/ p.doc \in known}
      BY DEF CitationsFor
<1>2. CASE known = {}
      BY <1>1, <1>2
<1>3. CASE known # {}
  <2>1. PICK d : d \in known
        BY <1>3
  <2>2. PICK p \in found_ : p.doc = d
        BY <2>1
  <2>3. QED
        BY <1>1, <2>1, <2>2
<1>4. QED
      BY <1>2, <1>3

-----------------------------------------------------------------------------
(* DInv is inductive *)

\* A fresh request has disclosed nothing.
LEMMA DInvInit == Init => DInv
BY KbAssumption
   DEF Init, DInv, Shapes, PassagesPermitted, NothingYet, DrawnFromPassages, HasProvenance,
       OnRecord, RepliesAreOnRecord, Early, Answering, Verdict, Refusal, NoReply

\* Appending to the trail a record of permitted evidence.
LEMMA RecordKeepsDrawn ==
    ASSUME trail \in Seq(AuditRecord), NEW a \in {"search", "answer"}, verdict \in Verdict,
           NEW c, c \subseteq passages, passages \subseteq Passage,
           \A i \in DOMAIN trail : trail[i].cited \subseteq passages
    PROVE  /\ Record(a, c) \in Seq(AuditRecord)
           /\ \A i \in DOMAIN Record(a, c) : Record(a, c)[i].cited \subseteq passages
           /\ Record(a, c) # <<>>
           /\ Record(a, c)[Len(Record(a, c))] =
                  [action |-> a, decision |-> verdict, cited |-> c]
<1> DEFINE r == [action |-> a, decision |-> verdict, cited |-> c]
<1>1. r \in AuditRecord /\ r.cited = c
      BY DEF AuditRecord
<1>2. Record(a, c) = Append(trail, r)
      BY DEF Record
<1>3. Record(a, c)[Len(Record(a, c))] = r
      BY <1>1, <1>2
<1> HIDE DEF r
<1>4. /\ Record(a, c) \in Seq(AuditRecord)
      /\ \A i \in DOMAIN Record(a, c) : Record(a, c)[i].cited \subseteq passages
      /\ Record(a, c) # <<>>
      BY <1>1, <1>2
<1>5. QED
      BY <1>3, <1>4 DEF r

\* No step discloses what the caller may not see.
LEMMA DInvStep == DInv /\ [Next]_vars => DInv'
<1> SUFFICES ASSUME DInv, [Next]_vars PROVE DInv'
    OBVIOUS
<1> USE DEF DInv, Shapes, PassagesPermitted, NothingYet, DrawnFromPassages, HasProvenance,
            OnRecord, RepliesAreOnRecord, Early, Answering, Goto
<1>1. ASSUME NEW k \in {"search", "answer"}, NEW t \in Owners, Ask(k, t) PROVE DInv'
      BY <1>1 DEF Ask, found, answer
<1>2. CASE ScreenQuery
      BY <1>2 DEF ScreenQuery, caller, found, answer, Verdict
<1>3. CASE Resolve
      BY <1>3 DEF Resolve, caller, answer, Verdict
<1>4. CASE Retrieve
  <2>1. PICK returned \in SUBSET corpus : passages' = Admitted(returned, tenant, allowed)
        BY <1>4 DEF Retrieve
  <2>2. passages' \subseteq corpus /\ \A p \in passages' : Permitted(p, tenant, allowed)
        BY <2>1, AdmittedIsPermitted
  <2>3. QED
        BY <1>4, <2>2 DEF Retrieve, caller, answer
<1>5. CASE ScreenPassages
      BY <1>5 DEF ScreenPassages, caller, answer, Verdict
<1>6. CASE AuditSearch
  <2>1. /\ trail' \in Seq(AuditRecord)
        /\ \A i \in DOMAIN trail' : trail'[i].cited \subseteq passages
        /\ trail' # <<>>
        /\ trail'[Len(trail')] =
               [action |-> "search", decision |-> verdict, cited |-> passages]
        BY <1>6, RecordKeepsDrawn DEF AuditSearch
  <2>2. CASE kind = "search"
        BY <1>6, <2>1, <2>2 DEF AuditSearch, caller, found, answer, Reply
  <2>3. CASE kind = "answer"
        BY <1>6, <2>1, <2>3 DEF AuditSearch, caller, found, answer, Verdict
  <2>4. QED
        BY <2>2, <2>3
<1>7. CASE Generate
  <2>1. PICK used \in SUBSET Docs : cited' = CitationsFor(used, passages)
        BY <1>7 DEF Generate
  <2>2. cited' \subseteq passages /\ cited' # {}
        BY <1>7, <2>1, CitationsAreRetrieved DEF Generate
  <2>3. QED
        BY <1>7, <2>2 DEF Generate, caller, found
<1>8. CASE Locate
      BY <1>8 DEF Locate, caller, found
<1>9. CASE Located
      BY <1>9 DEF Located, caller, found
<1>10. CASE CritiqueUnusable
      BY <1>10 DEF CritiqueUnusable, caller, found, answer
<1>11. CASE Critique
      BY <1>11 DEF Critique, caller, found
<1>12. CASE Caveat
      BY <1>12 DEF Caveat, caller, found, Verdict
<1>13. CASE ScreenAnswer
      BY <1>13 DEF ScreenAnswer, caller, found, Verdict
<1>14. CASE AuditAnswer
  <2> DEFINE c == IF verdict = "allowed" THEN cited ELSE {}
  <2>1. trail' = Record("answer", c) /\ c \subseteq passages
        BY <1>14 DEF AuditAnswer
  <2> HIDE DEF c
  <2>2. /\ trail' \in Seq(AuditRecord)
        /\ \A i \in DOMAIN trail' : trail'[i].cited \subseteq passages
        /\ trail' # <<>>
        /\ trail'[Len(trail')] = [action |-> "answer", decision |-> verdict, cited |-> c]
        BY <2>1, RecordKeepsDrawn
  <2>3. /\ reply'.disclosed = c /\ c \subseteq cited
        /\ reply'.outcome = "answered" => verdict = "allowed"
        /\ reply'.outcome = "answered" => reply'.disclosed # {}
    <3>1. CASE verdict = "allowed"
          BY <1>14, <3>1 DEF AuditAnswer, Reply, c
    <3>2. CASE verdict # "allowed"
      <4>1. CASE verdict = "blocked"
            BY <1>14, <4>1 DEF AuditAnswer, Refusal, c
      <4>2. CASE verdict = "escalated"
            BY <1>14, <4>2 DEF AuditAnswer, Refusal, c
      <4>3. QED
            BY <1>14, <3>2, <4>1, <4>2 DEF AuditAnswer, Verdict
    <3>3. QED
          BY <3>1, <3>2
  <2>4. /\ pc' = "done" /\ kind = "answer"
        /\ UNCHANGED <<corpus, kind, tenant, allowed, passages, verdict, cited>>
        BY <1>14 DEF AuditAnswer, caller, found, answer
  <2>5. RepliesAreOnRecord'
        BY <2>2, <2>3, <2>4
  <2>6. QED
        BY <2>2, <2>3, <2>4, <2>5
<1>15. CASE Raises
      BY <1>15 DEF Raises, caller, found, answer, Guarded, Refusal
<1>16. CASE Close
      BY <1>16 DEF Close, Verdict, NoReply, Refusal
<1>17. ASSUME NEW p \in corpus, Reindex(p) \/ Remove(p) PROVE DInv'
  <2>1. corpus' \subseteq Passage
    <3>1. CASE Remove(p)
          BY <3>1 DEF Remove
    <3>2. CASE Reindex(p)
          BY <3>2, KbAssumption DEF Reindex, Passage
    <3>3. QED
          BY <1>17, <3>1, <3>2
  <2>2. QED
        BY <1>17, <2>1 DEF Reindex, Remove, caller, found, answer
<1>18. CASE UNCHANGED vars
      BY <1>18 DEF vars, caller, found, answer
<1>19. QED
      BY <1>1, <1>2, <1>3, <1>4, <1>5, <1>6, <1>7, <1>8, <1>9, <1>10, <1>11, <1>12, <1>13,
         <1>14, <1>15, <1>16, <1>17, <1>18 DEF Next, Step
-----------------------------------------------------------------------------
(* Theorems *)

\* Everything a caller or the audit trail is shown is permitted to the caller,
\* whatever the adapter returns and the corpus does meanwhile (P-09).
THEOREM DisclosureIsPermitted == Spec => []DisclosedIsPermitted
<1>1. DInv => DisclosedIsPermitted
      BY DEF DInv, PassagesPermitted, DrawnFromPassages, Permitted, DisclosedIsPermitted
<1>2. QED
      BY DInvInit, DInvStep, <1>1, PTL DEF Spec

\* No answer is returned without provenance, and it cites nothing that was not
\* retrieved, whatever ids the model names (B2).
THEOREM AnswersCiteEvidence == Spec => []AnswersAreGrounded
<1>1. DInv => AnswersAreGrounded
      BY DEF DInv, DrawnFromPassages, HasProvenance, AnswersAreGrounded
<1>2. QED
      BY DInvInit, DInvStep, <1>1, PTL DEF Spec

\* Whatever the service returns, the newest audit record is of that action,
\* decision and evidence, and only an allowed request is answered: the record is
\* written first, and a sink that fails fails the request (_safe_record).
THEOREM RepliesRecorded == Spec => []RepliesAreOnRecord
<1>1. DInv => RepliesAreOnRecord
      BY DEF DInv, OnRecord
<1>2. QED
      BY DInvInit, DInvStep, <1>1, PTL DEF Spec

-----------------------------------------------------------------------------
(* Type correctness *)

\* The labels up to the first audit record.
Unrecorded == Early \cup {"screenPassages", "auditSearch"}

\* Every record leads on to a label that writes no second one of its kind.
TypeInv ==
    /\ TypeOK
    /\ pc \in Unrecorded => trail = <<>>
    /\ pc # "done" => Len(trail) <= 1

\* Capping a confidence keeps it in its range.
LEMMA LeastInRange ==
    ASSUME NEW a \in 0..100, NEW b \in 0..100
    PROVE  Least(a, b) \in 0..100 /\ Least(a, b) <= a /\ Least(a, b) <= b
BY DEF Least

\* Whatever a model reports is a confidence between 0 and 100 percent, and one
\* that is no number at all is 0, but for the NaN (_clamp).
LEMMA ClampInRange ==
    ASSUME NEW s \in Said
    PROVE  /\ Clamp(s) \in 0..100
           /\ s.kind = "number" => Clamp(s) <= s.value \/ Clamp(s) = 0
           /\ s.kind = "other" => Clamp(s) = 0
<1>1. s.kind \in {"number", "nan", "other"} /\ s.value \in Int
      BY KbAssumption
<1>2. QED
      BY <1>1 DEF Clamp, Greatest, Least

\* What the redactor returns is a text.
LEMMA RedactedIsText ==
    ASSUME NEW t \in Text
    PROVE  /\ Redacted(t) \in Text
           /\ ~ Redacted(t).pii
           /\ Redacted(t).harm = t.harm /\ Redacted(t).empty = t.empty
BY DEF Text, Redacted

\* A text of the guardrail's own holds nothing personal.
LEMMA RewordedIsText == Reworded \in Text /\ ~ Reworded.pii
<1>1. Reworded \in [pii : BOOLEAN, harm : BOOLEAN, empty : BOOLEAN]
      BY Zenon DEF Reworded
<1>2. ~ Reworded.pii /\ ~ Reworded.empty
      BY DEF Reworded
<1>3. QED
      BY <1>1, <1>2 DEF Text

\* What an allowing verdict leaves of a redacted text is safe to return.
LEMMA ScreenedIsSafe ==
    ASSUME NEW t \in Text, ~ t.pii, NEW safe \in Screened(t)
    PROVE  safe \in Text /\ ~ safe.pii /\ ~ safe.harm
<1>1. safe \in {t, Reworded} /\ ~ safe.harm
      BY DEF Screened
<1>2. QED
      BY <1>1, RewordedIsText

\* A record of a redacted text is a record of the audit trail.
LEMMA RecordTyped ==
    ASSUME TypeOK, NEW a \in {"search", "answer"}, NEW c \in SUBSET Passage
    PROVE  /\ Record(a, c) \in Seq(AuditRecord)
           /\ Len(Record(a, c)) = Len(trail) + 1
<1> DEFINE r == [action |-> a, decision |-> verdict, cited |-> c]
<1>1. r \in AuditRecord
      BY DEF AuditRecord, TypeOK
<1>2. Record(a, c) = Append(trail, r) /\ trail \in Seq(AuditRecord)
      BY DEF Record, TypeOK
<1> HIDE DEF r
<1>3. QED
      BY <1>1, <1>2

\* The empty text is a text without any finding.
LEMMA NothingIsText == Nothing \in Text /\ ~ Nothing.pii /\ ~ Nothing.harm
BY DEF Nothing, Text

\* The empty trail is a trail.
LEMMA NoRecordsTyped == <<>> \in Seq(AuditRecord) /\ Len(<<>>) = 0
OBVIOUS

\* Fresh locals are well typed, whatever the corpus.
LEMMA FreshTyped ==
    ASSUME corpus \subseteq Passage, kind = "search", tenant = Shared, allowed = {},
           passages = {}, verdict = "none", cited = {}, located = {}, draft = Nothing,
           caveats = {}, conf = 0, level = "standard", doubt = FALSE, trail = <<>>
    PROVE  TypeInv
<1>1. trail \in Seq(AuditRecord) /\ Len(trail) <= 1 /\ Len(trail) <= 2
      BY NoRecordsTyped
<1>2. tenant \in Owners
      BY DEF Owners
<1>3. draft \in Text
      BY NothingIsText
<1>4. doubt \in BOOLEAN
      BY Zenon
<1>5. TypeOK
      BY <1>1, <1>2, <1>3, <1>4 DEF TypeOK, Verdict
<1>6. QED
      BY <1>1, <1>5 DEF TypeInv

\* The initial state is well typed.
LEMMA TypeInit == Init => TypeInv
BY KbAssumption, FreshTyped DEF Init

\* Every step keeps the types.
LEMMA TypeStep == TypeInv /\ [Next]_vars => TypeInv'
<1> SUFFICES ASSUME TypeInv, [Next]_vars PROVE TypeInv'
    OBVIOUS
<1>0. Len(trail) \in Nat
      BY DEF TypeInv, TypeOK
<1>1. ASSUME NEW k \in {"search", "answer"}, NEW t \in Owners, Ask(k, t) PROVE TypeInv'
      BY <1>1 DEF Ask, found, answer, TypeInv, TypeOK, Unrecorded, Early, Goto
<1>2. CASE ScreenQuery \/ Resolve \/ ScreenPassages
      BY <1>2 DEF ScreenQuery, Resolve, ScreenPassages, caller, found, answer, TypeInv, TypeOK,
                  Unrecorded, Early, Goto, Verdict
<1>3. CASE Retrieve
  <2>1. passages' \subseteq Passage
        BY <1>3, AdmittedIsPermitted DEF Retrieve, TypeInv, TypeOK
  <2>2. QED
        BY <1>3, <2>1 DEF Retrieve, caller, answer, TypeInv, TypeOK, Unrecorded, Early, Goto
<1>4. CASE AuditSearch
  <2>1. trail' \in Seq(AuditRecord) /\ Len(trail') = 1
        BY <1>4, RecordTyped DEF AuditSearch, TypeInv, TypeOK, Unrecorded
  <2>2. verdict' \in Verdict /\ pc' \in {"done", "auditAnswer", "generate"}
        BY <1>4 DEF AuditSearch, Goto, TypeInv, TypeOK, Verdict
  <2>3. UNCHANGED <<corpus, caller, found, answer>>
        BY <1>4 DEF AuditSearch
  <2>4. QED
        BY <2>1, <2>2, <2>3 DEF caller, found, answer, TypeInv, TypeOK, Unrecorded, Early
<1>5. CASE Generate
  <2>1. PICK used \in SUBSET Docs, s \in Said, t \in Text :
            /\ draft' = Redacted(t)
            /\ cited' = CitationsFor(used, passages)
            /\ conf' = Clamp(s)
            /\ doubt' = (t.empty \/ Doubts(s))
        BY <1>5 DEF Generate
  <2>2. draft' \in Text /\ cited' \subseteq Passage /\ conf' \in 0..100
        BY <2>1, RedactedIsText, CitationsAreRetrieved, ClampInRange DEF TypeInv, TypeOK
  <2>3. doubt' \in BOOLEAN
        BY <2>1 DEF Text, Doubts
  <2>4. QED
        BY <1>5, <2>2, <2>3 DEF Generate, caller, found, TypeInv, TypeOK, Unrecorded, Early, Goto
<1>6. CASE Locate
  <2>1. located' \subseteq [cite : Passage, owner : Owners, rev : 0..MaxRev]
        BY <1>6, KbAssumption DEF Locate, TypeInv, TypeOK, Passage
  <2>2. QED
        BY <1>6, <2>1 DEF Locate, caller, found, TypeInv, TypeOK
<1>7. CASE Located
  <2>1. conf' \in 0..100
    <3>1. conf \in 0..100 /\ Least(conf, 20) \in 0..100
          BY DEF Least, TypeInv, TypeOK
    <3>2. QED
          BY <1>7, <3>1 DEF Located
  <2>2. QED
        BY <1>7, <2>1 DEF Located, caller, found, TypeInv, TypeOK, Unrecorded, Early, Goto
<1>8. CASE CritiqueUnusable
      BY <1>8 DEF CritiqueUnusable, caller, found, answer, TypeInv, TypeOK, Unrecorded, Early,
                  Goto
<1>9. CASE Critique
  <2>1. PICK s \in Said, grounded \in BOOLEAN, scored \in BOOLEAN :
            /\ conf' = LET least == IF scored THEN Least(conf, Clamp(s)) ELSE conf
                       IN  IF grounded THEN least ELSE Least(least, 40)
            /\ doubt' = (doubt \/ ~ grounded \/ (scored /\ Doubts(s)))
        BY <1>9 DEF Critique
  <2>2. conf' \in 0..100
    <3> DEFINE least == IF scored THEN Least(conf, Clamp(s)) ELSE conf
    <3>1. conf \in 0..100 /\ Clamp(s) \in 0..100
          BY ClampInRange DEF TypeInv, TypeOK
    <3>2. least \in 0..100
          BY <3>1, LeastInRange
    <3>3. conf' = IF grounded THEN least ELSE Least(least, 40)
          BY <2>1
    <3> HIDE DEF least
    <3>4. Least(least, 40) \in 0..100
          BY <3>2 DEF Least
    <3>5. QED
          BY <3>2, <3>3, <3>4
  <2>3. doubt' \in BOOLEAN
        BY <2>1
  <2>4. QED
        BY <1>9, <2>2, <2>3 DEF Critique, caller, found, TypeInv, TypeOK, Unrecorded, Early, Goto
<1>10. CASE Caveat
  <2>1. caveats' \subseteq Text
        BY <1>10, RedactedIsText, ScreenedIsSafe DEF Caveat, TypeInv, TypeOK
  <2>2. QED
        BY <1>10, <2>1 DEF Caveat, caller, found, TypeInv, TypeOK, Unrecorded, Early, Goto, Verdict
<1>11. CASE ScreenAnswer
  <2>1. draft' \in Text
    <3>1. draft \in Text /\ draft' \in {draft, Reworded}
          BY <1>11 DEF ScreenAnswer, Screened, TypeInv, TypeOK
    <3>2. Reworded \in Text
          BY RewordedIsText
    <3>3. QED
          BY <3>1, <3>2
  <2>2. QED
        BY <1>11, <2>1 DEF ScreenAnswer, Review, caller, found, TypeInv, TypeOK, Unrecorded, Early,
                           Goto, Verdict
<1>12. CASE AuditAnswer
  <2>1. trail' \in Seq(AuditRecord) /\ Len(trail') <= 2
        BY <1>0, <1>12, RecordTyped DEF AuditAnswer, TypeInv, TypeOK
  <2>2. QED
        BY <1>12, <2>1 DEF AuditAnswer, caller, found, answer, TypeInv, TypeOK, Unrecorded, Early,
                           Goto
<1>13. CASE Raises
      BY <1>13 DEF Raises, caller, found, answer, TypeInv, TypeOK, Unrecorded, Early, Goto
<1>14. CASE Close
  <2>1. trail' \in Seq(AuditRecord) /\ Len(trail') <= 1 /\ Len(trail') <= 2 /\ trail' = <<>>
        BY <1>14, NoRecordsTyped DEF Close
  <2>2. tenant' \in Owners /\ draft' \in Text /\ doubt' \in BOOLEAN
        BY <1>14, NothingIsText, Zenon DEF Close, Owners
  <2>3. TypeOK'
        BY <1>14, <2>1, <2>2 DEF Close, TypeInv, TypeOK, Verdict
  <2>4. QED
        BY <2>1, <2>3 DEF TypeInv
<1>15. ASSUME NEW p \in corpus, Reindex(p) \/ Remove(p) PROVE TypeInv'
  <2>1. corpus' \subseteq Passage
    <3>1. CASE Remove(p)
          BY <3>1 DEF Remove, TypeInv, TypeOK
    <3>2. CASE Reindex(p)
          BY <3>2, KbAssumption DEF Reindex, Passage, TypeInv, TypeOK
    <3>3. QED
          BY <1>15, <3>1, <3>2
  <2>2. QED
        BY <1>15, <2>1 DEF Reindex, Remove, caller, found, answer, TypeInv, TypeOK
<1>16. CASE UNCHANGED vars
      BY <1>16 DEF vars, caller, found, answer, TypeInv, TypeOK
<1>17. QED
      BY <1>1, <1>2, <1>3, <1>4, <1>5, <1>6, <1>7, <1>8, <1>9, <1>10, <1>11, <1>12, <1>13,
         <1>14, <1>15, <1>16 DEF Next, Step

\* Every variable keeps its type: a confidence is one between 0 and 100 percent
\* whatever a model returns, and a request leaves at most two audit records.
THEOREM RequestTypeCorrect == Spec => []TypeOK
<1>1. TypeInv => TypeOK
      BY DEF TypeInv
<1>2. QED
      BY TypeInit, TypeStep, <1>1, PTL DEF Spec
-----------------------------------------------------------------------------
(* Which document a citation is refined in *)

\* The passages agree on the owner of an id, and the citations are among them.
LocateInv ==
    /\ \A p, q \in passages : p.doc = q.doc => p.owner = q.owner
    /\ cited \subseteq passages
    /\ \A l \in located : l.cite \in cited /\ l.owner = l.cite.owner
    /\ pc \in Early \cup {"screenPassages", "auditSearch", "generate"} => located = {}

\* Every step keeps the citations with the owner whose passage was admitted.
LEMMA LocateStep == LocateInv /\ DInv /\ [Next]_vars => LocateInv'
<1> SUFFICES ASSUME LocateInv, DInv, [Next]_vars PROVE LocateInv'
    OBVIOUS
<1> USE DEF LocateInv, Early, Goto
<1>1. ASSUME NEW k \in {"search", "answer"}, NEW t \in Owners, Ask(k, t) PROVE LocateInv'
      BY <1>1 DEF Ask, found, answer
<1>2. CASE ScreenQuery \/ Resolve \/ ScreenPassages
      BY <1>2 DEF ScreenQuery, Resolve, ScreenPassages, caller, found, answer, DInv, NothingYet
<1>3. CASE Retrieve
  <2>1. \A p, q \in passages' : p.doc = q.doc => p.owner = q.owner
        BY <1>3, OneOwnerPerId DEF Retrieve
  <2>2. QED
        BY <1>3, <2>1 DEF Retrieve, caller, answer, DInv, NothingYet
<1>4. CASE AuditSearch
      BY <1>4 DEF AuditSearch, caller, found, answer
<1>5. CASE Generate
  <2>1. cited' \subseteq passages
        BY <1>5, CitationsAreRetrieved DEF Generate
  <2>2. QED
        BY <1>5, <2>1 DEF Generate, caller, found
<1>6. CASE Locate
  <2>1. PICK c \in cited \ {l.cite : l \in located}, p \in passages :
            /\ p.doc = c.doc
            /\ \E rev \in {0} \cup {q.rev : q \in {r \in corpus : r.doc = p.doc /\ r.owner = p.owner}} :
                  located' = located \cup {[cite |-> c, owner |-> p.owner, rev |-> rev]}
        BY <1>6 DEF Locate
  <2>2. PICK rev :
            located' = located \cup {[cite |-> c, owner |-> p.owner, rev |-> rev]}
        BY <2>1
  <2>3. p.owner = c.owner
        BY <2>1
  <2>4. \A l \in located' : l.cite \in cited /\ l.owner = l.cite.owner
        BY <2>2, <2>3
  <2>5. UNCHANGED <<pc, passages, cited>> /\ pc = "locate"
        BY <1>6 DEF Locate, found
  <2>6. QED
        BY <2>4, <2>5
<1>7. CASE Located \/ CritiqueUnusable \/ Critique \/ Caveat \/ ScreenAnswer
      BY <1>7 DEF Located, CritiqueUnusable, Critique, Caveat, ScreenAnswer, caller, found, answer
<1>8. CASE AuditAnswer \/ Raises
      BY <1>8 DEF AuditAnswer, Raises, caller, found, answer
<1>9. CASE Close
      BY <1>9 DEF Close
<1>10. ASSUME NEW p \in corpus, Reindex(p) \/ Remove(p) PROVE LocateInv'
      BY <1>10 DEF Reindex, Remove, caller, found, answer
<1>11. CASE UNCHANGED vars
      BY <1>11 DEF vars, caller, found, answer
<1>12. QED
      BY <1>1, <1>2, <1>3, <1>4, <1>5, <1>6, <1>7, <1>8, <1>9, <1>10, <1>11 DEF Next, Step

\* A citation is refined in the chunks of the very owner whose passage was
\* retrieved: the model names documents by id only, and an id stands for one
\* owner among the admitted passages (prefer_unambiguous_document_owners).
THEOREM CitationsKeepTheirOwner == Spec => []LocatedUnderItsOwner
<1>1. Init => LocateInv
      BY DEF Init, LocateInv
<1>2. LocateInv => LocatedUnderItsOwner
      BY DEF LocateInv, LocatedUnderItsOwner
<1>3. QED
      BY DInvInit, DInvStep, LocateStep, <1>1, <1>2, PTL DEF Spec
-----------------------------------------------------------------------------
(* What texts leave *)

\* Up to the search record there is no draft; from then on it is redacted, and
\* an answer that may be given was let through by the guardrail.
SafeInv ==
    /\ pc \in Unrecorded \cup {"generate"} => draft = Nothing /\ caveats = {}
    /\ ~ draft.pii
    /\ \A t \in caveats : ~ t.pii /\ ~ t.harm
    /\ pc = "auditAnswer" /\ verdict = "allowed" => ~ draft.harm
    /\ \A t \in {reply.text} \cup reply.caveats : ~ t.pii /\ ~ t.harm

\* Nothing has been recorded or returned.
LEMMA SafeInit == Init => SafeInv
BY NothingIsText DEF Init, SafeInv, NoReply, Refusal

\* Every step keeps what is returned and recorded screened.
LEMMA SafeStep == SafeInv /\ TypeInv /\ DInv /\ [Next]_vars => SafeInv'
<1> SUFFICES ASSUME SafeInv, TypeInv, DInv, [Next]_vars PROVE SafeInv'
    OBVIOUS
<1> USE DEF SafeInv, Unrecorded, Early, Goto
<1>1. ASSUME NEW k \in {"search", "answer"}, NEW t \in Owners, Ask(k, t) PROVE SafeInv'
      BY <1>1 DEF Ask, found, answer
<1>2. CASE ScreenQuery \/ Resolve \/ ScreenPassages \/ Retrieve
      BY <1>2 DEF ScreenQuery, Resolve, ScreenPassages, Retrieve, caller, found, answer
<1>3. CASE AuditSearch
  <2>1. CASE kind = "search"
        BY <1>3, <2>1, NothingIsText DEF AuditSearch, Reply, caller, found, answer
  <2>2. CASE kind # "search"
        BY <1>3, <2>2, NothingIsText DEF AuditSearch, caller, found, answer
  <2>3. QED
        BY <2>1, <2>2
<1>4. CASE Generate
      BY <1>4, RedactedIsText DEF Generate, caller, found
<1>5. CASE Locate \/ Located \/ CritiqueUnusable \/ Critique
      BY <1>5 DEF Locate, Located, CritiqueUnusable, Critique, caller, found, answer
<1>6. CASE Caveat
  <2>1. \A t \in caveats' : ~ t.pii /\ ~ t.harm
        BY <1>6, RedactedIsText, ScreenedIsSafe DEF Caveat
  <2>2. QED
        BY <1>6, <2>1 DEF Caveat, caller, found
<1>7. CASE ScreenAnswer
  <2>1. ~ draft.pii /\ draft \in Text
        BY DEF TypeInv, TypeOK
  <2>2. ~ draft'.pii /\ (verdict' = "allowed" => ~ draft'.harm)
    <3>1. CASE verdict' = "allowed" /\ draft' \in Screened(draft)
          BY <2>1, <3>1, ScreenedIsSafe
    <3>2. CASE verdict' = "blocked" /\ UNCHANGED draft
          BY <2>1, <3>2
    <3>3. QED
          BY <1>7, <3>1, <3>2 DEF ScreenAnswer
  <2>3. QED
        BY <1>7, <2>2 DEF ScreenAnswer, caller, found
<1>8. CASE AuditAnswer
  <2>1. CASE verdict = "allowed"
        BY <1>8, <2>1 DEF AuditAnswer, Reply, caller, found, answer
  <2>2. CASE verdict # "allowed"
    <3>1. reply'.text = Nothing /\ reply'.caveats = {}
      <4>1. CASE verdict = "blocked"
            BY <1>8, <4>1 DEF AuditAnswer, Refusal
      <4>2. CASE verdict = "escalated"
            BY <1>8, <4>2 DEF AuditAnswer, Refusal
      <4>3. verdict # "none"
            BY <1>8 DEF AuditAnswer, DInv, OnRecord
      <4>4. QED
            BY <2>2, <4>1, <4>2, <4>3 DEF TypeInv, TypeOK, Verdict
    <3>2. QED
          BY <1>8, <3>1, NothingIsText DEF AuditAnswer, caller, found, answer
  <2>3. QED
        BY <2>1, <2>2
<1>9. CASE Raises
      BY <1>9, NothingIsText DEF Raises, Refusal, caller, found, answer
<1>10. CASE Close
      BY <1>10, NothingIsText DEF Close, NoReply, Refusal
<1>11. ASSUME NEW p \in corpus, Reindex(p) \/ Remove(p) PROVE SafeInv'
      BY <1>11 DEF Reindex, Remove, caller, found, answer
<1>12. CASE UNCHANGED vars
      BY <1>12 DEF vars, caller, found, answer
<1>13. QED
      BY <1>1, <1>2, <1>3, <1>4, <1>5, <1>6, <1>7, <1>8, <1>9, <1>10, <1>11, <1>12 DEF Next, Step

\* No text a caller gets, and none the second model is shown, holds personal
\* data, and none a caller gets was refused by the guardrail (P-04).
THEOREM NothingUnsafeIsReturned == Spec => []NothingUnsafeLeaves
<1>1. SafeInv => NothingUnsafeLeaves
      BY DEF SafeInv, NothingUnsafeLeaves
<1>2. QED
      BY TypeInit, TypeStep, DInvInit, DInvStep, SafeInit, SafeStep, <1>1, PTL DEF Spec
-----------------------------------------------------------------------------
(* Weak answers are reviewed *)

\* While an answer is on its way, a doubt about it keeps its confidence below
\* the floor (or its draft empty, until that caps the confidence), and once the
\* level is decided, a doubt is an enhanced review.
DoubtInv ==
    /\ pc = "locate" /\ doubt => conf < Floor \/ draft.empty
    /\ pc \in {"critique", "caveat", "screenAnswer"} /\ doubt => conf < Floor
    /\ pc = "auditAnswer" /\ verdict = "allowed" /\ doubt => level = "enhanced"
    /\ WeakAnswersEscalate

\* A confidence that is low, or no number at all, is clamped to one below the
\* floor; NaN is not (_clamp).
LEMMA DoubtedIsLow ==
    ASSUME Floor > 40, NEW s \in Said, s.kind # "nan", Doubts(s)
    PROVE  Clamp(s) < Floor
<1>1. s.kind \in {"number", "nan", "other"} /\ s.value \in Int /\ Floor \in 0..100
      BY KbAssumption
<1>2. QED
      BY <1>1 DEF Doubts, Clamp, Greatest, Least

\* Every step keeps a doubtful answer escalated.
LEMMA DoubtStep ==
    ASSUME Floor > 40, \A s \in Said : s.kind # "nan",
           DoubtInv, TypeInv, DInv, [Next]_vars
    PROVE  DoubtInv'
<1> USE DEF DoubtInv, WeakAnswersEscalate, Answering, Goto
<1>0. conf \in 0..100 /\ Floor \in 0..100
      BY KbAssumption DEF TypeInv, TypeOK
<1>1. ASSUME NEW k \in {"search", "answer"}, NEW t \in Owners, Ask(k, t) PROVE DoubtInv'
      BY <1>1 DEF Ask, found, answer
<1>2. CASE ScreenQuery \/ Resolve \/ ScreenPassages \/ Retrieve
      BY <1>2 DEF ScreenQuery, Resolve, ScreenPassages, Retrieve, caller, found, answer
<1>3. CASE AuditSearch
  <2>1. CASE kind = "search"
        BY <1>3, <2>1 DEF AuditSearch, Reply, answer
  <2>2. CASE kind # "search"
        BY <1>3, <2>2 DEF AuditSearch, answer
  <2>3. QED
        BY <2>1, <2>2
<1>4. CASE Generate
  <2>1. PICK s \in Said, t \in Text :
            draft' = Redacted(t) /\ conf' = Clamp(s) /\ doubt' = (t.empty \/ Doubts(s))
        BY <1>4 DEF Generate
  <2>2. draft'.empty = t.empty
        BY <2>1, RedactedIsText
  <2>3. doubt' => conf' < Floor \/ draft'.empty
        BY <2>1, <2>2, DoubtedIsLow
  <2>4. pc' = "locate" /\ UNCHANGED reply /\ reply.outcome = "none"
        BY <1>4 DEF Generate, DInv, OnRecord
  <2>5. QED
        BY <2>3, <2>4
<1>5. CASE Locate
      BY <1>5 DEF Locate
<1>6. CASE Located
  <2>1. doubt => conf' < Floor
    <3>1. Least(conf, 20) \in 0..100 /\ Least(conf, 20) <= 20
          BY <1>0 DEF Least
    <3>2. CASE draft.empty
      <4>1. conf' = Least(conf, 20)
            BY <1>6, <3>2 DEF Located
      <4>2. QED
            BY <1>0, <3>1, <4>1
    <3>3. CASE ~ draft.empty
          BY <1>6, <3>3 DEF Located
    <3>4. QED
          BY <3>2, <3>3
  <2>2. pc' = "critique" /\ UNCHANGED <<doubt, reply, verdict, level>>
        BY <1>6 DEF Located
  <2>3. QED
        BY <2>1, <2>2, <1>6 DEF Located, DInv, OnRecord
<1>7. CASE CritiqueUnusable
      BY <1>7 DEF CritiqueUnusable, answer
<1>8. CASE Critique
  <2>1. PICK s \in Said, grounded \in BOOLEAN, scored \in BOOLEAN :
            /\ conf' = LET least == IF scored THEN Least(conf, Clamp(s)) ELSE conf
                       IN  IF grounded THEN least ELSE Least(least, 40)
            /\ doubt' = (doubt \/ ~ grounded \/ (scored /\ Doubts(s)))
        BY <1>8 DEF Critique
  <2> DEFINE least == IF scored THEN Least(conf, Clamp(s)) ELSE conf
  <2>2. conf' = IF grounded THEN least ELSE Least(least, 40)
        BY <2>1
  <2>3. /\ Clamp(s) \in 0..100
        /\ Doubts(s) => Clamp(s) < Floor
        BY ClampInRange, DoubtedIsLow
  <2>4. /\ least \in 0..100 /\ least <= conf
        /\ scored => least <= Clamp(s)
        BY <1>0, <2>3 DEF Least
  <2> HIDE DEF least
  <2>5. conf' \in 0..100 /\ conf' <= least /\ (~ grounded => conf' <= 40)
        BY <2>2, <2>4 DEF Least
  <2>6. pc = "critique" /\ (doubt => conf < Floor)
        BY <1>8 DEF Critique
  <2>7. doubt' => conf' < Floor
    <3>1. CASE doubt
          BY <1>0, <2>4, <2>5, <2>6, <3>1
    <3>2. CASE ~ grounded
          BY <1>0, <2>5, <3>2
    <3>3. CASE scored /\ Doubts(s)
          BY <1>0, <2>3, <2>4, <2>5, <3>3
    <3>4. QED
          BY <2>1, <3>1, <3>2, <3>3
  <2>8. pc' \in {"caveat", "screenAnswer"} /\ UNCHANGED reply /\ reply.outcome = "none"
        BY <1>8 DEF Critique, DInv, OnRecord
  <2>9. QED
        BY <2>7, <2>8
<1>9. CASE Caveat
      BY <1>9 DEF Caveat
<1>10. CASE ScreenAnswer
  <2>1. doubt' => level' = "enhanced"
        BY <1>10 DEF ScreenAnswer, Review
  <2>2. pc' = "auditAnswer" /\ UNCHANGED reply /\ reply.outcome = "none"
        BY <1>10 DEF ScreenAnswer, DInv, OnRecord
  <2>3. QED
        BY <2>1, <2>2
<1>11. CASE AuditAnswer
  <2>1. pc' = "done" /\ UNCHANGED <<doubt, level, verdict>>
        BY <1>11 DEF AuditAnswer, answer
  <2>2. CASE verdict = "allowed"
        BY <1>11, <2>1, <2>2 DEF AuditAnswer, Reply
  <2>3. CASE verdict # "allowed"
    <3>1. reply'.outcome # "answered"
      <4>1. CASE verdict = "blocked"
            BY <1>11, <4>1 DEF AuditAnswer, Refusal
      <4>2. CASE verdict = "escalated"
            BY <1>11, <4>2 DEF AuditAnswer, Refusal
      <4>3. verdict # "none"
            BY <1>11 DEF AuditAnswer, DInv, OnRecord
      <4>4. QED
            BY <2>3, <4>1, <4>2, <4>3 DEF TypeInv, TypeOK, Verdict
    <3>2. QED
          BY <2>1, <3>1
  <2>4. QED
        BY <2>2, <2>3
<1>12. CASE Raises
      BY <1>12 DEF Raises, Refusal
<1>13. CASE Close
      BY <1>13 DEF Close, NoReply, Refusal
<1>14. ASSUME NEW p \in corpus, Reindex(p) \/ Remove(p) PROVE DoubtInv'
      BY <1>14 DEF Reindex, Remove, answer
<1>15. CASE UNCHANGED vars
      BY <1>15 DEF vars, answer
<1>16. QED
      BY <1>1, <1>2, <1>3, <1>4, <1>5, <1>6, <1>7, <1>8, <1>9, <1>10, <1>11, <1>12, <1>13,
         <1>14, <1>15 DEF Next, Step

\* With a floor above the cap of an ungrounded answer, and models that report
\* numbers or something that is none, but not NaN (the run KbService_nan shows
\* what NaN does), an answer that is doubted, empty or rests on a sensitive
\* passage is returned for enhanced review (KbReviewPolicy.evaluate).
THEOREM DoubtedAnswersAreReviewed ==
    ASSUME Floor > 40, \A s \in Said : s.kind # "nan"
    PROVE  Spec => []WeakAnswersEscalate
<1>1. Init => DoubtInv
      BY DEF Init, DoubtInv, WeakAnswersEscalate, NoReply, Refusal, Answering
<1>2. DoubtInv /\ TypeInv /\ DInv /\ [Next]_vars => DoubtInv'
      BY DoubtStep
<1>3. DoubtInv => WeakAnswersEscalate
      BY DEF DoubtInv
<1>4. QED
      BY TypeInit, TypeStep, DInvInit, DInvStep, <1>1, <1>2, <1>3, PTL DEF Spec
=============================================================================
