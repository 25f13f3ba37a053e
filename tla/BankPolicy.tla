------------------------------ MODULE BankPolicy ------------------------------
(***************************************************************************)
(* What the bank may write under `policy:` and what the program makes of   *)
(* it: domain/policy.py reads the section once, domain/hitl.py decides a   *)
(* review by it, and the retraction route admits by it.                    *)
(*                                                                         *)
(* A written value is a record: kind "absent", "null", "word" (text that   *)
(* is no number), "nan", or "number" with a value in percent, which is     *)
(* what float() makes of numerals, of text that holds one and of booleans  *)
(* (false is 0 and true is 100); a switch is "absent", "null", "number", a *)
(* boolean "true" or "false", or text, "yes" or "typo"; a list is          *)
(* "absent", "null", "word" or "list" with its entries, "" for a blank.    *)
(***************************************************************************)
EXTENDS Grounded

ShippedFloor == 60
ShippedTags == {"restricted", "mnpi"}
ShippedGroup == {"kb-records-office"}
UngroundedCap == 40     \* the constant of _self_critique
Blank == ""

(***************************************************************************)
(* Slips: one mistake each.                                                *)
(***************************************************************************)
MalformedIsZero(written, shipped) ==
    IF written.kind \in {"number", "nan"} THEN Clamp(written) ELSE 0
-----------------------------------------------------------------------------
(***************************************************************************)
(* KbPolicy.from_mapping.                                                  *)
(***************************************************************************)
\* float(...), or the shipped value, held between 0 and 1; a NaN leaves
\* max and min as their first argument, 1.
Fraction(written, shipped) ==
    IF written.kind \in {"number", "nan"} THEN Clamp(written) ELSE shipped

\* _as_bool: text that is not one of the affirmative words is False; what is
\* neither a boolean nor text is the shipped value.
AsBool(switch, shipped) ==
    IF switch \in {"absent", "null", "number"} THEN shipped ELSE switch \in {"true", "yes"}

\* A list is taken without its blanks, an empty one only where emptying is
\* allowed; anything else is the shipped value.
Listed(written) == written.entries \ {Blank}
SensitiveTags(written) ==
    IF written.kind = "list" /\ written.entries # {} THEN Listed(written) ELSE ShippedTags
RetractionEntitlements(written) ==
    IF written.kind = "list" THEN Listed(written) ELSE ShippedGroup

Policy(raw) ==
    [floor |-> Fraction(raw.floor, ShippedFloor),
     tags |-> SensitiveTags(raw.tags),
     reviewAll |-> AsBool(raw.reviewAll, TRUE),
     raises |-> AsBool(raw.raises, TRUE),
     retraction |-> RetractionEntitlements(raw.retraction)]

\* RetractionPolicy.permits; principals are the verified ones.
Permits(policy, principals) == (principals \cap policy.retraction) \ {Blank} # {}

(***************************************************************************)
(* KbReviewPolicy.evaluate, and the confidence it is given.                *)
(***************************************************************************)
Reasons(policy, a) ==
    {r \in {"blocked", "ungrounded", "confidence", "tag"} :
        \/ r = "blocked" /\ a.blocked
        \/ r = "ungrounded" /\ ~a.grounded
        \/ r = "confidence" /\ a.confidence < policy.floor
        \/ r = "tag" /\ a.tags \cap policy.tags # {}}

Outcome(policy, a) ==
    [enhanced |-> Reasons(policy, a) # {},
     required |-> policy.reviewAll \/ Reasons(policy, a) # {}]

\* _self_critique: the lower of two confidences, capped for unsupported claims;
\* a critic that gives none leaves the first.
Critiqued(prior, critic, supported) ==
    LET said == CASE critic.kind = "absent" -> prior
                  [] critic.kind \in {"number", "nan"} -> Clamp(critic)
                  [] OTHER -> 0
    IN  Least(Least(prior, said), IF supported THEN 100 ELSE UngroundedCap)
-----------------------------------------------------------------------------
(***************************************************************************)
(* What may be written, and what may be answered.                          *)
(***************************************************************************)
Written == {[kind |-> k, value |-> 0] : k \in {"absent", "null", "word", "nan"}}
           \cup [kind : {"number"}, value : {-20, 0, 40, 60, 100, 150}]
Switches == {"absent", "null", "number", "true", "false", "yes", "typo"}
Lists(names) == {[kind |-> k, entries |-> {}] : k \in {"absent", "null", "word"}}
                \cup [kind : {"list"}, entries : SUBSET (names \cup {Blank})]
Answers ==
    [confidence : {0, 40, 60, 100}, tags : SUBSET (ShippedTags \cup {"other"}),
     grounded : BOOLEAN, blocked : BOOLEAN]

\* The writings that loosen: a number below the shipped floor (false is one), a
\* list without a shipped tag (a list of blanks is one), and a switch that is
\* false or any text but an affirmative word.
LoosensLevel(raw) ==
    \/ raw.floor.kind = "number" /\ raw.floor.value < ShippedFloor
    \/ raw.tags.kind = "list" /\ raw.tags.entries # {} /\ ~(ShippedTags \subseteq raw.tags.entries)
LoosensDuty(raw) == raw.reviewAll \in {"false", "typo"}

\* Every key of the section is left out or holds what cannot be read as the
\* kind of value it is for.
Malformed(raw) ==
    /\ raw.floor.kind # "number"
    /\ raw.tags.kind # "list"
    /\ raw.reviewAll \notin {"true", "false", "yes"}

ReviewsAsMuch(policy, shipped, a) ==
    /\ Outcome(shipped, a).enhanced => Outcome(policy, a).enhanced
    /\ Outcome(shipped, a).required => Outcome(policy, a).required

AsShipped(policy) ==
    [policy EXCEPT !.floor = ShippedFloor, !.tags = ShippedTags, !.reviewAll = TRUE]

(***************************************************************************)
(* Properties.                                                             *)
(***************************************************************************)
\* What from_mapping says of itself: a malformed section reviews every answer
\* at least as much as the shipped policy.  A mistyped switch does not.
\* (KbPolicy.from_mapping, _as_bool)
MalformedSectionNeverLoosens(raw) ==
    Malformed(raw) =>
        \A a \in Answers : ReviewsAsMuch(Policy(raw), AsShipped(Policy(raw)), a)

\* Only three writings review an answer less than the shipped policy does: a
\* number below its floor and a list without one of its tags give it less of a
\* review, a switch that is false or unknown text may give it none.  A critique
\* that finds claims unsupported escalates under every floor above its cap; and
\* a document is retracted only by somebody in a group the bank listed, or in
\* the shipped group if it wrote no list, so an emptied list disables
\* retraction.  (KbPolicy.from_mapping, KbReviewPolicy.evaluate,
\* RetractionPolicy.permits, _self_critique)
OnlyThreeWritingsLoosen(raw) ==
    LET policy == Policy(raw)
        shipped == AsShipped(policy)
    IN  /\ \A a \in Answers :
              /\ Outcome(shipped, a).enhanced /\ ~LoosensLevel(raw) => Outcome(policy, a).enhanced
              /\ Outcome(shipped, a).required =>
                    Outcome(policy, a).required \/ LoosensDuty(raw)
        /\ \A prior \in {0, 60, 100}, critic \in Written, tags \in {{}, {"other"}} :
              policy.floor > UngroundedCap =>
                  Outcome(policy, [confidence |-> Critiqued(prior, critic, FALSE), tags |-> tags,
                                   grounded |-> TRUE, blocked |-> FALSE]).enhanced
        /\ \A p \in SUBSET ({Blank, "clerks"} \cup ShippedGroup) :
              Permits(policy, p) =>
                  IF raw.retraction.kind = "list"
                  THEN \E x \in p : x # Blank /\ x \in raw.retraction.entries
                  ELSE p \cap ShippedGroup # {}
=============================================================================
