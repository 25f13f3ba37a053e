------------------------------ MODULE Grounded ------------------------------
(***************************************************************************)
(* The pure decisions of domain/_grounded.py and domain/hitl.py: which of  *)
(* the retrieved passages a caller may see, which of them an answer cites, *)
(* and how strictly the answer is reviewed.                                *)
(*                                                                         *)
(* A passage is a record with fields doc, owner, tags and rev; its text,   *)
(* page and score decide nothing here.  The lists of the code are sets:    *)
(* every filter keeps the relative order of what it keeps.                 *)
(***************************************************************************)
EXTENDS Integers, FiniteSets

CONSTANT Shared   \* the empty tenant: owner of the shared corpus

\* Slip: a caller without a tenant is admitted to everything.
TenantlessSeesAll(passages, tenant) ==
    {p \in passages : tenant = Shared \/ p.owner \in {Shared, tenant}}

FilterByTenant(passages, tenant) ==
    {p \in passages : p.owner \in {Shared, tenant}}

OwnersOf(doc, passages) == {p.owner : p \in {q \in passages : q.doc = doc}}

\* Slip: an ambiguous id is left ambiguous.
KeepEveryOwner(passages, tenant) == passages

\* A document id with several owners stands for the caller's own document, or
\* for none if the caller has no tenant.
PreferUnambiguousOwners(passages, tenant) ==
    {p \in passages : \/ OwnersOf(p.doc, passages) = {p.owner}
                      \/ tenant # Shared /\ p.owner = tenant}

\* Slip: one matching tag is enough.
AnyTagAdmits(passages, allowed) == {p \in passages : p.tags \cap allowed # {}}

\* Every tag of the passage must be allowed; an untagged passage is restricted.
FilterByAllowedTags(passages, allowed) ==
    {p \in passages : p.tags # {} /\ p.tags \subseteq allowed}

\* What _search_inner makes of whatever the adapter returned.
Admitted(passages, tenant, allowed) ==
    FilterByAllowedTags(
        PreferUnambiguousOwners(FilterByTenant(passages, tenant), tenant), allowed)

\* Slip: nothing is cited when the model names nothing that was retrieved.
CiteOnlyNamed(used, passages) == {p \in passages : p.doc \in used}

\* The citations of the documents the model says it used; ids it invented are
\* dropped, and if none is left every retrieved passage is cited.
CitationsFor(used, passages) ==
    LET known == used \cap {p.doc : p \in passages}
    IN  {p \in passages : known = {} \/ p.doc \in known}

-----------------------------------------------------------------------------
(* Confidence is counted in percent.  A model reply carries a value that is  *)
(* a number, the literal NaN that Python's json accepts, or anything else.   *)

Least(a, b) == IF a < b THEN a ELSE b

Greatest(a, b) == IF a < b THEN b ELSE a

\* Slip: a number is taken as it comes.
Unclamped(said) == IF said.kind = "number" THEN said.value ELSE 0

\* max(0.0, min(1.0, f)): no comparison with NaN is true, so Python's min
\* keeps its first argument.
Clamp(said) ==
    CASE said.kind = "number" -> Greatest(0, Least(100, said.value))
      [] said.kind = "nan"    -> 100
      [] said.kind = "other"  -> 0

\* KbReviewPolicy.evaluate for a grounded, unblocked answer.
Review(confidence, tags, floor, sensitive) ==
    IF confidence < floor \/ tags \cap sensitive # {} THEN "enhanced" ELSE "standard"
=============================================================================
