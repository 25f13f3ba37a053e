---------------------------- MODULE DecisionProofs -----------------------------
(***************************************************************************)
(* The pure decisions, for every input of their kind and not only for the  *)
(* samples that are taken of them.                                         *)
(***************************************************************************)
EXTENDS MCFront, EvalProofs, TextProofs, FiniteSetTheorems, TLAPS

-----------------------------------------------------------------------------
(***************************************************************************)
(* Which deployments start, and whom a started one lets through.           *)
(***************************************************************************)
\* Nobody is let through on another's word by an adapter that verifies, and
\* only an adapter that verifies counts as an authenticated end user.
LEMMA VerifyingAdapters ==
    ASSUME NEW d, NEW q, EndUserAuthenticated(d), Principal(d, q) # "nobody"
    PROVE  Choice(d).explicit /\ Principal(d, q) = "verified"
BY DEF EndUserAuthenticated, EndUserAuth, Principal, Adapter

\* Of every deployment: a peer from elsewhere is let through only verified,
\* but in the insecure demo, and never when nobody chose a profile.
\* (add_loopback_exposure_guard, require_service_caller, get_principal)
THEOREM EveryDeploymentVerifies == \A d : RemoteCallersAreVerified(d)
<1> SUFFICES ASSUME NEW d, Starts(d), NEW q \in Peers, Reaches(d, q), ~q.loopback
             PROVE  Choice(d).explicit /\ (Principal(d, q) = "verified" \/ d.demo)
    BY DEF RemoteCallersAreVerified
<1>1. GuardPasses(d, q) /\ ServiceCaller(d, q) /\ Principal(d, q) # "nobody"
      BY DEF Reaches
<1>2. Choice(d).explicit
  <2>1. CASE Choice(d).profile = "gcp"
        BY <2>1 DEF Choice
  <2>2. CASE Choice(d).profile # "gcp"
        BY <1>1, <2>2 DEF ServiceCaller
  <2>3. QED
        BY <2>1, <2>2
<1>3. CASE d.demo
      BY <1>2, <1>3
<1>4. CASE EndUserAuthenticated(d)
      BY <1>1, <1>2, <1>4, VerifyingAdapters
<1>5. QED
      BY <1>1, <1>3, <1>4 DEF GuardPasses

\* The run's property of the deployments it takes.
THEOREM RemoteCallersHold == FSpec => []RemoteCallers
<1>1. RemoteCallers
      BY EveryDeploymentVerifies DEF RemoteCallers
<1>2. QED
      BY <1>1, PTL

\* Of every deployment: the view of the profile that relaxes and the one that
\* restricts never disagree, and neither do the two preflights.
\* (ProfileChoice.exposure_profile, bind_profile, assert_managed_pipeline_ready)
THEOREM EveryViewAgrees == \A d : ViewsAgree(d)
<1> SUFFICES ASSUME NEW d PROVE ViewsAgree(d)
    OBVIOUS
<1>1. ASSUME Loads(d), PipelineReady(d) PROVE Preflight(d)
  <2>1. PreflightProfile(d) \in Managed => Choice(d).profile \in Managed
        BY DEF PreflightProfile, Choice, Managed
  <2>2. QED
        BY <1>1, <2>1 DEF PipelineReady, Preflight
<1>2. ASSUME Starts(d), Choice(d).profile = "gcp", BoundGuardrail(d) = "screens"
      PROVE  d.template
  <2>1. ControlsConfigured(d) /\ IsOn(d.guardrail)
        BY <1>2 DEF Starts, Preflight, Loads, BoundGuardrail
  <2>2. QED
        BY <1>2, <2>1 DEF ControlsConfigured
<1>3. ASSUME DevOrigins(d) \/ WriteSurface(d) \/ PersonaHeaderOffered(d)
      PROVE  Choice(d).explicit /\ Bind(d) = "local" /\ Choice(d).profile \notin Managed
  <2>1. Exposure(d) = "local"
        BY <1>3 DEF DevOrigins, WriteSurface, PersonaHeaderOffered
  <2>2. Choice(d).explicit
        BY <2>1 DEF Exposure
  <2>3. Choice(d).profile \in Laptop
        BY <2>1, <2>2 DEF Exposure, Laptop
  <2>4. QED
        BY <2>2, <2>3 DEF Bind, Laptop, Managed
<1>4. Bind(d) # "local" => EndUserAuthenticated(d)
      BY DEF Bind
<1>5. ASSUME Starts(d), Choice(d).profile \in Managed
      PROVE  d.database \/ d.env = "unset"
  <2>1. d.env # "unset" => PreflightProfile(d) \in Managed
        BY <1>5 DEF PreflightProfile, Choice, Managed
  <2>2. QED
        BY <1>5, <2>1 DEF Starts, Preflight
<1>6. QED
      BY <1>1, <1>2, <1>3, <1>4, <1>5 DEF ViewsAgree

\* The run's property of the deployments it takes.
THEOREM ViewsHold == FSpec => []Views
<1>1. Views
      BY EveryViewAgrees DEF Views
<1>2. QED
      BY <1>1, PTL

\* Of every claim, whatever names and domains it carries, a service's own
\* partition excepted: a service account is in the tenant of its reviewed
\* mapping or in none, a person in neither.  (IapIdentityAdapter.resolve)
THEOREM EveryTenantIsReviewed ==
    ASSUME NEW claims, claims.sub \notin {"", "batch"},
           claims.hd # "batch", claims.email.domain # "batch"
    PROVE  TenantIsReviewed(claims)
<1>1. DOMAIN ReviewedServices = {"job"} /\ ReviewedServices["job"] = "batch"
      BY DEF ReviewedServices
<1>2. CASE claims.email.service
  <2>1. TenantOf(claims, ReviewedServices) = Mapped(claims, ReviewedServices)
        BY <1>2, Zenon DEF TenantOf
  <2>2. Mapped(claims, ReviewedServices) = IF claims.email.name = "job" THEN "batch" ELSE ""
    <3>1. CASE claims.email.name = "job"
          BY <1>1, <3>1, Zenon DEF Mapped
    <3>2. CASE claims.email.name # "job"
      <4>1. claims.email.name \notin DOMAIN ReviewedServices
            BY <1>1, <3>2
      <4>2. QED
            BY <3>2, <4>1, Zenon DEF Mapped
    <3>3. QED
          BY <3>1, <3>2
  <2>3. QED
        BY <1>2, <2>1, <2>2, Zenon DEF TenantIsReviewed
<1>3. CASE ~claims.email.service
      BY <1>3 DEF TenantIsReviewed, TenantOf
<1>4. QED
      BY <1>2, <1>3

\* What was taken is of its kind.
SampleIsTaken ==
    /\ sample.kind = "claims" => sample.c \in Claims
    /\ sample.kind = "policy" => sample.r \in RawPolicies
    /\ sample.kind = "text" => sample.t \in SampleTexts
    /\ sample.kind = "layout" => sample.l \in Layouts
    /\ sample.kind = "evidence" =>
          /\ sample.claims \in ClaimLists /\ sample.floor \in {1, 3400}
          /\ \E w1, w2 \in SUBSET Words, pages \in {<<1, 2>>, <<NoPage, NoPage>>} :
                sample.chunks = StoredChunks(w1, w2, pages)
    /\ sample.kind = "evaluation" =>
          /\ sample.p \in Products /\ sample.ds \in GoldenFiles
          /\ sample.n \in {0, 97} /\ sample.rubric \in Rubrics
    /\ sample.kind = "request" =>
          /\ sample.door \in Doors /\ sample.managed \in BOOLEAN /\ sample.c \in Callers
          /\ sample.b \in Directories /\ sample.i \in Indexes
          /\ sample.q \in Requests(sample.door)

\* The input that is judged is one of the inputs there are.
LEMMA SampleInvariant == FSpec => []SampleIsTaken
<1>1. FInit => SampleIsTaken
      BY DEF FInit, Untaken, SampleIsTaken
<1>2. SampleIsTaken /\ [FNext]_allvars => SampleIsTaken'
  <2> SUFFICES ASSUME SampleIsTaken, [FNext]_allvars PROVE SampleIsTaken'
      OBVIOUS
  <2>1. CASE TakeDeployment \/ TakeClaims \/ TakeText \/ TakeLayout
        BY <2>1 DEF TakeDeployment, TakeClaims, TakeText, TakeLayout, Take, SampleIsTaken
  <2>2. CASE TakePolicy \/ TakeEvaluation
        BY <2>2 DEF TakePolicy, TakeEvaluation, Take, SampleIsTaken
  <2>2a. CASE TakeEvidence
    <3>1. PICK cl \in ClaimLists, w1, w2 \in SUBSET Words, floor \in {1, 3400},
               pages \in {<<1, 2>>, <<NoPage, NoPage>>} :
               sample' = [kind |-> "evidence", claims |-> cl, floor |-> floor,
                          chunks |-> StoredChunks(w1, w2, pages)]
          BY <2>2a DEF TakeEvidence, Take
    <3>2. /\ sample'.kind = "evidence" /\ sample'.claims = cl /\ sample'.floor = floor
          /\ sample'.chunks = StoredChunks(w1, w2, pages)
          BY <3>1
    <3>3. QED
          BY <3>2 DEF SampleIsTaken
  <2>3. CASE TakeRequest
    <3>1. PICK door \in Doors, cloud \in BOOLEAN, c \in Callers, b \in Directories, i \in Indexes :
               \E q \in Requests(door) :
               sample' = [kind |-> "request", door |-> door, managed |-> cloud, c |-> c, q |-> q,
                          b |-> b, i |-> i]
          BY <2>3 DEF TakeRequest, Take
    <3>2. PICK q \in Requests(door) :
               sample' = [kind |-> "request", door |-> door, managed |-> cloud, c |-> c, q |-> q,
                          b |-> b, i |-> i]
          BY <3>1
    <3>3. /\ sample'.kind = "request" /\ sample'.door = door /\ sample'.managed = cloud
          /\ sample'.c = c /\ sample'.b = b /\ sample'.i = i /\ sample'.q = q
          BY <3>2
    <3>4. QED
          BY <3>3 DEF SampleIsTaken
  <2>4. CASE UNCHANGED fvars
        BY <2>4 DEF fvars, SampleIsTaken
  <2>5. QED
        BY <2>1, <2>2, <2>2a, <2>3, <2>4 DEF FNext, allvars
<1>3. QED
      BY <1>1, <1>2, PTL DEF FSpec

\* The run's property of the claims it takes.
THEOREM ReviewedTenantsHold == FSpec => []ReviewedTenants
<1>1. ASSUME NEW c \in Claims PROVE TenantIsReviewed(c)
  <2>1. ASSUME NEW e \in Emails PROVE e.domain # "batch"
    <3>1. e.domain \in {"bank.example", "", "p.iam.gserviceaccount.com"}
      <4>1. CASE e = [name |-> "ana", service |-> FALSE, domain |-> "bank.example"]
            BY <4>1
      <4>2. CASE e = [name |-> "bob", service |-> FALSE, domain |-> ""]
            BY <4>2
      <4>3. CASE e = [name |-> "job", service |-> TRUE, domain |-> "p.iam.gserviceaccount.com"]
            BY <4>3
      <4>4. CASE e = [name |-> "new", service |-> TRUE, domain |-> "p.iam.gserviceaccount.com"]
            BY <4>4
      <4>5. QED
            BY <4>1, <4>2, <4>3, <4>4, Zenon DEF Emails
    <3>2. QED
          BY <3>1
  <2>2. c.sub \notin {"", "batch"} /\ c.hd # "batch" /\ c.email \in Emails
        BY DEF Claims
  <2>3. QED
        BY <2>1, <2>2, EveryTenantIsReviewed
<1>2. SampleIsTaken => ReviewedTenants
      BY <1>1 DEF SampleIsTaken, ReviewedTenants
<1>3. QED
      BY <1>2, SampleInvariant, PTL

-----------------------------------------------------------------------------
(***************************************************************************)
(* The bank's policy file.                                                 *)
(***************************************************************************)
\* A value of the file: of any kind, its number an integer of percents.
Value(w) == w.kind \in {"absent", "null", "word", "nan", "number"} /\ w.value \in Int

\* Only a lower number lowers the floor, and no floor leaves the scale.
LEMMA FloorIsStrict ==
    ASSUME NEW w, Value(w)
    PROVE  /\ Fraction(w, ShippedFloor) \in 0..100
           /\ ~(w.kind = "number" /\ w.value < ShippedFloor) => Fraction(w, ShippedFloor) >= ShippedFloor
<1>1. CASE w.kind = "number"
  <2>1. Clamp(w) = Greatest(0, Least(100, w.value))
        BY <1>1 DEF Clamp
  <2>2. QED
        BY <1>1, <2>1 DEF Value, Fraction, Greatest, Least, ShippedFloor
<1>2. CASE w.kind = "nan"
  <2>1. Clamp(w) = 100
        BY <1>2 DEF Clamp
  <2>2. QED
        BY <1>2, <2>1 DEF Fraction, ShippedFloor
<1>3. CASE w.kind \in {"absent", "null", "word"}
      BY <1>3 DEF Fraction, ShippedFloor
<1>4. QED
      BY <1>1, <1>2, <1>3 DEF Value

\* Only a list that leaves a shipped tag out drops one.
LEMMA TagsAreStrict ==
    ASSUME NEW w, ~(w.kind = "list" /\ w.entries # {} /\ ~(ShippedTags \subseteq w.entries))
    PROVE  ShippedTags \subseteq SensitiveTags(w)
BY DEF SensitiveTags, Listed, ShippedTags, Blank

\* A critic that finds claims unsupported caps the confidence, whatever it says.
LEMMA CritiqueIsCapped ==
    ASSUME NEW prior \in Int, NEW critic, Value(critic)
    PROVE  Critiqued(prior, critic, FALSE) \in Int /\ Critiqued(prior, critic, FALSE) <= UngroundedCap
<1> DEFINE judged == CASE critic.kind = "absent" -> prior
                     [] critic.kind \in {"number", "nan"} -> Clamp(critic)
                     [] OTHER -> 0
<1>1. judged \in Int
  <2>1. CASE critic.kind = "absent"
        BY <2>1
  <2>2. CASE critic.kind = "number"
    <3>1. Clamp(critic) = Greatest(0, Least(100, critic.value))
          BY <2>2 DEF Clamp
    <3>2. judged = Clamp(critic)
          BY <2>2
    <3> HIDE DEF judged
    <3>3. QED
          BY <3>1, <3>2 DEF Value, Greatest, Least
  <2>3. CASE critic.kind = "nan"
    <3>1. Clamp(critic) = 100
          BY <2>3 DEF Clamp
    <3>2. QED
          BY <2>3, <3>1
  <2>4. CASE critic.kind \in {"null", "word"}
        BY <2>4
  <2>5. QED
        BY <2>1, <2>2, <2>3, <2>4 DEF Value
<1>2. Critiqued(prior, critic, FALSE) = Least(Least(prior, judged), UngroundedCap)
      BY DEF Critiqued
<1> HIDE DEF judged
<1> DEFINE lower == Least(prior, judged)
<1>3. lower \in Int
      BY <1>1 DEF Least
<1>4. Critiqued(prior, critic, FALSE) = Least(lower, UngroundedCap)
      BY <1>2
<1> HIDE DEF lower
<1>5. Least(lower, UngroundedCap) \in Int /\ Least(lower, UngroundedCap) <= UngroundedCap
      BY <1>3 DEF Least, UngroundedCap
<1>6. QED
      BY <1>4, <1>5

\* However the section is mangled, a stricter floor and more tags review every
\* answer that the shipped ones review.
LEMMA StricterReviewsMore ==
    ASSUME NEW p, NEW s, NEW a, a.confidence \in Int, p.floor \in Int, s.floor \in Int,
           s.floor <= p.floor, s.tags \subseteq p.tags, Outcome(s, a).enhanced
    PROVE  Outcome(p, a).enhanced
<1>1. Reasons(s, a) \subseteq Reasons(p, a)
      BY DEF Reasons
<1>2. QED
      BY <1>1 DEF Outcome

\* Of every section of the file, whatever its values are: only the writings
\* named loosen it.  (KbPolicy.from_mapping, KbReviewPolicy.evaluate,
\* RetractionPolicy.permits, _self_critique)
THEOREM EveryPolicyStaysStrict ==
    ASSUME NEW raw, Value(raw.floor), raw.reviewAll \in Switches
    PROVE  OnlyThreeWritingsLoosen(raw)
<1> DEFINE policy == Policy(raw)
           shipped == AsShipped(policy)
<1>1. /\ policy.floor = Fraction(raw.floor, ShippedFloor) /\ policy.tags = SensitiveTags(raw.tags)
      /\ policy.reviewAll = AsBool(raw.reviewAll, TRUE)
      /\ policy.retraction = RetractionEntitlements(raw.retraction)
      /\ shipped.floor = ShippedFloor /\ shipped.tags = ShippedTags /\ shipped.reviewAll = TRUE
      BY DEF Policy, AsShipped
<1> HIDE DEF policy, shipped
<1>2. policy.floor \in 0..100
      BY <1>1, FloorIsStrict
<1>3. ASSUME NEW a \in Answers, Outcome(shipped, a).enhanced, ~LoosensLevel(raw)
      PROVE  Outcome(policy, a).enhanced
  <2>1. ShippedFloor <= policy.floor /\ ShippedTags \subseteq policy.tags
        BY <1>1, <1>2, <1>3, FloorIsStrict, TagsAreStrict DEF LoosensLevel, ShippedFloor
  <2>2. a.confidence \in Int /\ ShippedFloor \in Int
        BY DEF Answers, ShippedFloor
  <2>3. QED
        BY <1>1, <1>2, <1>3, <2>1, <2>2, StricterReviewsMore
<1>4. ASSUME NEW a \in Answers, ~LoosensDuty(raw) PROVE Outcome(policy, a).required
  <2>1. AsBool(raw.reviewAll, TRUE)
        BY <1>4 DEF LoosensDuty, AsBool, Switches
  <2>2. QED
        BY <1>1, <2>1 DEF Outcome
<1>5. ASSUME NEW prior \in {0, 60, 100}, NEW critic \in Written, NEW tags,
             policy.floor > UngroundedCap
      PROVE  Outcome(policy, [confidence |-> Critiqued(prior, critic, FALSE), tags |-> tags,
                              grounded |-> TRUE, blocked |-> FALSE]).enhanced
  <2> DEFINE a == [confidence |-> Critiqued(prior, critic, FALSE), tags |-> tags,
                   grounded |-> TRUE, blocked |-> FALSE]
  <2>1. Value(critic)
        BY DEF Written, Value
  <2>2. Critiqued(prior, critic, FALSE) \in Int /\ Critiqued(prior, critic, FALSE) <= UngroundedCap
    <3>1. prior \in Int
          OBVIOUS
    <3>2. QED
          BY <2>1, <3>1, CritiqueIsCapped
  <2>3. a.confidence < policy.floor
    <3> DEFINE c == Critiqued(prior, critic, FALSE)
    <3>1. a.confidence = c
          OBVIOUS
    <3>2. c \in Int /\ c <= UngroundedCap
          BY <2>2
    <3> HIDE DEF a, c
    <3>3. QED
          BY <1>2, <1>5, <3>1, <3>2 DEF UngroundedCap
  <2> HIDE DEF a
  <2>4. "confidence" \in Reasons(policy, a)
        BY <2>3 DEF Reasons
  <2>5. Outcome(policy, a).enhanced
        BY <2>4 DEF Outcome
  <2>6. QED
        BY <2>5 DEF a
<1>6. ASSUME NEW p, Permits(policy, p)
      PROVE  IF raw.retraction.kind = "list"
             THEN \E x \in p : x # Blank /\ x \in raw.retraction.entries
             ELSE p \cap ShippedGroup # {}
      BY <1>1, <1>6 DEF Permits, RetractionEntitlements, Listed
<1>7. QED
      BY <1>3, <1>4, <1>5, <1>6 DEF OnlyThreeWritingsLoosen, policy, shipped

\* The run's property of the sections it takes.
THEOREM StrictPolicyHolds == FSpec => []StrictPolicy
<1>1. ASSUME NEW r \in RawPolicies PROVE OnlyThreeWritingsLoosen(r)
  <2>1. Value(Absent) /\ \A w \in Written : Value(w)
        BY DEF Absent, Written, Value
  <2>2. r.floor \in Written \cup {Absent} /\ r.reviewAll \in Switches
        BY DEF RawPolicies, Switches
  <2>3. QED
        BY <2>1, <2>2, EveryPolicyStaysStrict
<1>2. SampleIsTaken => StrictPolicy
      BY <1>1 DEF SampleIsTaken, StrictPolicy
<1>3. QED
      BY <1>2, SampleInvariant, PTL

-----------------------------------------------------------------------------
(***************************************************************************)
(* The doors.                                                              *)
(***************************************************************************)
\* Passages as a store ranks them: each at a place of its own.
Ranked(index) ==
    /\ IsFiniteSet(index)
    /\ \A p \in index : p.rank \in Nat
    /\ \A p, q \in index : p.rank = q.rank => p = q

\* A part of a ranking is a ranking.
LEMMA RankedSubset ==
    ASSUME NEW S, Ranked(S), NEW T, T \subseteq S
    PROVE  Ranked(T)
BY FS_Subset DEF Ranked

\* The first of a ranking are no more than were asked for.
LEMMA TopIsBounded ==
    ASSUME NEW S, Ranked(S), NEW k \in Int
    PROVE  IsFiniteSet(Top(S, k)) /\ Cardinality(Top(S, k)) <= Greatest(k, 1)
<1> DEFINE K == Greatest(k, 1)
           Below(p) == {q \in S : q.rank < p.rank}
           place == [p \in Top(S, k) |-> Cardinality(Below(p))]
<1>1. K \in Nat /\ K >= 1
      BY DEF Greatest
<1>2. ASSUME NEW p \in S PROVE IsFiniteSet(Below(p)) /\ Cardinality(Below(p)) \in Nat
  <2>1. Below(p) \in SUBSET S
        OBVIOUS
  <2> HIDE DEF Below
  <2>2. QED
        BY <2>1, FS_Subset, FS_CardinalityType DEF Ranked
<1>3. Top(S, k) = {p \in S : Cardinality(Below(p)) < K}
      BY DEF Top
<1>4. ASSUME NEW p \in S, NEW q \in S, p.rank < q.rank
      PROVE  Cardinality(Below(p)) # Cardinality(Below(q))
  <2>1. Below(p) \in SUBSET Below(q) /\ p \in Below(q) /\ p \notin Below(p)
        BY <1>4 DEF Ranked
  <2>2. IsFiniteSet(Below(q))
        BY <1>2
  <2> HIDE DEF Below
  <2>3. QED
        BY <2>1, <2>2, FS_Subset
<1> HIDE DEF Below, K
<1>5. ASSUME NEW p \in S, NEW q \in S, Cardinality(Below(p)) = Cardinality(Below(q))
      PROVE  p = q
      BY <1>4, <1>5 DEF Ranked
<1>6. place \in Injection(Top(S, k), 0..(K - 1))
  <2>1. \A p \in Top(S, k) : Cardinality(Below(p)) \in 0..(K - 1)
        BY <1>1, <1>2, <1>3
  <2>2. place \in [Top(S, k) -> 0..(K - 1)]
        BY <2>1
  <2>3. \A p, q \in Top(S, k) : place[p] = place[q] => p = q
        BY <1>3, <1>5
  <2>4. QED
        BY <2>2, <2>3, Zenon DEF Injection, IsInjective
<1>7. IsFiniteSet(0..(K - 1)) /\ Cardinality(0..(K - 1)) = K
      BY <1>1, FS_Interval
<1> HIDE DEF place
<1>8. QED
      BY <1>6, <1>7, FS_Injection DEF K

\* The first of a ranking that has passages are not none.
LEMMA TopIsThere ==
    ASSUME NEW S, Ranked(S), NEW k \in Int, S # {}
    PROVE  Top(S, k) # {}
<1> DEFINE ranks == {p.rank : p \in S}
<1>1. ranks \in SUBSET Nat /\ ranks # {}
      BY DEF Ranked
<1>2. PICK n \in ranks : \A m \in ranks : n <= m
  <2> HIDE DEF ranks
  <2>1. QED
        BY <1>1, LeastNatural
<1>3. PICK p \in S : p.rank = n
      OBVIOUS
<1>4. {q \in S : q.rank < p.rank} = {}
      BY <1>1, <1>2, <1>3 DEF Ranked
<1>5. Cardinality({q \in S : q.rank < p.rank}) = 0
      BY <1>4, FS_EmptySet
<1>6. Greatest(k, 1) >= 1 /\ Greatest(k, 1) \in Int
      BY DEF Greatest
<1>7. p \in Top(S, k)
      BY <1>5, <1>6 DEF Top
<1>8. QED
      BY <1>7

\* A limit that is not less than there are leaves none out.
LEMMA TopIsAll ==
    ASSUME NEW S, Ranked(S), NEW k \in Int, Cardinality(S) <= Greatest(k, 1)
    PROVE  Top(S, k) = S
<1> SUFFICES ASSUME NEW p \in S PROVE p \in Top(S, k)
    BY DEF Top
<1> DEFINE B == {q \in S : q.rank < p.rank}
<1>1. B \in SUBSET S /\ B # S
      BY DEF Ranked
<1> HIDE DEF B
<1>2. IsFiniteSet(S) /\ IsFiniteSet(B)
      BY <1>1, FS_Subset DEF Ranked
<1>3. Cardinality(B) < Cardinality(S) /\ Cardinality(B) \in Nat /\ Cardinality(S) \in Nat
      BY <1>1, <1>2, FS_Subset, FS_CardinalityType
<1>4. Greatest(k, 1) \in Int
      BY DEF Greatest
<1>5. Cardinality(B) < Greatest(k, 1)
      BY <1>3, <1>4
<1>6. QED
      BY <1>5 DEF Top, B

\* Narrowed principals resolve to no more, and only to tags that one of them
\* is bound to.
LEMMA NarrowingNarrows ==
    ASSUME NEW cloud \in BOOLEAN, NEW b, NEW caller, NEW hint, NEW t
    PROVE  /\ Resolve(cloud, b, Narrowed(caller, hint), t) \subseteq
                  Resolve(cloud, b, caller.principals, t)
           /\ hint # {} => \A tag \in Resolve(cloud, b, Narrowed(caller, hint), t) :
                  \E x \in b : x.tag = tag /\ x.principal \in hint
<1>1. Narrowed(caller, hint) \subseteq caller.principals
      BY DEF Narrowed
<1>2. hint # {} => Narrowed(caller, hint) \subseteq hint
      BY DEF Narrowed
<1>3. QED
      BY <1>1, <1>2 DEF Resolve, ManagedTags, LocalTags

\* What is admitted is of the tenant or shared, and all its tags are allowed.
LEMMA AdmittedIsEntitled ==
    ASSUME NEW S, NEW t, NEW allowed, NEW p \in Admitted(S, t, allowed)
    PROVE  /\ p \in S /\ p.owner \in {Shared, t}
           /\ p.tags # {} /\ p.tags \subseteq allowed
BY DEF Admitted, FilterByAllowedTags, PreferUnambiguousOwners, FilterByTenant

\* Of one id, what is admitted is of one owner.
LEMMA AdmittedHasOneOwner ==
    ASSUME NEW S, NEW t, NEW allowed, NEW p \in Admitted(S, t, allowed),
           NEW q \in Admitted(S, t, allowed), p.doc = q.doc
    PROVE  p.owner = q.owner
<1> DEFINE T == FilterByTenant(S, t)
<1>1. p \in PreferUnambiguousOwners(T, t) /\ q \in PreferUnambiguousOwners(T, t)
      BY DEF Admitted, FilterByAllowedTags
<1> HIDE DEF T
<1>2. /\ p \in T /\ q \in T
      /\ OwnersOf(p.doc, T) = {p.owner} \/ p.owner = t
      /\ OwnersOf(q.doc, T) = {q.owner} \/ q.owner = t
      BY <1>1 DEF PreferUnambiguousOwners
<1>3. p.owner \in OwnersOf(q.doc, T) /\ q.owner \in OwnersOf(p.doc, T)
      BY <1>2 DEF OwnersOf
<1>4. QED
      BY <1>2, <1>3

\* What may be seen of what was found is admitted, but where the tenant's own
\* copy of the document was found too.
LEMMA DueIsAdmitted ==
    ASSUME NEW S, NEW t, NEW allowed, NEW p \in S,
           p.owner \in {Shared, t}, p.tags # {}, p.tags \subseteq allowed,
           p \notin Admitted(S, t, allowed)
    PROVE  p.owner = Shared /\ \E q \in S : q.doc = p.doc /\ q.owner = t
<1> DEFINE T == FilterByTenant(S, t)
<1>1. p \in T
      BY DEF FilterByTenant
<1>2. T \subseteq S /\ \A q \in T : q.owner \in {Shared, t}
      BY DEF FilterByTenant
<1>3. p \notin PreferUnambiguousOwners(T, t)
      BY DEF Admitted, FilterByAllowedTags
<1> HIDE DEF T
<1>4. OwnersOf(p.doc, T) # {p.owner} /\ ~(t # Shared /\ p.owner = t)
      BY <1>1, <1>3 DEF PreferUnambiguousOwners
<1>5. PICK q \in T : q.doc = p.doc /\ q.owner # p.owner
      BY <1>1, <1>4 DEF OwnersOf
<1>6. QED
      BY <1>2, <1>4, <1>5

\* For a caller with a tenant nothing admissible is found and then not admitted
\* to the last passage: where a document is the tenant's and shared, the
\* tenant's stands.
LEMMA SomethingIsAdmitted ==
    ASSUME NEW S, NEW t, t # Shared, NEW allowed, S # {},
           \A p \in S : p.owner \in {Shared, t} /\ p.tags # {} /\ p.tags \subseteq allowed
    PROVE  Admitted(S, t, allowed) # {}
<1>1. PICK p \in S : TRUE
      OBVIOUS
<1>2. FilterByTenant(S, t) = S
      BY DEF FilterByTenant
<1>3. CASE OwnersOf(p.doc, S) = {p.owner}
  <2>1. p \in PreferUnambiguousOwners(S, t)
        BY <1>3 DEF PreferUnambiguousOwners
  <2>2. QED
        BY <1>2, <2>1 DEF Admitted, FilterByAllowedTags
<1>4. CASE OwnersOf(p.doc, S) # {p.owner}
  <2>1. PICK q \in S : q.doc = p.doc /\ q.owner # p.owner
        BY <1>4 DEF OwnersOf
  <2>2. PICK o \in S : o.owner = t
        BY <2>1
  <2>3. o \in PreferUnambiguousOwners(S, t)
        BY <2>2 DEF PreferUnambiguousOwners
  <2>4. QED
        BY <1>2, <2>3 DEF Admitted, FilterByAllowedTags
<1>5. QED
      BY <1>3, <1>4

\* What a door asks the adapters with, and what they find.
Tags(door, cloud, caller, request, b) ==
    LET scope == Scope(door, cloud, caller, request)
    IN  Resolve(cloud, b, scope.principals, scope.tenant)
Source(door, cloud, caller, request, b, index) ==
    IF cloud
    THEN ManagedCandidates(index, request, Scope(door, cloud, caller, request).tenant,
                           Tags(door, cloud, caller, request, b))
    ELSE Matching(index, request)

\* What is shown was found, among the first of what there is to find, by a
\* request that was neither refused nor malformed.
LEMMA ShownWasFound ==
    ASSUME NEW door \in Doors, NEW cloud \in BOOLEAN, NEW caller, NEW request, NEW b, NEW index,
           NEW p \in Shown(door, cloud, caller, request, b, index)
    PROVE  LET scope == Scope(door, cloud, caller, request)
               allowed == Tags(door, cloud, caller, request, b)
           IN  /\ ~scope.refused /\ TakesTopK(door, request.topK) /\ allowed # {}
               /\ p \in index /\ p.owner \in {Shared, scope.tenant}
               /\ p.tags # {} /\ p.tags \subseteq allowed
               /\ p \in Top(Source(door, cloud, caller, request, b, index), TopK(door, request.topK))
               /\ cloud => p.row.status = "fresh" /\ p.row.current
<1> DEFINE scope == Scope(door, cloud, caller, request)
           allowed == Tags(door, cloud, caller, request, b)
           k == TopK(door, request.topK)
           found == IF cloud THEN ManagedRetrieve(index, request, scope.tenant, allowed, k)
                    ELSE LocalRetrieve(index, request, k)
<1>1. Shown(door, cloud, caller, request, b, index) =
          IF scope.refused \/ ~TakesTopK(door, request.topK) \/ allowed = {} THEN {}
          ELSE Admitted(found, scope.tenant, allowed)
      BY DEF Shown, Tags
<1>2. found \subseteq Top(Source(door, cloud, caller, request, b, index), k)
  <2>1. CASE cloud
        BY <2>1 DEF ManagedRetrieve, Source
  <2>2. CASE ~cloud
        BY <2>2 DEF LocalRetrieve, Source
  <2>3. QED
        BY <2>1, <2>2
<1>3. Top(Source(door, cloud, caller, request, b, index), k) \subseteq
          Source(door, cloud, caller, request, b, index)
      BY DEF Top
<1>4. /\ Source(door, cloud, caller, request, b, index) \subseteq index
      /\ cloud => \A q \in Source(door, cloud, caller, request, b, index) :
            q.row.status = "fresh" /\ q.row.current
      BY DEF Source, ManagedCandidates, Matching, InManagedScope
<1> HIDE DEF scope, allowed, found, k
<1>5. /\ ~(scope.refused \/ ~TakesTopK(door, request.topK) \/ allowed = {})
      /\ p \in Admitted(found, scope.tenant, allowed)
      BY <1>1
<1>6. p \in found /\ p.owner \in {Shared, scope.tenant} /\ p.tags # {} /\ p.tags \subseteq allowed
      BY <1>5, AdmittedIsEntitled
<1>7. QED
      BY <1>2, <1>3, <1>4, <1>5, <1>6 DEF scope, allowed, k

\* The doors that verify ask for no more than their caller.
LEMMA VerifiedScopes ==
    ASSUME NEW door \in {"http", "agent"}, NEW cloud \in BOOLEAN, NEW caller, NEW request, NEW b,
           ~Scope(door, cloud, caller, request).refused
    PROVE  /\ Scope(door, cloud, caller, request).tenant = caller.tenant
           /\ Tags(door, cloud, caller, request, b) \subseteq
                 Resolve(cloud, b, caller.principals, caller.tenant)
<1>1. CASE door = "http"
  <2>1. Scope(door, cloud, caller, request) = For(Narrowed(caller, request.principals), caller.tenant)
        BY <1>1 DEF Scope, HttpScope
  <2>2. QED
        BY <2>1, NarrowingNarrows DEF For, Tags
<1>2. CASE door = "agent"
  <2>1. Scope(door, cloud, caller, request) = AgentScope(cloud, caller)
        BY <1>2 DEF Scope
  <2>2. AgentScope(cloud, caller) = For(caller.principals, caller.tenant)
        BY <2>1 DEF AgentScope, Refused
  <2>3. QED
        BY <2>1, <2>2 DEF For, Tags
<1>3. QED
      BY <1>1, <1>2

\* They show no more than the most that may be asked for.
LEMMA NoMoreThanTheMost ==
    ASSUME NEW door \in {"http", "agent"}, NEW cloud \in BOOLEAN, NEW caller, NEW request, NEW b,
           NEW index, Ranked(index), request.topK \in Int
    PROVE  /\ IsFiniteSet(Shown(door, cloud, caller, request, b, index))
           /\ Cardinality(Shown(door, cloud, caller, request, b, index)) <= MostPassages
<1> DEFINE seen == Shown(door, cloud, caller, request, b, index)
           source == Source(door, cloud, caller, request, b, index)
           k == TopK(door, request.topK)
<1>1. MostPassages \in Nat /\ MostPassages >= 1
      BY DoorsAssumption
<1>2. CASE seen = {}
      BY <1>1, <1>2, FS_EmptySet
<1>3. CASE seen # {}
  <2>1. TakesTopK(door, request.topK) /\ seen \in SUBSET Top(source, k)
        BY <1>3, ShownWasFound DEF Doors
  <2>2. Ranked(source)
    <3>1. source \subseteq index
          BY DEF Source, ManagedCandidates, Matching
    <3>2. QED
          BY <3>1, RankedSubset
  <2>3. k \in Int /\ Greatest(k, 1) \in Int /\ Greatest(k, 1) <= MostPassages
    <3>1. CASE door = "http"
      <4>1. k = request.topK /\ request.topK \in 1 .. MostPassages
            BY <2>1, <3>1 DEF TopK, TakesTopK
      <4> HIDE DEF k
      <4>2. QED
            BY <1>1, <4>1 DEF Greatest
    <3>2. CASE door = "agent"
      <4>1. k = Greatest(1, Least(request.topK, MostPassages))
            BY <3>2 DEF TopK
      <4>2. Least(request.topK, MostPassages) \in Int /\ Least(request.topK, MostPassages) <= MostPassages
            BY <1>1 DEF Least
      <4>3. k \in Int /\ k <= MostPassages
            BY <1>1, <4>1, <4>2 DEF Greatest
      <4> HIDE DEF k
      <4>4. QED
            BY <1>1, <4>3 DEF Greatest
    <3>3. QED
          BY <3>1, <3>2
  <2> HIDE DEF seen, source, k
  <2>4. IsFiniteSet(Top(source, k)) /\ Cardinality(Top(source, k)) <= Greatest(k, 1)
        BY <2>2, <2>3, TopIsBounded
  <2>5. IsFiniteSet(seen) /\ Cardinality(seen) <= Cardinality(Top(source, k))
        BY <2>1, <2>4, FS_Subset
  <2>6. Cardinality(seen) \in Int /\ Cardinality(Top(source, k)) \in Int
        BY <2>4, <2>5, FS_CardinalityType
  <2>7. QED
        BY <1>1, <2>3, <2>4, <2>5, <2>6 DEF seen
<1>4. QED
      BY <1>2, <1>3

\* The status route lists what these doors show, and a managed one counts as
\* fresh no fewer documents than are shown.
LEMMA StatusAgrees ==
    ASSUME NEW door \in {"http", "agent"}, NEW cloud \in BOOLEAN, NEW caller, NEW request, NEW b,
           NEW index, Ranked(index)
    PROVE  LET rows == {[doc |-> p.doc, owner |-> p.owner, row |-> p.row] : p \in index}
               listed == StatusRows(caller, rows)
               seen == Shown(door, cloud, caller, request, b, index)
               docs(ps) == {<<p.doc, p.owner>> : p \in ps}
           IN  /\ docs(seen) \subseteq docs(listed)
               /\ cloud => Cardinality(docs(seen)) <= Counts(listed)["fresh"]
<1>0. ~Scope(door, cloud, caller, request).refused =>
          Scope(door, cloud, caller, request).tenant = caller.tenant
  <2>1. CASE door = "http"
        BY <2>1 DEF Scope, HttpScope, For
  <2>2. CASE door = "agent"
    <3>1. Scope(door, cloud, caller, request) = AgentScope(cloud, caller)
          BY <2>2 DEF Scope
    <3>2. ~AgentScope(cloud, caller).refused =>
              AgentScope(cloud, caller).tenant = caller.tenant
          BY DEF AgentScope, Refused, For
    <3>3. QED
          BY <3>1, <3>2
  <2>3. QED
        BY <2>1, <2>2
<1> DEFINE rowOf(p) == [doc |-> p.doc, owner |-> p.owner, row |-> p.row]
           rows == {rowOf(p) : p \in index}
           listed == StatusRows(caller, rows)
           seen == Shown(door, cloud, caller, request, b, index)
           docs(ps) == {<<p.doc, p.owner>> : p \in ps}
           fresh == {r \in listed : Effective(r.row) = "fresh"}
<1>1. ASSUME NEW p \in seen
      PROVE  /\ p \in index /\ rowOf(p) \in listed
             /\ cloud => rowOf(p) \in fresh
  <2>1. /\ ~Scope(door, cloud, caller, request).refused /\ p \in index
        /\ p.owner \in {Shared, Scope(door, cloud, caller, request).tenant}
        /\ cloud => p.row.status = "fresh" /\ p.row.current
        BY ShownWasFound DEF Doors
  <2>2. p.owner \in {Shared, caller.tenant}
    <3> DEFINE scope == Scope(door, cloud, caller, request)
    <3>1. ~scope.refused /\ p.owner \in {Shared, scope.tenant}
          BY <2>1
    <3>2. scope.tenant = caller.tenant
          BY <3>1, <1>0
    <3> HIDE DEF scope
    <3>3. QED
          BY <3>1, <3>2
  <2>3. rowOf(p).owner = p.owner /\ rowOf(p).row = p.row
        OBVIOUS
  <2> HIDE DEF rowOf
  <2>4. rowOf(p) \in listed
        BY <2>1, <2>2, <2>3 DEF StatusRows
  <2>5. cloud => Effective(rowOf(p).row) = "fresh"
        BY <2>1, <2>3 DEF Effective
  <2>6. QED
        BY <2>1, <2>4, <2>5
<1>2. \A p : rowOf(p).doc = p.doc /\ rowOf(p).owner = p.owner
      OBVIOUS
<1>3. docs(seen) \subseteq docs(listed)
  <2> HIDE DEF rowOf, listed, seen
  <2>1. QED
        BY <1>1, <1>2
<1>4. IsFiniteSet(rows)
  <2> DEFINE f == [p \in index |-> rowOf(p)]
  <2> HIDE DEF rowOf
  <2>1. f \in [index -> rows] /\ \A r \in rows : \E p \in index : f[p] = r
        OBVIOUS
  <2> HIDE DEF rows, f
  <2>2. f \in Surjection(index, rows)
        BY <2>1, Zenon DEF Surjection
  <2>3. QED
        BY <2>2, FS_Surjection DEF Ranked
<1>5. IsFiniteSet(fresh)
  <2>1. fresh \in SUBSET rows
        BY DEF StatusRows
  <2> HIDE DEF fresh, rows
  <2>2. QED
        BY <1>4, <2>1, FS_Subset
<1>6. IsFiniteSet(docs(fresh)) /\ Cardinality(docs(fresh)) <= Cardinality(fresh)
  <2> DEFINE g == [r \in fresh |-> <<r.doc, r.owner>>]
             image == docs(fresh)
  <2> HIDE DEF fresh
  <2>1. g \in [fresh -> image] /\ \A x \in image : \E r \in fresh : g[r] = x
        OBVIOUS
  <2> HIDE DEF image, g
  <2>2. g \in Surjection(fresh, image)
        BY <2>1, Zenon DEF Surjection
  <2>3. IsFiniteSet(image) /\ Cardinality(image) <= Cardinality(fresh)
        BY <1>5, <2>2, FS_Surjection
  <2>4. QED
        BY <2>3 DEF image
<1>7. ASSUME cloud PROVE Cardinality(docs(seen)) <= Counts(listed)["fresh"]
  <2>1. docs(seen) \in SUBSET docs(fresh)
    <3> HIDE DEF rowOf, fresh, seen
    <3>1. QED
          BY <1>1, <1>2, <1>7
  <2>2. Counts(listed)["fresh"] = Cardinality(fresh)
        BY DEF Counts
  <2> DEFINE D == docs(seen)
             E == docs(fresh)
  <2> HIDE DEF D, E
  <2>3. IsFiniteSet(D) /\ Cardinality(D) <= Cardinality(E)
        BY <1>6, <2>1, FS_Subset DEF D, E
  <2>4. Cardinality(D) \in Int /\ Cardinality(E) \in Int /\ Cardinality(fresh) \in Int
        BY <1>5, <1>6, <2>3, FS_CardinalityType DEF E
  <2>5. Cardinality(D) <= Cardinality(fresh)
        BY <1>6, <2>3, <2>4 DEF E
  <2>6. QED
        BY <2>2, <2>5 DEF D
<1>8. QED
      BY <1>3, <1>7

\* The number of passages a door asks for.
LEMMA TopKIsANumber ==
    ASSUME NEW door \in Doors, NEW asked \in Int
    PROVE  TopK(door, asked) \in Int
<1>1. DefaultTopK \in Int /\ MostPassages \in Int
      BY DoorsAssumption
<1>2. Greatest(1, Least(asked, MostPassages)) \in Int
      BY <1>1 DEF Greatest, Least
<1>3. CASE door = "agent"
      BY <1>2, <1>3 DEF TopK
<1>4. CASE door = "mcp" /\ asked = 0
      BY <1>1, <1>4 DEF TopK
<1>5. CASE door # "agent" /\ ~(door = "mcp" /\ asked = 0)
      BY <1>5 DEF TopK
<1>6. QED
      BY <1>3, <1>4, <1>5

\* A limit that leaves out nothing that matches withholds only shared copies of
\* the tenant's own documents.
LEMMA AmpleShowsAll ==
    ASSUME NEW door \in Doors, NEW cloud \in BOOLEAN, NEW caller, NEW request, NEW b, NEW index,
           Ranked(index), request.topK \in Int, FilterKnown(request),
           TakesTopK(door, request.topK), ~Scope(door, cloud, caller, request).refused,
           Ample(door, request, index),
           NEW p \in Entitled(cloud, request, index, Scope(door, cloud, caller, request).tenant,
                              Tags(door, cloud, caller, request, b)),
           p \notin Shown(door, cloud, caller, request, b, index)
    PROVE  p.owner = Shared /\ \E q \in Matching(index, request) :
                q.doc = p.doc /\ q.owner = Scope(door, cloud, caller, request).tenant
<1> DEFINE scope == Scope(door, cloud, caller, request)
           t == scope.tenant
           allowed == Tags(door, cloud, caller, request, b)
           k == TopK(door, request.topK)
           M == Matching(index, request)
           S == Source(door, cloud, caller, request, b, index)
<1>1. k \in Int
      BY TopKIsANumber
<1>2. S \subseteq M /\ M \subseteq index
      BY DEF Source, ManagedCandidates, Matching
<1>3. p \in S /\ p.owner \in {Shared, t} /\ p.tags # {} /\ p.tags \subseteq allowed
      BY DEF Entitled, Source, ManagedCandidates, InManagedScope
<1>4. /\ ~scope.refused /\ TakesTopK(door, request.topK) /\ allowed # {}
      /\ Cardinality(M) <= Greatest(k, 1)
      BY <1>3 DEF Ample
<1>5. Shown(door, cloud, caller, request, b, index) = Admitted(Top(S, k), t, allowed)
  <2>1. CASE cloud
        BY <1>4, <2>1 DEF Shown, Tags, ManagedRetrieve, Source
  <2>2. CASE ~cloud
        BY <1>4, <2>2 DEF Shown, Tags, LocalRetrieve, Source
  <2>3. QED
        BY <2>1, <2>2
<1> HIDE DEF S, k, scope, t, allowed, M
<1>6. Ranked(S) /\ Ranked(M)
      BY <1>2, RankedSubset
<1>7. Cardinality(S) <= Greatest(k, 1)
  <2>1. IsFiniteSet(M)
        BY <1>6 DEF Ranked
  <2>2. /\ Cardinality(S) <= Cardinality(M)
        /\ Cardinality(S) \in Nat /\ Cardinality(M) \in Nat
        BY <1>2, <2>1, FS_Subset, FS_CardinalityType
  <2>3. Greatest(k, 1) \in Int
        BY <1>1 DEF Greatest
  <2>4. QED
        BY <1>4, <2>2, <2>3
<1>8. Top(S, k) = S
      BY <1>1, <1>6, <1>7, TopIsAll
<1>9. p \notin Admitted(S, t, allowed)
      BY <1>5, <1>8
<1>10. p.owner = Shared /\ \E q \in S : q.doc = p.doc /\ q.owner = t
       BY <1>3, <1>9, DueIsAdmitted
<1>11. QED
       BY <1>2, <1>10 DEF M, t, scope

\* On a managed profile a well-formed request that is shown nothing has
\* nothing permitted to be shown.
LEMMA NothingIsCrowdedOut ==
    ASSUME NEW door \in Doors, NEW caller, NEW request, NEW b, NEW index,
           Ranked(index), request.topK \in Int,
           Shown(door, TRUE, caller, request, b, index) = {}, FilterKnown(request),
           TakesTopK(door, request.topK), ~Scope(door, TRUE, caller, request).refused
    PROVE  Entitled(TRUE, request, index, Scope(door, TRUE, caller, request).tenant,
                    Tags(door, TRUE, caller, request, b)) = {}
<1> DEFINE scope == Scope(door, TRUE, caller, request)
           allowed == Tags(door, TRUE, caller, request, b)
           k == TopK(door, request.topK)
           source == ManagedCandidates(index, request, scope.tenant, allowed)
<1>0. Entitled(TRUE, request, index, scope.tenant, allowed) \subseteq source
      BY DEF Entitled, ManagedCandidates, InManagedScope
<1> SUFFICES ASSUME source # {} PROVE FALSE
    BY <1>0
<1>1. PICK p \in source : TRUE
      OBVIOUS
<1>2. \A q \in source : q.owner \in {Shared, scope.tenant} /\ q.tags # {} /\ q.tags \subseteq allowed
      BY DEF ManagedCandidates, InManagedScope
<1>3. allowed # {}
      BY <1>1, <1>2
<1>4. scope.tenant # Shared
      BY <1>3 DEF Tags, Resolve, ManagedTags, LocalTags
<1>5. Ranked(source)
  <2>1. source \subseteq index
        BY DEF ManagedCandidates, Matching
  <2>2. QED
        BY <2>1, RankedSubset
<1>6. k \in Int
      BY TopKIsANumber
<1>7. Shown(door, TRUE, caller, request, b, index) = Admitted(Top(source, k), scope.tenant, allowed)
      BY <1>3 DEF Shown, Tags, ManagedRetrieve
<1> HIDE DEF source, k, scope, allowed
<1>8. Top(source, k) # {}
      BY <1>5, <1>6, TopIsThere
<1>9. Top(source, k) \subseteq source
      BY DEF Top
<1>10. Admitted(Top(source, k), scope.tenant, allowed) # {}
       BY <1>2, <1>4, <1>8, <1>9, SomethingIsAdmitted
<1>11. QED
       BY <1>7, <1>10

\* Of every caller, request, directory and index: what each door shows is the
\* verified caller's to see, as many as may be asked for, and listed; and a
\* managed door that shows nothing has nothing permitted to show.
\* (search, answer, build_handlers, build_tool_callables, retrieve,
\* corpus_status)
THEOREM EveryDoorIsEntitled ==
    ASSUME NEW door \in Doors, NEW cloud \in BOOLEAN, NEW caller, NEW request, NEW b, NEW index,
           Ranked(index), request.topK \in Int
    PROVE  EveryDoorStaysEntitled(door, cloud, caller, request, b, index)
<1> DEFINE seen == Shown(door, cloud, caller, request, b, index)
           scope == Scope(door, cloud, caller, request)
           rows == {[doc |-> p.doc, owner |-> p.owner, row |-> p.row] : p \in index}
           listed == StatusRows(caller, rows)
           docs(ps) == {<<p.doc, p.owner>> : p \in ps}
           held == Resolve(cloud, b, caller.principals, caller.tenant)
           allowed == Tags(door, cloud, caller, request, b)
<1>1. ASSUME door \in {"http", "agent"}
      PROVE  /\ \A p \in seen : /\ p.owner \in {Shared, caller.tenant}
                                 /\ p.tags # {} /\ p.tags \subseteq held
             /\ Cardinality(seen) <= MostPassages
             /\ docs(seen) \subseteq docs(listed)
             /\ cloud => Cardinality(docs(seen)) <= Counts(listed)["fresh"]
  <2>1. ASSUME NEW p \in seen
        PROVE  p.owner \in {Shared, caller.tenant} /\ p.tags # {} /\ p.tags \subseteq held
    <3>1. /\ ~scope.refused /\ p.owner \in {Shared, scope.tenant}
          /\ p.tags # {} /\ p.tags \subseteq allowed
          BY ShownWasFound
    <3>2. scope.tenant = caller.tenant /\ allowed \subseteq held
          BY <1>1, <3>1, VerifiedScopes
    <3> HIDE DEF scope, allowed, held
    <3>3. QED
          BY <3>1, <3>2
  <2>2. Cardinality(seen) <= MostPassages
        BY <1>1, NoMoreThanTheMost
  <2>3. /\ docs(seen) \subseteq docs(listed)
        /\ cloud => Cardinality(docs(seen)) <= Counts(listed)["fresh"]
        BY <1>1, StatusAgrees
  <2>4. QED
        BY <2>1, <2>2, <2>3
<1>2. ASSUME door = "http", request.principals # {}, NEW p \in seen, NEW t \in p.tags
      PROVE  \E x \in b : x.tag = t /\ x.principal \in request.principals
  <2>1. t \in allowed
        BY ShownWasFound
  <2>2. allowed = Resolve(cloud, b, Narrowed(caller, request.principals), caller.tenant)
        BY <1>2 DEF Tags, Scope, HttpScope, For
  <2>3. QED
        BY <1>2, <2>1, <2>2, NarrowingNarrows
<1>3. ASSUME NEW p \in seen, NEW q \in seen, p.doc = q.doc PROVE p.owner = q.owner
  <2>1. PICK S : seen = {} \/ seen = Admitted(S, scope.tenant, allowed)
        BY DEF Shown, Tags
  <2> HIDE DEF seen, scope, allowed
  <2>2. QED
        BY <1>3, <2>1, AdmittedHasOneOwner
<1> DEFINE due == Entitled(cloud, request, index, scope.tenant, allowed)
           wellFormed == ~scope.refused /\ TakesTopK(door, request.topK) /\ FilterKnown(request)
<1>4. ASSUME wellFormed, Ample(door, request, index), NEW p \in due \ seen
      PROVE  p.owner = Shared /\ \E q \in Matching(index, request) :
                 q.doc = p.doc /\ q.owner = scope.tenant
      BY <1>4, AmpleShowsAll
<1>5. ASSUME wellFormed, cloud, seen = {} PROVE due = {}
  <2>1. cloud = TRUE
        BY <1>5
  <2>2. QED
        BY <1>5, <2>1, NothingIsCrowdedOut
<1>6. allowed = Resolve(cloud, b, scope.principals, scope.tenant)
      BY DEF Tags
<1>7. QED
      BY <1>1, <1>2, <1>3, <1>4, <1>5, <1>6 DEF EveryDoorStaysEntitled

\* The run's property of the requests it takes.
THEOREM EntitledDoorsHold == FSpec => []EntitledDoors
<1>1. ASSUME NEW i \in Indexes PROVE Ranked(i)
  <2> DEFINE p1 == Passage("d2", "U", {"a"}, 1, TRUE, Row("fresh", TRUE))
             p2 == Passage("d1", Shared, {"a"}, 2, TRUE, Row("fresh", TRUE))
             p3 == Passage("d1", "T", {"a", "b"}, 3, FALSE, Row("fresh", TRUE))
             p4 == Passage("d3", Shared, {}, 4, TRUE, Row("failed", TRUE))
             p5 == Passage("d4", "T", {"a"}, 5, TRUE, Row("fresh", FALSE))
             p6 == Passage("d5", "T", {"b"}, 6, TRUE, Row("fresh", TRUE))
             place == [p \in i |-> p.rank]
  <2>1. /\ p1.rank = 1 /\ p2.rank = 2 /\ p3.rank = 3
        /\ p4.rank = 4 /\ p5.rank = 5 /\ p6.rank = 6
        BY DEF Passage
  <2>2. i \in SUBSET {p1, p2, p3, p4, p5, p6}
        BY Zenon DEF Indexes
  <2> HIDE DEF p1, p2, p3, p4, p5, p6
  <2>3. \A p \in i : p.rank \in 1..6
        BY <2>1, <2>2
  <2>4. \A p, q \in i : p.rank = q.rank => p = q
        BY <2>1, <2>2
  <2>5. place \in [i -> 1..6] /\ \A p, q \in i : place[p] = place[q] => p = q
        BY <2>3, <2>4
  <2> HIDE DEF place
  <2>6. place \in Injection(i, 1..6)
        BY <2>5, Zenon DEF Injection, IsInjective
  <2>7. IsFiniteSet(1..6)
    <3>1. \A m, n \in Int : IsFiniteSet(m..n)
          BY FS_Interval
    <3>2. 1 \in Int /\ 6 \in Int
          OBVIOUS
    <3>3. QED
          BY <3>1, <3>2, Zenon
  <2>8. IsFiniteSet(i)
        BY <2>6, <2>7, FS_Injection
  <2>9. QED
        BY <2>3, <2>4, <2>8 DEF Ranked
<1>2. ASSUME SampleIsTaken, sample.kind = "request"
      PROVE  EveryDoorStaysEntitled(sample.door, sample.managed, sample.c, sample.q, sample.b, sample.i)
  <2>1. sample.q.topK \in Int
        BY <1>2, DoorsAssumption DEF SampleIsTaken, Requests
  <2>2. QED
        BY <1>1, <1>2, <2>1, EveryDoorIsEntitled DEF SampleIsTaken
<1>3. SampleIsTaken => EntitledDoors
      BY <1>2 DEF EntitledDoors
<1>4. QED
      BY <1>3, SampleInvariant, PTL

-----------------------------------------------------------------------------
(***************************************************************************)
(* The evaluation.                                                         *)
(***************************************************************************)
\* A golden file of the run is a sequence of lines that can be scored.
LEMMA GoldenFilesAreFiles ==
    ASSUME NEW file \in GoldenFiles
    PROVE  /\ \E length \in Nat : DOMAIN file = 1..length
           /\ \A line \in Lines(file) \ {Broken} :
                 IsFiniteSet(line.expected) /\ line.planted \in BOOLEAN
<1>1. ASSUME NEW line \in Examples
      PROVE  IsFiniteSet(line.expected) /\ line.planted \in BOOLEAN
  <2>1. /\ line.expected \in {{"d1"}, {}, {"d2", "d9"}}
        /\ line.planted \in BOOLEAN
        BY DEF Examples
  <2>2. IsFiniteSet({"d1"}) /\ IsFiniteSet({})
        BY FS_Singleton, FS_EmptySet
  <2>3. IsFiniteSet({"d2", "d9"})
    <3>1. {"d2"} \cup {"d9"} = {"d2", "d9"}
          OBVIOUS
    <3>2. IsFiniteSet({"d2"}) /\ IsFiniteSet({"d9"})
          BY FS_Singleton
    <3>3. QED
          BY <3>1, <3>2, FS_Union
  <2>4. QED
        BY <2>1, <2>2, <2>3
<1>2. CASE \E n \in 0..2 : file \in [1..n -> Examples \cup {Skipped}]
  <2>1. PICK n \in 0..2 : file \in [1..n -> Examples \cup {Skipped}]
        BY <1>2
  <2>2. Lines(file) \subseteq Examples
        BY <2>1 DEF Lines, Range
  <2>3. QED
        BY <1>1, <2>1, <2>2
<1>3. CASE \E e \in Examples : file = <<e, Broken>>
  <2>1. PICK e \in Examples : file = <<e, Broken>>
        BY <1>3
  <2>2. Range(file) = {e, Broken} /\ DOMAIN file = 1..2
        BY <2>1 DEF Range
  <2>3. QED
        BY <1>1, <2>2 DEF Lines
<1>4. \/ file \in UNION {[1..n -> Examples \cup {Skipped}] : n \in 0..2}
      \/ file \in {<<e, Broken>> : e \in Examples}
      BY Zenon DEF GoldenFiles
<1>5. ASSUME file \in UNION {[1..n -> Examples \cup {Skipped}] : n \in 0..2}
      PROVE  \E n \in 0..2 : file \in [1..n -> Examples \cup {Skipped}]
      BY <1>5, Zenon
<1>6. QED
      BY <1>2, <1>3, <1>4, <1>5

\* The run's property of the evaluations it takes, for any finite corpus.
THEOREM HonestEvaluationHolds ==
    ASSUME IsFiniteSet(DOMAIN DocTags)
    PROVE  FSpec => []HonestEvaluation
<1>1. ASSUME NEW p \in Products, NEW ds \in GoldenFiles, NEW n \in {0, 97}, NEW rubric \in Rubrics
      PROVE  EvalCannotPassALeak(p, ds, n, rubric)
  <2>1. Product(p)
        BY DEF Products, Product
  <2>2. n \in Nat /\ IsFiniteSet(Corpus)
        BY DEF Corpus
  <2>3. PICK length \in Nat : DOMAIN ds = 1..length
        BY GoldenFilesAreFiles
  <2>4. \A line \in Lines(ds) \ {Broken} :
            IsFiniteSet(line.expected) /\ line.planted \in BOOLEAN
        BY GoldenFilesAreFiles
  <2>5. \A m \in Metrics : Threshold(m, rubric) \in Nat
        BY DEF Rubrics, Metrics, Threshold, DefaultThreshold, One
  <2>6. QED
        BY <2>1, <2>2, <2>3, <2>4, <2>5, EveryEvaluationIsHonest
<1>2. SampleIsTaken => HonestEvaluation
      BY <1>1 DEF SampleIsTaken, HonestEvaluation
<1>3. QED
      BY <1>2, SampleInvariant, PTL

-----------------------------------------------------------------------------
(***************************************************************************)
(* Long texts and claims.                                                  *)
(***************************************************************************)
\* The run's property of the texts it takes, when no character of theirs is
\* wider than the widest.  (ModelArmorGuardrailAdapter._bounded_windows)
THEOREM WindowsMissNothingHolds ==
    ASSUME WidestChar >= 2
    PROVE  FSpec => []WindowsMissNothing
<1>1. WidestChar \in Nat
      BY SplitAssumption
<1>2. \A c \in Characters : c.bytes \in 1..WidestChar
      BY <1>1 DEF Characters
<1>3. ASSUME NEW t \in SampleTexts PROVE PhrasesNeverEscape(t)
  <2>1. PICK n \in 0..7 : t \in [1..n -> Characters]
        BY DEF SampleTexts
  <2>2. t \in Seq(Characters)
        BY <2>1
  <2>3. QED
        BY <1>2, <2>2, NoPhraseEscapes
<1>4. SampleIsTaken => WindowsMissNothing
      BY <1>3 DEF SampleIsTaken, WindowsMissNothing
<1>5. QED
      BY <1>4, SampleInvariant, PTL

\* The run's property of the texts that are cut for the redactor, under the
\* same assumption.  (DlpRedactionAdapter.redact)
THEOREM CutsHideNothingHolds ==
    ASSUME WidestChar >= 2
    PROVE  FSpec => []CutsHideNothing
<1>1. WidestChar \in Nat
      BY SplitAssumption
<1>2. \A c \in Characters : c.bytes \in 1..WidestChar
      BY <1>1 DEF Characters
<1>3. ASSUME NEW t \in SampleTexts PROVE IdentifiersNeverSurviveACut(t)
  <2>1. PICK n \in 0..7 : t \in [1..n -> Characters]
        BY DEF SampleTexts
  <2>2. t \in Seq(Characters)
        BY <2>1
  <2>3. QED
        BY <1>2, <2>2, NoCutDoesHarm
<1>4. SampleIsTaken => CutsHideNothing
      BY <1>3 DEF SampleIsTaken, CutsHideNothing
<1>5. QED
      BY <1>4, SampleInvariant, PTL

\* The run's property of the claims and blocks it takes.
\* (anchor_citations, resolve_anchor)
THEOREM BestEvidenceHolds == FSpec => []BestEvidence
<1>1. ASSUME NEW S \in SUBSET Words PROVE IsFiniteSet(S)
  <2>1. IsFiniteSet(Words)
    <3>1. IsFiniteSet({"w1"}) /\ IsFiniteSet({"w2"}) /\ IsFiniteSet({"w3"})
          BY FS_Singleton
    <3>2. IsFiniteSet({"w1"} \cup {"w2"} \cup {"w3"})
          BY <3>1, FS_Union
    <3>3. Words = {"w1"} \cup {"w2"} \cup {"w3"}
          BY DEF Words
    <3>4. QED
          BY <3>2, <3>3
  <2>2. QED
        BY <2>1, FS_Subset
<1>2. ASSUME NEW w1 \in SUBSET Words, NEW w2 \in SUBSET Words,
             NEW pages \in {<<1, 2>>, <<NoPage, NoPage>>}
      PROVE  Stored(Own(Cited, StoredChunks(w1, w2, pages)))
  <2> DEFINE a == [doc |-> "d", words |-> w1, page |-> pages[1], anchor |-> <<1, 0>>, ordinal |-> 0]
             b == [doc |-> "d", words |-> w2, page |-> pages[2], anchor |-> <<2, 0>>, ordinal |-> 1]
  <2>1. Own(Cited, StoredChunks(w1, w2, pages)) \subseteq {a, b}
        BY DEF Own, Cited, StoredChunks
  <2>2. pages[1] \in Nat /\ pages[2] \in Nat
        BY DEF NoPage
  <2>3. /\ a.words = w1 /\ a.page = pages[1] /\ a.ordinal = 0
        /\ b.words = w2 /\ b.page = pages[2] /\ b.ordinal = 1
        OBVIOUS
  <2> HIDE DEF a, b
  <2>4. QED
        BY <1>1, <2>1, <2>2, <2>3 DEF Stored
<1>3. Citing(Cited)
      BY DEF Citing, Cited
<1>4. ASSUME NEW cl \in ClaimLists PROVE cl \in Seq(SUBSET Words)
  <2>1. PICK n \in 0..2 : cl \in [1..n -> SUBSET Words]
        BY DEF ClaimLists
  <2>2. QED
        BY <2>1
<1>5. ASSUME NEW cl \in ClaimLists, NEW w1 \in SUBSET Words, NEW w2 \in SUBSET Words,
             NEW pages \in {<<1, 2>>, <<NoPage, NoPage>>}, NEW floor \in {1, 3400}
      PROVE  AnchorsAreTheBestEvidence(cl, Cited, StoredChunks(w1, w2, pages), floor)
  <2>1. Stored(Own(Cited, StoredChunks(w1, w2, pages))) /\ floor \in Int
        BY <1>2
  <2>2. cl \in Seq(SUBSET Words) /\ \A S \in SUBSET Words : IsFiniteSet(S)
        BY <1>1, <1>4
  <2>3. QED
        BY <1>3, <2>1, <2>2, EveryAnchorIsTheBestEvidence
<1>6. SampleIsTaken => BestEvidence
      BY <1>5 DEF SampleIsTaken, BestEvidence
<1>7. QED
      BY <1>6, SampleInvariant, PTL

\* The run's property of the lines it takes.
\* (analyze_text_pages, blocks_to_chunks, prepare_for_redaction)
THEOREM UniqueAnchorsHold == FSpec => []UniqueAnchors
<1>1. ASSUME NEW l \in Layouts PROVE AnchorsNameOneBlock("d", l)
  <2>1. PICK n \in 0..5 : l \in [1..n -> LineKinds]
        BY DEF Layouts
  <2>2. l \in Seq(LineKinds)
        BY <2>1
  <2>3. QED
        BY <2>2, EveryAnchorNamesOneBlock
<1>2. SampleIsTaken => UniqueAnchors
      BY <1>1 DEF SampleIsTaken, UniqueAnchors
<1>3. QED
      BY <1>2, SampleInvariant, PTL
=============================================================================
