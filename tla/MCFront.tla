------------------------------- MODULE MCFront --------------------------------
(***************************************************************************)
(* Instances of the decisions around the knowledge base.  `part` is chosen *)
(* once: an agent's sessions run, or stored conversations run, or one      *)
(* input of a pure decision is taken and judged.  A sample is a record of  *)
(* its kind and of what the decision takes.                                *)
(***************************************************************************)
EXTENDS Posture, Screening, Anchoring, BankPolicy, EvalGate, FrontDoors,
        AgentSession, Sessions

VARIABLES part, sample

fvars == <<part, sample>>
allvars == <<fvars, vars, svars>>

MCMaxTurns == [u \in Users |-> 3]
Untaken == [kind |-> "none"]
Parts == {"inputs", "agent", "sessions"}

FInit ==
    /\ part \in Parts /\ sample = Untaken
    /\ Init /\ SInit
    /\ managed => part = "sessions"

\* A profile named in the environment, or one that settings.yaml spells out.
Named == {<<"unset", w>> : w \in {"none", "typo"} \cup Profiles}
         \cup ({"empty", "typo"} \cup Profiles) \X {"none", "gcp"}
Deployments ==
    \* who is let in
    {[env |-> n[1], written |-> n[2], guardrail |-> g, redaction |-> "unset",
      grounding |-> "unset", regionAllowed |-> TRUE, template |-> b[1], database |-> b[2],
      demo |-> b[3], token |-> b[4], identity |-> i, frame |-> "unset", cors |-> "unset",
      audience |-> a] :
        n \in Named, g \in {"unset", "off", "empty"},
        b \in BOOLEAN \X BOOLEAN \X BOOLEAN \X BOOLEAN,
        i \in {"shipped", "verifier", "undeclared", "missing"},
        a \in {"unset", "empty", "named"}}
    \cup
    \* the other settings
    {[env |-> e, written |-> "none", guardrail |-> "on", redaction |-> r, grounding |-> g,
      regionAllowed |-> k, template |-> TRUE, database |-> TRUE, demo |-> FALSE,
      token |-> TRUE, identity |-> "shipped", frame |-> f, cors |-> c, audience |-> "named"] :
        e \in {"unset", "local", "gcp", "onprem"}, r \in {"unset", "on", "off", "odd"},
        g \in {"unset", "true", "false", "odd"}, k \in BOOLEAN,
        f \in {"unset", "empty", "named", "wildcard"},
        c \in {"unset", "empty", "named", "wildcard"}}

\* A letter and a space, of one byte and of two.
Characters == {[bytes |-> 1, space |-> FALSE], [bytes |-> 2, space |-> FALSE],
               [bytes |-> 1, space |-> TRUE], [bytes |-> 2, space |-> TRUE]}
SampleTexts == UNION {[1 .. n -> Characters] : n \in 0 .. 7}

LineKinds == {"blank", "break", "title", "item", "pipe", "gapped", "grid", "text"}
Layouts == UNION {[1 .. n -> LineKinds] : n \in 0 .. 5}

Words == {"w1", "w2", "w3"}
ClaimLists == UNION {[1 .. n -> SUBSET Words] : n \in 0 .. 2}
\* Two blocks of the cited document and one of another.
StoredChunks(w1, w2, pages) ==
    {[doc |-> "d", words |-> w1, page |-> pages[1], anchor |-> <<1, 0>>, ordinal |-> 0],
     [doc |-> "d", words |-> w2, page |-> pages[2], anchor |-> <<2, 0>>, ordinal |-> 1],
     [doc |-> "e", words |-> Words, page |-> 1, anchor |-> <<1, 0>>, ordinal |-> 0]}
Cited == [doc |-> "d", page |-> 7, anchor |-> NoAnchor]

Absent == [kind |-> "absent", value |-> 0, entries |-> {}]
RawPolicies ==
    [floor : Written, tags : Lists(ShippedTags), reviewAll : Switches, raises : {"absent"},
     retraction : {Absent}]
    \cup [floor : {Absent}, tags : {Absent}, reviewAll : {"absent"}, raises : Switches,
          retraction : Lists({"clerks"} \cup ShippedGroup)]

MCDocTags == [d \in {"d1", "d2"} |-> IF d = "d1" THEN {"a"} ELSE {"a", "b"}]
MCDirectoryTags == [p \in {"pa", "pab"} |-> IF p = "pa" THEN {"a"} ELSE {"a", "b"}]
Products ==
    [filter : {"every tag", "some tag", "none"}, masks : BOOLEAN, available : BOOLEAN,
     anchors : {[d \in DOMAIN MCDocTags |-> IF d = "d1" THEN "golden" ELSE a] :
                   a \in {"golden", "elsewhere", "boxless"}}]
\* "d9" is not in the corpus and "px" not in the directory.
Examples ==
    {[key |-> k, principals |-> ps, expected |-> ef[1], forbidden |-> ef[2], planted |-> p] :
        k \in {"q", "r"}, ps \in {{"pa"}, {"pab", "px"}}, p \in BOOLEAN,
        ef \in {<<{"d1"}, {}>>, <<{"d1"}, {"d2"}>>, <<{}, {"d2"}>>, <<{"d2", "d9"}, {}>>}}
\* As shipped; a threshold that nothing fails; higher ones and a companion's.
Rubrics == {<<>>, [acl_correctness |-> 0],
            [retrieval_recall |-> One, citation_accuracy |-> 9900, latency |-> 0]}
GoldenFiles ==
    (UNION {[1 .. n -> Examples \cup {Skipped}] : n \in 0 .. 2})
    \cup {<<e, Broken>> : e \in Examples}

Callers ==
    {[principals |-> ps, tenant |-> t] : ps \in {{}, {"g1"}, {"g1", "g2"}}, t \in {Shared, "T"}}
Requests(door) ==
    [principals : IF door \in {"http", "cli"} THEN SUBSET {"g1", "g3"} ELSE {{}},
     tenant : IF door = "cli" THEN {Shared, "T"} ELSE {Shared},
     topK : {0, 1, MostPassages + 1}, terms : BOOLEAN,
     filter : IF door = "http" THEN {"none", "source_system", "other"} ELSE {"none"}]
Binding(p, t, tag, on) == [principal |-> p, tenant |-> t, tag |-> tag, enabled |-> on]
Directories ==
    {{Binding("g1", "T", "a", TRUE), Binding("g2", "T", "b", TRUE), Binding("g3", "T", "b", TRUE)},
     {Binding("g1", "U", "a", TRUE), Binding("g1", "T", "b", FALSE), Binding("g2", "T", "a", TRUE)},
     {Binding("g1", "T", "a", TRUE), Binding("g1", "T", "b", TRUE), Binding("g3", Shared, "a", TRUE)}}
Row(status, current) == [status |-> status, current |-> current]
Passage(d, o, tags, r, hit, row) ==
    [doc |-> d, owner |-> o, tags |-> tags, rank |-> r, hit |-> hit, ofSource |-> r # 2, row |-> row]
Indexes ==
    SUBSET {Passage("d2", "U", {"a"}, 1, TRUE, Row("fresh", TRUE)),
            Passage("d1", Shared, {"a"}, 2, TRUE, Row("fresh", TRUE)),
            Passage("d1", "T", {"a", "b"}, 3, FALSE, Row("fresh", TRUE)),
            Passage("d3", Shared, {}, 4, TRUE, Row("failed", TRUE)),
            Passage("d4", "T", {"a"}, 5, TRUE, Row("fresh", FALSE)),
            Passage("d5", "T", {"b"}, 6, TRUE, Row("fresh", TRUE))}
-----------------------------------------------------------------------------
Take(s) ==
    /\ sample' = s
    /\ UNCHANGED <<part, vars, svars>>

TakeDeployment == \E d \in Deployments : Take([kind |-> "deployment", d |-> d])
TakeClaims == \E c \in Claims : Take([kind |-> "claims", c |-> c])
TakeText == \E t \in SampleTexts : Take([kind |-> "text", t |-> t])
TakeLayout == \E l \in Layouts : Take([kind |-> "layout", l |-> l])
TakeEvidence ==
    \E cl \in ClaimLists, w1, w2 \in SUBSET Words, floor \in {1, 3400},
       pages \in {<<1, 2>>, <<NoPage, NoPage>>} :
        Take([kind |-> "evidence", claims |-> cl, floor |-> floor,
              chunks |-> StoredChunks(w1, w2, pages)])
TakePolicy == \E r \in RawPolicies : Take([kind |-> "policy", r |-> r])
TakeEvaluation ==
    \E p \in Products, ds \in GoldenFiles, n \in {0, 97}, rubric \in Rubrics :
        Take([kind |-> "evaluation", p |-> p, ds |-> ds, n |-> n, rubric |-> rubric])
TakeRequest ==
    \E door \in Doors, cloud \in BOOLEAN, c \in Callers, b \in Directories, i \in Indexes :
        \E q \in Requests(door) :
            Take([kind |-> "request", door |-> door, managed |-> cloud, c |-> c, q |-> q,
                  b |-> b, i |-> i])

FNext ==
    \/ /\ part = "inputs" /\ sample = Untaken
       /\ \/ TakeDeployment
          \/ TakeClaims
          \/ TakeText
          \/ TakeLayout
          \/ TakeEvidence
          \/ TakePolicy
          \/ TakeEvaluation
          \/ TakeRequest
    \/ part = "agent" /\ Next /\ UNCHANGED <<fvars, svars>>
    \/ part = "sessions" /\ SNext /\ UNCHANGED <<fvars, vars>>

FSpec == FInit /\ [][FNext]_allvars
-----------------------------------------------------------------------------
(***************************************************************************)
(* The properties, of whatever was taken.                                  *)
(***************************************************************************)
\* No peer from elsewhere reaches a governed route of a started deployment
\* unverified, but in the insecure demo.  (add_loopback_exposure_guard,
\* require_service_caller, get_principal)
RemoteCallers == sample.kind = "deployment" => RemoteCallersAreVerified(sample.d)

\* The relaxing and the restricting view of a profile never disagree, nor,
\* where the environment names it, do the preflight's and the settings'.
\* (ProfileChoice.exposure_profile, bind_profile, managed_preflight.main)
Views == sample.kind = "deployment" => ViewsAgree(sample.d)

\* A service account is in its reviewed tenant or in none.
\* (IapIdentityAdapter.resolve)
ReviewedTenants == sample.kind = "claims" => TenantIsReviewed(sample.c)

\* Cutting a long text hides no identifier from the redactor, loses no
\* character and exceeds no limit.  (DlpRedactionAdapter.redact)
CutsHideNothing == sample.kind = "text" => IdentifiersNeverSurviveACut(sample.t)

\* No phrase falls between two guardrail windows.
\* (ModelArmorGuardrailAdapter._bounded_windows)
WindowsMissNothing == sample.kind = "text" => PhrasesNeverEscape(sample.t)

\* Every line is in one block and every anchor names one block.
\* (analyze_text_pages, blocks_to_chunks)
UniqueAnchors == sample.kind = "layout" => AnchorsNameOneBlock("d", sample.l)

\* A citation points at the block with the most support for some claim.
\* (anchor_citations, resolve_anchor)
BestEvidence ==
    sample.kind = "evidence" =>
        AnchorsAreTheBestEvidence(sample.claims, Cited, sample.chunks, sample.floor)

\* Only a lower number, a list without a shipped tag and a switch that is false
\* or unknown text review an answer less than the shipped policy.
\* (KbPolicy.from_mapping, KbReviewPolicy.evaluate)
StrictPolicy == sample.kind = "policy" => OnlyThreeWritingsLoosen(sample.r)

\* "A malformed override can only be as strict as the shipped default, never
\* looser by accident": refuted by a mistyped switch.  (KbPolicy.from_mapping)
MalformedNeverLoosens ==
    sample.kind = "policy" => MalformedSectionNeverLoosens(sample.r)

\* A passing evaluation of fewer than a hundred examples, no two of which share
\* a query, has no leak in it, if the rubrics lower no threshold or the
\* self-check notices.  (run_offline, self_check, EvalReport.passed)
HonestEvaluation ==
    sample.kind = "evaluation" => EvalCannotPassALeak(sample.p, sample.ds, sample.n, sample.rubric)

\* Every door shows its caller only what the verified caller may see.
\* (search, answer, build_handlers, build_tool_callables)
EntitledDoors ==
    sample.kind = "request" =>
        EveryDoorStaysEntitled(sample.door, sample.managed, sample.c, sample.q, sample.b, sample.i)

\* "An MCP caller reads the public corpus": refuted, as it is shown nothing.
\* (mcp.server)
McpReadsThePublic ==
    sample.kind = "request" =>
        PublicIsReadable(sample.door, sample.managed, sample.c, sample.q, sample.b, sample.i)
=============================================================================
