------------------------------- MODULE EvalGate -------------------------------
(***************************************************************************)
(* eval/run_eval.py: what a passing evaluation says of the product.        *)
(*                                                                         *)
(* A line of the golden file is skipped, broken or an example: the query   *)
(* without its planted identifier (`key`), whether it plants one, the      *)
(* principals, and the documents it expects and forbids.  The product      *)
(* under evaluation is how it filters, whether its redactor masks, whether *)
(* it can be built, and per document where it anchors the example's claim. *)
(* Scores are counted in ten thousandths; `fillers` more examples of one   *)
(* expected document each go right.                                        *)
(***************************************************************************)
EXTENDS Integers, Sequences, FiniteSetsExt, SequencesExt

CONSTANTS
    DocTags,        \* document -> its ACL tags (_CORPUS)
    DirectoryTags   \* principal -> its tags (_PRINCIPAL_TAGS)

ASSUME EvalAssumption == \A d \in DOMAIN DocTags : DocTags[d] # {}

Metrics == {"retrieval_recall", "acl_correctness", "citation_accuracy", "pii_safety"}
One == 10000

\* THRESHOLDS
DefaultThreshold(m) ==
    CASE m = "retrieval_recall" -> 8000
      [] m = "citation_accuracy" -> 9800
      [] m \in {"acl_correctness", "pii_safety"} -> 9900

\* load_thresholds_from_rubrics: what the rubric files set, a function from the
\* metrics and companions they name, goes before what is shipped.
Threshold(m, rubric) == IF m \in DOMAIN rubric THEN rubric[m] ELSE DefaultThreshold(m)

(***************************************************************************)
(* Slips: one mistake each.                                                *)
(***************************************************************************)
OnlyExpected(product, dataset, ex) == ex.expected
-----------------------------------------------------------------------------
(***************************************************************************)
(* The evaluated pipeline.                                                 *)
(***************************************************************************)
\* load_golden: comments and blank lines go, a broken line ends the run.
Skipped == [key |-> "#"]
Broken == [key |-> "{"]
Readable(file) == Broken \notin Range(file)
Golden(file) ==
    FoldLeft(LAMBDA kept, line : IF line = Skipped THEN kept ELSE Append(kept, line), <<>>, file)

\* FakeAccessControlAdapter.resolve
Directory == DOMAIN DirectoryTags
Allowed(ex) == UNION {DirectoryTags[p] : p \in ex.principals \cap Directory}

\* The documents there are to find.
Corpus == DOMAIN DocTags

\* The text the retrieval fake receives, after the product's redaction.
Query(ex) == <<ex.key, ex.planted>>
Received(product, ex) == IF product.masks THEN <<ex.key, FALSE>> ELSE Query(ex)

\* _build_adapters, FakeRetrievalAdapter: keyed by the raw and the redacted
\* query, the last example of a key wins; everything of the corpus that it
\* expects or forbids, unfiltered.
Fixture(product, dataset, ex) ==
    LET last == Max({k \in DOMAIN dataset :
                        Received(product, ex) \in {Query(dataset[k]), Received(product, dataset[k])}})
    IN  (dataset[last].expected \cup dataset[last].forbidden) \cap Corpus

Released(product, docs, allowed) ==
    {d \in docs : CASE product.filter = "every tag" -> DocTags[d] \subseteq allowed
                    [] product.filter = "some tag" -> DocTags[d] \cap allowed # {}
                    [] product.filter = "none" -> TRUE}

\* _search; a service that cannot be built finds nothing.
Found(product, dataset, ex) ==
    IF product.available
    THEN Released(product, Fixture(product, dataset, ex), Allowed(ex)) ELSE {}

\* Through the real parser, store and resolver: an anchor without a box and an
\* anchor other than the golden one do not count.
Located(product) == {d \in DOMAIN product.anchors : product.anchors[d] = "golden"}

(***************************************************************************)
(* The scorers.                                                            *)
(***************************************************************************)
Share(part, whole) ==
    IF whole = {} THEN One
    ELSE (2 * One * Cardinality(part) + Cardinality(whole)) \div (2 * Cardinality(whole))

RecallScore(found, ex) == Share(ex.expected \cap found, ex.expected)
AclScore(found, ex) == IF found \cap ex.forbidden = {} THEN One ELSE 0
CitationScore(found, product) == Share(found \cap Located(product), found)
PiiScore(product, ex) == IF ex.planted /\ product.available /\ ~product.masks THEN 0 ELSE One

ScoreOf(m, product, dataset, ex) ==
    LET found == Found(product, dataset, ex) IN
    CASE m = "retrieval_recall" -> RecallScore(found, ex)
      [] m = "acl_correctness" -> AclScore(found, ex)
      [] m = "citation_accuracy" -> CitationScore(found, product)
      [] m = "pii_safety" -> PiiScore(product, ex)

\* The fillers' score, which an unavailable service cannot give.
FillerScore(m, product) ==
    IF m = "retrieval_recall" /\ ~product.available THEN 0 ELSE One

\* round(mean, 4)
Mean(m, product, dataset, fillers) ==
    LET n == Len(dataset) + fillers
        sum == MapThenSumSet(LAMBDA k : ScoreOf(m, product, dataset, dataset[k]), DOMAIN dataset)
               + fillers * FillerScore(m, product)
    IN  (2 * sum + n) \div (2 * n)

(***************************************************************************)
(* The verdict.                                                            *)
(***************************************************************************)
\* self_check: a leak, a wrong block and a surviving identifier score 0, and
\* a metric whose threshold that meets is refused before anything is scored.
SelfCheck(rubric) ==
    \A m \in Metrics \ {"retrieval_recall"} : Threshold(m, rubric) <= One /\ 0 < Threshold(m, rubric)

\* EvalReport.passed over run_offline's report; a dataset without examples is
\* refused.
Passed(product, file, fillers, rubric) ==
    /\ SelfCheck(rubric)
    /\ Readable(file) /\ Len(Golden(file)) + fillers > 0
    /\ \A m \in Metrics : Mean(m, product, Golden(file), fillers) >= Threshold(m, rubric)

\* run_gate, main: the promotion verdict is the bound gate's, and only a managed
\* profile may ask for it.  GenAiEvalAdapter.evaluate always refuses, and
\* LocalOfflineEvalAdapter.evaluate is empty without the script.
Gates == {"LocalOfflineEvalAdapter", "GenAiEvalAdapter"}
Evaluates(gate, script) == gate = "LocalOfflineEvalAdapter" /\ script
Promoted(product, file, fillers, rubric, profile, gate, script) ==
    /\ profile \in {"gcp", "platform"}
    /\ Evaluates(gate, script) /\ Passed(product, file, fillers, rubric)
-----------------------------------------------------------------------------
(***************************************************************************)
(* Properties.                                                             *)
(***************************************************************************)
\* No example's forbidden document is released, and what is planted is masked.
LeaksNothing(product, dataset) ==
    \A k \in DOMAIN dataset :
        LET ex == dataset[k]
        IN  /\ Released(product, ex.forbidden \cap Corpus, Allowed(ex)) = {}
            /\ ex.planted => product.masks

\* Of n examples few are shown a block that is not the golden one: with D
\* documents one of them costs its example at least 1/D, up to rounding.
AnchorsMostOfIt(product, dataset, n) ==
    49 * Cardinality({k \in DOMAIN dataset :
            ~(Found(product, dataset, dataset[k]) \subseteq Located(product))})
        <= Cardinality(Corpus) * n

\* Next to nothing is expected.
ExpectsLittle(dataset, fillers) ==
    5 * (fillers + Cardinality({k \in DOMAIN dataset : dataset[k].expected # {}}))
        <= Len(dataset) + fillers

\* A rubric lowers no threshold, unless to one that the self-check refuses; it
\* does not look at recall.
AsStrict(rubric) ==
    \A m \in Metrics :
        \/ Threshold(m, rubric) >= DefaultThreshold(m)
        \/ m # "retrieval_recall" /\ Threshold(m, rubric) = 0

\* What can be told from means: of fewer than a hundred examples, each with a
\* query of its own, under no lower thresholds.
Telling(dataset, fillers, rubric) ==
    /\ Len(dataset) + fillers < 100 /\ AsStrict(rubric)
    /\ \A j, k \in DOMAIN dataset : dataset[j].key = dataset[k].key => j = k

\* A product that passes a telling evaluation releases no forbidden document of
\* any example, anchors what it releases, masks what is planted and, if
\* anything was expected, exists, whatever profile, gate and script promoted it.
\* (run_offline, self_check, EvalReport.passed, run_gate)
EvalCannotPassALeak(product, file, fillers, rubric) ==
    LET dataset == Golden(file)
        promoted == \E profile \in {"local", "gcp"}, gate \in Gates, script \in BOOLEAN :
                        Promoted(product, file, fillers, rubric, profile, gate, script)
    IN  promoted /\ Telling(dataset, fillers, rubric) =>
            IF product.available
            THEN LeaksNothing(product, dataset) /\ AnchorsMostOfIt(product, dataset, Len(dataset) + fillers)
            ELSE ExpectsLittle(dataset, fillers)
=============================================================================
