------------------------------ MODULE Screening ------------------------------
(***************************************************************************)
(* Texts too long for one call: how the DLP redactor and Model Armor split *)
(* them, and what the pieces' answers add up to.                           *)
(*                                                                         *)
(* dlp_redaction.py cuts after whitespace into disjoint chunks, inspects   *)
(* the chunks, then the context around every cut, and unions the masks.    *)
(* model_armor_guardrail.py slides overlapping windows and stops at the    *)
(* first that is not clean.                                                *)
(*                                                                         *)
(* A character is its size in bytes and whether it is whitespace; a        *)
(* finding is a span of positions with its info type, which a service sees *)
(* when the whole span lies in the piece it is given.  An answer of Model  *)
(* Armor is its invocation result, its aggregate match state, the filters  *)
(* and the Responsible AI kinds that matched and the rewritten text.       *)
(***************************************************************************)
EXTENDS Integers, Sequences, FiniteSetsExt, Functions, SequencesExt

CONSTANTS
    ChunkBytes,     \* _MAX_DLP_CHUNK_BYTES
    Context,        \* _BOUNDARY_CONTEXT_CHARS
    WindowBytes,    \* _MAX_REQUEST_BYTES
    Overlap,        \* _WINDOW_OVERLAP_CHARS
    WidestChar,     \* bytes of the longest code point
    InfoTypes,      \* what DLP looks for: built in, and of the jurisdictions
    MaskCharacters, \* how many _BUILTIN_MASKS and _CUSTOM_MASK_POOL hold
    RaiKinds        \* _RAI_CATEGORY: the Responsible AI kinds with a category

\* The shipped numbers: 8192, 2048, 8000, 1024 and 4.
ASSUME SplitAssumption ==
    /\ {ChunkBytes, Context, WindowBytes, Overlap, WidestChar} \subseteq Nat \ {0}
    /\ Context + WidestChar <= ChunkBytes
    /\ (Overlap + 1) * WidestChar <= WindowBytes
    /\ IsFiniteSet(InfoTypes) /\ MaskCharacters \in Nat
    /\ Cardinality(InfoTypes) <= MaskCharacters    \* _mask_table raises otherwise

Span(lo, hi) == [lo |-> lo, hi |-> hi]
Within(s, piece) == piece.lo <= s.lo /\ s.hi <= piece.hi

\* UTF-8 length of positions i to j.
Bytes(t, i, j) == FoldSeq(LAMBDA c, n : n + c.bytes, 0, SubSeq(t, i, j))

\* The last position of the longest piece from i of at most `limit` bytes.
Reach(t, i, limit) ==
    Max({i - 1} \cup {j \in i .. Len(t) : Bytes(t, i, j) <= limit})

(***************************************************************************)
(* Slips: one mistake each.                                                *)
(***************************************************************************)
BridgeOneSided(a, b) == Span(a.hi + 1, Min({b.hi, b.lo + Context - 1}))
NextTouching(s, best) == best + 1
-----------------------------------------------------------------------------
(***************************************************************************)
(* Redaction.                                                              *)
(***************************************************************************)
\* Where the chunk that starts at i and may extend to `reach` ends: after its last whitespace, or with
\* the text; i - 1 when no safe cut exists.
ChunkEnd(t, i, reach) ==
    IF reach = Len(t) THEN reach ELSE Max({i - 1} \cup {j \in i .. reach : t[j].space})

\* _safe_chunks: the chunks, with an empty last one where it refuses.
Chunks(t) ==
    LET from[i \in 1 .. Len(t) + 1] ==
            IF i > Len(t) THEN <<>>
            ELSE LET e == ChunkEnd(t, i, Reach(t, i, ChunkBytes))
                 IN  <<Span(i, e)>> \o (IF e < i THEN <<>> ELSE from[e + 1])
    IN  from[1]

Refuses(chunks) == \E c \in Range(chunks) : c.hi < c.lo

\* The context inspected again around the cut between chunks a and b.
Bridge(a, b) == Span(Max({a.lo, a.hi - Context + 1}), Min({b.hi, b.lo + Context - 1}))

\* The chunks in order, then the bridges.
Inspected(chunks) ==
    chunks \o [k \in 1 .. Len(chunks) - 1 |-> Bridge(chunks[k], chunks[k + 1])]

\* _mask_table: a mask character of its own for every info type; 0 is none.
MaskOf == CHOOSE f \in [InfoTypes -> 1 .. MaskCharacters] : IsInjective(f)

\* What DLP, told every info type and its mask, masks in a piece.
Masked(piece, found, i) ==
    LET seen == {x \in found : Within(x.at, piece) /\ i \in x.at.lo .. x.at.hi}
    IN  IF seen = {} THEN 0 ELSE MaskOf[(CHOOSE x \in seen : TRUE).type]

\* _union_masks: the first piece that masks a position decides, none undoes it.
Merged(t, pieces, found) ==
    [i \in DOMAIN t |->
        LET masking == {k \in DOMAIN pieces : Masked(pieces[k], found, i) # 0}
        IN  IF masking = {} THEN 0 ELSE Masked(pieces[Min(masking)], found, i)]

\* _label: a run of one mask becomes the name of its info type.
Kept(i) == <<i, "">>
Label(type) == <<0, type>>
Labelled(merged) ==
    LET last == Len(merged)
        from[i \in 1 .. last + 1] ==
            IF i > last THEN <<>>
            ELSE IF merged[i] = 0 THEN <<Kept(i)>> \o from[i + 1]
            ELSE LET e == Max({j \in i .. last : \A k \in i .. j : merged[k] = merged[i]})
                 IN  <<Label(CHOOSE x \in InfoTypes : MaskOf[x] = merged[i])>> \o from[e + 1]
    IN  from[1]

\* _summarise, summed: what a chunk and a bridge both see counts twice.
Counted(pieces, found) ==
    Cardinality({v \in (DOMAIN pieces) \X found : Within(v[2].at, pieces[v[1]])})

(***************************************************************************)
(* The guardrail.                                                          *)
(***************************************************************************)
NextStart(s, best) == Max({s + 1, best - Overlap + 1})

Windows(t) ==
    LET from[s \in 1 .. Len(t)] ==
            LET best == Max({s, Reach(t, s, WindowBytes)})
            IN  <<Span(s, best)>> \o
                    (IF best >= Len(t) THEN <<>> ELSE from[NextStart(s, best)])
    IN  IF Bytes(t, 1, Len(t)) <= WindowBytes THEN <<Span(1, Len(t))>> ELSE from[1]

\* _parse_pi_jailbreak to _parse_rai: a category for every filter that
\* matched; a Responsible AI match of no known kind is still a finding.
RaiCategories(r) == r.kinds \cap RaiKinds
Findings(r) ==
    (r.filters \ {"rai"}) \cup
    (IF "rai" \notin r.filters THEN {}
     ELSE IF RaiCategories(r) = {} THEN {"other"} ELSE RaiCategories(r))

\* _extract_sanitized_text: nothing or an empty text stands for the original.
Rewritten(r) == r.deidentified = "changed"

\* _parse: complete, an explicit no-match, and no finding of any filter.
CleanAnswer(r) ==
    r.invocation = "SUCCESS" /\ r.match = "NO_MATCH_FOUND" /\ Findings(r) = {}

\* screen: every window clean, and no window of several rewritten.
Screened(answers) ==
    /\ \A k \in DOMAIN answers : CleanAnswer(answers[k])
    /\ Len(answers) > 1 => \A k \in DOMAIN answers : ~Rewritten(answers[k])
-----------------------------------------------------------------------------
(***************************************************************************)
(* Properties, of every text t.                                            *)
(***************************************************************************)
\* An identifier is one or more whole tokens, such as a spaced phone number.
Identifiers(t) ==
    {s \in [lo : DOMAIN t, hi : DOMAIN t] :
        /\ s.lo <= s.hi /\ Bytes(t, s.lo, s.hi) <= Context
        /\ ~t[s.lo].space /\ ~t[s.hi].space
        /\ s.lo > 1 => t[s.lo - 1].space
        /\ s.hi < Len(t) => t[s.hi + 1].space}

\* What may be found in a text: up to two identifiers apart from each other.
Finds(t) ==
    LET all == [at : Identifiers(t), type : InfoTypes]
    IN  {{}} \cup {{x} : x \in all}
        \cup {{v[1], v[2]} : v \in {w \in all \X all : w[1].at.hi < w[2].at.lo}}

\* The text with each of its identifiers replaced by the name of its type.
Replaced(t, found) ==
    LET from[i \in 1 .. Len(t) + 1] ==
            IF i > Len(t) THEN <<>>
            ELSE IF \E x \in found : x.at.lo = i
            THEN LET x == CHOOSE y \in found : y.at.lo = i
                 IN  <<Label(x.type)>> \o from[x.at.hi + 1]
            ELSE <<Kept(i)>> \o from[i + 1]
    IN  from[1]

\* No request exceeds the limit, and although cuts fall inside identifiers the
\* merged text is the whole text redacted at once: every identifier up to the
\* boundary context is one label of its own type, everything else is kept, and
\* none goes uncounted; redaction refuses only a token that does not fit with
\* the character that would end its chunk.  (DlpRedactionAdapter.redact, _safe_chunks, _union_masks, _label)
CutsAreHarmless(t, chunks, pieces) ==
    IF Refuses(chunks)
    THEN \E i, j \in DOMAIN t : /\ i <= j /\ Bytes(t, i, j) > ChunkBytes
                                /\ \A k \in i .. j - 1 : ~t[k].space
    ELSE /\ \A c \in Range(chunks) : Bytes(t, c.lo, c.hi) <= ChunkBytes
         /\ \A found \in Finds(t) :
               /\ Labelled(Merged(t, pieces, found)) = Replaced(t, found)
               /\ Counted(pieces, found) >= Cardinality(found)

IdentifiersNeverSurviveACut(t) == CutsAreHarmless(t, Chunks(t), Inspected(Chunks(t)))

\* How Model Armor may tell of something: as it should, by one filter alone,
\* by failing, or by saying nothing.
Clean == [invocation |-> "SUCCESS", match |-> "NO_MATCH_FOUND", filters |-> {}, kinds |-> {},
          deidentified |-> "absent"]
Signals ==
    {[Clean EXCEPT !.match = m] : m \in {"MATCH_FOUND", "missing"}}
    \cup {[Clean EXCEPT !.filters = {f}] : f \in {"injection", "sensitive", "uri", "rai"}}
    \cup {[Clean EXCEPT !.filters = {"rai"}, !.kinds = {k}] : k \in RaiKinds \cup {"new"}}
    \cup {[Clean EXCEPT !.invocation = i] : i \in {"PARTIAL", "FAILURE", "missing"}}

\* No phrase up to one character more than the overlap escapes the guardrail:
\* some window holds it whole, so a text that contains it is blocked however
\* the window edges fall and however the answer tells, while a text nothing is
\* said about passes; a rewritten window never stands for a longer text.
\* (ModelArmorGuardrailAdapter._bounded_windows, _parse, screen)
PhrasesNeverEscape(t) ==
    LET windows == Windows(t)
        phrases == {s \in [lo : DOMAIN t, hi : DOMAIN t] :
                        s.lo <= s.hi /\ s.hi - s.lo <= Overlap}
        Answers(s, signal) ==
            [k \in DOMAIN windows |-> IF Within(s, windows[k]) THEN signal ELSE Clean]
        rewrites == [Clean EXCEPT !.deidentified = "changed"]
    IN  /\ \A s \in phrases, signal \in Signals : ~Screened(Answers(s, signal))
        /\ Screened([k \in DOMAIN windows |-> Clean])
        /\ \A i \in DOMAIN t :
              Screened(Answers(Span(i, i), rewrites)) => windows = <<Span(1, Len(t))>>
=============================================================================
