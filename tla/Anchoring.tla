------------------------------ MODULE Anchoring ------------------------------
(***************************************************************************)
(* From lines of text to anchored blocks (domain/layout.py), twice: before *)
(* redaction and, from the text that was put together again for it, when   *)
(* the redacted text is indexed (local/ingestion.py).  And from the claims *)
(* of an answer to the block each citation points at (domain/anchors.py).  *)
(*                                                                         *)
(* A line is "blank", "break" (a form feed of its own) or a kind of text;  *)
(* a claim or a block's text is the set of its content words.              *)
(***************************************************************************)
EXTENDS Integers, Sequences, FiniteSetsExt, SequencesExt

CONSTANT GridRows   \* _GRID_ROWS: 60 lines to a page
ASSUME AnchoringAssumption == GridRows \in Nat \ {0}

NoPage == 0
NoAnchor == <<>>

(***************************************************************************)
(* Slips: one mistake each.                                                *)
(***************************************************************************)
EmptyPagesDropped(text, lines, i) ==
    LET fresh == text = <<>> \/ Last(text) = "break"
        parted == lines[i] # "break" /\ lines[i - 1] \in {"blank", "break"}
    IN  IF lines[i] = "blank" \/ (fresh /\ lines[i] = "break") THEN text
        ELSE IF ~fresh /\ parted THEN text \o <<"blank", lines[i]>> ELSE Append(text, lines[i])
FirstStored(a, b) == a.score > b.score
-----------------------------------------------------------------------------
(***************************************************************************)
(* Layout.                                                                 *)
(***************************************************************************)
IsText(line) == line \notin {"blank", "break"}

\* A block is parted from others by blank lines, and by the page's ends.
BlockStarts(lines, i) == i = 1 \/ ~IsText(lines[i - 1])
BlockEnds(lines, i) == i = Len(lines) \/ ~IsText(lines[i + 1])

\* classify_block; the order of the checks is the rule.  Two rows of a table
\* are both parted by pipes or both by gaps; a "grid" row is parted by either.
Classify(rows) ==
    IF \E kind \in {"pipe", "gapped"} :
           Cardinality({i \in DOMAIN rows : rows[i] \in {kind, "grid"}}) >= 2 THEN "table"
    ELSE IF \A i \in DOMAIN rows : rows[i] = "item" THEN "list"
    ELSE IF Len(rows) = 1 /\ rows[1] = "title" THEN "heading" ELSE "paragraph"

\* _blocks_for_page over every page, as runs of lines.
Runs(lines) ==
    {r \in [lo : DOMAIN lines, hi : DOMAIN lines] :
        /\ r.lo <= r.hi /\ \A i \in r.lo .. r.hi : IsText(lines[i])
        /\ BlockStarts(lines, r.lo) /\ BlockEnds(lines, r.hi)}

PageOf(lines, i) == 1 + Cardinality({k \in 1 .. i - 1 : lines[k] = "break"})

\* LayoutBlock.anchor: the page and the block's place on it.
AnchorOf(lines, run) ==
    <<PageOf(lines, run.lo),
      Cardinality({r \in Runs(lines) : r.lo < run.lo
                                       /\ PageOf(lines, r.lo) = PageOf(lines, run.lo)})>>

\* _grid_bbox: the part of the page, in lines, that a block covers.
LineOfPage(lines, i) == i - Max({0} \cup {k \in 1 .. i : lines[k] = "break"}) - 1
Box(lines, run) ==
    [top |-> Min({LineOfPage(lines, run.lo), GridRows}),
     bottom |-> Min({LineOfPage(lines, run.hi) + 1, GridRows})]

\* analyze_text_pages, blocks_to_chunks: the chunks in reading order.
ChunksOf(doc, lines) ==
    {[doc |-> doc, run |-> r, anchor |-> AnchorOf(lines, r), page |-> PageOf(lines, r.lo),
      ordinal |-> Cardinality({x \in Runs(lines) : x.lo < r.lo}), box |-> Box(lines, r),
      kind |-> Classify(SubSeq(lines, r.lo, r.hi))] : r \in Runs(lines)}

\* ParsedPage.text, page_texts: the lines of a page's blocks, and a blank line
\* before each block but the page's first.
Joined(text, lines, i) ==
    LET fresh == text = <<>> \/ Last(text) = "break"
        parted == IsText(lines[i]) /\ BlockStarts(lines, i)
    IN  IF lines[i] = "blank" THEN text
        ELSE IF ~fresh /\ parted THEN text \o <<"blank", lines[i]>> ELSE Append(text, lines[i])

\* prepare_for_redaction: the pages, a form feed between them; what is redacted,
\* and then parsed again by ingest.
Prepared(lines) ==
    LET read[i \in 0 .. Len(lines)] ==
            IF i = 0 THEN <<>> ELSE Joined(read[i - 1], lines, i)
    IN  read[Len(lines)]

\* The redactor puts a label inside a line of text.
Redacted(lines, i) == [lines EXCEPT ![i] = "text"]

(***************************************************************************)
(* Anchors.                                                                *)
(***************************************************************************)
\* Share of the claim's words the block has, in ten thousandths, rounded.
Score(claim, chunk) ==
    (20000 * Cardinality(claim \cap chunk.words) + Cardinality(claim))
        \div (2 * Cardinality(claim))

\* resolve_anchor: more of the claim, then the shorter block, the earlier
\* page and the earlier block.
Order(c) == <<Cardinality(c.words), c.page, c.ordinal>>      \* NoPage counts as 0
Before(a, b) ==
    \/ a[1] < b[1]
    \/ a[1] = b[1] /\ a[2] < b[2]
    \/ a[1] = b[1] /\ a[2] = b[2] /\ a[3] < b[3]
Better(a, b, claim) ==
    LET shared(c) == Cardinality(claim \cap c.words)
    IN  \/ shared(a) > shared(b)
        \/ shared(a) = shared(b) /\ Before(Order(a), Order(b))

Resolved(claim, chunks, floor) ==
    {c \in chunks :
        /\ claim \cap c.words # {}
        /\ \A x \in chunks : x # c => ~Better(x, c, claim)
        /\ Score(claim, c) >= floor}

Own(citation, chunks) == {c \in chunks : c.doc = citation.doc /\ c.anchor # NoAnchor}

\* anchor_citations: over the claims, the better match wins, the first on a tie.
Stronger(a, b) ==
    \/ a.score > b.score
    \/ a.score = b.score /\ a.chunk.ordinal < b.chunk.ordinal

BestMatch(claims, citation, chunks, floor) ==
    FoldLeft(LAMBDA best, claim :
                LET found == Resolved(claim, Own(citation, chunks), floor)
                IN  IF claim = {} \/ found = {} THEN best
                    ELSE LET m == [chunk |-> CHOOSE c \in found : TRUE,
                                   score |-> Score(claim, CHOOSE c \in found : TRUE)]
                         IN  IF best = {} THEN {m}
                             ELSE {IF \A b \in best : Stronger(m, b) THEN m
                                   ELSE CHOOSE b \in best : TRUE},
             {}, claims)

Anchored(claims, citation, chunks, floor) ==
    LET best == BestMatch(claims, citation, chunks, floor)
    IN  IF best = {} THEN citation
        ELSE LET c == (CHOOSE b \in best : TRUE).chunk
             IN  [citation EXCEPT !.page = IF c.page = NoPage THEN @ ELSE c.page,
                                  !.anchor = c.anchor]
-----------------------------------------------------------------------------
(***************************************************************************)
(* Properties.                                                             *)
(***************************************************************************)
\* Every line of text is in exactly one chunk, no two chunks of a document
\* share an anchor or a line of the page, and ordinals number the chunks in
\* reading order without a gap: an anchor a reviewer opens names one block.
\* And it is the block of the original: the parse of the prepared text, and of
\* that text redacted within its lines, has the same anchors in the same order,
\* and unredacted the same kinds.  (analyze_text_pages, blocks_to_chunks,
\* prepare_for_redaction, LocalIngestionAdapter.ingest)
AnchorsNameOneBlock(doc, lines) ==
    LET cs == ChunksOf(doc, lines)
        again == Prepared(lines)
        Places(chunks) == {<<c.ordinal, c.anchor>> : c \in chunks}
    IN  /\ \A i \in DOMAIN lines :
              IsText(lines[i]) => Cardinality({c \in cs : i \in c.run.lo .. c.run.hi}) = 1
        /\ \A a, b \in cs : a.anchor = b.anchor => a = b
        /\ {c.ordinal : c \in cs} = 0 .. Cardinality(cs) - 1
        /\ \A a, b \in cs :
              a.ordinal < b.ordinal =>
                  \/ a.page < b.page
                  \/ a.page = b.page /\ a.anchor[2] < b.anchor[2] /\ a.box.bottom <= b.box.top
        /\ {<<c.ordinal, c.anchor, c.kind>> : c \in cs}
               = {<<c.ordinal, c.anchor, c.kind>> : c \in ChunksOf(doc, again)}
        /\ \A i \in DOMAIN again :
              IsText(again[i]) => Places(ChunksOf(doc, Redacted(again, i))) = Places(cs)

\* An anchor is that of a stored block of the cited document which holds as
\* much of some claim as any of its blocks holds of any claim, and a citation
\* is left alone just when none of them clears the floor; the order of the
\* claims does not matter.  (anchor_citations, resolve_anchor)
AnchorsAreTheBestEvidence(claims, citation, chunks, floor) ==
    LET refined == Anchored(claims, citation, chunks, floor)
        pairs == {p \in {x \in ToSet(claims) : x # {}} \X Own(citation, chunks) :
                    p[1] \cap p[2].words # {} /\ Score(p[1], p[2]) >= floor}
    IN  IF pairs = {} THEN refined = citation
        ELSE /\ \E p \in pairs :
                   /\ refined.anchor = p[2].anchor
                   /\ p[2].page # NoPage => refined.page = p[2].page
                   /\ \A q \in pairs : Score(q[1], q[2]) <= Score(p[1], p[2])
             /\ Anchored(Reverse(claims), citation, chunks, floor).anchor = refined.anchor
=============================================================================
