------------------------------ MODULE PageWords ------------------------------
(***************************************************************************)
(* What the code computes from the words that Textract finds on a page:    *)
(* whether the page is blurry, the confidence and the box of a citation of *)
(* OCR mapping, and the fields of an identity document.                    *)
(*                                                                         *)
(* A page is a grid of Width x Height cells, a word lies in one of them and*)
(* a line in a rectangle, which on a skewed page holds words of other      *)
(* lines too.  A text is a sequence of tokens; Bare is a token without its *)
(* punctuation.  Letter case is left out, confidences are percentages.     *)
(***************************************************************************)
EXTENDS Integers, FiniteSets, Sequences, FiniteSetsExt, SequencesExt

CONSTANTS
    Width, Height,
    Bare(_),           \* the token without punctuation
    Contained,         \* the pairs of a token and one that contains it
    ShortTokens,       \* the tokens of at most two characters
    Floor,             \* a word of less confidence is a low one
    MaxLow,            \* percentage of low words that is tolerated
    MinAverage,        \* average confidence that is tolerated
    MinWords,          \* words that make a quadrant, or a page, worth a look
    DenseWords         \* words that make a page a dense one

\* With fewer than MinWords words in each quadrant a page is not dense; the
\* defaults are 5 and 20, or 15 with the empty quadrant the LLM is asked about.
ASSUME PageAssumption ==
    /\ MinWords \in Nat \ {0} /\ DenseWords \in Nat
    /\ DenseWords > 3 * (MinWords - 1)
    /\ Width \in Nat \ {0} /\ Height \in Nat \ {0}
    /\ MaxLow \in Nat /\ MinAverage \in Nat /\ Floor \in Nat

Word(text, x, y, conf) == [text |-> text, x |-> x, y |-> y, conf |-> conf]
Box(left, right, top, bottom) ==
    [left |-> left, right |-> right, top |-> top, bottom |-> bottom]
NoBox == Box(0, 0, 0, 0)
Within(w, b) == w.x \in b.left .. b.right /\ w.y \in b.top .. b.bottom

\* The sum of the words' confidences, as the number of their percents.
Sum(page, words) == Cardinality(UNION {{i} \X (1 .. page.words[i].conf) : i \in words})
Average(page, words) == Sum(page, words) \div Cardinality(words)

------------------------------------------------------------------------------
(* Blur *)

\* The quadrants, in the order in which they are evaluated.
Quadrants == << <<"top", "left">>, <<"top", "right">>,
                <<"bottom", "left">>, <<"bottom", "right">> >>
QuadrantOf(w) == << IF 2 * (w.y - 1) < Height THEN "top" ELSE "bottom",
                    IF 2 * (w.x - 1) < Width THEN "left" ELSE "right" >>
In(page, q) == {i \in DOMAIN page.words : QuadrantOf(page.words[i]) = Quadrants[q]}

\* _check_quadrant, and the fallback for the whole page.
Unreadable(page, words) ==
    LET n == Cardinality(words)
        low == {i \in words : page.words[i].conf < Floor} IN
    \/ Sum(page, words) < MinAverage * n
    \/ 100 * Cardinality(low) > MaxLow * n

Populated(page, q) == Cardinality(In(page, q)) >= MinWords
Fails(page, q) == Populated(page, q) /\ Unreadable(page, In(page, q))

\* _evaluate_quadrants goes on to the first quadrant that fails.
Evaluated(page) ==
    {q \in DOMAIN Quadrants : \A p \in 1 .. (q - 1) : ~Fails(page, p)}
Failed(page) == {q \in Evaluated(page) : Fails(page, q)}

\* The empty quadrants of a dense page, which the LLM is asked about; an
\* answer that is neither YES nor NO, or an error, counts as NO.
AskedAlways(page) == {q \in DOMAIN Quadrants : In(page, q) = {}}
Asked(page) ==
    IF Failed(page) = {} /\ Cardinality(DOMAIN page.words) >= DenseWords
    THEN {q \in DOMAIN Quadrants : In(page, q) = {}}
    ELSE {}

\* A quadrant the LLM was asked about no longer counts as skipped.
Skipped(page) ==
    {q \in Evaluated(page) : ~Populated(page, q)} \ Asked(page)

\* detect_blur, where the LLM says YES to the quadrants in yes.
BlurVerdict(page, yes) ==
    LET words == DOMAIN page.words
        blurry == \/ Failed(page) \cup (yes \cap Asked(page)) # {}
                  \/ /\ Evaluated(page) = Skipped(page)
                     /\ Unreadable(page, words) IN
    IF Cardinality(words) < MinWords THEN "not_document"
    ELSE IF blurry THEN "blurry" ELSE "sharp"

------------------------------------------------------------------------------
(* OCR mapping *)

TokensOf(text) == {text[i] : i \in DOMAIN text}
Cited(page, citation, l) ==
    Cardinality(citation \cap TokensOf(page.lines[l].text))

\* The line with most tokens of the citation, the first of them on a tie.
FirstLine(page, citation) ==
    {l \in DOMAIN page.lines :
        /\ Cited(page, citation, l) > 0
        /\ \A k \in 1 .. (l - 1) : Cited(page, citation, k) = 0}
BestLine(page, citation) ==
    {l \in DOMAIN page.lines :
        /\ Cited(page, citation, l) > 0
        /\ \A k \in DOMAIN page.lines :
             /\ Cited(page, citation, k) <= Cited(page, citation, l)
             /\ k < l => Cited(page, citation, k) < Cited(page, citation, l)}

\* The words whose centre lies in the box of the line.
WordsIn(page, l) ==
    {i \in DOMAIN page.words : Within(page.words[i], page.lines[l].box)}

\* _citation_bbox_from_words: the cited words in the line's box, or the box.
\* The punctuation of the word is stripped, that of the citation is not.
CitationBox(page, citation, box) ==
    LET cited == {page.words[i] : i \in
                    {i \in DOMAIN page.words :
                        /\ Within(page.words[i], box)
                        /\ Bare(page.words[i].text) \in citation}} IN
    IF cited = {} THEN box
    ELSE Box(Min({w.x : w \in cited}), Max({w.x : w \in cited}),
             Min({w.y : w \in cited}), Max({w.y : w \in cited}))

\* compute_confidence: the words in the box of the best line vouch for the
\* citation when the line has 60 % of it; a line with less still has the box.
Reading(page, citation) ==
    IF BestLine(page, citation) = {}
    THEN [citation |-> citation, conf |-> 0, box |-> NoBox]
    ELSE LET l == CHOOSE l \in BestLine(page, citation) : TRUE
             n == Cardinality(citation)
             words == WordsIn(page, l) IN
         [citation |-> citation,
          conf |-> IF 10 * Cited(page, citation, l) < 6 * n THEN 0
                   ELSE IF words # {} THEN Average(page, words)
                   ELSE (100 * Cited(page, citation, l)) \div n,
          box |-> CitationBox(page, citation, page.lines[l].box)]

\* layout_ocr_blocks_to_text: the lines of the layout blocks when there are
\* such blocks, even if they have no lines, and all lines otherwise.
LinesRead(page) == IF page.layout.there THEN page.layout.lines
                   ELSE DOMAIN page.lines

------------------------------------------------------------------------------
(* Identity documents *)

First(S) == CHOOSE i \in S : \A j \in S : i <= j

\* _find_geometry_with_fallback: a line with this text, a word with it, or
\* the shortest word that equals it without punctuation, the first of each.
CellOf(w) == Box(w.x, w.x, w.y, w.y)
Locate(page, text) ==
    LET lines == {l \in DOMAIN page.lines : page.lines[l].text = text}
        words == {i \in DOMAIN page.words : <<page.words[i].text>> = text}
        similar == {i \in DOMAIN page.words :
                       Len(text) = 1 /\ Bare(page.words[i].text) = Bare(text[1])}
        bare == {i \in similar :
                    Bare(page.words[i].text) = page.words[i].text} IN
    CASE lines # {} -> page.lines[First(lines)].box
      [] lines = {} /\ words # {} -> CellOf(page.words[First(words)])
      [] lines = {} /\ words = {} /\ similar # {} ->
           CellOf(page.words[First(IF bare # {} THEN bare ELSE similar)])
      [] OTHER -> NoBox

\* extract_fields_from_analyze_id up to a document: the last field with a
\* name wins, and a date has its normalised value.
FieldsUpTo(page, docs, k) ==
    LET fields == FlattenSeq(SubSeq(docs, 1, k))
        last(n) == CHOOSE i \in DOMAIN fields :
                      /\ fields[i].name = n
                      /\ \A j \in DOMAIN fields : j > i => fields[j].name # n
        found(f) == [text |-> f.text, date |-> f.date,
                     value |-> IF f.date THEN <<Bare(f.text[1])>> ELSE f.text,
                     box |-> Locate(page, f.text)] IN
    [n \in {fields[i].name : i \in DOMAIN fields} |-> found(fields[last(n)])]

\* Two date fields with one value: AnalyzeID has mixed them up.
Ambiguous(fields) ==
    \E n, m \in DOMAIN fields :
        /\ n # m /\ fields[n].date /\ fields[m].date
        /\ fields[n].value = fields[m].value
AnalyzeId(page, docs) ==
    IF \E k \in 1 .. Len(docs) : Ambiguous(FieldsUpTo(page, docs, k))
    THEN << >>
    ELSE FieldsUpTo(page, docs, Len(docs))

\* _block_text_matches: a value of one or two characters is the whole text of
\* the word; of a longer one, which may have several tokens, the word contains
\* the value or is contained in it.
BlockTextMatches(word, value) ==
    IF Len(value) = 1 /\ value[1] \in ShortTokens THEN word = value[1]
    ELSE \/ \E k \in DOMAIN value : word = value[k] \/ <<word, value[k]>> \in Contained
         \/ Len(value) = 1 /\ <<value[1], word>> \in Contained

\* _find_matching_block takes the rightmost, and the first of those.
Matching(page, value) ==
    {i \in DOMAIN page.words : BlockTextMatches(page.words[i].text, value)}
Rightmost(page, words) ==
    {i \in words : \A j \in words : page.words[j].x <= page.words[i].x}

\* _match_nova_results_to_blocks: the word Nova points at, unless it does not
\* match the value and another does.
Supplement(page, item) ==
    LET has == Matching(page, item.text)
        word == IF item.index \in has \/ has = {} THEN item.index
                ELSE First(Rightmost(page, has)) IN
    [text |-> item.text, date |-> FALSE, value |-> item.text,
     box |-> CellOf(page.words[word])]

\* The fields AnalyzeID found, with those Nova added; an index beyond the
\* words is ignored.
Valid(page, items) == {i \in items : i.index \in DOMAIN page.words}
Identity(page, docs, items) ==
    LET fields == AnalyzeId(page, docs)
        valid == Valid(page, items) IN
    IF fields = << >> THEN << >>
    ELSE [n \in DOMAIN fields \cup {i.name : i \in valid} |->
            IF \E i \in valid : i.name = n
            THEN Supplement(page, CHOOSE i \in valid : i.name = n)
            ELSE fields[n]]
==============================================================================
