------------------------ MODULE MCExtractionCompare ------------------------
(***************************************************************************)
(* Three kinds of documents.  Screened pages hold up to three words in each*)
(* quadrant, so that a quadrant and a whole page may fail by either limit. *)
(* Read pages have two lines of two words, on a straight or a skewed scan, *)
(* cited and analysed in every way; Nova adds a field of one token or two, *)
(* and points at a word that matches, at one that does not, or at none.    *)
(* Compared documents take every path, with two failures.                  *)
(***************************************************************************)
EXTENDS ExtractionCompare

\* "FIRST", "FIRST," and "F", and a word that has nothing of them.
CONSTANTS a, ac, b, other

const_Bare(t) == IF t = ac THEN a ELSE t
const_Contained == {<<b, a>>, <<b, ac>>, <<a, ac>>}

Document == [compare |-> TRUE, flag |-> FALSE, type |-> FALSE,
             screening |-> "off", docs |-> << >>, items |-> {},
             citations |-> {{a}}, faults |-> 0]

------------------------------------------------------------------------------
Contents == {<< >>, <<100>>, <<60>>, <<100, 100>>, <<60, 100>>,
             <<60, 100, 100>>, <<80, 80, 80>>, <<100, 100, 100>>}

\* The words of a quadrant, all in its first cell.
InQuadrant(confs, x, y) == [i \in DOMAIN confs |-> Word(b, x, y, confs[i])]
ScreenedPages ==
    {[words |-> InQuadrant(q1, 1, 1) \o InQuadrant(q2, 3, 1)
                    \o InQuadrant(q3, 1, 3) \o InQuadrant(q4, 3, 3),
      lines |-> << >>, layout |-> [there |-> FALSE, lines |-> {}]] :
        q1, q2, q3, q4 \in Contents}
Screened ==
    {[page |-> p, screening |-> "enforced"] @@ Document : p \in ScreenedPages}

------------------------------------------------------------------------------
\* On a skewed scan the first line's box reaches down to the second's words.
ReadPage(t, skewed) ==
    [words |-> << Word(t[1], 1, 1, 60), Word(t[2], 3, 1, 90),
                  Word(t[3], 1, 3, 100), Word(t[4], 3, 3, 80) >>,
     lines |-> << [text |-> <<t[1], t[2]>>,
                   box |-> Box(1, 3, 1, IF skewed THEN 3 ELSE 1)],
                  [text |-> <<t[3], t[4]>>, box |-> Box(1, 3, 3, 3)] >>,
     layout |-> [there |-> FALSE, lines |-> {}]]
ReadPages == {ReadPage(t, skewed) : t \in [1 .. 4 -> {a, ac, b}], skewed \in BOOLEAN}

Field(n, t) == [name |-> n, text |-> <<t>>, date |-> n # "name"]
Cards ==
    {<< <<Field("born", t[1]), Field("expires", t[2])>> >> : t \in [1 .. 2 -> {a, ac, b}]}
    \cup {<< <<Field("born", t[1]), Field("name", t[2])>>, <<Field("expires", t[3])>> >> :
             t \in [1 .. 3 -> {a, ac, b}]}
Card == << <<Field("born", a), Field("expires", b)>> >>
Added == {{[name |-> "eyes", text |-> t, index |-> i]} :
             t \in {<<a>>, <<b>>, <<b, ac>>}, i \in {2, 5}}

Mapped ==
    {[page |-> p, type |-> TRUE, citations |-> SUBSET {a, ac, b}] @@ Document :
        p \in ReadPages}
Analysed ==
    {[page |-> ReadPage(<<a, b, ac, t>>, skewed), docs |-> d] @@ Document :
        t \in {a, b}, skewed \in BOOLEAN, d \in Cards}
    \cup {[page |-> ReadPage(t, FALSE), docs |-> Card, items |-> i] @@ Document :
             t \in [1 .. 4 -> {ac, b, other}], i \in Added}

------------------------------------------------------------------------------
Plain == ReadPage(<<a, b, b, a>>, FALSE)
Blank == [Plain EXCEPT !.layout = [there |-> TRUE, lines |-> {}]]

Compared ==
    {[page |-> p, compare |-> c, flag |-> f, type |-> t, docs |-> d,
      screening |-> "on", faults |-> 2] @@ Document :
        p \in {Plain, Blank}, c, f, t \in BOOLEAN, d \in {<< >>, Card}}

const_Cases == Screened \cup Mapped \cup Analysed \cup Compared
============================================================================
