-------------------------- MODULE Extraction_proofs --------------------------
(***************************************************************************)
(* Proofs about the two components that judge what was extracted, for any  *)
(* documents and any settings: ExtractionCompare, for any pages,           *)
(* thresholds and failures, and DocumentEvaluation, for any fields, rules, *)
(* edits and failed reads.                                                 *)
(*                                                                         *)
(* ExtractionCompare: blur detection says what its description says of a   *)
(* page, and OCR mapping never settles a document that the primary engine  *)
(* works on.  The code of blur detection stops at the first quadrant that  *)
(* fails, and leaves out of the skipped quadrants those the LLM was asked  *)
(* about.  That neither changes its verdict rests on an argument about     *)
(* numbers: a page with an empty quadrant and no populated one is not      *)
(* dense.  That what the engines answer is where the page says it rests on *)
(* the choices the code makes having an answer: a line with most tokens, a *)
(* first or a rightmost word, the ends of a box.                           *)
(*                                                                         *)
(* DocumentEvaluation: the code of the answer, the code of the event, the  *)
(* checks of /evaluation and the recomputed answer are made from one       *)
(* record at different times.  The invariant says what a record of each    *)
(* stage keeps (StageOK), and that the stored answer is that of the record *)
(* for the missing fields it tells (AnswerOK); these are the fields of the *)
(* rule, unless an excuse says why not.                                    *)
(***************************************************************************)
EXTENDS ExtractionCompare, DocumentEvaluation, FiniteSetTheorems, TLAPS

-----------------------------------------------------------------------------
(* Pages *)

\* What the proofs about blur assume of a page: it has finitely many words.
Page(page) == IsFiniteSet(DOMAIN page.words)

\* There are four quadrants.
LEMMA FourQuadrants == DOMAIN Quadrants = 1 .. 4
BY DEF Quadrants

\* Every word is in one of them (_partition_words_into_quadrants).
LEMMA QuadrantsCover ==
    ASSUME NEW page
    PROVE  DOMAIN page.words =
               In(page, 1) \cup In(page, 2) \cup In(page, 3) \cup In(page, 4)
<1>1. ASSUME NEW i \in DOMAIN page.words
      PROVE  i \in In(page, 1) \cup In(page, 2) \cup In(page, 3) \cup In(page, 4)
  <2>1. \E q \in 1 .. 4 : QuadrantOf(page.words[i]) = Quadrants[q]
    BY DEF QuadrantOf, Quadrants
  <2> QED BY <2>1 DEF In
<1>2. \A q : In(page, q) \subseteq DOMAIN page.words
  BY DEF In
<1> QED BY <1>1, <1>2

\* Two finite sets are no more than their elements.
LEMMA UnionBound ==
    ASSUME NEW S, NEW T, IsFiniteSet(S), IsFiniteSet(T)
    PROVE  /\ IsFiniteSet(S \cup T)
           /\ Cardinality(S \cup T) <= Cardinality(S) + Cardinality(T)
<1>1. S \cap T \in SUBSET S
  OBVIOUS
<1>2. IsFiniteSet(S \cap T)
  BY <1>1, FS_Subset
<1>3. Cardinality(S) \in Nat /\ Cardinality(T) \in Nat /\ Cardinality(S \cap T) \in Nat
  BY <1>2, FS_CardinalityType
<1>4. /\ IsFiniteSet(S \cup T)
      /\ Cardinality(S \cup T) = Cardinality(S) + Cardinality(T) - Cardinality(S \cap T)
  BY FS_Union
<1> QED BY <1>3, <1>4

\* A quadrant has finitely many words.
LEMMA QuadrantsFinite ==
    ASSUME NEW page, Page(page), NEW q
    PROVE  /\ IsFiniteSet(In(page, q))
           /\ Cardinality(In(page, q)) \in Nat
<1>1. In(page, q) \in SUBSET DOMAIN page.words
  BY DEF In
<1>2. IsFiniteSet(In(page, q))
  BY <1>1, FS_Subset DEF Page
<1> QED BY <1>2, FS_CardinalityType

\* A page has no more words than its quadrants together.
LEMMA PageBound ==
    ASSUME NEW page, Page(page)
    PROVE  /\ Cardinality(DOMAIN page.words) \in Nat
           /\ Cardinality(DOMAIN page.words) <=
                  Cardinality(In(page, 1)) + Cardinality(In(page, 2))
                    + Cardinality(In(page, 3)) + Cardinality(In(page, 4))
<1> DEFINE A == In(page, 1)
           B == In(page, 2)
           C == In(page, 3)
           D == In(page, 4)
<1>1. /\ IsFiniteSet(A) /\ IsFiniteSet(B) /\ IsFiniteSet(C) /\ IsFiniteSet(D)
      /\ Cardinality(A) \in Nat /\ Cardinality(B) \in Nat
      /\ Cardinality(C) \in Nat /\ Cardinality(D) \in Nat
  BY QuadrantsFinite
<1>2. DOMAIN page.words = ((A \cup B) \cup C) \cup D
  BY QuadrantsCover
<1> HIDE DEF A, B, C, D
<1>3. /\ IsFiniteSet(A \cup B)
      /\ Cardinality(A \cup B) <= Cardinality(A) + Cardinality(B)
  BY <1>1, UnionBound
<1>4. /\ IsFiniteSet((A \cup B) \cup C)
      /\ Cardinality((A \cup B) \cup C) <= Cardinality(A \cup B) + Cardinality(C)
  BY <1>1, <1>3, UnionBound
<1>5. /\ IsFiniteSet(((A \cup B) \cup C) \cup D)
      /\ Cardinality(((A \cup B) \cup C) \cup D)
             <= Cardinality((A \cup B) \cup C) + Cardinality(D)
  BY <1>1, <1>4, UnionBound
<1>6. /\ Cardinality(A \cup B) \in Nat
      /\ Cardinality((A \cup B) \cup C) \in Nat
      /\ Cardinality(((A \cup B) \cup C) \cup D) \in Nat
  BY <1>3, <1>4, <1>5, FS_CardinalityType
<1>7. Cardinality(((A \cup B) \cup C) \cup D)
          <= Cardinality(A) + Cardinality(B) + Cardinality(C) + Cardinality(D)
  BY <1>1, <1>3, <1>4, <1>5, <1>6
<1> QED BY <1>2, <1>6, <1>7 DEF A, B, C, D

\* A page with an empty quadrant and no populated one is not dense, so that
\* the LLM is never asked about a page that has the whole-page fallback.
LEMMA SparseIsNotDense ==
    ASSUME NEW page, Page(page), NEW e \in 1 .. 4, In(page, e) = {},
           \A q \in 1 .. 4 : ~Populated(page, q)
    PROVE  Cardinality(DOMAIN page.words) < DenseWords
<1>1. \A q \in 1 .. 4 : /\ Cardinality(In(page, q)) \in Nat
                        /\ Cardinality(In(page, q)) <= MinWords - 1
  BY QuadrantsFinite, PageAssumption DEF Populated
<1>2. Cardinality(In(page, e)) = 0
  BY FS_EmptySet
<1> DEFINE N == [q \in 1 .. 4 |-> Cardinality(In(page, q))]
<1>3. /\ N[1] \in Nat /\ N[2] \in Nat /\ N[3] \in Nat /\ N[4] \in Nat
      /\ N[1] <= MinWords - 1 /\ N[2] <= MinWords - 1
      /\ N[3] <= MinWords - 1 /\ N[4] <= MinWords - 1
  BY <1>1
<1>4. N[1] = 0 \/ N[2] = 0 \/ N[3] = 0 \/ N[4] = 0
  BY <1>2
<1>5. /\ Cardinality(DOMAIN page.words) \in Nat
      /\ Cardinality(DOMAIN page.words) <= N[1] + N[2] + N[3] + N[4]
  BY PageBound
<1> HIDE DEF N
<1>6. N[1] + N[2] + N[3] + N[4] <= 3 * (MinWords - 1)
  BY <1>3, <1>4, PageAssumption
<1> QED BY <1>3, <1>5, <1>6, PageAssumption

-----------------------------------------------------------------------------
(* The verdict *)

\* The first quadrant that fails is evaluated (_evaluate_quadrants).
LEMMA FailedIfFails ==
    ASSUME NEW page
    PROVE  Failed(page) # {} <=> \E q \in DOMAIN Quadrants : Fails(page, q)
<1>1. ASSUME NEW q \in DOMAIN Quadrants, Fails(page, q)
      PROVE  Failed(page) # {}
  <2>1. PICK r \in 1 .. 4 :
          Fails(page, r) /\ \A p \in 1 .. (r - 1) : ~Fails(page, p)
    <3>1. CASE Fails(page, 1)
      BY <3>1
    <3>2. CASE ~Fails(page, 1) /\ Fails(page, 2)
      BY <3>2
    <3>3. CASE ~Fails(page, 1) /\ ~Fails(page, 2) /\ Fails(page, 3)
      BY <3>3
    <3>4. CASE ~Fails(page, 1) /\ ~Fails(page, 2) /\ ~Fails(page, 3) /\ Fails(page, 4)
      BY <3>4
    <3> QED BY <1>1, <3>1, <3>2, <3>3, <3>4, FourQuadrants
  <2>2. r \in Failed(page)
    BY <2>1, FourQuadrants DEF Failed, Evaluated
  <2> QED BY <2>2
<1>2. ASSUME Failed(page) # {}
      PROVE  \E q \in DOMAIN Quadrants : Fails(page, q)
  BY <1>2 DEF Failed, Evaluated
<1> QED BY <1>1, <1>2

\* What the description says makes a page blurry.
Described(page, yes) ==
    \/ \E q \in DOMAIN Quadrants : Fails(page, q)
    \/ /\ Cardinality(DOMAIN page.words) >= DenseWords
       /\ \E q \in yes : In(page, q) = {}
    \/ /\ \A q \in DOMAIN Quadrants : ~Populated(page, q)
       /\ Unreadable(page, DOMAIN page.words)

\* And detect_blur agrees, whatever the page and the LLM's answers.
LEMMA VerdictIsDescribed ==
    ASSUME NEW page, Page(page), NEW yes \in SUBSET Asked(page),
           BlurVerdict(page, yes) # "not_document"
    PROVE  BlurVerdict(page, yes) = "blurry" <=> Described(page, yes)
<1> DEFINE Blurry == \/ Failed(page) \cup (yes \cap Asked(page)) # {}
                     \/ /\ Evaluated(page) = Skipped(page)
                        /\ Unreadable(page, DOMAIN page.words)
<1>1. BlurVerdict(page, yes) = "blurry" <=> Blurry
  BY DEF BlurVerdict
<1>2. CASE Failed(page) # {}
  BY <1>1, <1>2, FailedIfFails DEF Described
<1>3. CASE Failed(page) = {}
  <2>1. \A q \in DOMAIN Quadrants : ~Fails(page, q)
    BY <1>3, FailedIfFails
  <2>2. Evaluated(page) = DOMAIN Quadrants
    BY <2>1, FourQuadrants DEF Evaluated
  <2>3. Asked(page) =
          IF Cardinality(DOMAIN page.words) >= DenseWords
          THEN {q \in DOMAIN Quadrants : In(page, q) = {}} ELSE {}
    BY <1>3 DEF Asked
  <2>4. yes # {} <=> /\ Cardinality(DOMAIN page.words) >= DenseWords
                     /\ \E q \in yes : In(page, q) = {}
    BY <2>3
  <2>5. Evaluated(page) = Skipped(page)
          <=> \A q \in DOMAIN Quadrants : ~Populated(page, q)
    <3>1. ASSUME \A q \in DOMAIN Quadrants : ~Populated(page, q)
          PROVE  Asked(page) = {}
      <4>1. SUFFICES ASSUME NEW e \in Asked(page)
                     PROVE  FALSE
        OBVIOUS
      <4>2. /\ e \in 1 .. 4 /\ In(page, e) = {}
            /\ Cardinality(DOMAIN page.words) >= DenseWords
        BY <2>3, <4>1, FourQuadrants
      <4>3. Cardinality(DOMAIN page.words) < DenseWords
        BY <3>1, <4>2, SparseIsNotDense, FourQuadrants
      <4>4. Cardinality(DOMAIN page.words) \in Nat
        BY PageBound
      <4> QED BY <4>2, <4>3, <4>4, PageAssumption
    <3>2. Skipped(page) = {q \in DOMAIN Quadrants : ~Populated(page, q)} \ Asked(page)
      BY <2>2 DEF Skipped
    <3> QED BY <2>2, <3>1, <3>2
  <2> QED BY <1>1, <1>3, <2>1, <2>4, <2>5 DEF Described
<1> QED BY <1>2, <1>3

-----------------------------------------------------------------------------
(* Blur detection in the processor *)

BlurInv == case \in Cases /\ BlurAsDescribed

\* At first blur detection has said nothing.
LEMMA BlurInit == Init => BlurInv
BY DEF Init, BlurInv, BlurAsDescribed

\* The gate asks blur detection once, about the page of the document.
LEMMA BlurScreen ==
    ASSUME BlurInv, Screen
    PROVE  BlurInv'
<1>1. case' = case /\ case \in Cases
  BY DEF BlurInv, Screen
<1>2. Page(case.page)
  BY <1>1, CasesAssumption DEF Page, IsPage
<1>3. \/ \E yes \in SUBSET Asked(case.page) :
           blur' = [verdict |-> BlurVerdict(case.page, yes), yes |-> yes]
      \/ blur' = blur
      \/ blur' = [verdict |-> "failed", yes |-> {}]
  BY DEF Screen
<1>4. CASE blur' = blur
  BY <1>1, <1>4 DEF BlurInv, BlurAsDescribed
<1>5. CASE blur' = [verdict |-> "failed", yes |-> {}]
  BY <1>1, <1>5 DEF BlurInv, BlurAsDescribed
<1>6. ASSUME NEW yes \in SUBSET Asked(case.page),
             blur' = [verdict |-> BlurVerdict(case.page, yes), yes |-> yes]
      PROVE  BlurInv'
  <2>1. blur'.verdict = BlurVerdict(case.page, yes) /\ blur'.yes = yes
    BY <1>6
  <2>2. ASSUME blur'.verdict \in {"blurry", "sharp"}
        PROVE  blur'.verdict = "blurry" <=> Described(case.page, yes)
    BY <1>2, <2>1, <2>2, VerdictIsDescribed
  <2> QED BY <1>1, <2>1, <2>2 DEF BlurInv, BlurAsDescribed, Described
<1> QED BY <1>3, <1>4, <1>5, <1>6

\* Only the gate looks at the page for blur.
LEMMA BlurNext ==
    ASSUME BlurInv, [Next]_vars
    PROVE  BlurInv'
<1>1. CASE Screen
  BY <1>1, BlurScreen
<1>2. CASE ~Screen
  <2>1. UNCHANGED <<case, blur>>
    BY <1>2 DEF Next, vars, Processor, ResultProcessor, Mapper, Refuse, Dispatch,
                Textract, Persist, Respond, Invoke, EndJob, BdaResult, BdaRespond,
                Receive, Map, MapRespond, DeadLetter
  <2> QED BY <2>1 DEF BlurInv, BlurAsDescribed
<1> QED BY <1>1, <1>2

\* detect_blur: a page is flagged as blurry exactly when a populated quadrant
\* fails, the LLM sees text in an empty quadrant of a dense page, or no
\* quadrant is populated and the page as a whole is unreadable.
THEOREM BlurIsAsDescribed == Spec => []BlurAsDescribed
<1>1. BlurInv => BlurAsDescribed
  BY DEF BlurInv
<1> QED BY BlurInit, BlurNext, <1>1, PTL DEF Spec

-----------------------------------------------------------------------------
(* Who settles a document *)

\* Before BDA is invoked there is no job, while Textract is at work the
\* document is open, and so it is until the result of a job is processed.
PrimaryInv ==
    /\ pc # "done" => job = "none"
    /\ pc \in {"gate", "dispatch", "textract", "persist"} => status \in Open
    /\ job = "running" => status \in Open
    /\ job # "none" /\ result = "waiting" => status \in Open

\* At first the document is open and without a job.
LEMMA PrimaryInit == Init => PrimaryInv
BY DEF Init, PrimaryInv, Open

\* The processor settles the document only when it is done with it.
LEMMA ProcessorPrimary ==
    ASSUME PrimaryInv, Processor
    PROVE  PrimaryInv'
<1>1. CASE Screen
  BY <1>1 DEF PrimaryInv, Screen, lambda
<1>2. CASE Refuse
  BY <1>2 DEF PrimaryInv, Refuse, lambda
<1>3. CASE Dispatch
  BY <1>3 DEF PrimaryInv, Dispatch, Open
<1>4. CASE Textract
  BY <1>4 DEF PrimaryInv, Textract, lambda
<1>5. CASE Persist
  BY <1>5 DEF PrimaryInv, Persist, lambda
<1>6. CASE Respond
  BY <1>6 DEF PrimaryInv, Respond, lambda
<1>7. CASE Invoke
  <2>1. pc' = "done" /\ result' = result /\ job = "none"
    BY <1>7 DEF PrimaryInv, Invoke
  <2>2. job' = job \/ status' = "started"
    BY <1>7 DEF Invoke
  <2> QED BY <2>1, <2>2 DEF PrimaryInv, Open
<1> QED BY <1>1, <1>2, <1>3, <1>4, <1>5, <1>6, <1>7 DEF Processor

\* A settled document has its job's result processed.
LEMMA ResultPrimary ==
    ASSUME PrimaryInv, ResultProcessor
    PROVE  PrimaryInv'
<1>1. CASE BdaResult
  <2>1. /\ pc' = pc /\ job' = job
        /\ job \notin {"none", "running"} /\ result' # "waiting"
    BY <1>1 DEF BdaResult, lambda
  <2> QED BY <2>1 DEF PrimaryInv
<1>2. CASE BdaRespond
  BY <1>2 DEF PrimaryInv, BdaRespond, lambda
<1> QED BY <1>1, <1>2 DEF ResultProcessor

\* OCR mapping leaves the status alone (_write_terminal_status skips it).
LEMMA MapperPrimary ==
    ASSUME PrimaryInv, Mapper
    PROVE  PrimaryInv'
<1>1. UNCHANGED <<status, pc, job, result>>
  BY DEF Mapper, Receive, Map, MapRespond, DeadLetter, primary, Settle, Settles
<1> QED BY <1>1 DEF PrimaryInv

\* Every step keeps the primary engine the one that decides.
LEMMA PrimaryNext ==
    ASSUME PrimaryInv, [Next]_vars
    PROVE  PrimaryInv'
<1>1. CASE EndJob
  BY <1>1 DEF PrimaryInv, EndJob, lambda
<1>2. CASE UNCHANGED vars
  BY <1>2 DEF PrimaryInv, vars, primary
<1> QED BY <1>1, <1>2, ProcessorPrimary, ResultPrimary, MapperPrimary DEF Next

\* "LLM is never the authoritative writer": while Textract or BDA is at work
\* the document is open, whatever OCR mapping has answered or failed to.
THEOREM PrimaryAlwaysDecides == Spec => []PrimaryDecides
<1>1. PrimaryInv => PrimaryDecides
  BY DEF PrimaryInv, PrimaryDecides
<1> QED BY PrimaryInit, PrimaryNext, <1>1, PTL DEF Spec

-----------------------------------------------------------------------------
(* Least and greatest elements, for the choices that the code makes *)

\* A set of natural numbers has a least element: the sets 0 .. n - 1 are
\* ordered by inclusion as their bounds are, and inclusion is well-founded.
LEMMA LeastExists ==
    ASSUME NEW S, S \subseteq Nat, S # {}
    PROVE  \E i \in S : \A j \in S : i <= j
<1>1. PICK n \in S : TRUE
  OBVIOUS
<1> DEFINE K == 0 .. n
           below(i) == 0 .. (i - 1)
           T == {below(i) : i \in {i \in S : i <= n}}
<1>2. n \in Nat
  OBVIOUS
<1>3. IsFiniteSet(K)
  BY <1>2, FS_Interval
<1>4. IsWellFoundedOn(StrictSubsetOrdering(K), SUBSET K)
  BY <1>3, FS_StrictSubsetOrderingWellFounded, FS_FiniteSubsetsOfFinite
<1>5. T \subseteq SUBSET K
  BY <1>2
<1>6. below(n) \in T
  BY <1>2
<1>7. PICK t \in T : \A u \in T : ~(<<u, t>> \in StrictSubsetOrdering(K))
  <2> HIDE DEF T, K
  <2> QED BY <1>4, <1>5, <1>6, WFMin
<1>8. PICK i \in S : i <= n /\ t = below(i)
  BY <1>7
<1>9. ASSUME NEW j \in S, j < i
      PROVE  FALSE
  <2>1. i \in Nat /\ j \in Nat /\ j <= n
    BY <1>2, <1>8, <1>9
  <2>2. below(j) \in T
    BY <2>1
  <2>3. below(j) \subseteq below(i) /\ j \in below(i) /\ j \notin below(j)
    BY <2>1, <1>9
  <2>4. below(j) \in SUBSET K /\ below(i) \in SUBSET K
    BY <1>5, <1>7, <1>8, <2>2
  <2>5. <<below(j), below(i)>> \in StrictSubsetOrdering(K)
    <3> HIDE DEF below, K
    <3> QED BY <2>3, <2>4 DEF StrictSubsetOrdering
  <2> QED BY <1>7, <1>8, <2>2, <2>5
<1> QED BY <1>2, <1>8, <1>9

\* ... and a greatest one when it is bounded.
LEMMA GreatestExists ==
    ASSUME NEW S, NEW n \in Nat, S # {}, \A i \in S : i \in Nat /\ i <= n
    PROVE  \E i \in S : \A j \in S : j <= i
<1> DEFINE T == {k \in Nat : k <= n /\ n - k \in S}
<1>1. T \subseteq Nat
  OBVIOUS
<1>2. ASSUME NEW i \in S PROVE n - i \in T
  <2>1. n - (n - i) = i
    OBVIOUS
  <2> QED BY <2>1
<1>3. T # {}
  BY <1>2
<1>4. PICK k \in T : \A m \in T : k <= m
  <2> HIDE DEF T
  <2> QED BY <1>1, <1>3, LeastExists
<1>5. n - k \in S
  BY <1>4
<1>6. ASSUME NEW j \in S PROVE j <= n - k
  <2>1. n - j \in T /\ k \in Nat
    BY <1>2, <1>1, <1>4
  <2>2. k <= n - j
    <3> HIDE DEF T
    <3> QED BY <1>4, <2>1
  <2> QED BY <2>1, <2>2
<1> QED BY <1>5, <1>6

\* Min of such a set is an element of it ...
LEMMA MinIn ==
    ASSUME NEW S, S \subseteq Nat, S # {}
    PROVE  Min(S) \in S
BY LeastExists DEF Min

\* ... Max is one ...
LEMMA MaxIn ==
    ASSUME NEW S, NEW n \in Nat, S # {}, \A i \in S : i \in Nat /\ i <= n
    PROVE  Max(S) \in S
<1>1. PICK i \in S : \A j \in S : j <= i
  BY GreatestExists
<1>2. \A j \in S : i >= j
  BY <1>1
<1> QED BY <1>2 DEF Max

\* ... and First, as _find_geometry_with_fallback picks it.
LEMMA FirstIn ==
    ASSUME NEW S, S \subseteq Nat, S # {}
    PROVE  First(S) \in S
BY LeastExists DEF First

-----------------------------------------------------------------------------
(* OCR mapping *)

\* A citation and a line share finitely many tokens.
LEMMA CitedType ==
    ASSUME NEW page, NEW citation, IsFiniteSet(citation), NEW l
    PROVE  Cited(page, citation, l) \in Nat /\ Cited(page, citation, l) <= Cardinality(citation)
<1>1. citation \cap TokensOf(page.lines[l].text) \in SUBSET citation
  OBVIOUS
<1> QED BY <1>1, FS_Subset, FS_CardinalityType DEF Cited

\* A line that has a token of the citation is beaten by the best one only, so
\* that there is one (compute_confidence keeps the first with most tokens).
LEMMA BestLineExists ==
    ASSUME NEW page, IsPage(page), NEW citation, IsFiniteSet(citation),
           NEW k \in DOMAIN page.lines, Cited(page, citation, k) > 0
    PROVE  BestLine(page, citation) # {}
<1> DEFINE cited(l) == Cited(page, citation, l)
           Counts == {cited(l) : l \in DOMAIN page.lines}
           n == Cardinality(citation)
<1>1. n \in Nat
  BY FS_CardinalityType
<1>2. \A l \in DOMAIN page.lines : cited(l) \in Nat /\ cited(l) <= n
  BY CitedType
<1> HIDE DEF cited, n
<1>3. PICK m \in Counts : \A c \in Counts : c <= m
  <2>1. Counts # {} /\ \A c \in Counts : c \in Nat /\ c <= n
    BY <1>2
  <2> HIDE DEF Counts
  <2> QED BY <1>1, <2>1, GreatestExists
<1>4. m \in Nat /\ \A l \in DOMAIN page.lines : cited(l) <= m
  BY <1>2, <1>3
<1> DEFINE Most == {l \in DOMAIN page.lines : cited(l) = m}
<1>5. Most # {} /\ Most \subseteq Nat
  BY <1>3 DEF IsPage
<1>6. PICK l \in Most : \A j \in Most : l <= j
  <2> HIDE DEF Most
  <2> QED BY <1>5, LeastExists
<1>7. cited(k) > 0
  BY DEF cited
<1>8. cited(l) > 0
  BY <1>2, <1>4, <1>6, <1>7
<1>9. \A j \in DOMAIN page.lines : cited(j) <= cited(l) /\ (j < l => cited(j) < cited(l))
  <2>1. SUFFICES ASSUME NEW j \in DOMAIN page.lines
                 PROVE  cited(j) <= cited(l) /\ (j < l => cited(j) < cited(l))
    OBVIOUS
  <2>2. cited(l) = m /\ cited(j) <= m /\ cited(j) \in Nat
    BY <1>2, <1>4, <1>6
  <2>3. j \in Nat /\ l \in Nat
    BY <1>5, <1>6 DEF IsPage
  <2>4. j < l => cited(j) # m
    BY <1>6, <2>3
  <2> QED BY <1>4, <2>2, <2>4
<1> QED BY <1>6, <1>8, <1>9 DEF BestLine, cited

\* The words of a citation are in the box of their line, so that the box they
\* span is (_citation_bbox_from_words).
LEMMA CitationBoxWithin ==
    ASSUME NEW page, IsPage(page), NEW citation, NEW box \in Coordinates
    PROVE  LET b == CitationBox(page, citation, box) IN
           /\ b.left >= box.left /\ b.right <= box.right
           /\ b.top >= box.top /\ b.bottom <= box.bottom
<1> DEFINE cited == {page.words[i] : i \in
                       {i \in DOMAIN page.words :
                           /\ Within(page.words[i], box)
                           /\ Bare(page.words[i].text) \in citation}}
           X == {w.x : w \in cited}
           Y == {w.y : w \in cited}
<1>0. /\ box.left \in Nat /\ box.right \in Nat /\ box.top \in Nat /\ box.bottom \in Nat
  BY DEF Coordinates
<1>1. \A w \in cited : /\ w.x \in Nat /\ box.left <= w.x /\ w.x <= box.right
                       /\ w.y \in Nat /\ box.top <= w.y /\ w.y <= box.bottom
  BY <1>0, PageAssumption DEF IsPage, Within
<1>2. CASE cited = {}
  BY <1>0, <1>2 DEF CitationBox
<1>3. CASE cited # {}
  <2>1. /\ X # {} /\ \A x \in X : x \in Nat /\ box.left <= x /\ x <= box.right
        /\ Y # {} /\ \A y \in Y : y \in Nat /\ box.top <= y /\ y <= box.bottom
    <3> HIDE DEF cited
    <3> QED BY <1>1, <1>3
  <2>2. CitationBox(page, citation, box) = Box(Min(X), Max(X), Min(Y), Max(Y))
    BY <1>3 DEF CitationBox
  <2> HIDE DEF X, Y, cited
  <2>3. Min(X) \in X /\ Max(X) \in X /\ Min(Y) \in Y /\ Max(Y) \in Y
    <3>1. X \subseteq Nat /\ Y \subseteq Nat
      BY <2>1
    <3> QED BY <1>0, <2>1, <3>1, MinIn, MaxIn
  <2> QED BY <1>0, <2>1, <2>2, <2>3 DEF Box
<1> QED BY <1>2, <1>3

\* The average of words that each have a confidence is one: their percents are
\* at least as many as the words.
LEMMA AverageSome ==
    ASSUME NEW page, NEW words, IsFiniteSet(words), words # {},
           \A i \in words : page.words[i].conf \in 1 .. 100
    PROVE  Average(page, words) > 0
<1> DEFINE units(i) == {i} \X (1 .. page.words[i].conf)
           Units == UNION {units(i) : i \in words}
           Ones == words \X {1}
           All == words \X (1 .. 100)
<1>1. IsFiniteSet(Ones) /\ Cardinality(Ones) = Cardinality(words)
  <2>1. IsFiniteSet({1}) /\ Cardinality({1}) = 1
    BY FS_Singleton
  <2>2. Cardinality(words) \in Nat
    BY FS_CardinalityType
  <2> QED BY <2>1, <2>2, FS_Product
<1>2. Ones \subseteq Units
  <2>1. ASSUME NEW i \in words PROVE <<i, 1>> \in units(i)
    OBVIOUS
  <2> QED BY <2>1
<1>3. IsFiniteSet(Units)
  <2>1. IsFiniteSet(1 .. 100)
    <3>1. 1 \in Int /\ 100 \in Int
      OBVIOUS
    <3> QED BY <3>1, FS_Interval
  <2>2. IsFiniteSet(All)
    BY <2>1, FS_Product
  <2>3. \A i \in words : units(i) \subseteq All
    OBVIOUS
  <2>4. Units \in SUBSET All
    BY <2>3
  <2> QED BY <2>2, <2>4, FS_Subset
<1>4. Cardinality(Ones) <= Cardinality(Units)
  BY <1>2, <1>3, FS_Subset
<1>5. /\ Cardinality(words) \in Nat /\ Cardinality(Units) \in Nat
      /\ Cardinality(words) > 0 /\ Cardinality(Units) >= Cardinality(words)
  <2>1. Cardinality(words) # 0
    BY FS_EmptySet
  <2>2. Cardinality(words) \in Nat /\ Cardinality(Units) \in Nat
    BY <1>3, FS_CardinalityType
  <2> QED BY <1>1, <1>4, <2>1, <2>2
<1>6. \A s, n \in Nat : n > 0 /\ s >= n => s \div n > 0
  OBVIOUS
<1> QED BY <1>5, <1>6 DEF Average, Sum

\* compute_confidence and _citation_bbox_from_words keep what they promise.
LEMMA ReadingHolds ==
    ASSUME NEW page, IsPage(page), NEW citation, IsFiniteSet(citation)
    PROVE  MappingGrounded(page, Reading(page, citation))
<1> DEFINE n == Cardinality(citation)
           a == Reading(page, citation)
           cited(k) == Cited(page, citation, k)
<1>1. n \in Nat /\ \A k : cited(k) \in Nat /\ cited(k) <= n
  BY CitedType, FS_CardinalityType
<1>2. a.citation = citation
  BY DEF Reading
<1>3. CASE BestLine(page, citation) = {}
  <2>1. a.conf = 0
    BY <1>3 DEF Reading
  <2>2. ASSUME NEW k \in DOMAIN page.lines, cited(k) = n, citation # {}
        PROVE  FALSE
    <3>1. n > 0
      BY <1>1, <2>2, FS_EmptySet
    <3> QED BY <1>3, <2>2, <3>1, BestLineExists
  <2> QED BY <1>2, <2>1, <2>2 DEF MappingGrounded
<1>4. CASE BestLine(page, citation) # {}
  <2> DEFINE l == CHOOSE l \in BestLine(page, citation) : TRUE
             words == WordsIn(page, l)
  <2>1. /\ l \in DOMAIN page.lines /\ cited(l) > 0
        /\ \A k \in DOMAIN page.lines : cited(k) <= cited(l)
    <3>1. l \in BestLine(page, citation)
      BY <1>4
    <3> QED BY <3>1 DEF BestLine
  <2>2. /\ a.conf = IF 10 * cited(l) < 6 * n THEN 0
                    ELSE IF words # {} THEN Average(page, words)
                    ELSE (100 * cited(l)) \div n
        /\ a.box = CitationBox(page, citation, page.lines[l].box)
    BY <1>4 DEF Reading
  <2> HIDE DEF l, words, cited, n, a
  <2>3. page.lines[l].box \in Coordinates
    BY <2>1 DEF IsPage
  <2>4. InLine(a, page.lines[l].box)
    BY <2>2, <2>3, CitationBoxWithin DEF InLine
  <2>5. a.conf > 0 => 10 * cited(l) >= 6 * n
    BY <1>1, <2>2
  <2>6. ASSUME NEW k \in DOMAIN page.lines, cited(k) = n, citation # {}
        PROVE  /\ cited(l) = n
               /\ a.conf > 0 \/ \E w \in words : page.words[w].conf = 0
    <3>1. cited(l) = n /\ n > 0
      BY <1>1, <2>1, <2>6
    <3>2. CASE words = {}
      <4>1. \A m \in Nat : m > 0 => (100 * m) \div m > 0
        OBVIOUS
      <4>2. a.conf = (100 * n) \div n
        BY <1>1, <2>2, <3>1, <3>2
      <4> QED BY <1>1, <3>1, <4>1, <4>2
    <3>3. CASE words # {}
      <4>1. IsFiniteSet(words)
        <5>1. words \in SUBSET DOMAIN page.words
          BY DEF words, WordsIn
        <5> QED BY <5>1, FS_Subset DEF IsPage
      <4>2. \A w \in words : page.words[w].conf \in 0 .. 100
        BY DEF words, WordsIn, IsPage
      <4>3. a.conf = Average(page, words)
        BY <1>1, <2>2, <3>1, <3>3
      <4>4. CASE \A w \in words : page.words[w].conf \in 1 .. 100
        BY <3>1, <3>3, <4>1, <4>3, <4>4, AverageSome
      <4>5. CASE \E w \in words : page.words[w].conf \notin 1 .. 100
        <5>1. PICK w \in words : page.words[w].conf \notin 1 .. 100
          BY <4>5
        <5>2. page.words[w].conf = 0
          BY <4>2, <5>1
        <5> QED BY <3>1, <5>2
      <4> QED BY <4>4, <4>5
    <3> QED BY <3>1, <3>2, <3>3
  <2> QED BY <1>2, <2>1, <2>4, <2>5, <2>6
          DEF MappingGrounded, cited, n, words, a
<1> QED BY <1>3, <1>4

-----------------------------------------------------------------------------
(* Identity documents *)

\* The box that _find_geometry_with_fallback finds says the text.
LEMMA LocateSays ==
    ASSUME NEW page, IsPage(page), NEW t, Occurs(page, t)
    PROVE  Says(page, Locate(page, t), t)
<1> DEFINE lines == {l \in DOMAIN page.lines : page.lines[l].text = t}
           words == {i \in DOMAIN page.words : <<page.words[i].text>> = t}
           similar == {i \in DOMAIN page.words :
                          Len(t) = 1 /\ Bare(page.words[i].text) = Bare(t[1])}
           bare == {i \in similar :
                       Bare(page.words[i].text) = page.words[i].text}
           best == IF bare # {} THEN bare ELSE similar
<1>1. /\ lines \subseteq Nat /\ words \subseteq Nat
      /\ best \subseteq similar /\ best \subseteq Nat
  BY DEF IsPage
<1>2. CASE lines # {}
  <2>1. First(lines) \in lines
    <3> HIDE DEF lines
    <3> QED BY <1>1, <1>2, FirstIn
  <2>2. Locate(page, t) = page.lines[First(lines)].box
    BY <1>2 DEF Locate
  <2> QED BY <2>1, <2>2 DEF Says
<1>3. CASE lines = {} /\ words # {}
  <2>1. First(words) \in words
    <3> HIDE DEF words
    <3> QED BY <1>1, <1>3, FirstIn
  <2>2. Locate(page, t) = CellOf(page.words[First(words)])
    BY <1>3 DEF Locate
  <2>3. PICK i \in DOMAIN page.words :
            Locate(page, t) = CellOf(page.words[i]) /\ <<page.words[i].text>> = t
    BY <2>1, <2>2
  <2>4. t[1] = page.words[i].text
    BY <2>3
  <2> QED BY <2>3, <2>4 DEF Says
<1>4. CASE lines = {} /\ words = {}
  <2>1. similar # {}
    BY <1>4 DEF Occurs
  <2>2. best # {}
    BY <2>1
  <2>3. First(best) \in similar
    <3> HIDE DEF best, similar
    <3> QED BY <1>1, <2>2, FirstIn
  <2>4. Locate(page, t) = CellOf(page.words[First(best)])
    BY <1>4, <2>1 DEF Locate
  <2> QED BY <2>3, <2>4 DEF Says
<1> QED BY <1>2, <1>3, <1>4

\* A field of AnalyzeID has the box of its text.
LEMMA FieldsLocated ==
    ASSUME NEW page, NEW docs, NEW k, NEW n \in DOMAIN FieldsUpTo(page, docs, k)
    PROVE  FieldsUpTo(page, docs, k)[n].box =
               Locate(page, FieldsUpTo(page, docs, k)[n].text)
<1> DEFINE fields == FlattenSeq(SubSeq(docs, 1, k))
           last(m) == CHOOSE i \in DOMAIN fields :
                         /\ fields[i].name = m
                         /\ \A j \in DOMAIN fields : j > i => fields[j].name # m
           f == fields[last(n)]
<1>1. FieldsUpTo(page, docs, k)[n] =
          [text |-> f.text, date |-> f.date,
           value |-> IF f.date THEN <<Bare(f.text[1])>> ELSE f.text,
           box |-> Locate(page, f.text)]
  <2>1. n \in {fields[i].name : i \in DOMAIN fields}
    BY DEF FieldsUpTo
  <2> HIDE DEF fields
  <2> QED BY <2>1 DEF FieldsUpTo, fields
<1> HIDE DEF f
<1> QED BY <1>1

\* Without documents AnalyzeID finds no fields.
LEMMA NoDocumentsNoFields ==
    ASSUME NEW page, NEW docs, Len(docs) = 0
    PROVE  DOMAIN FieldsUpTo(page, docs, 0) = {}
<1>1. SubSeq(docs, 1, 0) = << >>
  OBVIOUS
<1>2. FlattenSeq(<< >>) = << >>
  BY DEF FlattenSeq
<1> DEFINE fields == FlattenSeq(SubSeq(docs, 1, 0))
<1>3. fields = << >>
  BY <1>1, <1>2
<1>4. DOMAIN FieldsUpTo(page, docs, 0) = {fields[i].name : i \in DOMAIN fields}
  BY DEF FieldsUpTo
<1>5. DOMAIN fields = {}
  <2> HIDE DEF fields
  <2> QED BY <1>3
<1> HIDE DEF fields
<1> QED BY <1>4, <1>5

\* Among the words that match a value there is a rightmost one, and First takes
\* one of those.
LEMMA RightmostIn ==
    ASSUME NEW page, IsPage(page), NEW has \in SUBSET DOMAIN page.words, has # {}
    PROVE  First(Rightmost(page, has)) \in Rightmost(page, has)
<1> DEFINE X == {page.words[i].x : i \in has}
<1>1. X # {} /\ \A x \in X : x \in Nat /\ x <= Width
  <2>1. \A i \in has : page.words[i].x \in 1 .. Width
    BY DEF IsPage
  <2>2. \A i \in has : page.words[i].x \in Nat /\ page.words[i].x <= Width
    BY <2>1, PageAssumption
  <2> QED BY <2>2
<1>2. PICK x \in X : \A y \in X : y <= x
  <2> HIDE DEF X
  <2> QED BY <1>1, GreatestExists, PageAssumption
<1>3. Rightmost(page, has) # {} /\ Rightmost(page, has) \subseteq Nat
  BY <1>2 DEF Rightmost, IsPage
<1> QED BY <1>3, FirstIn

\* A field that Nova adds has the box of the word Nova points at, if that
\* matches the value, or of a rightmost word that does, if any does.
LEMMA SupplementMatches ==
    ASSUME NEW page, IsPage(page), NEW item, Matching(page, item.text) # {}
    PROVE  \E i \in Matching(page, item.text) :
             /\ Supplement(page, item).box = CellOf(page.words[i])
             /\ i = item.index \/ i \in Rightmost(page, Matching(page, item.text))
<1>1. PICK has : has = Matching(page, item.text)
  OBVIOUS
<1> DEFINE word == IF item.index \in has \/ has = {} THEN item.index
                   ELSE First(Rightmost(page, has))
<1>2. has # {} /\ has \in SUBSET DOMAIN page.words
  BY <1>1 DEF Matching
<1>3. First(Rightmost(page, has)) \in Rightmost(page, has)
  BY <1>2, RightmostIn
<1>4. Rightmost(page, has) \subseteq has
  BY DEF Rightmost
<1>5. word \in has /\ (word = item.index \/ word \in Rightmost(page, has))
  BY <1>2, <1>3, <1>4
<1>6. Supplement(page, item).box = CellOf(page.words[word])
  BY <1>1 DEF Supplement
<1> QED BY <1>1, <1>5, <1>6

\* Only words with the text of a short value match it.
LEMMA ShortIsExact ==
    ASSUME NEW page, NEW value, NEW w \in ShortTokens, value = <<w>>
    PROVE  Matching(page, value) =
             {i \in DOMAIN page.words : <<page.words[i].text>> = value}
<1>1. Len(value) = 1 /\ value[1] = w
  OBVIOUS
<1>2. Matching(page, value) = {i \in DOMAIN page.words : page.words[i].text = w}
  BY <1>1 DEF Matching, BlockTextMatches
<1> QED BY <1>2

\* What the two passes over an identity document find is where it says so or
\* matches it, and no two of its dates are the same.
LEMMA IdentityHolds ==
    ASSUME NEW page, IsPage(page), NEW docs, Len(docs) \in Nat, NEW items
    PROVE  IdentityGrounded(page, items, Identity(page, docs, items))
<1> DEFINE found == AnalyzeId(page, docs)
           valid == Valid(page, items)
           fields == Identity(page, docs, items)
<1>1. ~Ambiguous(found)
  <2>1. CASE found = << >>
    BY <2>1 DEF Ambiguous
  <2>2. CASE found # << >>
    <3>1. /\ found = FieldsUpTo(page, docs, Len(docs))
          /\ \A k \in 1 .. Len(docs) : ~Ambiguous(FieldsUpTo(page, docs, k))
      BY <2>2 DEF AnalyzeId
    <3>2. CASE Len(docs) = 0
      BY <3>1, <3>2, NoDocumentsNoFields DEF Ambiguous
    <3> QED BY <3>1, <3>2
  <2> QED BY <2>1, <2>2
<1>2. \A n \in DOMAIN found : found[n].box = Locate(page, found[n].text)
  BY FieldsLocated DEF AnalyzeId
<1>3. CASE found = << >>
  BY <1>3 DEF Identity, IdentityGrounded, Ambiguous
<1>4. CASE found # << >>
  <2> DEFINE names == {i.name : i \in valid}
             of(n) == CHOOSE i \in valid : i.name = n
  <2>1. /\ DOMAIN fields = DOMAIN found \cup names
        /\ \A n \in DOMAIN fields :
             fields[n] = IF \E i \in valid : i.name = n
                         THEN Supplement(page, of(n)) ELSE found[n]
    BY <1>4 DEF Identity
  <2>2. \A n \in names : of(n) \in valid
    OBVIOUS
  <2>3. \A i \in valid : /\ Supplement(page, i).text = i.text
                         /\ ~Supplement(page, i).date
    BY DEF Supplement
  <2>9. valid \subseteq items
    BY DEF Valid
  <2> HIDE DEF found, fields, of, valid
  <2>4. ASSUME NEW n \in DOMAIN fields \ names, Occurs(page, fields[n].text)
        PROVE  Says(page, fields[n].box, fields[n].text)
    <3>1. fields[n] = found[n] /\ n \in DOMAIN found
      BY <2>1
    <3> QED BY <1>2, <2>4, <3>1, LocateSays
  <2>6. ASSUME NEW n \in names
        PROVE  LET has == Matching(page, fields[n].text) IN
               has # {} => \E i \in has :
                   /\ fields[n].box = CellOf(page.words[i])
                   /\ \/ \E item \in items : item.name = n /\ item.index = i
                      \/ i \in Rightmost(page, has)
    <3>1. PICK item \in valid : item = of(n) /\ item.name = n
      BY DEF of
    <3>2. fields[n] = Supplement(page, item) /\ fields[n].text = item.text
      BY <2>1, <2>3, <3>1
    <3>3. item \in items
      BY <2>9
    <3> QED BY <3>1, <3>2, <3>3, SupplementMatches
  <2>7. ASSUME NEW n \in names, fields[n].text[1] \in ShortTokens,
               NEW j \in DOMAIN page.words, <<page.words[j].text>> = fields[n].text
        PROVE  \E i \in DOMAIN page.words :
                 /\ <<page.words[i].text>> = fields[n].text
                 /\ fields[n].box = CellOf(page.words[i])
    <3>1. PICK t : t = fields[n].text
      OBVIOUS
    <3>2. Matching(page, t) = {i \in DOMAIN page.words : <<page.words[i].text>> = t}
      <4>1. PICK w : w = page.words[j].text
        OBVIOUS
      <4>2. w \in ShortTokens /\ t = <<w>>
        BY <2>7, <3>1, <4>1
      <4> QED BY <4>2, ShortIsExact
    <3>3. PICK i \in Matching(page, t) : fields[n].box = CellOf(page.words[i])
      BY <2>6, <2>7, <3>1, <3>2
    <3> QED BY <3>1, <3>2, <3>3
  <2>5. ~Ambiguous(fields)
    <3>1. ASSUME NEW n \in DOMAIN fields, fields[n].date
          PROVE  n \in DOMAIN found /\ fields[n] = found[n]
      BY <2>1, <2>2, <2>3, <3>1
    <3> QED BY <1>1, <3>1 DEF Ambiguous
  <2> DEFINE added == {i.name : i \in Valid(page, items)} \cap DOMAIN fields
             is(n, i) == fields[n].box = CellOf(page.words[i])
             has(n) == Matching(page, fields[n].text)
             same(n) == {i \in DOMAIN page.words : <<page.words[i].text>> = fields[n].text}
             pointed(n) == {i \in has(n) :
                              \E item \in items : item.name = n /\ item.index = i}
  <2>8. added = names
    BY <2>1 DEF valid
  <2>10. \A n \in DOMAIN fields \ added :
             Occurs(page, fields[n].text) => Says(page, fields[n].box, fields[n].text)
    BY <2>4, <2>8
  <2>11. \A n \in added :
             has(n) # {} => \E i \in pointed(n) \cup Rightmost(page, has(n)) : is(n, i)
    BY <2>6, <2>8
  <2>12. \A n \in added :
             same(n) # {} /\ fields[n].text[1] \in ShortTokens => \E i \in same(n) : is(n, i)
    BY <2>7, <2>8
  <2>13. IdentityGrounded(page, items, fields)
    <3> HIDE DEF names
    <3> QED BY <2>5, <2>10, <2>11, <2>12 DEF IdentityGrounded
  <2> QED BY <2>13 DEF fields
<1> QED BY <1>3, <1>4

-----------------------------------------------------------------------------
(* What the engines answer *)

\* What OCR mapping has read of the document, and the answers made of it.
AnswersInv ==
    /\ case \in Cases
    /\ mapper = "respond" =>
           \E citation \in case.citations : mapped = Reading(case.page, citation)
    /\ "ocr_mapping" \in DOMAIN answers =>
           \E citation \in case.citations :
               answers["ocr_mapping"] = Reading(case.page, citation)
    /\ "textract" \in DOMAIN answers => answers["textract"] = IdentityAnswer

\* Initially nothing is read or answered.
LEMMA AnswersInit == Init => AnswersInv
BY DEF Init, AnswersInv

\* The processor answers for Textract what its two passes found, and for BDA.
LEMMA ProcessorAnswers ==
    ASSUME AnswersInv, Processor \/ ResultProcessor \/ EndJob
    PROVE  AnswersInv'
<1>1. case' = case /\ mapper' = mapper /\ mapped' = mapped
  BY DEF Processor, ResultProcessor, EndJob, Screen, Refuse, Dispatch, Textract, Persist,
         Respond, Invoke, BdaResult, BdaRespond, lambda
<1>2. \/ answers' = answers
      \/ Answer("textract", IdentityAnswer)
      \/ \E a : Answer("bda", a)
  BY DEF Processor, ResultProcessor, EndJob, Screen, Refuse, Dispatch, Textract,
     Persist, Respond, Invoke, BdaResult, BdaRespond, Recorded, NotRecorded
<1>3. IdentityAnswer' = IdentityAnswer
  BY <1>1 DEF IdentityAnswer
<1>4. /\ "ocr_mapping" \in DOMAIN answers' =>
             "ocr_mapping" \in DOMAIN answers
             /\ answers'["ocr_mapping"] = answers["ocr_mapping"]
      /\ "textract" \in DOMAIN answers' =>
             \/ answers'["textract"] = IdentityAnswer
             \/ "textract" \in DOMAIN answers /\ answers'["textract"] = answers["textract"]
  <2>1. CASE answers' = answers
    BY <2>1
  <2>2. CASE Answer("textract", IdentityAnswer)
    BY <2>2 DEF Answer
  <2>3. CASE \E a : Answer("bda", a)
    BY <2>3 DEF Answer
  <2> QED BY <1>2, <2>1, <2>2, <2>3
<1> QED BY <1>1, <1>3, <1>4 DEF AnswersInv

\* OCR mapping answers what it has read.
LEMMA MapperAnswers ==
    ASSUME AnswersInv, Mapper
    PROVE  AnswersInv'
<1>1. case' = case /\ IdentityAnswer' = IdentityAnswer
  BY DEF Mapper, Receive, Map, MapRespond, DeadLetter, primary, IdentityAnswer
<1>2. CASE Receive \/ DeadLetter
  BY <1>1, <1>2 DEF AnswersInv, Receive, DeadLetter, primary
<1>3. CASE Map
  BY <1>1, <1>3 DEF AnswersInv, Map, primary
<1>4. CASE MapRespond
  <2>1. mapper = "respond" /\ mapper' = "idle" /\ mapped' = mapped
    BY <1>4 DEF MapRespond
  <2>2. Answer("ocr_mapping", mapped) \/ answers' = answers
    BY <1>4 DEF MapRespond, Recorded, NotRecorded
  <2>3. /\ "ocr_mapping" \in DOMAIN answers' =>
               \/ answers'["ocr_mapping"] = mapped
               \/ "ocr_mapping" \in DOMAIN answers
                  /\ answers'["ocr_mapping"] = answers["ocr_mapping"]
        /\ "textract" \in DOMAIN answers' =>
               "textract" \in DOMAIN answers /\ answers'["textract"] = answers["textract"]
    BY <2>2 DEF Answer
  <2> QED BY <1>1, <2>1, <2>3 DEF AnswersInv
<1> QED BY <1>2, <1>3, <1>4 DEF Mapper

\* Every step keeps the answers those of what was read.
LEMMA AnswersNext ==
    ASSUME AnswersInv, [Next]_vars
    PROVE  AnswersInv'
<1>1. CASE UNCHANGED vars
  BY <1>1 DEF AnswersInv, vars, lambda, IdentityAnswer
<1> QED BY <1>1, ProcessorAnswers, MapperAnswers DEF Next

\* What OCR mapping and Textract answer points at what the page says: for any
\* page, citation and failures, a citation with a confidence lies in a line that
\* has most of it, a field of AnalyzeID where it is written, and one that Nova
\* added, of one token or more, at a word that matches it.
THEOREM AnswersAreGrounded == Spec => []AnswersGrounded
<1>1. AnswersInv => AnswersGrounded
  <2> SUFFICES ASSUME AnswersInv PROVE AnswersGrounded
    OBVIOUS
  <2>1. PICK c : c = case
    OBVIOUS
  <2>2. /\ c \in Cases /\ IsPage(c.page) /\ Len(c.docs) \in Nat
        /\ \A citation \in c.citations : IsFiniteSet(citation)
    BY <2>1, CasesAssumption DEF AnswersInv
  <2>3. \A citation \in c.citations :
            MappingGrounded(c.page, Reading(c.page, citation))
    BY <2>2, ReadingHolds
  <2>4. IdentityGrounded(c.page, c.items, Identity(c.page, c.docs, c.items))
    BY <2>2, IdentityHolds
  <2> QED BY <2>1, <2>3, <2>4 DEF AnswersInv, AnswersGrounded, IdentityAnswer
<1> QED BY AnswersInit, AnswersNext, <1>1, PTL DEF Spec

-----------------------------------------------------------------------------
(* The inductive invariant of a document's evaluation *)

Finals == {"success"} \cup DOMAIN TerminalCode \cup Untold

Records ==
    [status : Finals \cup Pending, code : Codes, event : Codes,
     password : BOOLEAN, blurry : BOOLEAN, match : Matches, known : BOOLEAN,
     invoked : BOOLEAN, fields : SUBSET Fields, empty : SUBSET Fields,
     unlocated : SUBSET Fields, configured : {"unset", "no", "yes"},
     missing : SUBSET Fields, floor : BOOLEAN, below : BOOLEAN, told : Answers]

EvaluationTypeOK ==
    /\ stage \in {"received", "pending", "settled", "published"}
    /\ row \in Records
    /\ rule \in Rules /\ geo \in BOOLEAN

\* Nothing was extracted, and nobody has heard of the document.
Unread(r) ==
    /\ r.fields = {} /\ r.empty = {} /\ r.unlocated = {} /\ r.missing = {}
    /\ ~r.password /\ ~r.floor /\ ~r.below /\ ~r.invoked
    /\ r.status \in Pending

\* A terminal status, and the code it was written with: the event's.
Concluded(r) ==
    /\ r.status \in Finals
    /\ r.status \in DOMAIN TerminalCode => r.event = TerminalCode[r.status]
    /\ r.status \in Untold => r.event \in {"BLUEPRINT_DISABLED",
                                           "SKIPPED_PER_PRECLASSIFICATION"}
    /\ r.status = "success" =>
           ~r.password /\ r.event \in {"SUCCESS", "NO_BLUEPRINT_MATCHED"}
    /\ r.below => r.floor
    /\ r.missing \subseteq r.empty \cup r.unlocated
    /\ r.empty \cup r.unlocated \subseteq r.fields

\* What was stored of the extraction is what the rule still says.
RuleStored ==
    /\ row.missing = rule.required \cap (row.empty \cup row.unlocated)
    /\ row.fields # {} /\ rule.set => row.configured = "yes"

StageOK ==
    /\ stage \in {"received", "pending"} => Unread(row)
    /\ stage \in {"settled", "published"} => Concluded(row)
    /\ stage = "settled" =>
           /\ row.code = row.event
           /\ "changed before the answer" \notin excuses => RuleStored
    /\ stage # "published" => answer = NoAnswer

\* The stored answer is that of the record for some missing fields, which are
\* those of the rule but for what the excuses name; and then no process holds
\* another value of the flag than the answer was made with.
AnswerOK ==
    LET missing == row.told.missing IN
    stage = "published" =>
      /\ row.told = V1Answer(row, missing)
      /\ row.code = IF row.told.code = "NONE" THEN row.event ELSE row.told.code
      /\ row.status = "success" =>
           /\ missing \cap row.fields # {}
                => \/ row.configured = "yes" /\ row.missing # {}
                   \/ "changed before the answer" \in excuses
           /\ missing = {} /\ row.missing # {}
                => excuses \cap {"changed before the answer", "rule unread",
                                 "flag off"} # {}
      /\ \/ row.status # "success"
         \/ held = {geo} /\ missing = MissingNow(row, row.fields, geo)
         \/ excuses \cap {"changed after the answer", "switched lately",
                          "rule unread", "flag unread"} # {}

ReaderOK ==
    answer # NoAnswer =>
        \/ answer = row.told
        \/ excuses \cap {"changed after the answer", "switched lately", "rule unread",
                         "flag unread", "output unread"} # {}

EvaluationInv == EvaluationTypeOK /\ StageOK /\ AnswerOK /\ ReaderOK

-----------------------------------------------------------------------------
(* The tables of codes and checks *)

\* The codes of _TERMINAL_STATUS_RESPONSES.
LEMMA Terminal ==
    /\ DOMAIN TerminalCode =
         {"no_custom_blueprint_matched", "failed", "no_document_detected",
          "blurry_document_detected", "ai_consent_declined", "conversion_failed",
          "password_protected", "multiple_documents_single_page",
          "multiple_documents_in_multipage", "processing_excluded"}
    /\ TerminalCode.no_custom_blueprint_matched = "NO_BLUEPRINT_MATCHED"
    /\ TerminalCode.failed = "INTERNAL_PROCESSING_ERROR"
    /\ TerminalCode.no_document_detected = "NO_DOCUMENT_DETECTED"
    /\ TerminalCode.blurry_document_detected = "BLURRY_DOCUMENT_DETECTED"
    /\ TerminalCode.ai_consent_declined = "AI_CONSENT_DECLINED"
    /\ TerminalCode.conversion_failed = "INTERNAL_PROCESSING_ERROR"
    /\ TerminalCode.password_protected = "PASSWORD_PROTECTED"
    /\ TerminalCode.multiple_documents_single_page
         = "MULTIPLE_DOCUMENTS_ON_SINGLE_PAGE"
    /\ TerminalCode.multiple_documents_in_multipage
         = "MULTIPLE_DOCUMENTS_IN_MULTIPAGE"
    /\ TerminalCode.processing_excluded = "PROCESSING_EXCLUDED"
BY DEF TerminalCode

\* The values of that table, and all codes.
Refusals == {"NO_BLUEPRINT_MATCHED", "INTERNAL_PROCESSING_ERROR",
             "NO_DOCUMENT_DETECTED", "BLURRY_DOCUMENT_DETECTED",
             "AI_CONSENT_DECLINED", "PASSWORD_PROTECTED",
             "MULTIPLE_DOCUMENTS_ON_SINGLE_PAGE",
             "MULTIPLE_DOCUMENTS_IN_MULTIPAGE", "PROCESSING_EXCLUDED"}

\* The codes, in the three groups that the answers tell apart.
LEMMA AllCodes ==
    Codes = {"NONE", "SKIPPED_PER_PRECLASSIFICATION", "BLUEPRINT_DISABLED"}
                \cup ExtractionTier \cup Refusals
<1>1. {TerminalCode[s] : s \in DOMAIN TerminalCode} \subseteq Refusals
  BY Terminal DEF Refusals
<1>2. Refusals \subseteq {TerminalCode[s] : s \in DOMAIN TerminalCode}
  <2> DEFINE D == DOMAIN TerminalCode
  <2>1. /\ "no_custom_blueprint_matched" \in D /\ "failed" \in D
        /\ "no_document_detected" \in D /\ "blurry_document_detected" \in D
        /\ "ai_consent_declined" \in D /\ "password_protected" \in D
        /\ "multiple_documents_single_page" \in D
        /\ "multiple_documents_in_multipage" \in D
        /\ "processing_excluded" \in D
    BY Terminal
  <2> HIDE DEF D
  <2>2. \A c \in Refusals : \E s \in D : TerminalCode[s] = c
    BY <2>1, Terminal DEF Refusals
  <2> QED BY <2>2 DEF D
<1> QED BY <1>1, <1>2 DEF Codes

\* A refusal is no verdict on an extraction, and every code but "NONE" is one
\* or the other.
LEMMA CodesApart ==
    /\ "NONE" \notin ExtractionTier \cup Refusals
    /\ ExtractionTier \cap Refusals = {}
    /\ {"NO_BLUEPRINT_MATCHED", "SUCCESS", "MISCATEGORIZED"} \cap
         {"NONE", "BLUEPRINT_DISABLED", "SKIPPED_PER_PRECLASSIFICATION"} = {}
    /\ \A s \in DOMAIN TerminalCode : TerminalCode[s] \in Refusals
    /\ "success" \notin DOMAIN TerminalCode \cup Untold
    /\ DOMAIN TerminalCode \cap Untold = {}
    /\ Pending \cap Finals = {}
BY Terminal DEF ExtractionTier, Refusals, Untold, Pending, Finals

-----------------------------------------------------------------------------
(* One lemma per action *)

\* At first the record is unread and nothing is told.
LEMMA EvaluationStarts ==
    ASSUME EvaluationInit
    PROVE  EvaluationInv
<1>1. NoAnswer \in Answers /\ "NONE" \in Codes
  BY AllCodes DEF NoAnswer, Answers
<1>2. row \in Records /\ Unread(row)
  BY <1>1 DEF EvaluationInit, Fresh, Records, Unread, Pending, Matches
<1> QED BY <1>2 DEF EvaluationInit, EvaluationInv, EvaluationTypeOK, StageOK, AnswerOK, ReaderOK

\* A document is settled, with what it keeps of the extraction.
LEMMA OutcomeKeeps ==
    ASSUME EvaluationInv, stage \in {"received", "pending"},
           NEW r \in Records, NEW outcome \in Finals, NEW code \in Codes,
           WriteOutcome(r, outcome, code), UNCHANGED <<rule, geo, answer, excuses>>,
           outcome \in DOMAIN TerminalCode => code = TerminalCode[outcome],
           outcome \in Untold => code \in {"BLUEPRINT_DISABLED",
                                          "SKIPPED_PER_PRECLASSIFICATION"},
           outcome = "success" =>
               ~r.password /\ code \in {"SUCCESS", "NO_BLUEPRINT_MATCHED"},
           r.below => r.floor,
           r.empty \cup r.unlocated \subseteq r.fields,
           r.missing = rule.required \cap (r.empty \cup r.unlocated),
           r.fields # {} /\ rule.set => r.configured = "yes"
    PROVE  EvaluationInv'
<1>1. /\ stage' = "settled" /\ row' \in Records
      /\ row'.status = outcome /\ row'.code = code /\ row'.event = code
      /\ row'.password = r.password /\ row'.below = r.below
      /\ row'.floor = r.floor /\ row'.empty = r.empty
      /\ row'.unlocated = r.unlocated /\ row'.fields = r.fields
      /\ row'.missing = r.missing /\ row'.configured = r.configured
  BY DEF WriteOutcome, Records
<1>2. EvaluationTypeOK'
  BY <1>1 DEF EvaluationInv, EvaluationTypeOK
<1>3. Concluded(row')
  BY <1>1 DEF Concluded
<1>4. RuleStored'
  BY <1>1 DEF RuleStored
<1>5. StageOK'
  BY <1>1, <1>3, <1>4 DEF EvaluationInv, StageOK
<1>6. AnswerOK' /\ ReaderOK'
  BY <1>1 DEF AnswerOK, ReaderOK, EvaluationInv, StageOK
<1> QED BY <1>2, <1>5, <1>6 DEF EvaluationInv

\* A document nothing was extracted of is settled: as it is, with what the
\* screening found, or with the word of BDA that it ran.
LEMMA UnreadKeeps ==
    ASSUME EvaluationInv, stage \in {"received", "pending"},
           NEW r \in Records, NEW outcome \in Finals, NEW code \in Codes,
           WriteOutcome(r, outcome, code), UNCHANGED <<rule, geo, answer, excuses>>,
           outcome \in DOMAIN TerminalCode => code = TerminalCode[outcome],
           outcome \in Untold => code \in {"BLUEPRINT_DISABLED",
                                          "SKIPPED_PER_PRECLASSIFICATION"},
           outcome = "success" =>
               ~r.password /\ code \in {"SUCCESS", "NO_BLUEPRINT_MATCHED"},
           r.fields = row.fields, r.empty = row.empty, r.below = row.below,
           r.unlocated = row.unlocated, r.missing = row.missing
    PROVE  EvaluationInv'
<1>1. Unread(row)
  BY DEF EvaluationInv, StageOK
<1>2. r.below => r.floor
  BY <1>1 DEF Unread
<1>3. /\ r.empty \cup r.unlocated \subseteq r.fields
      /\ r.missing = rule.required \cap (r.empty \cup r.unlocated)
      /\ r.fields # {} /\ rule.set => r.configured = "yes"
  BY <1>1 DEF Unread
<1> QED BY <1>2, <1>3, OutcomeKeeps

\* The record before an outcome is written.
LEMMA BeforeOutcome ==
    ASSUME EvaluationInv, stage \in {"received", "pending"}
    PROVE  /\ row \in Records /\ Unread(row)
           /\ [row EXCEPT !.password = TRUE] \in Records
           /\ [row EXCEPT !.blurry = TRUE] \in Records
           /\ [row EXCEPT !.invoked = TRUE] \in Records
BY DEF EvaluationInv, EvaluationTypeOK, StageOK, Records

\* A document refused before it is read: nothing of it is explained.
LEMMA RefuseEarlyKeeps ==
    ASSUME EvaluationInv, stage = "received", RefuseEarly
    PROVE  EvaluationInv'
<1>1. PICK r : r = row
  OBVIOUS
<1>2. r \in Records /\ Unread(r) /\ [r EXCEPT !.password = TRUE] \in Records
  BY <1>1, BeforeOutcome
<1>3. /\ {"ai_consent_declined", "conversion_failed", "password_protected",
          "processing_excluded"} \subseteq Finals \ (Untold \cup {"success"})
      /\ {"AI_CONSENT_DECLINED", "INTERNAL_PROCESSING_ERROR",
          "PASSWORD_PROTECTED", "PROCESSING_EXCLUDED"} \subseteq Codes
  BY Terminal, AllCodes DEF Finals, Untold, Refusals
<1>4. UNCHANGED <<rule, geo, answer, excuses>>
  BY DEF RefuseEarly
<1>5. CASE WriteOutcome(r, "ai_consent_declined", "AI_CONSENT_DECLINED")
  BY <1>1, <1>2, <1>3, <1>4, <1>5, UnreadKeeps, Terminal
<1>6. CASE WriteOutcome(r, "conversion_failed", "INTERNAL_PROCESSING_ERROR")
  BY <1>1, <1>2, <1>3, <1>4, <1>6, UnreadKeeps, Terminal
<1>7. CASE WriteOutcome(r, "processing_excluded", "PROCESSING_EXCLUDED")
  BY <1>1, <1>2, <1>3, <1>4, <1>7, UnreadKeeps, Terminal
<1>8. CASE WriteOutcome([r EXCEPT !.password = TRUE],
                  "password_protected", "PASSWORD_PROTECTED")
  <2> DEFINE w == [r EXCEPT !.password = TRUE]
  <2>1. /\ w \in Records /\ w.fields = r.fields /\ w.empty = r.empty
        /\ w.below = r.below /\ w.unlocated = r.unlocated /\ w.missing = r.missing
    BY <1>2 DEF Records
  <2>2. WriteOutcome(w, "password_protected", "PASSWORD_PROTECTED")
    BY <1>8
  <2> HIDE DEF w
  <2> QED BY <1>1, <1>3, <1>4, <2>1, <2>2, UnreadKeeps, Terminal
<1> QED BY <1>1, <1>5, <1>6, <1>7, <1>8 DEF RefuseEarly

\* A document that blur detection rejects.
LEMMA RejectKeeps ==
    ASSUME EvaluationInv, stage = "received",
           NEW analysis \in BlurResults, NEW enforced \in Flag, Reject(analysis, enforced)
    PROVE  EvaluationInv'
<1>1. PICK r : r = row
  OBVIOUS
<1>2. r \in Records /\ Unread(r)
  BY <1>1, BeforeOutcome
<1>3. /\ {"blurry_document_detected", "no_document_detected"}
           \subseteq Finals \ (Untold \cup {"success"})
      /\ {"BLURRY_DOCUMENT_DETECTED", "NO_DOCUMENT_DETECTED"} \subseteq Codes
  BY Terminal, AllCodes DEF Finals, Untold, Refusals
<1>4. UNCHANGED <<rule, geo, answer, excuses>>
  BY DEF Reject
<1>5. CASE WriteOutcome(r, "no_document_detected", "NO_DOCUMENT_DETECTED")
  BY <1>1, <1>2, <1>3, <1>4, <1>5, UnreadKeeps, Terminal
<1>6. CASE WriteOutcome([r EXCEPT !.blurry = TRUE],
                  "blurry_document_detected", "BLURRY_DOCUMENT_DETECTED")
  <2> DEFINE w == [r EXCEPT !.blurry = TRUE]
  <2>1. /\ w \in Records /\ w.fields = r.fields /\ w.empty = r.empty
        /\ w.below = r.below /\ w.unlocated = r.unlocated /\ w.missing = r.missing
    BY <1>2 DEF Records
  <2>2. WriteOutcome(w, "blurry_document_detected", "BLURRY_DOCUMENT_DETECTED")
    BY <1>6
  <2> HIDE DEF w
  <2> QED BY <1>1, <1>3, <1>4, <2>1, <2>2, UnreadKeeps, Terminal
<1> QED BY <1>1, <1>5, <1>6 DEF Reject

\* A document that goes on to extraction.
LEMMA GoesOnUnread ==
    ASSUME EvaluationInv, stage = "received", NEW w \in Records, row' = w,
           stage' = "pending", UNCHANGED <<rule, geo, answer, excuses>>,
           Unread(w)
    PROVE  EvaluationInv'
<1>1. EvaluationTypeOK'
  BY DEF EvaluationInv, EvaluationTypeOK
<1>2. StageOK' /\ AnswerOK' /\ ReaderOK'
  BY DEF EvaluationInv, StageOK, AnswerOK, ReaderOK
<1> QED BY <1>1, <1>2 DEF EvaluationInv

\* A document that preclassification ends or lets go on.
LEMMA PreclassifyKeeps ==
    ASSUME EvaluationInv, stage = "received",
           NEW p \in Preclassifications, NEW found, NEW flagged \in Flag,
           NEW analysis \in BlurResults, NEW outcome \in Pending,
           Preclassify(p, found, flagged, analysis, outcome)
    PROVE  EvaluationInv'
<1>1. row \in Records /\ Unread(row)
  BY BeforeOutcome
<1>2. p.known \in BOOLEAN /\ p.match \in Matches
  <2>1. CASE p = Unclassified
    BY <2>1 DEF Unclassified, Matches
  <2>2. CASE p \in [known : BOOLEAN, match : Matches, several : BOOLEAN,
                    torn : BOOLEAN, identity : BOOLEAN]
    BY <2>2
  <2> QED BY <2>1, <2>2 DEF Preclassifications
<1> DEFINE b == (analysis = "blurry")
           w == Classified([row EXCEPT !.blurry = b], p)
<1>3. /\ w \in Records /\ w.fields = row.fields /\ w.empty = row.empty
      /\ w.below = row.below /\ w.unlocated = row.unlocated
      /\ w.missing = row.missing /\ w.password = row.password
      /\ w.floor = row.floor /\ w.invoked = row.invoked
  <2>1. b \in BOOLEAN
    OBVIOUS
  <2> HIDE DEF b
  <2> QED BY <1>1, <1>2, <2>1 DEF Records, Classified
<1>4. /\ {"multiple_documents_single_page", "multiple_documents_in_multipage"}
           \subseteq Finals \ (Untold \cup {"success"})
      /\ "blueprint_disabled" \in Finals \ (DOMAIN TerminalCode \cup {"success"})
      /\ {"MULTIPLE_DOCUMENTS_ON_SINGLE_PAGE", "MULTIPLE_DOCUMENTS_IN_MULTIPAGE",
          "BLUEPRINT_DISABLED"} \subseteq Codes
  BY Terminal, AllCodes DEF Finals, Untold, Refusals
<1>5. /\ UNCHANGED <<rule, geo, answer, excuses>>
      /\ \/ WriteOutcome(w, "multiple_documents_single_page",
                   "MULTIPLE_DOCUMENTS_ON_SINGLE_PAGE")
         \/ WriteOutcome(w, "multiple_documents_in_multipage",
                   "MULTIPLE_DOCUMENTS_IN_MULTIPAGE")
         \/ WriteOutcome(w, "blueprint_disabled", "BLUEPRINT_DISABLED")
         \/ stage' = "pending" /\ row' = [w EXCEPT !.status = outcome]
  BY DEF Preclassify
<1> HIDE DEF w
<1>6. PICK r : r = w
  OBVIOUS
<1>7. CASE WriteOutcome(r, "multiple_documents_single_page",
                  "MULTIPLE_DOCUMENTS_ON_SINGLE_PAGE")
  BY <1>3, <1>4, <1>5, <1>6, <1>7, UnreadKeeps, Terminal
<1>8. CASE WriteOutcome(r, "multiple_documents_in_multipage",
                  "MULTIPLE_DOCUMENTS_IN_MULTIPAGE")
  BY <1>3, <1>4, <1>5, <1>6, <1>8, UnreadKeeps, Terminal
<1>9. CASE WriteOutcome(r, "blueprint_disabled", "BLUEPRINT_DISABLED")
  BY <1>3, <1>4, <1>5, <1>6, <1>9, UnreadKeeps
<1>10. CASE stage' = "pending" /\ row' = [r EXCEPT !.status = outcome]
  <2>1. PICK v : v = [r EXCEPT !.status = outcome]
    OBVIOUS
  <2>2. v \in Records /\ Unread(v)
    BY <1>1, <1>3, <1>6, <2>1 DEF Records, Unread
  <2> QED BY <1>5, <1>10, <2>1, <2>2, GoesOnUnread
<1> QED BY <1>5, <1>6, <1>7, <1>8, <1>9, <1>10

\* A document that goes on without preclassification.
LEMMA GoOnKeeps ==
    ASSUME EvaluationInv, stage = "received",
           NEW analysis \in BlurResults, NEW outcome \in Pending, GoOn(analysis, outcome)
    PROVE  EvaluationInv'
<1>1. row \in Records /\ Unread(row)
  BY BeforeOutcome
<1> DEFINE b == (analysis = "blurry")
<1>2. PICK v : v = [row EXCEPT !.blurry = b, !.status = outcome]
  OBVIOUS
<1>3. v \in Records /\ Unread(v)
  <2>1. b \in BOOLEAN
    OBVIOUS
  <2> HIDE DEF b
  <2> QED BY <1>1, <1>2, <2>1 DEF Records, Unread
<1> QED BY <1>2, <1>3, GoesOnUnread DEF GoOn

\* What the engine saw is classified: the record keeps what the rule says.
LEMMA ClassifyKeeps ==
    ASSUME EvaluationInv, stage = "pending",
           NEW r \in Records, r.password = row.password,
           NEW seen \in Sightings, NEW on \in SUBSET Fields, NEW low \in BOOLEAN,
           Classify(r, seen, on, low),
           UNCHANGED <<rule, geo, answer, excuses>>
    PROVE  EvaluationInv'
<1>1. Unread(row)
  BY BeforeOutcome
<1> DEFINE below == BelowFloor(seen, on, low)
           configured == IF rule.set THEN "yes" ELSE "no"
<1>2. /\ Reported(seen) \subseteq Fields /\ Empty(seen) \subseteq Reported(seen)
      /\ Unlocated(seen, on) \subseteq Reported(seen)
      /\ MissingThen(seen, on) = rule.required \cap (Empty(seen) \cup Unlocated(seen, on))
      /\ below \in BOOLEAN /\ configured \in {"unset", "no", "yes"}
  <2>1. \A f \in Fields : seen[f] = "empty" \/ seen[f] = "unlocated"
                            => seen[f] # "absent"
    OBVIOUS
  <2> QED BY <2>1 DEF Reported, Empty, Unlocated, MissingThen, BelowFloor
<1>3. PICK w : w = Extracted(r, seen, on, low)
  OBVIOUS
<1>4. WriteOutcome(w, "success", "SUCCESS")
  BY <1>3 DEF Classify
<1>5. /\ w = [r EXCEPT !.fields     = Reported(seen),
                       !.empty      = Empty(seen),
                       !.unlocated  = Unlocated(seen, on),
                       !.configured = configured,
                       !.missing    = MissingThen(seen, on),
                       !.floor      = TRUE,
                       !.below      = below]
  BY <1>3 DEF Extracted
<1> HIDE DEF below, configured
<1>6. /\ w \in Records /\ w.fields = Reported(seen) /\ w.empty = Empty(seen)
      /\ w.unlocated = Unlocated(seen, on) /\ w.missing = MissingThen(seen, on)
      /\ w.floor /\ w.password = r.password /\ w.configured = configured
  BY <1>2, <1>5 DEF Records
<1>7. ~w.password /\ (w.fields # {} /\ rule.set => w.configured = "yes")
  BY <1>1, <1>6 DEF Unread, configured
<1>8. "success" \in Finals /\ "SUCCESS" \in Codes
      /\ "success" \notin DOMAIN TerminalCode \cup Untold
  BY AllCodes, CodesApart DEF Finals, ExtractionTier
<1> QED BY <1>2, <1>4, <1>6, <1>7, <1>8, OutcomeKeeps

\* A document not worth a job.
LEMMA SkipBdaKeeps ==
    ASSUME EvaluationInv, stage = "pending", SkipBda
    PROVE  EvaluationInv'
<1>1. PICK r : r = row
  OBVIOUS
<1>2. r \in Records /\ ~r.password
  BY <1>1, BeforeOutcome DEF Unread
<1>3. /\ {"success", "excluded_per_preclassification",
          "no_custom_blueprint_matched", "failed"} \subseteq Finals
      /\ {"NO_BLUEPRINT_MATCHED", "SKIPPED_PER_PRECLASSIFICATION",
          "INTERNAL_PROCESSING_ERROR"} \subseteq Codes
      /\ "success" \notin DOMAIN TerminalCode \cup Untold
      /\ "excluded_per_preclassification" \notin DOMAIN TerminalCode
      /\ {"no_custom_blueprint_matched", "failed"} \cap Untold = {}
  BY Terminal, AllCodes DEF Finals, Untold, Refusals
<1>4. UNCHANGED <<rule, geo, answer, excuses>>
  BY DEF SkipBda
<1>5. CASE WriteOutcome(r, "success", "NO_BLUEPRINT_MATCHED")
  BY <1>1, <1>2, <1>3, <1>4, <1>5, UnreadKeeps
<1>6. CASE WriteOutcome(r, "excluded_per_preclassification",
                  "SKIPPED_PER_PRECLASSIFICATION")
  BY <1>1, <1>2, <1>3, <1>4, <1>6, UnreadKeeps
<1>7. CASE WriteOutcome(r, "no_custom_blueprint_matched", "NO_BLUEPRINT_MATCHED")
  BY <1>1, <1>2, <1>3, <1>4, <1>7, UnreadKeeps, Terminal
<1>8. CASE WriteOutcome(r, "failed", "INTERNAL_PROCESSING_ERROR")
  BY <1>1, <1>2, <1>3, <1>4, <1>8, UnreadKeeps, Terminal
<1> QED BY <1>1, <1>5, <1>6, <1>7, <1>8 DEF SkipBda

\* A document of which the engine finds nothing.
LEMMA ExtractNothingKeeps ==
    ASSUME EvaluationInv, stage = "pending", ExtractNothing
    PROVE  EvaluationInv'
<1>1. PICK r : r = [row EXCEPT !.invoked = TRUE]
  OBVIOUS
<1>2. /\ r \in Records /\ r.fields = row.fields /\ r.empty = row.empty
      /\ r.below = row.below /\ r.unlocated = row.unlocated
      /\ r.missing = row.missing
  BY <1>1, BeforeOutcome DEF Records
<1>3. /\ {"no_document_detected", "no_custom_blueprint_matched", "failed"}
           \subseteq Finals \ (Untold \cup {"success"})
      /\ {"NO_BLUEPRINT_MATCHED", "NO_DOCUMENT_DETECTED",
          "INTERNAL_PROCESSING_ERROR"} \subseteq Codes
  BY Terminal, AllCodes DEF Finals, Untold, Refusals
<1>4. UNCHANGED <<rule, geo, answer, excuses>>
  BY DEF ExtractNothing
<1>5. CASE WriteOutcome(r, "no_custom_blueprint_matched", "NO_BLUEPRINT_MATCHED")
  BY <1>2, <1>3, <1>4, <1>5, UnreadKeeps, Terminal
<1>6. CASE WriteOutcome(r, "no_document_detected", "NO_DOCUMENT_DETECTED")
  BY <1>2, <1>3, <1>4, <1>6, UnreadKeeps, Terminal
<1>7. CASE WriteOutcome(r, "failed", "INTERNAL_PROCESSING_ERROR")
  BY <1>2, <1>3, <1>4, <1>7, UnreadKeeps, Terminal
<1> QED BY <1>1, <1>5, <1>6, <1>7 DEF ExtractNothing

\* The whole gate.
LEMMA ScreeningKeeps ==
    ASSUME EvaluationInv, Screening
    PROVE  EvaluationInv'
BY RefuseEarlyKeeps, RejectKeeps, PreclassifyKeeps, GoOnKeeps DEF Screening

\* The result of either engine, with any readings and low confidences.
LEMMA ExtractKeeps ==
    ASSUME EvaluationInv, Extract
    PROVE  EvaluationInv'
<1>1. stage = "pending"
  BY DEF Extract
<1>2. ASSUME NEW seen \in Sightings, NEW low \in BOOLEAN, ExtractIdentity(seen, low)
      PROVE  EvaluationInv'
  <2>1. PICK r : r = row
    OBVIOUS
  <2>2. /\ r \in Records /\ Classify(r, seen, {}, low)
        /\ UNCHANGED <<rule, geo, answer, excuses>>
    BY <1>1, <1>2, <2>1, BeforeOutcome DEF ExtractIdentity
  <2> QED BY <1>1, <2>1, <2>2, ClassifyKeeps
<1>3. ASSUME NEW seen \in Sightings, NEW low \in BOOLEAN, NEW on \in FlaggedOn,
             ExtractBda(seen, on, low)
      PROVE  EvaluationInv'
  <2>1. PICK r : r = [row EXCEPT !.invoked = TRUE]
    OBVIOUS
  <2>2. /\ r \in Records /\ r.password = row.password /\ Classify(r, seen, on, low)
        /\ UNCHANGED <<rule, geo, answer, excuses>> /\ on \in SUBSET Fields
    BY <1>1, <1>3, <2>1, BeforeOutcome DEF ExtractBda, Records, FlaggedOn
  <2> QED BY <1>1, <2>2, ClassifyKeeps
<1> QED BY <1>1, <1>2, <1>3, SkipBdaKeeps, ExtractNothingKeeps DEF Extract

-----------------------------------------------------------------------------
(* The answer *)

\* An answer without missing fields is one of the answers; and only those of a
\* success tell the missing fields.
LEMMA AnswerTyped ==
    ASSUME NEW r \in Records, r.status \in Finals, NEW missing \in SUBSET Fields
    PROVE  /\ V1Answer(r, missing) \in Answers
           /\ V1Answer(r, missing) = V1Answer(r, V1Answer(r, missing).missing)
           /\ V1Answer(r, missing).missing =
                IF r.status = "success" THEN missing ELSE {}
           /\ V1Answer(r, missing).code = ResponseCode(r, missing)
           /\ r.status = "success" =>
                V1Answer(r, missing).code \in ExtractionTier
           /\ V1Answer(r, missing).code = "NONE" <=> r.status \in Untold
           /\ V1Answer(r, missing).final <=> r.status \notin Untold
<1> DEFINE a == V1Answer(r, missing)
<1>1. /\ a.missing = IF r.status = "success" THEN missing ELSE {}
      /\ a.code = ResponseCode(r, missing)
      /\ a.final = (r.status = "success" \/ r.status \in DOMAIN TerminalCode)
      /\ a = [final |-> a.final, code |-> a.code, missing |-> a.missing]
  BY DEF V1Answer
<1>2. ResponseCode(r, missing) = ResponseCode(r, a.missing)
  BY <1>1 DEF ResponseCode
<1>3. a = V1Answer(r, a.missing)
  BY <1>1, <1>2 DEF V1Answer
<1>4. CASE r.status = "success"
  <2>1. ResponseCode(r, missing) \in ExtractionTier
    BY <1>4 DEF ResponseCode, ExtractionTier
  <2>2. a.final /\ a.final \in BOOLEAN /\ a.code \in Codes /\ a.missing \subseteq Fields
    BY <1>1, <1>4, <2>1, AllCodes
  <2>3. a \in Answers
    BY <1>1, <2>2 DEF Answers
  <2> HIDE DEF a
  <2> QED BY <1>1, <1>3, <1>4, <2>1, <2>2, <2>3, CodesApart DEF a
<1>5. CASE r.status \in DOMAIN TerminalCode
  <2>1. r.status # "success" /\ r.status \notin Untold
    BY <1>5, CodesApart
  <2>2. ResponseCode(r, missing) \in {"MISCATEGORIZED", TerminalCode[r.status]}
    BY <1>5, <2>1 DEF ResponseCode
  <2>3. ResponseCode(r, missing) \in Codes \ {"NONE"}
    BY <1>5, <2>2, AllCodes, CodesApart DEF ExtractionTier
  <2>4. a.final /\ a.final \in BOOLEAN /\ a.code \in Codes /\ a.missing \subseteq Fields
    BY <1>1, <1>5, <2>1, <2>3
  <2>5. a \in Answers
    BY <1>1, <2>4 DEF Answers
  <2> HIDE DEF a
  <2> QED BY <1>1, <1>3, <2>1, <2>3, <2>4, <2>5 DEF a
<1>6. CASE r.status \in Untold
  <2>1. r.status # "success" /\ r.status \notin DOMAIN TerminalCode
        /\ r.status # "no_custom_blueprint_matched"
    BY <1>6, CodesApart, Terminal
  <2>2. ResponseCode(r, missing) = "NONE"
    BY <2>1 DEF ResponseCode
  <2>3. ~a.final /\ a.final \in BOOLEAN /\ a.code \in Codes /\ a.missing \subseteq Fields
    BY <1>1, <2>1, <2>2, AllCodes
  <2>4. a \in Answers
    BY <1>1, <2>3 DEF Answers
  <2> HIDE DEF a
  <2> QED BY <1>1, <1>3, <1>6, <2>1, <2>2, <2>3, <2>4 DEF a
<1> QED BY <1>4, <1>5, <1>6 DEF Finals

\* A rule that requires a field is one the tenant has set.
LEMMA RuleTyped ==
    ASSUME NEW x \in Rules
    PROVE  x.required \subseteq Fields /\ (x.required # {} => x.set)
<1>1. CASE x = NoRule
  BY <1>1 DEF NoRule
<1>2. CASE x \in [set : {TRUE}, required : SUBSET Fields, optional : SUBSET Fields]
  BY <1>2
<1> QED BY <1>1, <1>2 DEF Rules

\* A required field that was read without a value is missing by the rule, now
\* as when it was classified, unless the flag was found off.
LEMMA MissingAgree ==
    ASSUME NEW r, Concluded(r), r.missing = rule.required \cap (r.empty \cup r.unlocated),
           rule \in Rules, NEW on \in BOOLEAN
    PROVE  LET now == MissingNow(r, r.fields, on) IN
           /\ now \subseteq rule.required
           /\ now \cap r.fields # {} => r.missing # {} /\ rule.set /\ r.fields # {}
           /\ now = {} /\ r.missing # {} => ~on
<1>1. rule.required # {} => rule.set
  BY RuleTyped
<1>2. r.missing \subseteq r.fields
  BY DEF Concluded
<1> QED BY <1>1, <1>2 DEF MissingNow, MissingOf

\* finalize_v1_response stores the answer of the rule as it is and the flag as
\* it was found, and keeps the outcome.
LEMMA PublishKeeps ==
    ASSUME EvaluationInv, Publish
    PROVE  EvaluationInv'
<1>1. PICK fault \in {"none", "rule unread", "flag unread"}, on \in BOOLEAN :
        /\ Finds(on, fault = "flag unread")
        /\ row' = Stored(row, V1Answer(row, IF fault = "rule unread" THEN {}
                                            ELSE MissingNow(row, row.fields, on)))
        /\ excuses' = excuses \cup ({fault} \ {"none"})
                              \cup (IF on THEN {} ELSE {"flag off"})
                              \cup (IF held = {geo} THEN {} ELSE {"switched lately"})
  BY DEF Publish
<1>2. /\ stage = "settled" /\ stage' = "published"
      /\ UNCHANGED <<rule, geo, held, answer>>
  BY DEF Publish
<1>3. /\ row \in Records /\ Concluded(row) /\ row.code = row.event
      /\ "changed before the answer" \notin excuses => RuleStored
      /\ answer = NoAnswer /\ rule \in Rules
  BY <1>2 DEF EvaluationInv, EvaluationTypeOK, StageOK
<1>4. PICK missing : missing = IF fault = "rule unread" THEN {}
                               ELSE MissingNow(row, row.fields, on)
  OBVIOUS
<1>5. missing \subseteq rule.required /\ rule.required \subseteq Fields
  <2>1. rule.required \subseteq Fields
    BY <1>3, RuleTyped
  <2>2. MissingNow(row, row.fields, on) \subseteq rule.required
    BY DEF MissingNow, MissingOf
  <2> QED BY <1>4, <2>1, <2>2
<1>6. PICK told : told = V1Answer(row, missing)
  OBVIOUS
<1>7. /\ told \in Answers /\ told = V1Answer(row, told.missing)
      /\ told.missing = IF row.status = "success" THEN missing ELSE {}
      /\ told.code \in Codes
  <2>1. told \in Answers /\ told = V1Answer(row, told.missing)
        /\ told.missing = IF row.status = "success" THEN missing ELSE {}
    BY <1>3, <1>5, <1>6, AnswerTyped DEF Concluded
  <2> QED BY <2>1 DEF Answers
<1> DEFINE code == IF told.code = "NONE" THEN row.code ELSE told.code
<1>8. row' = [row EXCEPT !.told = told, !.code = code]
  BY <1>1, <1>4, <1>6 DEF Stored
<1>9. code \in Codes
  BY <1>3, <1>7 DEF Records
<1> HIDE DEF code
<1>10. /\ row' \in Records /\ row'.told = told /\ row'.code = code
       /\ row'.status = row.status /\ row'.match = row.match
       /\ row'.below = row.below /\ row'.fields = row.fields
       /\ row'.empty = row.empty /\ row'.unlocated = row.unlocated
       /\ row'.missing = row.missing /\ row'.configured = row.configured
       /\ row'.event = row.event /\ row'.floor = row.floor
       /\ row'.password = row.password
  BY <1>3, <1>7, <1>8, <1>9 DEF Records
<1>11. EvaluationTypeOK'
  BY <1>2, <1>10 DEF EvaluationInv, EvaluationTypeOK
<1>12. StageOK'
  BY <1>2, <1>3, <1>10 DEF StageOK, Concluded
<1>13. told.missing = missing \/ row.status # "success"
  BY <1>7
<1>14. row'.told = V1Answer(row', told.missing)
  <2>1. V1Answer(row', told.missing) = V1Answer(row, told.missing)
    BY <1>10 DEF V1Answer, ResponseCode
  <2> QED BY <1>7, <1>10, <2>1
<1>15. row'.code = IF row'.told.code = "NONE" THEN row'.event ELSE row'.told.code
  BY <1>3, <1>10 DEF code
<1>16. ASSUME row.status = "success", "changed before the answer" \notin excuses'
       PROVE  /\ missing \cap row.fields # {}
                   => row.configured = "yes" /\ row.missing # {}
              /\ missing = {} /\ row.missing # {}
                   => excuses' \cap {"rule unread", "flag off"} # {}
  <2>1. RuleStored
    BY <1>1, <1>3, <1>16
  <2>2. CASE fault = "rule unread"
    BY <2>2, <1>1, <1>4
  <2>3. CASE fault # "rule unread"
    <3>1. /\ missing \cap row.fields # {}
               => row.missing # {} /\ rule.set /\ row.fields # {}
          /\ missing = {} /\ row.missing # {} => ~on
      BY <1>3, <1>4, <2>1, <2>3, MissingAgree DEF RuleStored
    <3> QED BY <1>1, <2>1, <3>1 DEF RuleStored
  <2> QED BY <2>2, <2>3
<1>17. ASSUME excuses' \cap {"changed after the answer", "switched lately",
                             "rule unread", "flag unread"} = {}
       PROVE  held = {geo} /\ missing = MissingNow(row, row.fields, geo)
  <2>1. fault = "none" /\ held = {geo}
    BY <1>1, <1>17
  <2>2. on = geo
    BY <1>1, <2>1 DEF Finds
  <2> QED BY <1>4, <2>1, <2>2
<1>18. MissingNow(row, row.fields, geo)' = MissingNow(row, row.fields, geo)
  BY <1>2, <1>10 DEF MissingNow, MissingOf
<1>19. AnswerOK'
  BY <1>2, <1>10, <1>13, <1>14, <1>15, <1>16, <1>17, <1>18 DEF AnswerOK
<1>20. ReaderOK'
  BY <1>2, <1>3 DEF ReaderOK
<1> QED BY <1>11, <1>12, <1>19, <1>20 DEF EvaluationInv

\* A reader's answer is that of the record, unless the rule or the flag changed
\* or a read failed.
LEMMA RecomputeKeeps ==
    ASSUME EvaluationInv, Recompute
    PROVE  EvaluationInv'
<1>1. PICK fault \in {"none", "output unread", "flag unread"}, on \in BOOLEAN :
        /\ Finds(on, fault = "flag unread")
        /\ answer' = V1Answer(row,
               MissingNow(row, ReadOutput(row, fault = "output unread"), on))
        /\ excuses' = excuses \cup ({fault} \ {"none"})
  BY DEF Recompute
<1>2. stage = "published" /\ UNCHANGED <<stage, row, rule, geo, held>>
  BY DEF Recompute
<1>3. EvaluationTypeOK' /\ StageOK' /\ AnswerOK'
  BY <1>1, <1>2 DEF EvaluationInv, EvaluationTypeOK, StageOK, RuleStored,
                    AnswerOK, MissingNow, MissingOf
<1>4. ASSUME excuses' \cap {"changed after the answer", "switched lately", "rule unread",
                            "flag unread", "output unread"} = {}
      PROVE  answer' = row.told
  <2>1. fault = "none" /\ ReadOutput(row, fault = "output unread") = row.fields
    BY <1>1, <1>4 DEF ReadOutput
  <2>2. /\ row.told = V1Answer(row, row.told.missing)
        /\ \/ row.status # "success"
           \/ held = {geo} /\ row.told.missing = MissingNow(row, row.fields, geo)
    BY <1>1, <1>2, <1>4 DEF EvaluationInv, AnswerOK
  <2>3. CASE row.status # "success"
    <3>1. V1Answer(row, row.told.missing) = V1Answer(row, MissingNow(row, row.fields, on))
      BY <2>3 DEF V1Answer, ResponseCode
    <3> QED BY <1>1, <2>1, <2>2, <3>1
  <2>4. CASE held = {geo} /\ row.told.missing = MissingNow(row, row.fields, geo)
    <3>1. on = geo
      BY <1>1, <2>1, <2>4 DEF Finds
    <3> QED BY <1>1, <2>1, <2>2, <2>4, <3>1
  <2> QED BY <2>2, <2>3, <2>4
<1>5. ReaderOK'
  BY <1>2, <1>4 DEF ReaderOK
<1> QED BY <1>3, <1>5 DEF EvaluationInv

\* An edit of the rule or a switch of the flag: an excuse from then on.
LEMMA ChangeKeeps ==
    ASSUME EvaluationInv, Change
    PROVE  EvaluationInv'
<1>1. /\ UNCHANGED <<stage, row, answer>> /\ excuses \subseteq excuses'
      /\ stage = "settled" => "changed before the answer" \in excuses' \/ rule' = rule
      /\ stage = "published" => "changed after the answer" \in excuses'
  BY DEF Change, ChangeRule, Switch
<1>2. EvaluationTypeOK'
  BY <1>1 DEF Change, ChangeRule, Switch, EvaluationInv, EvaluationTypeOK
<1>3. StageOK'
  BY <1>1 DEF EvaluationInv, StageOK, RuleStored
<1>4. AnswerOK'
  BY <1>1 DEF EvaluationInv, AnswerOK
<1>5. ReaderOK'
  BY <1>1 DEF EvaluationInv, ReaderOK
<1> QED BY <1>2, <1>3, <1>4, <1>5 DEF EvaluationInv

\* Five minutes after a switch every process holds the new value.
LEMMA ExpireKeeps ==
    ASSUME EvaluationInv, Expire
    PROVE  EvaluationInv'
BY DEF Expire, EvaluationInv, EvaluationTypeOK, StageOK, RuleStored, AnswerOK, ReaderOK,
       MissingNow, MissingOf

-----------------------------------------------------------------------------
(* Theorems about a document's evaluation *)

\* Every step of the document, its readers and its tenant keeps the invariant.
LEMMA EvaluationStep ==
    ASSUME EvaluationInv, [EvaluationNext]_evaluation
    PROVE  EvaluationInv'
<1>1. CASE UNCHANGED evaluation
  BY <1>1 DEF evaluation, EvaluationInv, EvaluationTypeOK, StageOK, RuleStored, AnswerOK,
              MissingNow, MissingOf, ReaderOK
<1> QED BY <1>1, ScreeningKeeps, ExtractKeeps, PublishKeeps, RecomputeKeeps, ChangeKeeps,
           ExpireKeeps
        DEF EvaluationNext

\* The record, the stored answer and the recomputed one stay in step.
THEOREM EvaluationInvariant == EvaluationSpec => []EvaluationInv
BY EvaluationStarts, EvaluationStep, PTL DEF EvaluationSpec

\* A check with a place in the pipeline has one.
LEMMA InPipeline ==
    ASSUME NEW key \in Checks
    PROVE  (CHOOSE i \in DOMAIN Pipeline : Pipeline[i] = key) \in 1 .. 8
BY DEF Checks, Pipeline

\* _build_evaluations: the check that a screening code names fails.
LEMMA StopFails ==
    ASSUME NEW r, r.code \in DOMAIN StoppedAt
    PROVE  Evaluations(r)[StoppedAt[r.code]] = "fail"
<1> DEFINE key == StoppedAt[r.code]
           stop == CHOOSE i \in DOMAIN Pipeline : Pipeline[i] = key
<1>1. key \in Checks
  <2>1. key \in {"passwordProtected", "documentDetected", "blurDetection",
                 "multipleDocumentsOnSinglePage", "multipleDocumentsInMultipage"}
    BY DEF StoppedAt
  <2>2. DOMAIN Pipeline = 1 .. 8
    BY DEF Pipeline
  <2>3. /\ Pipeline[1] = "passwordProtected" /\ Pipeline[2] = "documentDetected"
        /\ Pipeline[3] = "blurDetection"
        /\ Pipeline[4] = "multipleDocumentsOnSinglePage"
        /\ Pipeline[5] = "multipleDocumentsInMultipage"
    BY DEF Pipeline
  <2> HIDE DEF key
  <2> QED BY <2>1, <2>2, <2>3 DEF Checks
<1>2. stop \in 1 .. 8
  BY <1>1, InPipeline
<1>3. r.code \notin ExtractionTier /\ r.code # "NO_BLUEPRINT_MATCHED"
  BY DEF StoppedAt, ExtractionTier
<1> DEFINE at(k) == CHOOSE i \in DOMAIN Pipeline : Pipeline[i] = k
<1>4. Evaluations(r) = [k \in Checks |->
                          CASE at(k) < stop -> EvaluateKey(k, r)
                            [] at(k) = stop -> "fail"
                            [] at(k) > stop -> "not_evaluated"]
  BY <1>3 DEF Evaluations
<1>5. at(key) = stop
  OBVIOUS
<1> HIDE DEF key, stop, at
<1>6. Evaluations(r)[key] = "fail"
  BY <1>1, <1>2, <1>4, <1>5
<1> QED BY <1>6 DEF key

\* The checks of an extraction are judged by what was stored.
LEMMA ExtractionJudged ==
    ASSUME NEW r, r.code \in ExtractionTier, NEW key \in Checks
    PROVE  Evaluations(r)[key] = EvaluateKey(key, r)
BY DEF Evaluations

\* _build_evaluations and finalize_v1_response: the code of a document and its
\* checks agree, but for what the excuses name.
THEOREM VerdictsAreExplained == EvaluationSpec => []VerdictExplained
<1>1. ASSUME EvaluationInv, HasEvaluation
      PROVE  VerdictExplained
  <2> DEFINE missing == row.told.missing
  <2>1. /\ row \in Records /\ Concluded(row) /\ stage = "published"
        /\ row.told = V1Answer(row, missing)
        /\ row.code = IF row.told.code = "NONE" THEN row.event ELSE row.told.code
        /\ row.status = "success" =>
             /\ missing \cap row.fields # {}
                  => \/ row.configured = "yes" /\ row.missing # {}
                     \/ "changed before the answer" \in excuses
             /\ missing = {} /\ row.missing # {}
                  => excuses \cap {"changed before the answer", "rule unread",
                                   "flag off"} # {}
    BY <1>1 DEF HasEvaluation, EvaluationInv, EvaluationTypeOK, StageOK, AnswerOK
  <2>2. missing \subseteq Fields
    BY <2>1 DEF Records, Answers
  <2>3. /\ row.told.code = ResponseCode(row, missing)
        /\ row.told.code = "NONE" <=> row.status \in Untold
    <3>1. row \in Records /\ row.status \in Finals /\ row.told = V1Answer(row, missing)
      BY <2>1 DEF Concluded
    <3> HIDE DEF missing
    <3> QED BY <2>2, <3>1, AnswerTyped
  <2>4. row.status \in Untold => row.code \notin ExtractionTier \cup Verdicts
    <3>1. {"BLUEPRINT_DISABLED", "SKIPPED_PER_PRECLASSIFICATION"}
            \cap (ExtractionTier \cup Verdicts) = {}
      BY DEF ExtractionTier, Verdicts, StoppedAt, FailedAt
    <3> QED BY <2>1, <2>3, <3>1 DEF Concluded
  <2>5. Verdicts \cap ExtractionTier =
            {"MISSING_FIELDS", "MISCATEGORIZED", "LOW_EXTRACTION_CONFIDENCE"}
        /\ Verdicts \ ExtractionTier = DOMAIN StoppedAt
    BY DEF ExtractionTier, Verdicts, StoppedAt, FailedAt
  <2>6. ASSUME row.code \in {"MISSING_FIELDS", "LOW_EXTRACTION_CONFIDENCE", "SUCCESS"}
        PROVE  row.status = "success"
    <3>1. row.code \in ExtractionTier /\ row.status \notin Untold
          /\ row.code = ResponseCode(row, missing)
      BY <2>1, <2>3, <2>4, <2>6 DEF ExtractionTier
    <3>2. CASE row.status \in DOMAIN TerminalCode
      <4>1. row.status # "success"
        BY <3>2, CodesApart
      <4>2. row.code \in {"MISCATEGORIZED", TerminalCode[row.status]}
        BY <3>1, <3>2, <4>1 DEF ResponseCode
      <4> QED BY <2>6, <3>1, <3>2, <4>2, CodesApart
    <3> QED BY <2>1, <3>1, <3>2 DEF Concluded, Finals
  <2>7. ASSUME row.code \in Verdicts
        PROVE  \/ Evaluations(row)[CheckOf(row.code)] = "fail"
               \/ /\ row.code = "MISSING_FIELDS"
                  /\ \/ "changed before the answer" \in excuses
                     \/ row.told.missing \cap row.fields = {}
    <3>1. CASE row.code \in DOMAIN StoppedAt
      BY <3>1, StopFails DEF CheckOf
    <3>2. CASE row.code \notin DOMAIN StoppedAt
      <4>1. row.code \in ExtractionTier /\ CheckOf(row.code) = FailedAt[row.code]
            /\ row.code = ResponseCode(row, missing)
        BY <2>1, <2>3, <2>4, <2>5, <2>7, <3>2 DEF CheckOf
      <4>2. /\ {"missingFields", "miscategorization", "extractionConfidence"}
                 \subseteq Checks
            /\ FailedAt.MISSING_FIELDS = "missingFields"
            /\ FailedAt.MISCATEGORIZED = "miscategorization"
            /\ FailedAt.LOW_EXTRACTION_CONFIDENCE = "extractionConfidence"
        <5>1. /\ DOMAIN Pipeline = 1 .. 8 /\ Pipeline[6] = "miscategorization"
              /\ Pipeline[7] = "missingFields"
              /\ Pipeline[8] = "extractionConfidence"
          BY DEF Pipeline
        <5> QED BY <5>1 DEF Checks, FailedAt
      <4>3. CASE row.code = "MISSING_FIELDS"
        <5>1. row.status = "success"
          BY <2>6, <4>3
        <5>2. CASE row.configured = "yes" /\ row.missing # {}
          <6>1. EvaluateKey("missingFields", row) = "fail"
            BY <5>2 DEF EvaluateKey, Failing
          <6> QED BY <4>1, <4>2, <4>3, <6>1, ExtractionJudged
        <5> QED BY <2>1, <4>3, <5>1, <5>2
      <4>4. CASE row.code = "MISCATEGORIZED"
        <5>1. row.match = "no"
          BY <4>1, <4>4, CodesApart DEF ResponseCode, ExtractionTier
        <5>2. EvaluateKey("miscategorization", row) = "fail"
          BY <5>1 DEF EvaluateKey, Failing
        <5> QED BY <4>1, <4>2, <4>4, <5>2, ExtractionJudged
      <4>5. CASE row.code = "LOW_EXTRACTION_CONFIDENCE"
        <5>1. row.status = "success"
          BY <2>6, <4>5
        <5>2. row.below /\ row.floor
          BY <2>1, <4>1, <4>5, <5>1 DEF ResponseCode, Concluded
        <5>3. EvaluateKey("extractionConfidence", row) = "fail"
          BY <5>2 DEF EvaluateKey, Failing
        <5> QED BY <4>1, <4>2, <4>5, <5>3, ExtractionJudged
      <4> QED BY <2>5, <2>7, <4>1, <4>3, <4>4, <4>5
    <3> QED BY <3>1, <3>2
  <2>8. ASSUME row.code = "SUCCESS", NEW key \in Checks,
               Evaluations(row)[key] = "fail"
        PROVE  \/ key = "blurDetection"
               \/ /\ key = "missingFields"
                  /\ excuses \cap {"changed before the answer",
                                   "rule unread", "flag off"} # {}
    <3>1. row.status = "success" /\ row.code = ResponseCode(row, missing)
      BY <2>1, <2>3, <2>4, <2>6, <2>8 DEF ExtractionTier
    <3>2. missing = {} /\ row.match # "no" /\ ~row.below
      BY <2>8, <3>1 DEF ResponseCode
    <3>3. ~row.password
      BY <2>1, <3>1 DEF Concluded
    <3>4. EvaluateKey(key, row) = "fail"
      BY <2>8, ExtractionJudged DEF ExtractionTier
    <3>5. key = "blurDetection" \/ (key = "missingFields" /\ row.missing # {})
      BY <3>2, <3>3, <3>4 DEF EvaluateKey, Failing
    <3> QED BY <2>1, <3>1, <3>2, <3>5
  <2> QED BY <2>7, <2>8 DEF VerdictExplained
<1>2. EvaluationInv => VerdictExplained
  BY <1>1 DEF VerdictExplained
<1> QED BY <1>2, EvaluationInvariant, PTL

\* finalize_v1_response and build_v1_api_response: a reader who asks for the
\* extracted data is given the stored answer, and a terminal document is
\* answered as finished with the code of its record, but for what the excuses
\* and the statuses without a code name.
THEOREM TheAnswersAgree == EvaluationSpec => []AnswersAgree
<1>1. ASSUME EvaluationInv
      PROVE  AnswersAgree
  <2>1. ASSUME stage = "published"
        PROVE  \/ row.told.final /\ row.told.code = row.code
               \/ row.status \in Untold /\ ~row.told.final
    <3>1. /\ row \in Records /\ row.status \in Finals
          /\ row.told = V1Answer(row, row.told.missing)
          /\ row.code = IF row.told.code = "NONE" THEN row.event ELSE row.told.code
      BY <1>1, <2>1 DEF EvaluationInv, EvaluationTypeOK, StageOK, AnswerOK, Concluded
    <3>2. row.told.missing \subseteq Fields
      BY <3>1 DEF Records, Answers
    <3>3. /\ row.told.code = "NONE" <=> row.status \in Untold
          /\ row.told.final <=> row.status \notin Untold
      BY <3>1, <3>2, AnswerTyped
    <3> QED BY <3>1, <3>3
  <2> QED BY <1>1, <2>1 DEF AnswersAgree, EvaluationInv, ReaderOK
<1> QED BY <1>1, EvaluationInvariant, PTL

\* classify_result queues the metrics event before the answer is known: it has
\* the code of the record, or that of an extraction which the answer judged.
THEOREM EventsHaveTheCode == EvaluationSpec => []EventCode
<1>1. ASSUME EvaluationInv, stage = "published", row.event # row.code
      PROVE  /\ row.status \in {"success", "no_custom_blueprint_matched"}
             /\ row.event \in {"SUCCESS", "NO_BLUEPRINT_MATCHED"}
             /\ row.code \in ExtractionTier
  <2>1. /\ row \in Records /\ Concluded(row)
        /\ row.told = V1Answer(row, row.told.missing)
        /\ row.code = IF row.told.code = "NONE" THEN row.event ELSE row.told.code
    BY <1>1 DEF EvaluationInv, EvaluationTypeOK, StageOK, AnswerOK
  <2>2. row.told.missing \subseteq Fields
    BY <2>1 DEF Records, Answers
  <2>3. /\ row.told.code = ResponseCode(row, row.told.missing)
        /\ row.told.code = "NONE" <=> row.status \in Untold
        /\ row.status = "success" => row.told.code \in ExtractionTier
    BY <2>1, <2>2, AnswerTyped DEF Concluded
  <2>4. row.status \notin Untold /\ row.code = row.told.code
    BY <1>1, <2>1, <2>3
  <2>5. CASE row.status = "success"
    BY <2>1, <2>3, <2>4, <2>5 DEF Concluded
  <2>6. CASE row.status \in DOMAIN TerminalCode
    <3>1. row.event = TerminalCode[row.status] /\ row.status # "success"
      BY <2>1, <2>6, CodesApart DEF Concluded
    <3>2. row.status = "no_custom_blueprint_matched" /\ row.code = "MISCATEGORIZED"
      BY <1>1, <2>3, <2>4, <2>6, <3>1 DEF ResponseCode
    <3> QED BY <3>1, <3>2, Terminal DEF ExtractionTier
  <2> QED BY <2>1, <2>4, <2>5, <2>6 DEF Concluded, Finals
<1>2. EvaluationInv => EventCode
  BY <1>1 DEF EventCode
<1> QED BY <1>2, EvaluationInvariant, PTL
==============================================================================
