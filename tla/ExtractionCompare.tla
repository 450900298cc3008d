-------------------------- MODULE ExtractionCompare --------------------------
(***************************************************************************)
(* One document on its way through an extraction engine, with OCR mapping  *)
(* beside it: always for an extraction comparison, behind a flag for other *)
(* documents.  The processor puts the request into a queue before it turns *)
(* to Textract or BDA, and each engine adds its answer to the record's map *)
(* of answers, which only a comparison has.  A comparison is complete when *)
(* OCR mapping and the primary engine have answered.                       *)
(*                                                                         *)
(* Deliveries of the upload, the reaper and batches are in                 *)
(* DocumentLifecycle; here the processor and the BDA result processor run  *)
(* once, and a failed call is handled as their code does.                  *)
(***************************************************************************)
EXTENDS PageWords

CONSTANTS
    Cases,          \* the documents
    MaxReceives     \* of a message, before it goes to the dead-letter queue

ASSUME ReceivesAssumption == MaxReceives \in Nat \ {0}

\* A page has finitely many words, each in a cell, and its lines are made of
\* them.  AnalyzeID finds some documents, and a citation has finitely many
\* tokens.
Coordinates == [left : Nat, right : Nat, top : Nat, bottom : Nat]
IsPage(page) ==
    /\ IsFiniteSet(DOMAIN page.words)
    /\ DOMAIN page.words \subseteq Nat /\ DOMAIN page.lines \subseteq Nat
    /\ \A i \in DOMAIN page.words :
         /\ page.words[i].x \in 1 .. Width /\ page.words[i].y \in 1 .. Height
         /\ page.words[i].conf \in 0 .. 100
    /\ \A l \in DOMAIN page.lines :
         /\ page.lines[l].box \in Coordinates
         /\ \A t \in TokensOf(page.lines[l].text) :
              \E i \in DOMAIN page.words : page.words[i].text = t
ASSUME CasesAssumption ==
    \A c \in Cases :
        /\ IsPage(c.page)
        /\ \A citation \in c.citations : IsFiniteSet(citation)
        /\ Len(c.docs) \in Nat

VARIABLES
    case,       \* the document: its page, what AnalyzeID and the LLMs make
                \* of it, the flags, and the failures it meets
    blur,       \* the outcome of blur detection, and what the LLM said
    status,     \* the process status
    method,     \* EXTRACT_METHOD
    answers,    \* API_RESPONSES_BY_METHOD: method -> answer
    pc,         \* the document processor
    job,        \* the BDA job
    result,     \* the BDA result processor
    message,    \* the request to OCR mapping
    receives,   \* how often it was received
    mapper,     \* the OCR mapping lambda
    mapped,     \* what it has read
    failed,     \* ghost: where a call failed
    faults

primary == <<pc, job, result>>
lambda == <<message, receives, mapper, mapped>>
vars == <<case, blur, status, method, answers, primary, lambda, failed, faults>>

NotRead == [citation |-> {}, conf |-> 0, box |-> NoBox]

Init ==
    /\ case \in Cases
    /\ blur = [verdict |-> "none", yes |-> {}]
    /\ status = "pending" /\ method = "none" /\ answers = << >>
    /\ pc = "gate" /\ job = "none" /\ result = "waiting"
    /\ message = "none" /\ receives = 0 /\ mapper = "idle" /\ mapped = NotRead
    /\ failed = {} /\ faults = 0

MayFail(where) ==
    /\ faults < case.faults
    /\ faults' = faults + 1
    /\ failed' = failed \cup {where}
NoFailure == UNCHANGED <<failed, faults>>

------------------------------------------------------------------------------
(* _write_terminal_status *)

Open == {"pending", "started"}

\* OCR mapping is never the one that settles a document.
Always(m) == TRUE
Settles(m) == m # "ocr_mapping"
Settle(m, s) == status' = IF Settles(m) /\ status \in Open THEN s ELSE status

\* write_extract_method_response: the map is there for a comparison only.
AnswerAlone(m, a) == answers' = (m :> a)
Answer(m, a) ==
    answers' = [o \in DOMAIN answers \cup {m} |-> IF o = m THEN a ELSE answers[o]]

\* A result is recorded: without a failure, or with one before or after the
\* write of the answer.  Otherwise(where) is what the caller does then.
Recorded(m, a) == case.compare /\ Answer(m, a) /\ NoFailure
NotRecorded(m, a, where) ==
    \/ ~case.compare /\ UNCHANGED answers /\ NoFailure
    \/ MayFail(where) /\ UNCHANGED answers
    \/ MayFail(where) /\ case.compare /\ Answer(m, a)

------------------------------------------------------------------------------
(* The document processor *)

\* The gate: blur detection, which an error leaves undecided, and a refusal
\* when rejection is enforced.
Screen ==
    /\ pc = "gate"
    /\ \/ /\ case.screening # "off"
          /\ \E yes \in SUBSET Asked(case.page) :
               blur' = [verdict |-> BlurVerdict(case.page, yes), yes |-> yes]
          /\ NoFailure
       \/ case.screening = "off" /\ UNCHANGED blur /\ NoFailure
       \/ MayFail("blur") /\ blur' = [verdict |-> "failed", yes |-> {}]
    /\ IF case.screening = "enforced" /\ blur'.verdict \in {"blurry", "not_document"}
       THEN status' = "refused" /\ pc' = "done"
       ELSE pc' = "dispatch" /\ UNCHANGED status
    /\ UNCHANGED <<case, method, answers, job, result, lambda>>

\* The gate refuses for another reason.
Refuse ==
    /\ pc = "gate"
    /\ status' = "refused" /\ pc' = "done"
    /\ UNCHANGED <<case, blur, method, answers, job, result, lambda>>
    /\ NoFailure

\* The claim, then _invoke_ocr_mapping_path: a request to OCR mapping when a
\* blueprint type was matched, for a comparison or behind the flag.  Errors
\* are swallowed, the send may have had its effect.
WantsMapping == case.type /\ (case.compare \/ case.flag)
Dispatch ==
    /\ pc = "dispatch"
    /\ status' = "started" /\ pc' = "textract"
    /\ \/ WantsMapping /\ message' = "queued" /\ NoFailure
       \/ WantsMapping /\ MayFail("request") /\ message' \in {"none", "queued"}
       \/ ~WantsMapping /\ UNCHANGED message /\ NoFailure
    /\ UNCHANGED <<case, blur, method, answers, job, result, receives, mapper, mapped>>

\* extract_textract_identity: no identity document, nothing found, or dates
\* mixed up lead to BDA, and so does an error.
IdentityAnswer == Identity(case.page, case.docs, case.items)
Textract ==
    /\ pc = "textract"
    /\ \/ /\ IdentityAnswer # << >>
          /\ method' = "textract" /\ pc' = "persist"
          /\ NoFailure
       \/ IdentityAnswer = << >> /\ pc' = "bda" /\ UNCHANGED method /\ NoFailure
       \/ case.docs # << >> /\ MayFail("primary") /\ pc' = "bda" /\ UNCHANGED method
    /\ UNCHANGED <<case, blur, status, answers, job, result, lambda>>

\* Textract's result is written; whatever raises, the caller goes on to BDA.
Persist ==
    /\ pc = "persist"
    /\ \/ Settle("textract", "success") /\ pc' = "respond" /\ NoFailure
       \/ MayFail("primary") /\ pc' = "bda" /\ UNCHANGED status
    /\ UNCHANGED <<case, blur, method, answers, job, result, lambda>>

Respond ==
    /\ pc = "respond"
    /\ \/ Recorded("textract", IdentityAnswer) /\ pc' = "done"
       \/ NotRecorded("textract", IdentityAnswer, "primary") /\ pc' = "bda"
    /\ UNCHANGED <<case, blur, status, method, job, result, lambda>>

\* _invoke_bda_path: the job starts, whatever the status is by now, or the
\* document cannot be prepared or is not worth a job, or there is no project
\* for it, which counts as BDA's answer.  The handler classifies it as failed
\* when a call raises, unless it was settled.
Invoke ==
    /\ pc = "bda"
    /\ pc' = "done"
    /\ \/ /\ status' = "started" /\ method' = "bda" /\ job' = "running"
          /\ UNCHANGED answers /\ NoFailure
       \/ /\ \E s \in {"success", "excluded"} : Settle("none", s)
          /\ UNCHANGED <<method, job, answers>> /\ NoFailure
       \/ /\ Settle("bda", "no_custom_blueprint_matched")
          /\ \/ /\ status \in Open
                /\ \/ Recorded("bda", "unmatched")
                   \/ NotRecorded("bda", "unmatched", "primary")
             \/ status \notin Open /\ UNCHANGED answers /\ NoFailure
          /\ UNCHANGED <<method, job>>
       \/ /\ MayFail("primary") /\ Settle("none", "failed")
          /\ UNCHANGED <<method, job, answers>>
    /\ UNCHANGED <<case, blur, result, lambda>>

EndJob ==
    /\ job = "running"
    /\ job' \in {"matched", "unmatched", "error"}
    /\ UNCHANGED <<case, blur, status, method, answers, pc, result, lambda>>
    /\ NoFailure

\* The BDA result processor settles the document; when it was settled before,
\* nothing is answered either.
BdaResult ==
    LET outcome == CASE job = "matched" -> "success"
                     [] job = "unmatched" -> "no_custom_blueprint_matched"
                     [] OTHER -> "failed" IN
    /\ job \in {"matched", "unmatched", "error"} /\ result = "waiting"
    /\ \/ /\ Settle("bda", outcome)
          /\ result' = IF job # "error" /\ status \in Open THEN "respond" ELSE "done"
          /\ NoFailure
       \/ MayFail("primary") /\ Settle("bda", "failed") /\ result' = "done"
    /\ UNCHANGED <<case, blur, method, answers, pc, job, lambda>>

BdaRespond ==
    /\ result = "respond"
    /\ result' = "done"
    /\ Recorded("bda", job) \/ NotRecorded("bda", job, "primary")
    /\ UNCHANGED <<case, blur, status, method, pc, job, lambda>>

------------------------------------------------------------------------------
(* The OCR mapping lambda *)

Receive ==
    /\ message = "queued" /\ mapper = "idle" /\ receives < MaxReceives
    /\ receives' = receives + 1 /\ mapper' = "map"
    /\ UNCHANGED <<case, blur, status, method, answers, primary, message, mapped>>
    /\ NoFailure

\* The LLM cites a passage for the field, not the same one every time; a
\* page without text raises.
Map ==
    /\ mapper = "map"
    /\ \/ /\ LinesRead(case.page) # {}
          /\ \E citation \in case.citations : mapped' = Reading(case.page, citation)
          /\ mapper' = "respond"
          /\ NoFailure
       \/ LinesRead(case.page) = {} /\ mapper' = "idle" /\ UNCHANGED mapped /\ NoFailure
       \/ MayFail("mapping") /\ mapper' = "idle" /\ UNCHANGED mapped
    /\ UNCHANGED <<case, blur, status, method, answers, primary, message, receives>>

\* What raises leaves the message in the queue, and so does a delete that is
\* lost after everything was done.
MapRespond ==
    /\ mapper = "respond"
    /\ mapper' = "idle"
    /\ Settle("ocr_mapping", "success")
    /\ \/ Recorded("ocr_mapping", mapped) /\ message' = "deleted"
       \/ NotRecorded("ocr_mapping", mapped, "mapping") /\ UNCHANGED message
    /\ UNCHANGED <<case, blur, method, primary, receives, mapped>>

DeadLetter ==
    /\ message = "queued" /\ mapper = "idle" /\ receives = MaxReceives
    /\ message' = "dead"
    /\ UNCHANGED <<case, blur, status, method, answers, primary, receives, mapper, mapped>>
    /\ NoFailure

------------------------------------------------------------------------------
Processor == Screen \/ Refuse \/ Dispatch \/ Textract \/ Persist \/ Respond \/ Invoke
ResultProcessor == BdaResult \/ BdaRespond
Mapper == Receive \/ Map \/ MapRespond \/ DeadLetter

Next == Processor \/ EndJob \/ ResultProcessor \/ Mapper

Spec == Init /\ [][Next]_vars

\* Lambda runs what was delivered to it, SQS delivers again what was not
\* deleted, and a BDA job ends.
FairSpec ==
    /\ Spec
    /\ WF_vars(Processor) /\ WF_vars(EndJob)
    /\ WF_vars(ResultProcessor) /\ WF_vars(Mapper)

\* get_compare_result
Completed ==
    {IF method = "none" THEN "bda" ELSE method, "ocr_mapping"} \subseteq DOMAIN answers

------------------------------------------------------------------------------
(* Properties *)

\* detect_blur: "If any populated quadrant has too many low-confidence words
\* or low average confidence, the document is flagged as blurry", and so it
\* is when the LLM sees text in an empty quadrant of a dense page, or when
\* no quadrant is populated and the whole page is unreadable.  The code gets
\* there by way of which quadrants it evaluated, skipped and asked about.
BlurAsDescribed ==
    blur.verdict \in {"blurry", "sharp"} =>
      LET page == case.page
          n == Cardinality(DOMAIN page.words) IN
      (blur.verdict = "blurry") <=>
        \/ \E q \in DOMAIN Quadrants : Fails(page, q)
        \/ n >= DenseWords /\ \E q \in blur.yes : In(page, q) = {}
        \/ /\ \A q \in DOMAIN Quadrants : ~Populated(page, q)
           /\ Unreadable(page, DOMAIN page.words)

\* compute_confidence: a citation has a confidence only when one line has
\* 60 % of it, and then the box lies in such a line.  A citation that a line
\* has in whole has a box in a line that has it in whole, and a confidence
\* unless Textract has none in a word there.
InLine(a, box) ==
    /\ a.box.left >= box.left /\ a.box.right <= box.right
    /\ a.box.top >= box.top /\ a.box.bottom <= box.bottom
MappingGrounded(page, a) ==
    LET n == Cardinality(a.citation)
        whole == {l \in DOMAIN page.lines : Cited(page, a.citation, l) = n}
        most == {l \in DOMAIN page.lines :
                    10 * Cited(page, a.citation, l) >= 6 * n} IN
    /\ a.conf > 0 => \E l \in most : InLine(a, page.lines[l].box)
    /\ a.citation # {} /\ whole # {} =>
           \E l \in whole :
             /\ InLine(a, page.lines[l].box)
             /\ a.conf > 0 \/ \E w \in WordsIn(page, l) : page.words[w].conf = 0

\* Textract: a field of AnalyzeID has the box of a word or a line with its text,
\* without regard to punctuation, if there is any, and no two dates are the
\* same.  A field that Nova added has the box of a word that matches its value,
\* if there is any: the one Nova pointed at or one that no other lies to the
\* right of; and if the value is one of at most two characters that is a word of
\* the page, of such a word.
Says(page, box, t) ==
    \/ \E l \in DOMAIN page.lines : page.lines[l].text = t /\ page.lines[l].box = box
    \/ \E i \in DOMAIN page.words :
         CellOf(page.words[i]) = box /\ Bare(page.words[i].text) = Bare(t[1])
Occurs(page, t) ==
    \/ \E l \in DOMAIN page.lines : page.lines[l].text = t
    \/ \E i \in DOMAIN page.words :
         Len(t) = 1 /\ Bare(page.words[i].text) = Bare(t[1])
IdentityGrounded(page, items, fields) ==
    LET added == {i.name : i \in Valid(page, items)} \cap DOMAIN fields
        is(n, i) == fields[n].box = CellOf(page.words[i]) IN
    /\ \A n \in DOMAIN fields \ added :
         Occurs(page, fields[n].text) => Says(page, fields[n].box, fields[n].text)
    /\ \A n \in added :
         LET has == Matching(page, fields[n].text)
             same == {i \in DOMAIN page.words : <<page.words[i].text>> = fields[n].text}
             pointed == {i \in has : \E item \in items : item.name = n /\ item.index = i}
         IN
         /\ has # {} => \E i \in pointed \cup Rightmost(page, has) : is(n, i)
         /\ same # {} /\ fields[n].text[1] \in ShortTokens => \E i \in same : is(n, i)
    /\ ~Ambiguous(fields)

\* What the engines answer points at what the page says.
AnswersGrounded ==
    /\ "ocr_mapping" \in DOMAIN answers => MappingGrounded(case.page, answers["ocr_mapping"])
    /\ "textract" \in DOMAIN answers =>
           IdentityGrounded(case.page, case.items, answers["textract"])

\* "LLM is never the authoritative writer": while the primary engine is at
\* work the document is open, whatever OCR mapping has answered or failed to.
PrimaryDecides ==
    \/ pc \in {"gate", "dispatch", "textract", "persist"}
    \/ job = "running"
    \/ job # "none" /\ result = "waiting"
        => status \in Open

\* "isCompleted=true once both finish": a comparison with a blueprint type,
\* text and an engine's verdict is completed in the end and stays so, if no
\* call of the primary path and not the request failed.  OCR mapping may fail
\* less often than its message is received.
BothReport ==
    /\ case.compare /\ case.type /\ LinesRead(case.page) # {}
    /\ \/ method = "textract" \/ job \in {"matched", "unmatched"}
       \/ status = "no_custom_blueprint_matched"
    /\ failed \cap {"primary", "request"} = {}
    /\ faults < MaxReceives
CompareCompletes == <>[](BothReport => Completed)

------------------------------------------------------------------------------
(* What the docs say, and a run refutes *)

\* "Returns 200 with isCompleted=false while either path is still running".
PendingMeansRunning ==
    case.compare /\ ~Completed =>
        pc # "done" \/ job = "running" \/ result = "respond" \/ message = "queued"
            \/ (job # "none" /\ result = "waiting") \/ failed # {}

\* _citation_bbox_from_words: "Union the bounding boxes of WORD blocks whose
\* text appears in the citation".
CitedWordsBoxed ==
    "ocr_mapping" \in DOMAIN answers =>
      LET answer == answers["ocr_mapping"]
          words == {w \in {case.page.words[i] : i \in DOMAIN case.page.words} :
                       w.text \in answer.citation} IN
      \A l \in DOMAIN case.page.lines :
          /\ answer.conf > 0 /\ BestLine(case.page, answer.citation) = {l}
          => \A w \in words : Within(w, case.page.lines[l].box)
                               => Within(w, answer.box)
==============================================================================
