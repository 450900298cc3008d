------------------------- MODULE DocumentEvaluation -------------------------
(***************************************************************************)
(* What one document is told about itself: the screening before            *)
(* extraction, the classification of what the engine read, the response    *)
(* code and v1 answer written at the end, the answer recomputed for a      *)
(* reader who asks for the extracted data, and the per-check breakdown of  *)
(* GET /evaluation.  The breakdown reads the signals stored when the       *)
(* document was classified; the response code is computed later, from the  *)
(* extraction rule as it is by then and the feature flag as the process    *)
(* knows it: each process keeps a flag for five minutes.                   *)
(*                                                                         *)
(* Response codes are written as the names of ResponseCodes; "NONE" is the *)
(* absent attribute.  A document is claimed once here: claiming, retries   *)
(* and duplicates are DocumentLifecycle's.                                 *)
(***************************************************************************)
EXTENDS Naturals, FiniteSets

CONSTANTS
    Fields,        \* the fields of the document's blueprint
    MaxChanges,    \* edits of the rule and switches of the flag
    MaxMisreads    \* failed reads of the rule, the flag or the engine's output

ASSUME EvaluationAssumption == MaxChanges \in Nat /\ MaxMisreads \in Nat

VARIABLES
    stage,      \* where the document is
    row,        \* its document-metadata record
    identity,   \* the screening saw an identity document
    rule,       \* the tenant's extraction rule for the document's class
    geo,        \* include-missing-geo-with-missing-fields
    held,       \* the values of geo that the cache of some process may hold
    answer,     \* the last answer recomputed for include_extracted_data
    excuses,    \* ghost: what has kept two readers from the same settings
    changes,    \* bounds the edits
    misreads    \* bounds the failed reads

evaluation ==
    <<stage, row, identity, rule, geo, held, answer, excuses, changes, misreads>>

------------------------------------------------------------------------------
(* The response codes and the statuses they go with *)

\* _TERMINAL_STATUS_RESPONSES: the code of each terminal status but success.
TerminalCode ==
    [no_custom_blueprint_matched    |-> "NO_BLUEPRINT_MATCHED",
     failed                         |-> "INTERNAL_PROCESSING_ERROR",
     no_document_detected           |-> "NO_DOCUMENT_DETECTED",
     blurry_document_detected       |-> "BLURRY_DOCUMENT_DETECTED",
     ai_consent_declined            |-> "AI_CONSENT_DECLINED",
     conversion_failed              |-> "INTERNAL_PROCESSING_ERROR",
     password_protected             |-> "PASSWORD_PROTECTED",
     multiple_documents_single_page |-> "MULTIPLE_DOCUMENTS_ON_SINGLE_PAGE",
     multiple_documents_in_multipage |-> "MULTIPLE_DOCUMENTS_IN_MULTIPAGE",
     processing_excluded            |-> "PROCESSING_EXCLUDED"]

\* Terminal statuses that table does not have.
Untold == {"blueprint_disabled", "excluded_per_preclassification"}

Pending == {"pending_image_optimization", "not_started"}

\* _PRE_EXTRACTION_STOP_MAP, _EXTRACTION_TIER and the check each code names.
StoppedAt ==
    [PASSWORD_PROTECTED                |-> "passwordProtected",
     NO_DOCUMENT_DETECTED              |-> "documentDetected",
     BLURRY_DOCUMENT_DETECTED          |-> "blurDetection",
     MULTIPLE_DOCUMENTS_ON_SINGLE_PAGE |-> "multipleDocumentsOnSinglePage",
     MULTIPLE_DOCUMENTS_IN_MULTIPAGE   |-> "multipleDocumentsInMultipage"]

ExtractionTier ==
    {"SUCCESS", "MISSING_FIELDS", "MISCATEGORIZED", "LOW_EXTRACTION_CONFIDENCE"}

Codes ==
    {"NONE", "SKIPPED_PER_PRECLASSIFICATION", "BLUEPRINT_DISABLED"}
        \cup ExtractionTier \cup {TerminalCode[s] : s \in DOMAIN TerminalCode}

\* EVALUATION_PIPELINE
Pipeline == <<"passwordProtected", "documentDetected", "blurDetection",
              "multipleDocumentsOnSinglePage", "multipleDocumentsInMultipage",
              "miscategorization", "missingFields", "extractionConfidence">>
Checks == {Pipeline[i] : i \in DOMAIN Pipeline}

------------------------------------------------------------------------------
(* The record, the rule and their initial values *)

NoRule == [set |-> FALSE, required |-> {}, optional |-> {}]
Rules == {NoRule} \cup
    [set : {TRUE}, required : SUBSET Fields, optional : SUBSET Fields]

NoAnswer == [final |-> FALSE, code |-> "NONE", missing |-> {}]
Answers == [final : BOOLEAN, code : Codes, missing : SUBSET Fields]

Fresh ==
    [status |-> "not_started", code |-> "NONE", event |-> "NONE",
     password |-> FALSE, blurry |-> FALSE, match |-> "unset", known |-> FALSE,
     invoked |-> FALSE, fields |-> {}, empty |-> {}, unlocated |-> {},
     configured |-> "unset", missing |-> {}, floor |-> FALSE, below |-> FALSE,
     told |-> NoAnswer]

EvaluationInit ==
    /\ stage = "received"
    /\ row = Fresh
    /\ identity = FALSE
    /\ rule \in Rules
    /\ geo \in BOOLEAN
    /\ held \in {{geo}, BOOLEAN}
    /\ answer = NoAnswer
    /\ excuses = {}
    /\ changes = 0
    /\ misreads = 0

------------------------------------------------------------------------------
(* Screening *)

\* A terminal status and its internal code, written by one update that also
\* queues the metrics event with the record as it then is.
WriteOutcome(r, status, code) ==
    /\ stage' = "settled"
    /\ row' = [r EXCEPT !.status = status, !.code = code, !.event = code]

\* _get_flag: the flags but geo are read once for a document, and each read
\* may find either value.
Flag == BOOLEAN

\* detect_blur: not an image or not enabled, sharp, blurry, too few words to be
\* a document, or the analysis failed.
BlurResults == {"skipped", "sharp", "blurry", "not_document", "failed"}

\* preclassify_document: an unsupported type, an oversized image, an answer that
\* does not parse and a failed call all come out as other_document.  A match is
\* judged only when the tenant gave a category.
Matches == {"yes", "no", "unset"}
Unclassified ==
    [known |-> FALSE, match |-> "unset",
     several |-> FALSE, torn |-> FALSE, identity |-> FALSE]
Preclassifications ==
    {Unclassified} \cup [known : BOOLEAN, match : Matches,
                         several : BOOLEAN, torn : BOOLEAN, identity : BOOLEAN]

\* find_matching_blueprint, and whether the tenant has disabled what it found.
BlueprintMatches == {"none", "enabled", "disabled"}

\* from_results: what is stored of a preclassification.
Classified(r, p) == [r EXCEPT !.known = p.known, !.match = p.match]

\* Refused before any analysis: consent declined or a conversion that failed
\* (both by the API), a password, or not chosen by the category's sampling.
RefuseEarly ==
    /\ \/ WriteOutcome(row, "ai_consent_declined", "AI_CONSENT_DECLINED")
       \/ WriteOutcome(row, "conversion_failed", "INTERNAL_PROCESSING_ERROR")
       \/ WriteOutcome([row EXCEPT !.password = TRUE],
                 "password_protected", "PASSWORD_PROTECTED")
       \/ WriteOutcome(row, "processing_excluded", "PROCESSING_EXCLUDED")
    /\ UNCHANGED <<identity, rule, geo, held, answer, excuses, changes, misreads>>

\* _get_blur_outcome: with enforce-blur-rejection on, blur analysis settles the
\* document, and what the concurrent preclassification found is thrown away.
Rejects(blur, enforced) == enforced /\ blur \in {"blurry", "not_document"}
Reject(blur, enforced) ==
    /\ Rejects(blur, enforced)
    /\ IF blur = "blurry"
       THEN WriteOutcome([row EXCEPT !.blurry = TRUE],
                   "blurry_document_detected", "BLURRY_DOCUMENT_DETECTED")
       ELSE WriteOutcome(row, "no_document_detected", "NO_DOCUMENT_DETECTED")
    /\ UNCHANGED <<identity, rule, geo, held, answer, excuses, changes, misreads>>

\* Several documents on a page, pages that do not continue one document while
\* that is flagged, or a blueprint the tenant disabled end the document here.
\* Otherwise it goes on to extraction, with its category stored.
Preclassify(p, found, flagged, blur, status) ==
    LET r == Classified([row EXCEPT !.blurry = blur = "blurry"], p)
        torn == p.torn /\ flagged
    IN
    /\ \/ /\ p.several
          /\ WriteOutcome(r, "multiple_documents_single_page",
                    "MULTIPLE_DOCUMENTS_ON_SINGLE_PAGE")
          /\ UNCHANGED identity
       \/ /\ ~p.several /\ torn
          /\ WriteOutcome(r, "multiple_documents_in_multipage",
                    "MULTIPLE_DOCUMENTS_IN_MULTIPAGE")
          /\ UNCHANGED identity
       \/ /\ ~p.several /\ ~torn /\ found = "disabled"
          /\ WriteOutcome(r, "blueprint_disabled", "BLUEPRINT_DISABLED")
          /\ UNCHANGED identity
       \/ /\ ~p.several /\ ~torn /\ found # "disabled"
          /\ stage' = "pending"
          /\ row' = [r EXCEPT !.status = status]
          /\ identity' = p.identity
    /\ UNCHANGED <<rule, geo, held, answer, excuses, changes, misreads>>

\* Preclassification raised: nothing is stored and the document goes on.
GoOn(blur, status) ==
    /\ stage' = "pending"
    /\ row' = [row EXCEPT !.blurry = blur = "blurry", !.status = status]
    /\ UNCHANGED <<identity, rule, geo, held, answer, excuses, changes, misreads>>

------------------------------------------------------------------------------
(* Extraction and classification *)

\* _get_parameter_value of the flag: what the process holds, or the parameter,
\* or on when it cannot be read.
Finds(on, failed) == IF failed THEN on ELSE on \in held

\* read_bda_output: what the engine reported, and of it the fields without a
\* value and, with the flag on, those of low confidence without a place.  The
\* flag is read again for each level of fields: on has those of the levels
\* that found it on.
Reported(seen) == {f \in Fields : seen[f] # "absent"}
Empty(seen) == {f \in Fields : seen[f] = "empty"}
Unlocated(seen, on) == {f \in on : seen[f] = "unlocated"}
FlaggedOn == {on \in SUBSET Fields : on # Fields => FALSE \in held}

\* get_missing_required_fields: a field the engine did not report is in neither
\* list, so it is not missing here.
MissingIfEmpty(seen, on) == rule.required \cap Empty(seen)
MissingThen(seen, on) == rule.required \cap (Empty(seen) \cup Unlocated(seen, on))

\* calculate_average_non_empty_confidence: the fields that count.
Counted(seen, on) == Reported(seen) \ (Empty(seen) \cup Unlocated(seen, on))

\* Below the tenant's floor or the default one; without a field that counts
\* there is no average, which is not below.
BelowFloor(seen, on, low) == low /\ Counted(seen, on) # {}

\* _build_update_expression: what is stored of an extraction.
Extracted(r, seen, on, low) ==
    [r EXCEPT !.fields     = Reported(seen),
              !.empty      = Empty(seen),
              !.unlocated  = Unlocated(seen, on),
              !.configured = IF rule.set THEN "yes" ELSE "no",
              !.missing    = MissingThen(seen, on),
              !.floor      = TRUE,
              !.below      = BelowFloor(seen, on, low)]

\* classify_extraction_result
Classify(r, seen, on, low) ==
    WriteOutcome(Extracted(r, seen, on, low), "success", "SUCCESS")

\* AnalyzeID reads an identity document: at least one field, and every field
\* it reports counts as located.  If it reads none the document goes to BDA.
ExtractIdentity(seen, low) ==
    /\ identity
    /\ \E f \in Fields : seen[f] # "absent"
    /\ \A f \in Fields : seen[f] # "unlocated"
    /\ Classify(row, seen, {}, low)
    /\ UNCHANGED <<identity, rule, geo, held, answer, excuses, changes, misreads>>

\* The BDA path ends before BDA is invoked: the image could not be prepared
\* (a success whose internal code is NO_BLUEPRINT_MATCHED), the category is
\* other_document and skip-bda-if-unclassified is on, no project is
\* configured, or the content was rejected or BDA could not be started.
SkipBda ==
    /\ \/ /\ row.status = "pending_image_optimization"
          /\ WriteOutcome(row, "success", "NO_BLUEPRINT_MATCHED")
       \/ /\ ~row.known
          /\ WriteOutcome(row, "excluded_per_preclassification",
                    "SKIPPED_PER_PRECLASSIFICATION")
       \/ WriteOutcome(row, "no_custom_blueprint_matched", "NO_BLUEPRINT_MATCHED")
       \/ WriteOutcome(row, "failed", "INTERNAL_PROCESSING_ERROR")
    /\ UNCHANGED <<identity, rule, geo, held, answer, excuses, changes, misreads>>

\* BDA ran and a blueprint matched.
ExtractBda(seen, on, low) ==
    /\ Classify([row EXCEPT !.invoked = TRUE], seen, on, low)
    /\ UNCHANGED <<identity, rule, geo, held, answer, excuses, changes, misreads>>

\* BDA ran and no blueprint matched: text was found, or none, or the result
\* could not be processed.
ExtractNothing ==
    /\ LET r == [row EXCEPT !.invoked = TRUE] IN
       \/ WriteOutcome(r, "no_custom_blueprint_matched", "NO_BLUEPRINT_MATCHED")
       \/ WriteOutcome(r, "no_document_detected", "NO_DOCUMENT_DETECTED")
       \/ WriteOutcome(r, "failed", "INTERNAL_PROCESSING_ERROR")
    /\ UNCHANGED <<identity, rule, geo, held, answer, excuses, changes, misreads>>

------------------------------------------------------------------------------
(* The answer *)

\* apply_extraction_rules: a required field is missing when it has no entry, or
\* one that is listed as absent.
MissingOf(fields, listed) == rule.required \ (fields \ listed)

\* _apply_extraction_rules, by the rule as it is now and the flag as it was
\* found: with the flag on, what was empty or unlocated is absent.
MissingNow(r, fields, on) ==
    IF fields = {} THEN {}
    ELSE MissingOf(fields, IF on THEN r.empty \cup r.unlocated ELSE {})

\* _resolve_response_code
ResponseCodeOfMismatch(r, missing) ==
    IF r.match = "no" THEN "MISCATEGORIZED"
    ELSE IF r.status = "success" THEN "SUCCESS"
    ELSE IF r.status \in DOMAIN TerminalCode THEN TerminalCode[r.status]
    ELSE "NONE"
ResponseCode(r, missing) ==
    IF r.status = "success" THEN
        IF missing # {} THEN "MISSING_FIELDS"
        ELSE IF r.match = "no" THEN "MISCATEGORIZED"
        ELSE IF r.below THEN "LOW_EXTRACTION_CONFIDENCE"
        ELSE "SUCCESS"
    ELSE IF r.status = "no_custom_blueprint_matched" /\ r.match = "no"
        THEN "MISCATEGORIZED"
    ELSE IF r.status \in DOMAIN TerminalCode THEN TerminalCode[r.status]
    ELSE "NONE"

\* build_v1_api_response: a status that is neither success nor in the table
\* is answered as still processing.
V1Answer(r, missing) ==
    [final   |-> r.status = "success" \/ r.status \in DOMAIN TerminalCode,
     code    |-> ResponseCode(r, missing),
     missing |-> IF r.status = "success" THEN missing ELSE {}]

\* The update of finalize_v1_response; an answer without a code leaves the
\* internal one in place.
TextStored(r, told) == [r EXCEPT !.told = told]
Stored(r, told) ==
    [r EXCEPT !.told = told,
              !.code = IF told.code = "NONE" THEN r.code ELSE told.code]

\* A read fails, if the document is one for which anything is read.
Misread(fault) ==
    /\ fault # "none" => row.status = "success" /\ misreads < MaxMisreads
    /\ misreads' = IF fault = "none" THEN misreads ELSE misreads + 1

\* finalize_v1_response.  A failure to read the rule is swallowed and nothing
\* is missing; a flag that cannot be read is on.
Publish ==
    /\ stage = "settled"
    /\ \E fault \in {"none", "rule unread", "flag unread"}, on \in BOOLEAN :
         LET missing == IF fault = "rule unread" THEN {}
                        ELSE MissingNow(row, row.fields, on) IN
         /\ Misread(fault) /\ Finds(on, fault = "flag unread")
         /\ stage' = "published"
         /\ row' = Stored(row, V1Answer(row, missing))
         /\ excuses' = excuses \cup ({fault} \ {"none"})
                               \cup (IF on THEN {} ELSE {"flag off"})
                               \cup (IF held = {geo} THEN {} ELSE {"switched lately"})
    /\ UNCHANGED <<identity, rule, geo, held, answer, changes>>

\* GET /v1/documents/{job_id}?include_extracted_data=true: the answer is built
\* again, from the engine's output in S3, in a process of the API.  An output
\* that cannot be read is an answer without fields, of which none is missing;
\* nor is any when the rule cannot be read.
ReadOutput(r, unread) == IF unread THEN {} ELSE r.fields
Recompute ==
    /\ stage = "published"
    /\ \E fault \in {"none", "output unread", "flag unread"}, on \in BOOLEAN :
         LET fields == ReadOutput(row, fault = "output unread") IN
         /\ Misread(fault) /\ Finds(on, fault = "flag unread")
         /\ answer' = V1Answer(row, MissingNow(row, fields, on))
         /\ excuses' = excuses \cup ({fault} \ {"none"})
    /\ UNCHANGED <<stage, row, identity, rule, geo, held, changes>>

\* The tenant edits or deletes its rule.
ChangeRule ==
    /\ rule' \in Rules \ {rule}
    /\ excuses' = excuses \cup
         (CASE stage = "settled"   -> {"changed before the answer"}
            [] stage = "published" -> {"changed after the answer"}
            [] OTHER               -> {})
    /\ UNCHANGED <<geo, held>>

\* The flag is switched, and caches keep the old value ...
Switch ==
    /\ geo' = ~geo
    /\ held' = BOOLEAN
    /\ excuses' = IF stage = "published"
                  THEN excuses \cup {"changed after the answer"} ELSE excuses
    /\ UNCHANGED rule

Change ==
    /\ changes < MaxChanges
    /\ ChangeRule \/ Switch
    /\ changes' = changes + 1
    /\ UNCHANGED <<stage, row, identity, answer, misreads>>

\* ... for five minutes, _SSM_CACHE_TTL_MINUTES.
Expire ==
    /\ held' = {geo}
    /\ UNCHANGED <<stage, row, identity, rule, geo, answer, excuses, changes, misreads>>

------------------------------------------------------------------------------
(* GET /v1/documents/{job_id}/evaluation *)

Failing(b) == IF b THEN "fail" ELSE "pass"

\* _evaluate_key: each check from the signal stored for it; the three without
\* a stored signal pass because they were reached.
EvaluateKey(key, r) ==
    CASE key = "passwordProtected"    -> Failing(r.password)
      [] key = "blurDetection"        -> Failing(r.blurry)
      [] key = "miscategorization"    -> Failing(r.match = "no")
      [] key = "missingFields"        -> IF r.configured # "yes"
                                         THEN "not_evaluated"
                                         ELSE Failing(r.missing # {})
      [] key = "extractionConfidence" -> IF r.floor THEN Failing(r.below)
                                         ELSE "not_evaluated"
      [] OTHER                        -> "pass"

\* _build_evaluations
Evaluations(r) ==
    LET stop == CHOOSE i \in DOMAIN Pipeline : Pipeline[i] = StoppedAt[r.code]
        at(key) == CHOOSE i \in DOMAIN Pipeline : Pipeline[i] = key
    IN  IF \/ r.code \in ExtractionTier
           \/ r.code = "NO_BLUEPRINT_MATCHED" /\ r.invoked
        THEN [key \in Checks |-> EvaluateKey(key, r)]
        ELSE IF r.code \in DOMAIN StoppedAt
        THEN [key \in Checks |->
                CASE at(key) < stop -> EvaluateKey(key, r)
                  [] at(key) = stop -> "fail"
                  [] at(key) > stop -> "not_evaluated"]
        ELSE [key \in Checks |-> "not_evaluated"]

\* Until the answer is stored the request is refused: "not finished processing".
HasEvaluation == stage = "published"

------------------------------------------------------------------------------
Sightings == [Fields -> {"absent", "empty", "unlocated", "read"}]

Screening ==
    /\ stage = "received"
    /\ \/ RefuseEarly
       \/ \E blur \in BlurResults, enforced \in Flag :
            \/ Reject(blur, enforced)
            \/ /\ ~Rejects(blur, enforced)
               /\ \E status \in Pending :
                    \/ GoOn(blur, status)
                    \/ \E p \in Preclassifications,
                           found \in BlueprintMatches, flagged \in Flag :
                         Preclassify(p, found, flagged, blur, status)

Extract ==
    /\ stage = "pending"
    /\ \/ SkipBda
       \/ ExtractNothing
       \/ \E seen \in Sightings, low \in BOOLEAN :
            \/ ExtractIdentity(seen, low)
            \/ \E on \in FlaggedOn : ExtractBda(seen, on, low)

EvaluationNext ==
    Screening \/ Extract \/ Publish \/ Recompute \/ Change \/ Expire

EvaluationSpec == EvaluationInit /\ [][EvaluationNext]_evaluation

------------------------------------------------------------------------------
(* Properties *)

Statuses == DOMAIN TerminalCode \cup Untold \cup Pending \cup {"success"}

TypeOK ==
    /\ stage \in {"received", "pending", "settled", "published"}
    /\ row.status \in Statuses
    /\ row.code \in Codes /\ row.event \in Codes
    /\ row.password \in BOOLEAN /\ row.blurry \in BOOLEAN
    /\ row.match \in Matches /\ row.known \in BOOLEAN
    /\ row.invoked \in BOOLEAN
    /\ row.fields \subseteq Fields
    /\ row.empty \subseteq row.fields /\ row.unlocated \subseteq row.fields
    /\ row.configured \in {"unset", "no", "yes"}
    /\ row.missing \subseteq Fields
    /\ row.floor \in BOOLEAN /\ row.below \in BOOLEAN
    /\ row.told \in Answers /\ answer \in Answers
    /\ identity \in BOOLEAN /\ rule \in Rules
    /\ geo \in BOOLEAN /\ held \in {{geo}, BOOLEAN}
    /\ changes \in 0..MaxChanges /\ misreads \in 0..MaxMisreads

\* The check a code stands for (StoppedAt and get_evaluation_key).
FailedAt == [MISSING_FIELDS            |-> "missingFields",
             MISCATEGORIZED            |-> "miscategorization",
             LOW_EXTRACTION_CONFIDENCE |-> "extractionConfidence"]
Verdicts == DOMAIN StoppedAt \cup DOMAIN FailedAt
CheckOf(code) ==
    IF code \in DOMAIN StoppedAt THEN StoppedAt[code] ELSE FailedAt[code]

\* The response code and the checks of /evaluation are computed at different
\* times from different data, and yet agree.  A document whose code names a
\* check is told that this check failed; a 101 may show a passing missingFields
\* only when the rule changed in between, or when every field it misses is
\* one the engine never reported.  A document that succeeded (000) fails no
\* check, except blur while rejection is not enforced, and missingFields when
\* the rule could not be read or changed in between, or the process that wrote
\* the answer found the flag off: it then counts an empty required field as
\* present.  Which values of the flag the caches held makes no other difference.
VerdictExplained ==
    HasEvaluation =>
      /\ row.code \in Verdicts =>
           \/ Evaluations(row)[CheckOf(row.code)] = "fail"
           \/ /\ row.code = "MISSING_FIELDS"
              /\ \/ "changed before the answer" \in excuses
                 \/ row.told.missing \cap row.fields = {}
      /\ row.code = "SUCCESS" =>
           \A key \in Checks :
               Evaluations(row)[key] = "fail" =>
                   \/ key = "blurDetection"
                   \/ /\ key = "missingFields"
                      /\ excuses \cap {"changed before the answer",
                                       "rule unread", "flag off"} # {}

\* A reader who asks for the extracted data is given the code and the missing
\* fields of the stored answer, although each process keeps the flag in a cache
\* of its own: unless the rule or the flag changed after it, the flag had been
\* switched less than five minutes before it, or a read failed.  And a terminal
\* document is answered as finished, with the code of its record, unless its
\* status is one the answer table does not have.
AnswersAgree ==
    /\ answer # NoAnswer =>
         \/ answer = row.told
         \/ excuses \cap {"changed after the answer", "switched lately", "rule unread",
                          "flag unread", "output unread"} # {}
    /\ stage = "published" =>
         \/ row.told.final /\ row.told.code = row.code
         \/ row.status \in Untold /\ ~row.told.final

\* The metrics event is queued before the answer is computed, so it can carry
\* another code than the record; but only for a document that was extracted,
\* and never the code of a refusal for one that was answered with SUCCESS.
EventCode ==
    stage = "published" /\ row.event # row.code =>
        /\ row.status \in {"success", "no_custom_blueprint_matched"}
        /\ row.event \in {"SUCCESS", "NO_BLUEPRINT_MATCHED"}
        /\ row.code \in ExtractionTier

\* The list of response codes says of 000: "Document processed successfully.
\* All required fields extracted."
SuccessMeansComplete ==
    stage = "published" /\ row.code = "SUCCESS" /\ excuses = {} =>
        rule.required \subseteq row.fields \ (row.empty \cup row.unlocated)
==============================================================================
