------------------------- MODULE DocumentLifecycle -------------------------
(***************************************************************************)
(* The life of a document record from upload to its final status, as the   *)
(* programs that share the document-metadata table drive it:               *)
(*                                                                         *)
(*   - the document processor lambda (jobs/document_processor), started by *)
(*     an S3 event: read, pre-extraction gate, upsert, re-read, claim,     *)
(*     Textract or BDA;                                                    *)
(*   - the BDA result processor lambda (jobs/bda_result_processor),        *)
(*     started by the S3 event of a BDA output;                            *)
(*   - the document reaper, a scheduled job (jobs/document_reaper);        *)
(*   - the API: an upload that fails (pipeline/uploads.py), a client that  *)
(*     waits for a result (pipeline/jobs.py) and DELETE                    *)
(*     /v1/documents/{job_id} (routers/documents.py).                      *)
(*                                                                         *)
(* An action is the code between two remote calls, with the call that ends *)
(* it: each read or write of DynamoDB is atomic and nothing else is, so    *)
(* lambdas interleave between any two of their calls.  An event is         *)
(* delivered at least once, and again when its lambda raises or dies.      *)
(***************************************************************************)
EXTENDS Naturals, FiniteSets, ProcessStatus

CONSTANTS
    Docs,           \* keys of document records; also their upload events
    Jobs,           \* ids of BDA invocations; also their output events
    Invs,           \* execution environments of the lambdas and the API
    NoDoc, NoJob,
    Traits,         \* what is fixed about each document: see TraitNames
    GateVerdicts,   \* terminal statuses the gate gives an unlocked document
    SkipVerdicts,   \* ways _invoke_bda_path ends without a BDA job
    MaxActive,      \* bound: documents that are uploaded or grow old
    MaxDeliveries,  \* bound: times an event is handed to a lambda
    MaxFaults,      \* bound: crashes and failed remote calls, in all
    MaxAttempts     \* MAX_BDA_INVOKE_RETRY_ATTEMPTS

TraitNames ==
    {"presigned",   \* record inserted as pending_upload by POST /presigned
     "image",       \* FileValidation.GRAYSCALE_CONVERTIBLE content
     "identity",    \* preclassification may call it an identity document
     "locked",      \* password protected
     "foreign",     \* content that is not BDA native
     "orphan",      \* put in the bucket without a record: it has no tenant
     "batch",       \* has a batchId
     "waited",      \* its client polls for the result (poll_for_completion)
     "compare",     \* isCompare: upsert_ddb created the per-method maps
     "slow",        \* may outlive PROCESSING_REAPER_STALE_THRESHOLD_HOURS
     "repeated"}    \* its events may be delivered again without a failure

Events == Docs \cup Jobs

\* Verdicts of the gate that increment the batch counter before the upsert.
CreditedEarly == {"password_protected", "processing_excluded"}

AllGateVerdicts ==
    {"processing_excluded", "no_document_detected", "blurry_document_detected",
     "multiple_documents_single_page", "multiple_documents_in_multipage",
     "blueprint_disabled"}

\* Verdicts that follow a preclassification, whose category is stored.
Preclassified ==
    {"multiple_documents_single_page", "multiple_documents_in_multipage",
     "blueprint_disabled"}

AllSkipVerdicts ==
    {"not_implemented", "excluded_per_preclassification",
     "no_custom_blueprint_matched"}

ASSUME ConstantsAssumption ==
    /\ Docs \cap Jobs = {}
    /\ NoDoc \notin Events
    /\ NoJob \notin Events
    /\ Traits \in [Docs -> SUBSET TraitNames]
    /\ GateVerdicts \subseteq AllGateVerdicts
    /\ SkipVerdicts \subseteq AllSkipVerdicts
    /\ MaxActive \in Nat
    /\ MaxDeliveries \in Nat
    /\ MaxFaults \in Nat
    /\ MaxAttempts \in Nat \ {0}

Is(d, trait) == trait \in Traits[d]

VARIABLES
    rec,          \* document-metadata table: the attributes control reads
    inv,          \* the invocation each lambda environment is running
    job,          \* BDA's side of each job
    queued,       \* events waiting for a lambda
    redeliveries, \* deliveries of each event still allowed by the bound
    aged,         \* createdAt is past the reaper's cutoff
    reaper,       \* the running sweep: rows still to visit, owed increment
    deleting,     \* documents a DELETE request is between read and write on
    faults,       \* crashes and failed calls so far
    hist          \* history of each document; no action reads it

vars == <<rec, inv, job, queued, redeliveries, aged, reaper, deleting,
          faults, hist>>

-----------------------------------------------------------------------------
(* State *)

\* The classifications that pass an extraction_method to
\* _write_terminal_status, which then writes the per-method response.
PerMethod == {"success", "no_document_detected", "no_custom_blueprint_matched"}

\* classify_as_not_implemented records its document as SUCCESS.
Recorded(class) == IF class = "not_implemented" THEN "success" ELSE class

\* BDA's final states, and those for which it writes job_metadata.json.
Output == {"matched", "unmatched", "blank", "garbled"}
Ended == Output \cup {"failed"}

\* What the result processor makes of an output; "garbled" raises instead.
Verdict(state) ==
    CASE state = "matched"   -> "success"
      [] state = "unmatched" -> "no_custom_blueprint_matched"
      [] OTHER               -> "no_document_detected"

PassedUnlisted(d) ==
    IF Is(d, "image") THEN "pending_optimization" ELSE "not_started"

\* The status the gate gives a document it lets through.
Passed(d) ==
    IF Is(d, "image") THEN "pending_image_optimization" ELSE "not_started"

PCs == {"idle", "gate", "precredit", "upsert", "finalize", "reread",
        "dispatch", "claim", "extract", "bda", "invoke", "record", "handler",
        "classify", "v1", "credit", "method"}

\* Where control goes after a terminal write: return, raise to the handler
\* (invoke_bda after its last attempt), Textract's try block, the handler,
\* or an API request, which no event started.
Contexts == {"main", "giveup", "textract", "handler", "api"}

Idle == [pc |-> "idle", event |-> NoDoc, doc |-> NoDoc, seen |-> NoStatus,
         categorized |-> FALSE, identity |-> FALSE, class |-> NoStatus,
         ctx |-> "main", job |-> NoJob, attempts |-> 0]

Record == [status : Status \cup {NoStatus}, categorized : BOOLEAN,
           job : Jobs \cup {NoJob}, v1 : BOOLEAN]

Invocation ==
    [pc : PCs, event : Events \cup {NoDoc}, doc : Docs \cup {NoDoc},
     seen : Status \cup {NoStatus}, categorized : BOOLEAN, identity : BOOLEAN,
     class : Status \cup {NoStatus}, ctx : Contexts, job : Jobs \cup {NoJob},
     attempts : Nat]

History == [claims : Nat,    \* claims granted since the gate last reopened it
            landed : Nat,    \* terminal writes whose condition held
            credited : Nat,  \* batch increments that followed one of those
            early : Nat,     \* batch increments made before the upsert
            textract : BOOLEAN] \* a Textract result was recorded

TypeOK ==
    /\ rec \in [Docs -> Record]
    /\ inv \in [Invs -> Invocation]
    /\ \A i \in Invs : inv[i].pc # "idle" =>
          /\ inv[i].event \in Events
          /\ inv[i].pc # "handler" => inv[i].doc \in Docs
    /\ job \in [Jobs -> [state : {"free", "running"} \cup Ended,
                         doc : Docs \cup {NoDoc}]]
    /\ queued \in [Events -> Nat]
    /\ redeliveries \in [Events -> 0..MaxDeliveries]
    /\ aged \in [Docs -> BOOLEAN]
    /\ reaper \in [todo : SUBSET [doc : Docs, job : Jobs \cup {NoJob}],
                   owes : Docs \cup {NoDoc}]
    /\ deleting \subseteq Docs
    /\ faults \in 0..MaxFaults
    /\ hist \in [Docs -> History]

\* insert_minimal_ddb_record ran before the file reached S3, except for an
\* orphan, which the processor sees first.
Init ==
    /\ rec = [d \in Docs |->
                [status |-> IF Is(d, "orphan") THEN NoStatus
                            ELSE IF Is(d, "presigned") THEN "pending_upload"
                            ELSE "not_started",
                 categorized |-> FALSE, job |-> NoJob, v1 |-> FALSE]]
    /\ inv = [i \in Invs |-> Idle]
    /\ job = [j \in Jobs |-> [state |-> "free", doc |-> NoDoc]]
    /\ queued = [e \in Events |-> 0]
    /\ redeliveries = [e \in Events |-> MaxDeliveries]
    /\ aged = [d \in Docs |-> FALSE]
    /\ reaper = [todo |-> {}, owes |-> NoDoc]
    /\ deleting = {}
    /\ faults = 0
    /\ hist = [d \in Docs |-> [claims |-> 0, landed |-> 0, credited |-> 0,
                               early |-> 0, textract |-> FALSE]]

-----------------------------------------------------------------------------
(* Control flow shared by the two lambdas *)

Goto(i, pc) == inv' = [inv EXCEPT ![i].pc = pc]

\* Start a classify_as_* call: `class` is to be written.
Classify(i, class) ==
    inv' = [inv EXCEPT ![i].pc = "classify", ![i].class = class]

Finish(i) == inv' = [inv EXCEPT ![i] = Idle] /\ UNCHANGED <<queued, redeliveries>>

\* The invocation failed: the platform delivers the event again, until its
\* attempts run out and it goes to the dead-letter queue.
Fail(i) ==
    LET e == inv[i].event IN
    /\ inv' = [inv EXCEPT ![i] = Idle]
    /\ IF inv[i].ctx # "api" /\ redeliveries[e] > 0
       THEN /\ queued' = [queued EXCEPT ![e] = @ + 1]
            /\ redeliveries' = [redeliveries EXCEPT ![e] = @ - 1]
       ELSE UNCHANGED <<queued, redeliveries>>

EnterHandler(i) ==
    /\ inv' = [inv EXCEPT ![i].pc = "handler", ![i].ctx = "handler"]
    /\ UNCHANGED <<queued, redeliveries>>

\* A terminal write returned.
Return(i) ==
    \/ inv[i].ctx \in {"main", "textract", "api"} /\ Finish(i)
    \/ inv[i].ctx = "giveup" /\ EnterHandler(i)
    \/ inv[i].ctx = "handler" /\ Fail(i)

\* An exception: Textract's are swallowed and the document goes on to BDA,
\* the handler's own are logged and the first one is raised again.
Throw(i) ==
    \/ inv[i].ctx \in {"main", "giveup"} /\ EnterHandler(i)
    \/ /\ inv[i].ctx = "textract"
       /\ inv' = [inv EXCEPT ![i].pc = "bda", ![i].ctx = "main"]
       /\ UNCHANGED <<queued, redeliveries>>
    \/ inv[i].ctx \in {"handler", "api"} /\ Fail(i)

Fault == faults < MaxFaults /\ faults' = faults + 1

\* increment_resolved_count, when the document belongs to a batch.
Counted(d, field) ==
    IF Is(d, "batch") THEN [hist EXCEPT ![d][field] = @ + 1] ELSE hist

At(i, pc) == inv[i].pc = pc

-----------------------------------------------------------------------------
(* The document processor *)

\* The bound on active documents leaves the others as they were inserted.
Uploaded(d) == redeliveries[d] < MaxDeliveries

MayAct(d) ==
    LET active == {a \in Docs : Uploaded(a) \/ aged[a]}
    IN d \in active \/ Cardinality(active) < MaxActive

\* EventBridge may deliver twice, and a client may PUT again through a
\* presigned URL that has not expired.
Repeated(e) ==
    \E d \in Docs : Is(d, "repeated") /\ (e = d \/ (e \in Jobs /\ job[e].doc = d))

\* S3 reports an object: the uploaded file, or the output of a BDA job.
Emit(e) ==
    /\ redeliveries[e] > 0
    /\ redeliveries[e] = MaxDeliveries \/ Repeated(e)
    /\ e \in Docs => MayAct(e)
    /\ e \in Jobs => job[e].state \in Output
    /\ queued' = [queued EXCEPT ![e] = @ + 1]
    /\ redeliveries' = [redeliveries EXCEPT ![e] = @ - 1]
    /\ UNCHANGED <<rec, inv, job, aged, reaper, deleting, faults, hist>>

NeedsPreclassificationAnyStatus(r) == r.status = NoStatus \/ ~r.categorized

NeedsPreclassification(r) ==
    \/ r.status = NoStatus
    \/ r.status \in AwaitingProcessing /\ ~r.categorized

\* main: read the record and decide whether preclassification is needed.
Receive(i, d) ==
    /\ At(i, "idle")
    /\ queued[d] > 0
    /\ inv' = [inv EXCEPT ![i] =
         [Idle EXCEPT !.pc = IF NeedsPreclassification(rec[d]) THEN "gate"
                                                               ELSE "dispatch",
                      !.event = d, !.doc = d, !.seen = rec[d].status]]
    /\ queued' = [queued EXCEPT ![d] = @ - 1]
    /\ UNCHANGED <<rec, job, redeliveries, aged, reaper, deleting, faults, hist>>

\* upsert_initial_ddb_record up to its first write.  A document that passes
\* keeps no category when preclassify_document raised.
Gate(i) ==
    /\ At(i, "gate")
    /\ LET d == inv[i].doc IN
       \/ /\ ~Is(d, "locked")
          /\ \E c \in BOOLEAN, id \in BOOLEAN :
               /\ id => c /\ Is(d, "identity")
               /\ inv' = [inv EXCEPT ![i].pc = "upsert", ![i].class = Passed(d),
                                     ![i].categorized = c, ![i].identity = id]
       \/ \E v \in IF Is(d, "locked") THEN {"password_protected"} ELSE GateVerdicts :
             inv' = [inv EXCEPT ![i].class = v,
                       ![i].categorized = v \in Preclassified,
                       ![i].pc = IF v \in CreditedEarly THEN "precredit"
                                                        ELSE "upsert"]
    /\ UNCHANGED <<rec, job, queued, redeliveries, aged, reaper, deleting,
                   faults, hist>>

\* The batch increment for a locked or unsampled document comes first.
PreCredit(i) ==
    /\ At(i, "precredit")
    /\ hist' = Counted(inv[i].doc, "early")
    /\ Goto(i, "upsert")
    /\ UNCHANGED <<rec, job, queued, redeliveries, aged, reaper, deleting, faults>>

\* upsert_ddb: no condition, so it replaces whatever status is there.  An
\* attribute it does not mention (category, job) stays.
Upsert(i) ==
    /\ At(i, "upsert")
    /\ LET d == inv[i].doc
           passed == inv[i].class \in PendingExtraction
       IN /\ rec' = [rec EXCEPT ![d].status = inv[i].class,
                                ![d].categorized = @ \/ inv[i].categorized]
          /\ hist' = IF passed THEN [hist EXCEPT ![d].claims = 0] ELSE hist
          /\ Goto(i, IF passed THEN "reread" ELSE "finalize")
    /\ UNCHANGED <<job, queued, redeliveries, aged, reaper, deleting, faults>>

FinalizeGateForgotten(i) ==
    /\ At(i, "finalize")
    /\ Goto(i, "reread")
    /\ UNCHANGED <<rec, job, queued, redeliveries, aged, reaper, deleting,
                   faults, hist>>

\* finalize_v1_response for a document the gate ended.
FinalizeGate(i) ==
    /\ At(i, "finalize")
    /\ rec' = [rec EXCEPT ![inv[i].doc].v1 = TRUE]
    /\ Goto(i, "reread")
    /\ UNCHANGED <<job, queued, redeliveries, aged, reaper, deleting, faults, hist>>

\* _preclassify reads the record again; main acts on this status.
Reread(i) ==
    /\ At(i, "reread")
    /\ inv' = [inv EXCEPT ![i].pc = "dispatch", ![i].seen = rec[inv[i].doc].status]
    /\ UNCHANGED <<rec, job, queued, redeliveries, aged, reaper, deleting,
                   faults, hist>>

InvalidIgnoringTenant(d) == Is(d, "foreign")

\* validate_s3_object_is_bda_native failed, or the record has no tenant.
Invalid(d) == Is(d, "foreign") \/ Is(d, "orphan")

\* _dispatch_document_processor up to the claim.
Dispatch(i) ==
    /\ At(i, "dispatch")
    /\ LET d == inv[i].doc
           open == inv[i].seen \in PendingExtraction \cup AwaitingProcessing
       IN \/ ~open /\ Finish(i)
          \/ /\ open /\ Invalid(d)
             /\ Classify(i, "failed") /\ UNCHANGED <<queued, redeliveries>>
          \/ /\ open /\ ~Invalid(d)
             /\ Goto(i, "claim") /\ UNCHANGED <<queued, redeliveries>>
    /\ UNCHANGED <<rec, job, aged, reaper, deleting, faults, hist>>

ClaimHoldsAlways(i) == TRUE

\* The condition processStatus = :expected.
ClaimHolds(i) == rec[inv[i].doc].status = inv[i].seen

\* set_processing_status_started: started, if the status is the one seen.
Claim(i) ==
    /\ At(i, "claim")
    /\ LET d == inv[i].doc IN
       \/ /\ ClaimHolds(i)
          /\ rec' = [rec EXCEPT ![d].status = "started"]
          /\ hist' = [hist EXCEPT ![d].claims = @ + 1]
          /\ Goto(i, "extract") /\ UNCHANGED <<queued, redeliveries>>
       \/ /\ ~ClaimHolds(i)
          /\ Finish(i) /\ UNCHANGED <<rec, hist>>
    /\ UNCHANGED <<job, aged, reaper, deleting, faults>>

\* _invoke_textract_if_identity_path: a result to record, or on to BDA.
Extract(i) ==
    /\ At(i, "extract")
    /\ \/ /\ inv[i].identity
          /\ inv' = [inv EXCEPT ![i].pc = "classify", ![i].class = "success",
                                ![i].ctx = "textract"]
       \/ Goto(i, "bda")
    /\ UNCHANGED <<rec, job, queued, redeliveries, aged, reaper, deleting,
                   faults, hist>>

\* _invoke_bda_path: an optimized image that is still too large, and a
\* document no BDA project would match, end here.
BdaPath(i) ==
    /\ At(i, "bda")
    /\ \/ Goto(i, "invoke")
       \/ \E v \in SkipVerdicts :
             /\ v = "not_implemented" => inv[i].seen = "pending_image_optimization"
             /\ Classify(i, v)
    /\ UNCHANGED <<rec, job, queued, redeliveries, aged, reaper, deleting,
                   faults, hist>>

\* invoke_bedrock_data_automation: BDA accepts a job.
Invoke(i, j) ==
    /\ At(i, "invoke")
    /\ job[j].state = "free"
    /\ job' = [job EXCEPT ![j] = [state |-> "running", doc |-> inv[i].doc]]
    /\ inv' = [inv EXCEPT ![i].pc = "record", ![i].job = j]
    /\ UNCHANGED <<rec, queued, redeliveries, aged, reaper, deleting, faults, hist>>

RecordJobWithoutId(i) ==
    /\ At(i, "record")
    /\ rec' = [rec EXCEPT ![inv[i].doc].status = "started"]
    /\ Finish(i)
    /\ UNCHANGED <<job, aged, reaper, deleting, faults, hist>>

\* set_bda_processing_status_started: no condition either.
RecordJob(i) ==
    /\ At(i, "record")
    /\ rec' = [rec EXCEPT ![inv[i].doc].status = "started",
                          ![inv[i].doc].job = inv[i].job]
    /\ Finish(i)
    /\ UNCHANGED <<job, aged, reaper, deleting, faults, hist>>

\* A retryable error in either call of _invoke_bda's loop: the whole body
\* runs again, a new job included, and after the last attempt invoke_bda
\* classifies the document and raises.
Throttled(i) ==
    /\ At(i, "invoke") \/ At(i, "record")
    /\ Fault
    /\ IF inv[i].attempts + 1 < MaxAttempts
       THEN inv' = [inv EXCEPT ![i].pc = "invoke", ![i].attempts = @ + 1]
       ELSE inv' = [inv EXCEPT ![i].pc = "classify", ![i].class = "failed",
                               ![i].ctx = "giveup"]
    /\ UNCHANGED <<rec, job, queued, redeliveries, aged, reaper, deleting, hist>>

-----------------------------------------------------------------------------
(* BDA and its result processor *)

EndJob(j) ==
    /\ job[j].state = "running"
    /\ \E s \in Ended : job' = [job EXCEPT ![j].state = s]
    /\ UNCHANGED <<rec, inv, queued, redeliveries, aged, reaper, deleting,
                   faults, hist>>

\* get_ddb_record_from_bda_output: the record the invocation id leads to.
Finds(j, d) == rec[d].job = j

\* process_bda_result: look the invocation id up in the index, then read the
\* output.  An id no record holds, or an unreadable output, raises.
ReceiveResult(i, j) ==
    /\ At(i, "idle")
    /\ queued[j] > 0
    /\ queued' = [queued EXCEPT ![j] = @ - 1]
    /\ LET start == [Idle EXCEPT !.event = j] IN
       \/ /\ \A d \in Docs : ~Finds(j, d)
          /\ inv' = [inv EXCEPT ![i] = [start EXCEPT !.pc = "handler",
                                                     !.ctx = "handler"]]
       \/ \E d \in Docs :
             /\ Finds(j, d)
             /\ inv' = [inv EXCEPT ![i] =
                   IF job[j].state = "garbled"
                   THEN [start EXCEPT !.pc = "handler", !.ctx = "handler", !.doc = d]
                   ELSE [start EXCEPT !.pc = "classify", !.doc = d,
                                      !.class = Verdict(job[j].state)]]
    /\ UNCHANGED <<rec, job, redeliveries, aged, reaper, deleting, faults, hist>>

-----------------------------------------------------------------------------
(* Both lambdas: the handler's catch-all and _write_terminal_status *)

\* The document processor knows its document.  The result processor looks its
\* job up once more, and re-raises when the record is still not found.
Handler(i) ==
    /\ At(i, "handler")
    /\ LET e == inv[i].event IN
       \/ e \in Docs /\ Classify(i, "failed") /\ UNCHANGED <<queued, redeliveries>>
       \/ /\ e \in Jobs
          /\ \E d \in Docs :
                /\ Finds(e, d)
                /\ inv' = [inv EXCEPT ![i].pc = "classify", ![i].doc = d,
                                      ![i].class = "failed"]
          /\ UNCHANGED <<queued, redeliveries>>
       \/ /\ e \in Jobs
          /\ \A d \in Docs : ~Finds(e, d)
          /\ Fail(i)
    /\ UNCHANGED <<rec, job, aged, reaper, deleting, faults, hist>>

SkipButCount(i) == Goto(i, "credit") /\ UNCHANGED <<queued, redeliveries>>

\* The record is terminal already: return, and do nothing that follows.
Skip(i) == Return(i)

\* The conditional status write.
WriteTerminal(i) ==
    /\ At(i, "classify")
    /\ LET d == inv[i].doc IN
       \/ /\ MayBecomeTerminal(rec[d].status)
          /\ rec' = [rec EXCEPT ![d].status = Recorded(inv[i].class)]
          /\ hist' = [hist EXCEPT ![d].landed = @ + 1,
                                  ![d].textract = @ \/ inv[i].ctx = "textract"]
          /\ Goto(i, "v1") /\ UNCHANGED <<queued, redeliveries>>
       \/ /\ ~MayBecomeTerminal(rec[d].status)
          /\ Skip(i) /\ UNCHANGED <<rec, hist>>
    /\ UNCHANGED <<job, aged, reaper, deleting, faults>>

\* finalize_v1_response.
WriteV1(i) ==
    /\ At(i, "v1")
    /\ rec' = [rec EXCEPT ![inv[i].doc].v1 = TRUE]
    /\ Goto(i, "credit")
    /\ UNCHANGED <<job, queued, redeliveries, aged, reaper, deleting, faults, hist>>

Credit(i) ==
    /\ At(i, "credit")
    /\ hist' = Counted(inv[i].doc, "credited")
    /\ \/ inv[i].class \in PerMethod /\ Goto(i, "method")
          /\ UNCHANGED <<queued, redeliveries>>
       \/ inv[i].class \notin PerMethod /\ Return(i)
    /\ UNCHANGED <<rec, job, aged, reaper, deleting, faults>>

\* write_extract_method_response: SET apiResponsesByMethod.#method is a
\* validation error unless upsert_ddb created the map (isCompare).
MethodResponse(i) ==
    /\ At(i, "method")
    /\ \/ Is(inv[i].doc, "compare") /\ Return(i)
       \/ ~Is(inv[i].doc, "compare") /\ Throw(i)
    /\ UNCHANGED <<rec, job, aged, reaper, deleting, faults, hist>>

\* Any other remote call of an invocation raises.
Raise(i) ==
    /\ inv[i].pc \notin {"idle", "precredit", "credit"}
    /\ Fault
    /\ Throw(i)
    /\ UNCHANGED <<rec, job, aged, reaper, deleting, hist>>

\* The lambda is killed (time limit, memory) between two calls.
Crash(i) ==
    /\ ~At(i, "idle")
    /\ Fault
    /\ Fail(i)
    /\ UNCHANGED <<rec, job, aged, reaper, deleting, hist>>

-----------------------------------------------------------------------------
(* The reaper *)

Age(d) ==
    /\ Is(d, "slow") /\ ~aged[d] /\ MayAct(d)
    /\ rec[d].status # NoStatus
    /\ aged' = [aged EXCEPT ![d] = TRUE]
    /\ UNCHANGED <<rec, inv, job, queued, redeliveries, reaper, deleting,
                   faults, hist>>

Stale == {d \in Docs : aged[d] /\ rec[d].status \in NonTerminal}

\* _find_stale_records: the rows are read here and acted on later.
Sweep ==
    /\ reaper.todo = {} /\ reaper.owes = NoDoc
    /\ Stale # {}
    /\ reaper' = [reaper EXCEPT !.todo = {[doc |-> d, job |-> rec[d].job] : d \in Stale}]
    /\ UNCHANGED <<rec, inv, job, queued, redeliveries, aged, deleting, faults, hist>>

\* _mark_terminal: conditional; the increment is owed only if it applied.
Mark(row, status) ==
    LET d == row.doc IN
    IF MayBecomeTerminal(rec[d].status)
    THEN /\ rec' = [rec EXCEPT ![d].status = status]
         /\ hist' = [hist EXCEPT ![d].landed = @ + 1]
         /\ reaper' = [todo |-> reaper.todo \ {row}, owes |-> d]
    ELSE /\ reaper' = [reaper EXCEPT !.todo = @ \ {row}]
         /\ UNCHANGED <<rec, hist>>

\* _process_stale_record: by what BDA says of the job in the row as it was
\* read; a row without one, or whose status call fails, is timed out.
Reap(row) ==
    /\ row \in reaper.todo /\ reaper.owes = NoDoc
    /\ \/ /\ row.job = NoJob
          /\ Mark(row, "timed_out") /\ UNCHANGED faults
       \/ /\ row.job # NoJob
          /\ Mark(row, "timed_out") /\ Fault
       \/ /\ row.job # NoJob /\ job[row.job].state \in Ended
          /\ Mark(row, "failed") /\ UNCHANGED faults
       \/ /\ row.job # NoJob /\ job[row.job].state = "running"
          /\ reaper' = [reaper EXCEPT !.todo = @ \ {row}]
          /\ UNCHANGED <<rec, hist, faults>>
    /\ UNCHANGED <<inv, job, queued, redeliveries, aged, deleting>>

ReaperCredit ==
    /\ reaper.owes # NoDoc
    /\ hist' = Counted(reaper.owes, "credited")
    /\ reaper' = [reaper EXCEPT !.owes = NoDoc]
    /\ UNCHANGED <<rec, inv, job, queued, redeliveries, aged, deleting, faults>>

ReaperCrash ==
    /\ reaper.todo # {} \/ reaper.owes # NoDoc
    /\ Fault
    /\ reaper' = [todo |-> {}, owes |-> NoDoc]
    /\ UNCHANGED <<rec, inv, job, queued, redeliveries, aged, deleting, hist>>

-----------------------------------------------------------------------------
(* The API *)

\* dispatch_upload, _process_batch_files: the file cannot be converted or S3
\* refuses it, so no event will follow.
UploadFails(i, d) ==
    /\ At(i, "idle")
    /\ ~Is(d, "orphan") /\ ~Is(d, "presigned")
    /\ redeliveries[d] = MaxDeliveries /\ MaxDeliveries > 0 /\ MayAct(d)
    /\ \E class \in {"conversion_failed", "failed"} :
          inv' = [inv EXCEPT ![i] = [Idle EXCEPT !.pc = "classify", !.event = d,
                              !.doc = d, !.class = class, !.ctx = "api"]]
    /\ redeliveries' = [redeliveries EXCEPT ![d] = 0]
    /\ UNCHANGED <<rec, job, queued, aged, reaper, deleting, faults, hist>>

\* poll_for_completion: at the last poll there was no result, and the
\* document is classified as failed.
WaitTimesOut(i, d) ==
    /\ At(i, "idle")
    /\ Is(d, "waited") /\ Uploaded(d)
    /\ ~(rec[d].status \in Classified /\ rec[d].v1)
    /\ inv' = [inv EXCEPT ![i] = [Idle EXCEPT !.pc = "classify", !.event = d,
                            !.doc = d, !.class = "failed", !.ctx = "api"]]
    /\ UNCHANGED <<rec, job, queued, redeliveries, aged, reaper, deleting,
                   faults, hist>>

\* DELETE /v1/documents/{job_id} checks the status it read ...
BeginDelete(d) ==
    /\ d \notin deleting
    /\ rec[d].status \in Classified \ {"deleted"}
    /\ deleting' = deleting \cup {d}
    /\ UNCHANGED <<rec, inv, job, queued, redeliveries, aged, reaper, faults, hist>>

\* ... and mark_document_deleted is unconditional.  A purge of the S3 copies
\* that fails leaves the record alone.
EndDelete(d) ==
    /\ d \in deleting
    /\ \/ rec' = [rec EXCEPT ![d].status = "deleted"] /\ UNCHANGED faults
       \/ Fault /\ UNCHANGED rec
    /\ deleting' = deleting \ {d}
    /\ UNCHANGED <<inv, job, queued, redeliveries, aged, reaper, hist>>

-----------------------------------------------------------------------------
(* Specification *)

\* What a running invocation does when no call fails.
Advance(i) ==
    \/ Gate(i) \/ PreCredit(i) \/ Upsert(i) \/ FinalizeGate(i) \/ Reread(i)
    \/ Dispatch(i) \/ Claim(i) \/ Extract(i) \/ BdaPath(i)
    \/ \E j \in Jobs : Invoke(i, j)
    \/ RecordJob(i) \/ Handler(i) \/ WriteTerminal(i) \/ WriteV1(i)
    \/ Credit(i) \/ MethodResponse(i)

Lambda(i) ==
    \/ \E d \in Docs : Receive(i, d)
    \/ \E j \in Jobs : ReceiveResult(i, j)
    \/ \E d \in Docs : UploadFails(i, d) \/ WaitTimesOut(i, d)
    \/ Advance(i) \/ Throttled(i) \/ Raise(i) \/ Crash(i)

Reaper == Sweep \/ (\E row \in reaper.todo : Reap(row)) \/ ReaperCredit

Next ==
    \/ \E e \in Events : Emit(e)
    \/ \E i \in Invs : Lambda(i)
    \/ \E j \in Jobs : EndJob(j)
    \/ Reaper \/ ReaperCrash
    \/ \E d \in Docs : Age(d) \/ BeginDelete(d) \/ EndDelete(d)

Spec == Init /\ [][Next]_vars

\* A lambda that is running goes on, a BDA job ends, time passes, the
\* schedule starts the reaper again and again.  Nothing says that an upload
\* arrives, nor that an event is delivered.
Fairness ==
    /\ \A i \in Invs : WF_vars(Advance(i))
    /\ \A j \in Jobs : WF_vars(EndJob(j))
    /\ \A d \in Docs : WF_vars(Age(d)) /\ WF_vars(EndDelete(d))
    /\ WF_vars(Reaper)

FairSpec == Spec /\ Fairness

-----------------------------------------------------------------------------
(* Properties *)

JobsOf(d) == {j \in Jobs : job[j].doc = d}

\* Nobody is working on d: no invocation holds it, no increment is owed.
Quiet(d) == reaper.owes # d /\ \A i \in Invs : inv[i].doc # d

\* set_processing_status_started grants a document to one invocation only:
\* after a claim nobody gets another one until a gate writes the record as
\* pending again.  The claim compares the status with what was read, and no
\* other write may lead back to a status that some invocation has read.
ClaimExclusive == \A d \in Docs : hist[d].claims <= 1

\* _write_terminal_status and _mark_and_increment: every batch increment they
\* make is paid for by a terminal write that landed, whatever is retried,
\* crashes or overlaps with the reaper.
CreditsFollowWrites == \A d \in Docs : hist[d].credited <= hist[d].landed

\* Once all invocations for a classified document have returned, its v1
\* response is there for poll_for_completion and GET /v1/documents to return,
\* as long as no call failed and the reaper had no reason to step in.
ResultPublished ==
    faults = 0 =>
        \A d \in Docs :
            Quiet(d) /\ ~aged[d] /\ rec[d].status \in Classified => rec[d].v1

\* The gate increments no batch for the other documents it ends, which may
\* then be deleted.
Heard == Classified \ ({"deleted"} \cup (AllGateVerdicts \ CreditedEarly))

\* Only two engines, two overlapping deliveries, a client that gave up waiting
\* and the reaper make two invocations or more classify a document.
Undisturbed(d) ==
    /\ ~Is(d, "repeated") /\ ~Is(d, "waited") /\ ~aged[d]
    /\ Is(d, "identity") => Is(d, "compare")

\* A batch hears of each of those documents exactly once, whether the
\* processor, the result processor or a handler classified it, as long as no
\* call failed.
CountedExactlyOnce ==
    faults = 0 =>
      \A d \in Docs :
        Quiet(d) /\ Undisturbed(d) /\ Is(d, "batch") /\ rec[d].status \in Heard =>
            hist[d].credited + hist[d].early = 1

\* The result of every job BDA accepted can be traced back to its document:
\* get_ddb_record_from_bda_output finds the record by the id it holds, as
\* long as no call failed and the upload was not delivered twice.
JobsAreFindable ==
    faults = 0 =>
      \A d \in Docs, j \in Jobs :
        job[j].doc = d /\ ~Is(d, "repeated") =>
            \/ rec[d].job = j
            \/ \E i \in Invs : inv[i].pc = "record" /\ inv[i].job = j

\* A locked, non-native or tenantless document is never claimed, so it never
\* reaches Textract or BDA, however often its event comes back and whatever
\* status an earlier invocation left it in.
RefusedNeverExtracted ==
    \A d \in Docs :
        Is(d, "locked") \/ Is(d, "foreign") \/ Is(d, "orphan") =>
            rec[d].status # "started" /\ JobsOf(d) = {} /\ ~hist[d].textract

\* Whatever is lost, duplicated or killed, a document that has a record ends
\* in a final status and stays there: what the lambdas leave unfinished the
\* reaper resolves.  (MayAct: the bound on active documents admits it.)
EventuallyResolved ==
    \A d \in Docs :
        <>[](MayAct(d) => rec[d].status \in Classified \cup {NoStatus})

-----------------------------------------------------------------------------
(* The contract *)

\* Documents whose events are delivered once at a time, that go to one engine
\* only, and that neither the reaper nor an impatient client interferes with.
Calm == {d \in Docs : Traits[d] \cap {"repeated", "identity", "slow", "waited"} = {}}

Phase(status) ==
    CASE status = "started" -> "working"
      [] status = "deleted" -> "deleted"
      [] status \in Classified \ {"deleted"} -> "resolved"
      [] OTHER -> "waiting"

Contract == INSTANCE DocumentContract WITH
    Docs <- Calm,
    Outcomes <- Classified \ {"deleted"},
    phase <- [d \in Calm |-> Phase(rec[d].status)],
    outcome <- [d \in Calm |->
                  IF rec[d].status \in Classified \ {"deleted"}
                  THEN rec[d].status ELSE "undecided"],
    counted <- [d \in Calm |-> hist[d].credited]

\* The processor, BDA and the result processor keep the contract for these
\* documents, whatever happens to the others: crashes, failed calls, retries
\* and DELETE included.
KeepsContract == Contract!Spec

-----------------------------------------------------------------------------
(* What the code's comments and docstrings say, and the runs refute *)

\* document_lifecycle.py: the claim "prevents duplicate processing from
\* concurrent S3-triggered Lambda invocations".
OneJobPerDocument == \A d \in Docs : Cardinality(JobsOf(d)) <= 1

\* document_processor/main.py: "Textract identity and BDA are mutually
\* exclusive": no job for a document whose Textract result was recorded.
EnginesExclusive ==
    \A d \in Docs : ~(hist[d].textract /\ JobsOf(d) # {})
============================================================================
