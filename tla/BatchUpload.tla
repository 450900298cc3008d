---------------------------- MODULE BatchUpload ----------------------------
(***************************************************************************)
(* A batch from POST /v1/documents/batch to its final status:              *)
(*                                                                         *)
(*   - the request (routers/batch.py) inserts, uploads and, on an error,   *)
(*     classifies its files concurrently in one TaskGroup, then opens the  *)
(*     batch for counting;                                                 *)
(*   - whoever classifies a document of the batch increments the resolved  *)
(*     count, and the one that completes it finalizes the batch            *)
(*     (utils/batch_operations.py);                                        *)
(*   - GET /v1/batches/{batch_id} reads the batch and its jobs.            *)
(*                                                                         *)
(* DocumentLifecycle models how a stored document is classified; here that *)
(* is one step (Process, Reap), and the increment that follows is several. *)
(* A lambda may write over a record that has been classified, and what it  *)
(* opens again is classified, and counted, once more (Rewrite).            *)
(* The files' semaphore limits concurrency only and is left out.           *)
(***************************************************************************)
EXTENDS Naturals, FiniteSets, ProcessStatus

CONSTANTS
    Files,         \* the files of the request; also their job records
    Consents,      \* ai_consent_flags that a request may carry
    MayRefuse,     \* files that the quota or the type check may refuse
    MayConvert,    \* files whose conversion may fail
    GateVerdicts,  \* verdicts of the gate that increment no count
    EarlyVerdicts, \* verdicts of the gate that increment it ahead of their record
    Early,         \* files that may get one of those
    Identity,      \* files that Textract may take for identity documents
    Repeated,      \* files whose upload event may come twice
    MaxFaults,     \* bound: crashes and failed remote calls, in all
    MaxRewrites    \* bound: times a classified record is written over

UncountedVerdicts ==
    {"no_document_detected", "blurry_document_detected",
     "multiple_documents_single_page", "multiple_documents_in_multipage",
     "blueprint_disabled"}

ASSUME ConstantsAssumption ==
    /\ IsFiniteSet(Files) /\ Files # {}
    /\ Consents \subseteq BOOLEAN
    /\ MayRefuse \subseteq Files
    /\ MayConvert \subseteq Files
    /\ GateVerdicts \subseteq UncountedVerdicts
    /\ EarlyVerdicts \subseteq {"password_protected", "processing_excluded"}
    /\ EarlyVerdicts # {}
    /\ Early \subseteq Files
    /\ Identity \subseteq Files
    /\ Repeated \subseteq Files
    /\ MaxFaults \in Nat
    /\ MaxRewrites \in Nat

VARIABLES
    consent,   \* ai_consent_flag of the request
    batch,     \* document-batches row: batchStatus and resolvedCount
    request,   \* where the request is
    raised,    \* kinds of exception the request has met
    task,      \* where the task of each file is
    cancelled, \* tasks cancelled while a thread does their call
    stored,    \* files in the input bucket
    gate,      \* what the gate has done of an early verdict on each file
    textract,  \* whether Textract has recorded a result, and its lambda gone on
    late,      \* files a lambda has read as waiting and is yet to write
    status,    \* processStatus of each job record
    rewrites,  \* times each record was written over after it was classified
    count,     \* the increment_resolved_count that follows each classification
    poll,      \* a GET of the batch, and what it last answered
    faults,    \* crashes and failed calls so far
    lost,      \* history: records classified without an increment
    misled     \* history: has a read of the index differed from the records?

lambdas == <<textract, late, rewrites>>

vars == <<consent, gate, batch, request, raised, task, cancelled, stored, status,
          lambdas, count, poll, faults, lost, misled>>

-----------------------------------------------------------------------------
(* State *)

Final == {"completed", "partial", "failed"}
BatchStatus == {"none", "uploading", "processing"} \cup Final

\* The calls that a task has in a thread, which a cancellation does not stop.
Classifying == {"declined", "unconverted", "unstored"}
InThread == Classifying \cup {"insert"}

Counting == {"counting", "counting_unstored"}

Total == Cardinality(Files)

\* A record is classified once, and once more each time it was written over.
Classifications == Files \X (0..MaxRewrites)

\* The next or the latest classification of f.
Now(f) == <<f, rewrites[f]>>

Resolved(f) == status[f] \in Classified

TypeOK ==
    /\ consent \in BOOLEAN
    /\ batch \in [status : BatchStatus, resolved : Nat]
    /\ request \in {"create", "tasks", "publish", "fail", "answered", "dead"}
    /\ raised \subseteq {"http", "other"}
    /\ task \in [Files -> {"none", "admit", "upload", "done"} \cup InThread \cup Counting]
    /\ cancelled \subseteq {f \in Files : task[f] \in InThread}
    /\ stored \subseteq Files
    /\ gate \in [Files -> {"none", "counted", "over"}]
    /\ textract \in [Files -> {"none", "recorded", "over"}]
    /\ late \subseteq Files
    /\ status \in [Files -> Status \cup {NoStatus}]
    /\ rewrites \in [Files -> 0..MaxRewrites]
    /\ count \in [Classifications -> {"idle", "add", "query"} \cup Final]
    /\ poll \in [pc : {"batch", "jobs"}, read : BatchStatus,
                 answer : BatchStatus, open : SUBSET Files]
    /\ faults \in 0..MaxFaults
    /\ lost \subseteq Files
    /\ misled \in BOOLEAN

Init ==
    /\ consent \in Consents
    /\ batch = [status |-> "none", resolved |-> 0]
    /\ request = "create"
    /\ raised = {}
    /\ task = [f \in Files |-> "none"]
    /\ cancelled = {}
    /\ stored = {}
    /\ gate = [f \in Files |-> "none"]
    /\ textract = [f \in Files |-> "none"]
    /\ late = {}
    /\ status = [f \in Files |-> NoStatus]
    /\ rewrites = [f \in Files |-> 0]
    /\ count = [c \in Classifications |-> "idle"]
    /\ poll = [pc |-> "batch", read |-> "none", answer |-> "none", open |-> {}]
    /\ faults = 0
    /\ lost = {}
    /\ misled = FALSE

Fault == faults < MaxFaults /\ faults' = faults + 1

-----------------------------------------------------------------------------
(* The tasks of the request *)

\* The task goes on, even if it was cancelled.
AdvanceAnyway(f, pc) ==
    /\ task' = [task EXCEPT ![f] = pc]
    /\ UNCHANGED cancelled

\* The task goes on, or ends if it was cancelled while its thread worked.
Advance(f, pc) ==
    /\ task' = [task EXCEPT ![f] = IF f \in cancelled THEN "done" ELSE pc]
    /\ cancelled' = cancelled \ {f}

\* The task ends with an exception; nobody listens to a cancelled one.
Raise(f, kind) ==
    /\ Advance(f, "done")
    /\ raised' = IF f \in cancelled THEN raised ELSE raised \cup {kind}

\* increment_and_check and validate_file_type.
Admit(f) ==
    /\ task[f] = "admit"
    /\ \/ Advance(f, "insert") /\ UNCHANGED <<raised, faults>>
       \/ f \in MayRefuse /\ Raise(f, "http") /\ UNCHANGED faults
       \/ Raise(f, "other") /\ Fault
    /\ UNCHANGED <<consent, lambdas, gate, batch, request, stored, status, count, poll,
                   lost, misled>>

\* insert_minimal_ddb_record.
Insert(f) ==
    /\ task[f] = "insert"
    /\ \/ /\ status' = [status EXCEPT ![f] = "not_started"]
          /\ Advance(f, IF consent THEN "upload" ELSE "declined")
          /\ UNCHANGED <<raised, faults>>
       \/ Raise(f, "other") /\ Fault /\ UNCHANGED status
    /\ UNCHANGED <<consent, lambdas, gate, batch, request, stored, count, poll, lost,
                   misled>>

\* upload_document_for_processing: the file is stored, cannot be converted,
\* is not taken by the input bucket, or its original by the other one.
Upload(f) ==
    /\ task[f] = "upload"
    /\ \/ stored' = stored \cup {f} /\ Advance(f, "done") /\ UNCHANGED <<raised, faults>>
       \/ /\ f \in MayConvert /\ Advance(f, "unconverted")
          /\ UNCHANGED <<raised, stored, faults>>
       \/ Fault /\ Advance(f, "unstored") /\ UNCHANGED <<raised, stored>>
       \/ Fault /\ Raise(f, "other") /\ UNCHANGED stored
    /\ UNCHANGED <<consent, lambdas, gate, batch, request, status, count, poll, lost,
                   misled>>

\* Only the documents the lambdas classify are counted.
ResolveUncounted(f, class) ==
    /\ status' = [status EXCEPT ![f] = class]
    /\ count' = IF f \in stored /\ class # "timed_out"
                THEN [count EXCEPT ![Now(f)] = "add"] ELSE count

\* _write_terminal_status: if the write applies, an increment begins.
Resolve(f, class) ==
    IF MayBecomeTerminal(status[f])
    THEN /\ status' = [status EXCEPT ![f] = class]
         /\ count' = [count EXCEPT ![Now(f)] = "add"]
    ELSE UNCHANGED <<status, count>>

\* What a task classifies its file as.
Class == [declined    |-> "ai_consent_declined",
          unconverted |-> "conversion_failed",
          unstored    |-> "failed"]

\* The classify_as_* call of a task; it may fail before or after the write
\* of the status.
Classify(f) ==
    /\ task[f] \in Classifying
    /\ \/ /\ Resolve(f, Class[task[f]])
          /\ Advance(f, IF task[f] = "unstored" THEN "counting_unstored" ELSE "counting")
          /\ UNCHANGED <<raised, faults, lost>>
       \/ Raise(f, "other") /\ Fault /\ UNCHANGED <<status, count, lost>>
       \/ /\ Raise(f, "other") /\ Fault
          /\ MayBecomeTerminal(status[f])
          /\ status' = [status EXCEPT ![f] = Class[task[f]]]
          /\ lost' = lost \cup {f}
          /\ UNCHANGED count
    /\ UNCHANGED <<consent, lambdas, gate, batch, request, stored, poll, misled>>

\* The call returns; a file that was not stored raises its HTTPException on.
Counted(f) ==
    /\ task[f] \in Counting /\ count[Now(f)] = "idle"
    /\ \/ task[f] = "counting" /\ Advance(f, "done") /\ UNCHANGED raised
       \/ task[f] = "counting_unstored" /\ Raise(f, "http")
    /\ UNCHANGED <<consent, lambdas, gate, batch, request, stored, status, count, poll,
                   faults, lost, misled>>

\* The thread of a cancelled task ends with the environment of the request.
ThreadEnds(f) ==
    /\ f \in cancelled
    /\ request \in {"answered", "dead"}
    /\ Advance(f, "done")
    /\ UNCHANGED <<consent, lambdas, gate, batch, request, raised, stored, status, count,
                   poll, faults, lost, misled>>

-----------------------------------------------------------------------------
(* The request *)

\* create_batch, then a task for each file.
Create ==
    /\ request = "create"
    /\ \/ /\ batch' = [batch EXCEPT !.status = "uploading"]
          /\ request' = "tasks"
          /\ task' = [f \in Files |-> "admit"]
          /\ UNCHANGED <<raised, faults>>
       \/ /\ Fault
          /\ request' = "fail" /\ raised' = {"other"}
          /\ UNCHANGED <<batch, task>>
    /\ UNCHANGED <<consent, lambdas, gate, cancelled, stored, status, count, poll, lost,
                   misled>>

\* The TaskGroup cancels the tasks that are left: at once, except for the
\* calls in threads.
Cancel ==
    /\ request = "tasks" /\ raised # {}
    /\ cancelled' = {f \in Files : task[f] \in InThread}
    /\ task' = [f \in Files |-> IF task[f] \in InThread THEN task[f] ELSE "done"]
    /\ request' = IF raised = {"http"} THEN "answered" ELSE "fail"
    /\ UNCHANGED <<consent, lambdas, gate, batch, raised, stored, status, count, poll,
                   faults, lost, misled>>

AllDone ==
    /\ request = "tasks" /\ raised = {}
    /\ \A f \in Files : task[f] = "done"
    /\ request' = "publish"
    /\ UNCHANGED <<consent, lambdas, gate, batch, raised, task, cancelled, stored,
                   status, count, poll, faults, lost, misled>>

\* update_batch_status(PROCESSING), and the response.
Publish ==
    /\ request = "publish"
    /\ \/ /\ batch' = [batch EXCEPT !.status = "processing"]
          /\ request' = "answered"
          /\ UNCHANGED <<raised, faults>>
       \/ /\ Fault
          /\ request' = "fail" /\ raised' = {"other"}
          /\ UNCHANGED batch
    /\ UNCHANGED <<consent, lambdas, gate, task, cancelled, stored, status, count, poll,
                   lost, misled>>

\* except Exception: the batch, if it was created, has failed.
MarkFailed ==
    /\ request = "fail"
    /\ request' = "answered"
    /\ \/ /\ batch' = IF batch.status = "none" THEN batch
                      ELSE [batch EXCEPT !.status = "failed"]
          /\ UNCHANGED faults
       \/ Fault /\ UNCHANGED batch
    /\ UNCHANGED <<consent, lambdas, gate, raised, task, cancelled, stored, status,
                   count, poll, lost, misled>>

\* The environment of the request dies, its threads and increments with it.
Die ==
    /\ request \notin {"answered", "dead"}
    /\ Fault
    /\ request' = "dead"
    /\ task' = [f \in Files |-> "done"]
    /\ cancelled' = {}
    /\ LET cut == {c \in Classifications :
                     task[c[1]] \in Counting /\ c = Now(c[1]) /\ count[c] # "idle"} IN
       /\ count' = [c \in Classifications |-> IF c \in cut THEN "idle" ELSE count[c]]
       /\ lost' = lost \cup {c[1] : c \in cut}
    /\ UNCHANGED <<consent, lambdas, gate, batch, raised, stored, status, poll, misled>>

-----------------------------------------------------------------------------
(* The documents, in the lambdas and the reaper *)

\* A lambda has the event of a stored document that waits.
AtGate(f) == f \in stored /\ status[f] = "not_started" /\ gate[f] # "counted"

\* A stored document is with one of the engines.
AtEngine(f) == f \in stored /\ status[f] = "started" /\ gate[f] # "counted"

\* The lambda of an identity document that Textract has recorded goes on: the
\* document of a batch has no map for the response of a method, and main takes
\* the error for a failure of Textract.
GoesOn(f, class) ==
    /\ class = "success" /\ f \in Identity /\ textract[f] = "none"
    /\ textract' = [textract EXCEPT ![f] = "recorded"]

\* A stored document is extracted, or fails, or the gate ends it, for which
\* it makes no increment.
Process(f) ==
    /\ \/ /\ AtGate(f) \/ AtEngine(f)
          /\ \E class \in {"success", "failed"} :
                Resolve(f, class) /\ (GoesOn(f, class) \/ UNCHANGED textract)
          /\ UNCHANGED lost
       \/ /\ AtGate(f)
          /\ \E v \in GateVerdicts : status' = [status EXCEPT ![f] = v]
          /\ lost' = lost \cup {f}
          /\ UNCHANGED <<count, textract>>
    /\ UNCHANGED <<consent, gate, batch, request, raised, task, cancelled,
                   stored, late, rewrites, poll, faults, misled>>

\* A lambda writes the status without a condition; if the record had been
\* classified, it will be so once more.
Rewrite(f, s) ==
    /\ status' = [status EXCEPT ![f] = s]
    /\ IF Resolved(f)
       THEN /\ rewrites[f] < MaxRewrites
            /\ rewrites' = [rewrites EXCEPT ![f] = @ + 1]
       ELSE UNCHANGED rewrites

\* set_bda_processing_status_started, after Textract's increment.
HandOver(f) ==
    /\ textract[f] = "recorded"
    /\ \A c \in Classifications : c[1] = f => count[c] = "idle"
    /\ Rewrite(f, "started")
    /\ textract' = [textract EXCEPT ![f] = "over"]
    /\ UNCHANGED <<consent, gate, batch, request, raised, task, cancelled,
                   stored, late, count, poll, faults, lost, misled>>

\* A lambda reads the record as waiting ...
LateRead(f) ==
    /\ f \in Repeated \ late /\ AtGate(f)
    /\ late' = late \cup {f}
    /\ UNCHANGED <<consent, gate, batch, request, raised, task, cancelled, stored,
                   status, textract, rewrites, count, poll, faults, lost, misled>>

\* ... and when it is through with its gate, another one or the reaper may
\* have classified it: upsert_ddb has no condition.
LateWrite(f) ==
    /\ f \in late /\ gate[f] = "none"
    /\ late' = late \ {f}
    /\ \/ Rewrite(f, "started") /\ UNCHANGED lost
       \/ /\ \E v \in GateVerdicts : Rewrite(f, v)
          /\ lost' = lost \cup {f}
    /\ UNCHANGED <<consent, gate, batch, request, raised, task, cancelled,
                   stored, textract, count, poll, faults, misled>>

\* A locked or excluded document is counted first ...
GateCounts(f) ==
    /\ AtGate(f) /\ f \in Early
    /\ gate' = [gate EXCEPT ![f] = "counted"]
    /\ count' = [count EXCEPT ![Now(f)] = "add"]
    /\ UNCHANGED <<consent, lambdas, batch, request, raised, task, cancelled, stored,
                   status, poll, faults, lost, misled>>

\* ... and then recorded, without a condition,
GateRecords(f) ==
    /\ gate[f] = "counted" /\ count[Now(f)] = "idle"
    /\ gate' = [gate EXCEPT ![f] = "over"]
    /\ \E v \in EarlyVerdicts : status' = [status EXCEPT ![f] = v]
    /\ UNCHANGED <<consent, lambdas, batch, request, raised, task, cancelled, stored,
                   count, poll, faults, lost, misled>>

\* unless the lambda dies in between, and the event comes again.
GateDies(f) ==
    /\ gate[f] = "counted"
    /\ Fault
    /\ gate' = [gate EXCEPT ![f] = "over"]
    /\ count' = [count EXCEPT ![Now(f)] = "idle"]
    /\ lost' = IF count[Now(f)] = "idle" THEN lost ELSE lost \cup {f}
    /\ UNCHANGED <<consent, lambdas, batch, request, raised, task, cancelled, stored,
                   status, poll, misled>>

\* Hours later.
Reap(f) ==
    /\ gate[f] # "counted"
    /\ request \in {"answered", "dead"}
    /\ status[f] \in NonTerminal
    /\ Resolve(f, "timed_out")
    /\ UNCHANGED <<consent, lambdas, gate, batch, request, raised, task, cancelled,
                   stored, poll, faults, lost, misled>>

Delete(f) ==
    /\ status[f] \in Classified \ {"deleted"}
    /\ status' = [status EXCEPT ![f] = "deleted"]
    /\ UNCHANGED <<consent, lambdas, gate, batch, request, raised, task, cancelled,
                   stored, count, poll, faults, lost, misled>>

-----------------------------------------------------------------------------
(* increment_resolved_count *)

\* The batch-id index lags: it may still have any earlier status of a record.
MayRead(f) ==
    {status[f]}
      \cup (IF status[f] = NoStatus THEN {} ELSE {NoStatus, "not_started"})
      \cup (IF status[f] = "deleted" \/ rewrites[f] > 0 THEN Classified ELSE {})

FailedButNotTimedOut == {"failed"}

\* The statuses that count as failed.
FailedStatuses == {"failed", "timed_out"}

FailedJobs == {f \in Files : status[f] \in FailedStatuses}

MayReadFailed == {f \in Files : MayRead(f) \cap FailedStatuses # {}}

AlwaysOpen == TRUE

\* The condition batchStatus = :processing of the increment and the
\* finalization.
Open == batch.status = "processing"

OffByOne(n) == n + 1 >= Total

\* The increment completes the count.
Completes(n) == n >= Total

\* The conditional increment; whatever it raises is swallowed.
Add(c) ==
    /\ count[c] = "add"
    /\ \/ /\ Open
          /\ batch' = [batch EXCEPT !.resolved = @ + 1]
          /\ count' = [count EXCEPT ![c] = IF Completes(batch.resolved + 1)
                                           THEN "query" ELSE "idle"]
          /\ UNCHANGED lost
       \/ /\ ~Open
          /\ count' = [count EXCEPT ![c] = "idle"]
          /\ lost' = lost \cup {c[1]}
          /\ UNCHANGED batch
    /\ UNCHANGED <<consent, lambdas, gate, request, raised, task, cancelled, stored,
                   status, poll, faults, misled>>

\* The jobs are read from the index, and the final status is chosen.
Query(c) ==
    /\ count[c] = "query"
    /\ \E failed \in SUBSET MayReadFailed :
          /\ count' = [count EXCEPT ![c] =
               CASE failed = {} -> "completed"
                 [] Cardinality(failed) = Total -> "failed"
                 [] OTHER -> "partial"]
          /\ misled' = (misled \/ failed # FailedJobs)
    /\ UNCHANGED <<consent, lambdas, gate, batch, request, raised, task, cancelled,
                   stored, status, poll, faults, lost>>

Finalize(c) ==
    /\ count[c] \in Final
    /\ batch' = IF Open THEN [batch EXCEPT !.status = count[c]] ELSE batch
    /\ count' = [count EXCEPT ![c] = "idle"]
    /\ UNCHANGED <<consent, lambdas, gate, request, raised, task, cancelled, stored,
                   status, poll, faults, lost, misled>>

\* A call that failed is retried, from the increment on.
RetryCount(c) ==
    /\ count[c] # "idle"
    /\ Fault
    /\ count' = [count EXCEPT ![c] = "add"]
    /\ UNCHANGED <<consent, lambdas, gate, batch, request, raised, task, cancelled,
                   stored, status, poll, lost, misled>>

\* A call of the increment fails, or its lambda dies before or in it.
LoseCount(c) ==
    /\ count[c] # "idle"
    /\ Fault
    /\ count' = [count EXCEPT ![c] = "idle"]
    /\ lost' = lost \cup {c[1]}
    /\ UNCHANGED <<consent, lambdas, gate, batch, request, raised, task, cancelled,
                   stored, status, poll, misled>>

-----------------------------------------------------------------------------
(* GET /v1/batches/{batch_id} *)

\* The row is read first ...
ReadBatch ==
    /\ poll.pc = "batch" /\ batch.status # "none"
    /\ poll' = [pc |-> "jobs", read |-> batch.status, answer |-> "none", open |-> {}]
    /\ UNCHANGED <<consent, lambdas, gate, batch, request, raised, task, cancelled,
                   stored, status, count, faults, lost, misled>>

\* ... then the jobs, from the index; nothing is written.
ReadJobs ==
    /\ poll.pc = "jobs"
    /\ \E open \in SUBSET {f \in Files : MayRead(f) \cap NonTerminal # {}} :
          /\ poll' = [pc |-> "batch", read |-> "none", answer |-> poll.read,
                      open |-> open]
          /\ misled' = (misled \/ open # {f \in Files : status[f] \in NonTerminal})
    /\ UNCHANGED <<consent, lambdas, gate, batch, request, raised, task, cancelled,
                   stored, status, count, faults, lost>>

-----------------------------------------------------------------------------
(* Specification *)

Task(f) ==
    Admit(f) \/ Insert(f) \/ Upload(f) \/ Classify(f) \/ Counted(f) \/ ThreadEnds(f)

Request == Create \/ Cancel \/ AllDone \/ Publish \/ MarkFailed

Settle(f) == Process(f) \/ GateRecords(f) \/ Reap(f)

Overwrite(f) == HandOver(f) \/ LateRead(f) \/ LateWrite(f)

Increment(c) == Add(c) \/ Query(c) \/ Finalize(c)

Get == ReadBatch \/ ReadJobs

Next ==
    \/ \E f \in Files :
          \/ Task(f) \/ Settle(f) \/ Overwrite(f)
          \/ GateCounts(f) \/ GateDies(f) \/ Delete(f)
    \/ \E c \in Classifications : Increment(c) \/ LoseCount(c)
    \/ Request \/ Die \/ Get

Spec == Init /\ [][Next]_vars

\* The event loop serves every task, a classified document is counted, the
\* reaper finds what is left and the client polls.
Fairness ==
    /\ WF_vars(Request) /\ WF_vars(Get)
    /\ \A f \in Files : WF_vars(Task(f)) /\ WF_vars(Settle(f))
    /\ \A c \in Classifications : WF_vars(Increment(c))

FairSpec == Spec /\ Fairness

-----------------------------------------------------------------------------
(* Properties *)

DoneWhenFinal ==
    batch.status \in {"completed", "partial"} => \A f \in Files : Resolved(f)

\* No document has been counted ahead of its record.
NoneCountedAhead == \A f \in Files : gate[f] = "none"

\* The classifications that a later one of the same document replaced.
Replaced == {c \in Classifications : c[2] < rewrites[c[1]]}

\* increment_resolved_count: a batch is completed or partial only when every
\* one of its files has been classified, however the increments interleave
\* with the uploads, the reaper and each other, but for the locked and the
\* excluded documents, which are counted ahead; and each file that it does not
\* wait for is owed to a document that was classified, and counted, twice.
FinalMeansResolved ==
    NoneCountedAhead /\ batch.status \in {"completed", "partial"} =>
        Cardinality({f \in Files : ~Resolved(f)}) <= Cardinality(Replaced)

\* No write of the batch status, the unconditional ones of the request
\* included, takes back a final status.
FinalIsFinal == [][batch.status \in Final => batch'.status = batch.status]_vars

\* Every count is for a classification of its own: no repeated call, failed
\* call or deletion counts one twice.  (An increment whose call fails may or
\* may not have been counted.)
CountFollowsStatus == NoneCountedAhead =>
    batch.resolved + Cardinality({c \in Classifications : count[c] = "add"})
        <= Cardinality({f \in Files : Resolved(f)}) + Cardinality(Replaced)

\* A completed batch has no failed job, and get_batch_status shows no job in
\* progress beside a completed status, since it reads the batch first: unless
\* the index lagged or a document was counted ahead, and but for as many jobs
\* as documents were classified again.
CompletedIsTrue == NoneCountedAhead /\ ~misled =>
    /\ batch.status = "completed" =>
          Cardinality({f \in Files : status[f] \notin Classified \ {"failed", "timed_out"}})
              <= Cardinality(Replaced)
    /\ poll.answer = "completed" => Cardinality(poll.open) <= Cardinality(Replaced)

\* A batch whose request ended well is finalized unless an increment was
\* lost: before the batch was processing, to a failure, or because the gate
\* makes none.
SettlesUnlessLost ==
    (request = "answered" /\ raised = {}) ~> (batch.status \in Final \/ lost # {})

-----------------------------------------------------------------------------
(* What the docstrings say, and the runs refute *)

\* get_batch_status: "when all jobs are complete this endpoint updates the
\* batch status to COMPLETED".
LazilyCompleted ==
    (batch.status # "none" /\ \A f \in Files : Resolved(f))
        ~> poll.answer \in Final

\* increment_resolved_count "finalize[s] batch status when all jobs are done":
\* DoneWhenFinal, for a batch with locked or excluded documents.
============================================================================
