# A verification project for the Document AI API

The repository (`src/`) is a serverless document-processing service: a FastAPI
application, event-driven lambdas, scheduled jobs, DynamoDB tables, S3 buckets,
SQS queues, and Amazon's Bedrock Data Automation (BDA), Bedrock, Textract and
Cognito. This directory models the parts whose correctness depends on the order
in which those pieces act, and the computations whose boundary cases decide what
a client is told; TLC checks them on small instances, and TLAPS proves the
central invariants for instances of any size.

Contents: 1 inventory, 2 modules and how their state corresponds to the code,
3 runs, 4 sentences of the code that the models refute, 5 proofs, 6 not modelled,
7 plan.

## 1. Inventory

All paths are below `documentai-api/src/documentai_api/`.

| Component | State it keeps | Operations | Talks to | Hard part |
|---|---|---|---|---|
| Document processor lambda (`jobs/document_processor`, `pipeline/document_lifecycle.py`, `utils/bda_invoker.py`) | one record of the document-metadata table | read record, gate (password, sampling, blur, preclassification), upsert, re-read, claim, Textract, BDA invocation with retries | S3 events in, BDA jobs out, record writes | at-least-once events, overlapping invocations, crash after the claim, retries that start a second job |
| BDA result processor lambda (`jobs/bda_result_processor`, `processors/bda.py`, `pipeline/bda.py`) | the same record | look the job id up, read the output, classify | S3 events of BDA's output | output reported before the id is stored, unreadable output, the catch-all that looks up again |
| Terminal classification (`classifiers/`) | status, v1 response, per-method responses | conditional status write, response write, batch increment, per-method write | called by both lambdas, the reaper, the API | four writes that can be cut anywhere, callers that race |
| Document reaper (`jobs/document_reaper`) | rows read in a sweep | find stale rows, ask BDA, conditional terminal write, increment | table, BDA | acts on rows read earlier |
| Documents API (`routers/documents.py`, `pipeline/uploads.py`) | record, S3 object | upload, wait for the result, delete | table, S3 | a wait that gives up while the result arrives, check-then-act deletion |
| Screening, evaluation, response codes (`utils/preclassification.py`, `classifiers/api_response.py`, `routers/evaluation.py`, `utils/extraction_rules.py`) | signals stored with the record; rule and flags elsewhere | screen, classify, answer, recompute the answer, break it down | rules, flags, engines | the same question answered at several moments from settings that change |
| Extraction comparison and OCR mapping lambda (`pipeline/ocr_mapping.py`, `jobs/ocr_mapping_processor`, `extractors/`, `routers/extraction_compare.py`) | the record's map of answers | enqueue, map, answer, poll | SQS, Bedrock | two lambdas write one map, redeliveries, dead letters |
| Blur detection and Textract words (`utils/blur_detection.py`, `utils/textract.py`, `extractors/ocr_mapping.py`) | none | verdict on a page, confidence and box of a citation, identity fields | Textract, LLM | thresholds, empty quadrants, skewed lines |
| Batches (`routers/batch.py`, `utils/batch_operations.py`) | batch row: status, resolved count | create, upload files concurrently, finalise | document records, their index | increments before the batch is processing, partial failures of concurrent uploads, stale index |
| Builds (`routers/build.py`, `utils/document_build.py`) | build row, page rows, page objects | add pages, submit, delete | S3, uploads | submissions that race additions, deletions and each other; what a failed one leaves |
| Write quota (`utils/write_limit.py`) | one counter per tenant and day | count and check, roll back, refund | every upload, the gate | rejected requests in flight, refunds repeated by retries |
| API keys and tenants (`utils/auth.py`, `routers/api_keys.py`, `routers/tenants.py`, `utils/cache.py`) | key rows, tenant row, a cache per container | authenticate, move to the new hash, create, revoke, close, reopen | DynamoDB, pepper secret | a cache and a migration that race a revocation |
| Users and tenants administration (`routers/users.py`, `services/cognito.py`, `utils/base_crud_table.py`, `utils/audit_log.py`) | Cognito pool and groups, tenant rows, audit trail | approve, change role and scope, delete, create and change tenants | Cognito, DynamoDB | several calls per request, none conditional, any of which raises |
| Metrics pipeline (`utils/ddb.py`, `jobs/metrics_processor`, `jobs/metrics_aggregator`) | queue, objects per day, files per day and month | copy a record, store, aggregate | SQS, S3, Athena | duplicate messages, documents classified twice, overlapping runs, reruns of past days |
| Usage report (`jobs/usage_report`, `routers/admin_usage.py`) | files per day and month | report, add today's figures | the same objects and files | end of the period, first of the month |
| Presigned uploads (`routers/presigned.py`) | record `pending_upload` | create | S3 | an object put twice |
| Catalogues (rules, categories, dictionary, schemas), queries and search | single rows | CRUD, reads | table | none that relates two rows |
| Image optimisation, page counting, conversion, CLI, UI, infrastructure | none | pure functions, scripts, browser, Terraform | | numerical code and I/O |

What makes each correct: a document is claimed once, classified once, counted
once, and in the end resolved; a refused document never reaches an extraction
engine; a batch ends exactly when its documents have, with the status they add up
to; a build is submitted once, with the pages it has, and is locked exactly then;
a tenant never gets more admitted writes than its limit; a revoked key is refused
after the lifetime of a cache entry, and nobody else is; figures count a document
once and never go back; the code, the answer, the breakdown and the event of a
document tell the same story; a comparison that both engines answered is
complete; the audit trail tells what is in the pool.

How the components meet: an upload (`DocumentLifecycle`) is first admitted by
`WriteQuota`, may belong to a batch, whose count its classification increments
(`BatchUpload`), may be the merged document of a build (`DocumentBuild`), is
authenticated by a key (`ApiKeys`), is judged by screening and rules
(`DocumentEvaluation`), may be mapped beside its engine (`ExtractionCompare`), and
its terminal write feeds the figures (`Metrics`). Each module keeps of its
neighbours only what they do to its own state, and names it in its header.

## 2. Modules

| Module | Models | Lines of the code it is about |
|---|---|---|
| `ProcessStatus` | statuses of documents and BDA jobs with their predicates, the guard of terminal writes | `constants/` |
| `DocumentLifecycle` | processor, result processor, classification, reaper, wait, delete, BDA and event delivery around document records | `jobs/document_processor`, `jobs/bda_result_processor`, `jobs/document_reaper`, `pipeline/`, `classifiers/document_classification.py` |
| `DocumentContract` | what a client and a batch are promised of a document: the abstract specification | |
| `BatchUpload` | a batch from its request to its final status | `routers/batch.py`, `utils/batch_operations.py` |
| `WriteQuota` | the daily and monthly write limits of a tenant | `utils/write_limit.py` |
| `DocumentBuild` | a build: uploads of pages, submission with roll-back, deletions | `routers/build.py`, `utils/document_build.py` |
| `ApiKeys` | authentication with its cache and migration, creation and revocation of keys, the end of a tenant | `utils/auth.py`, `routers/api_keys.py`, `routers/tenants.py` |
| `Metrics` | from the copy of a record to the figures of a month, and the usage report | `jobs/metrics_*`, `jobs/usage_report`, `routers/admin_usage.py` |
| `DocumentEvaluation` | screening, extraction, response code, answer, breakdown and event of one document | `classifiers/api_response.py`, `routers/evaluation.py`, `utils/preclassification.py`, `readers/`, `utils/extraction_rules.py` |
| `AdminRequests` | requests of super-admins about users and tenants | `routers/users.py`, `services/cognito.py`, `routers/tenants.py` |
| `PageWords` | operators on the words of a page: blur, citations, identity fields | `utils/blur_detection.py`, `extractors/ocr_mapping.py`, `utils/textract.py` |
| `ExtractionCompare` | one document through an engine with OCR mapping beside it; uses `PageWords` | `pipeline/ocr_mapping.py`, `jobs/ocr_mapping_processor`, `routers/extraction_compare.py` |
| `MC...` | the instance of each for TLC | |
| `DocumentLifecycle_proofs` | proofs about `DocumentLifecycle`, and the refinement of `DocumentContract`, whose mapping is at the end of `DocumentLifecycle` | |
| `Extraction_proofs` | proofs about `ExtractionCompare`, with the operators of `PageWords`, and about `DocumentEvaluation` | |
| `BatchUpload_proofs`, `WriteQuota_proofs`, `DocumentBuild_proofs`, `ApiKeys_proofs`, `Metrics_proofs`, `AdminRequests_proofs` | proofs about the module of that name | |

Throughout, an action is the code up to and including one remote call (a
DynamoDB read or write, an S3, Cognito or BDA call), because a single call is all
that is atomic; a call that fails raises where the code would see it raise, and
`faults` (`misreads` in `DocumentEvaluation`, where only reads fail) bounds how
many do. Variables that only record what happened, so that a
property can speak of it, are called history or ghost where they are declared;
no action's guard reads them.

### DocumentLifecycle: state and code

| Variable | In the program |
|---|---|
| `rec[d]` | the row of the document-metadata table: `processStatus`, whether a preclassification category is stored, `bdaInvocationId`, whether `v1ApiResponseJson` is stored |
| `inv[i]` | a lambda environment or API request: where it is (`pc`), its event, document, the status it has read, the class it is about to write, whose call it is in (`ctx`), the job it started, BDA attempts |
| `job[j]` | BDA's side of a job (external) |
| `queued`, `redeliveries` | events handed to EventBridge; redeliveries are the retries of the event target (`infra/modules/worker/main.tf`), after which the event goes to the dead-letter queue |
| `aged`, `reaper` | `createdAt` beyond the cutoff; the rows of the running sweep and the increment it still owes |
| `deleting` | DELETE requests between their read and their write |
| `faults`, `hist` | the bound on failures; history that no action reads |

Each action is the code up to and including one remote call (a DynamoDB read or
write, a BDA call), because a single call is all that is atomic. `Advance` lists
them in program order: `Gate`, `PreCredit`, `Upsert`, `FinalizeGate`, `Reread`,
`Dispatch`, `Claim`, `Extract`, `BdaPath`, `Invoke`, `RecordJob`, then the shared
`WriteTerminal`, `WriteV1`, `Credit`, `MethodResponse`, and `Handler`. `Throw`
says where an exception lands: in the handler, in the `except` of
`_invoke_textract_if_identity_path` (which goes on to BDA), or out of the lambda, which
redelivers the event. `Raise`, `Throttled` and `Crash` are the failures.

Abstractions: what documents contain is reduced to traits fixed per document
(`Traits`), and the verdicts of the gate and of BDA are nondeterministic. A write
that fails is not applied. Not in this model: the OCR-mapping path and the
attributes for metrics and timing, which no modelled decision reads; the
`ai_consent` branch of `_dispatch_document_processor`, because no upload path puts
a file without consent in the bucket.

### BatchUpload: state and code

`batch` is the row of the document-batches table. `request` is
`_execute_batch`; each file has a `task` of the `TaskGroup` in
`_process_batch_files`, whose points are the calls of `_process_one` (`Admit`,
`Insert`, `Upload`, `Classify`). The `TaskGroup` cancels the other tasks on the
first error (`Cancel`), but a call made with `asyncio.to_thread` goes on in its
thread: such a task is in `cancelled`, and `ThreadEnds` does what is left of its
call. `raised` remembers which kinds of exception the group holds, because
`except* HTTPException` comes first and leaves the batch as it is, while any
other one fails it (`MarkFailed`). `status` is the job records; the batch-id index
over them may still show any earlier status (`MayRead`). That a stored document is classified is
one step here (`Process`, `Reap`; `DocumentLifecycle` has the details), with the
increment of `increment_resolved_count` in steps of its own (`Add`, `Query`,
`Finalize`, `LoseCount`). A document may be classified more than once, and each
time is counted: `rewrites` says how often its record was written over after it
had been classified, and `count` where the increment of each of its classifications
(`Now`) is. Two things write over a record. An identity document that Textract has
recorded goes on to BDA (`BothEngines` in section 4), whose
`set_bda_processing_status_started` reopens it after Textract's increment
(`textract`: `GoesOn`, `HandOver`); and a lambda whose event came twice may have read
the record as waiting (`late`: `LateRead`) before another one classified it, and
upserts it without a condition (`LateWrite`). The gate increments
for a locked or unsampled document before it writes the record, which `gate`
keeps (`GateCounts`, `GateRecords`, `GateDies`); a lambda that is late may not find
such a document, which the properties set aside in any case. `poll` is a `GET` of
the batch, which reads the row before the jobs. The semaphore of ten uploads bounds
concurrency only and is left out; `lost` and `poll` are read by no other action.

### WriteQuota: state and code

`item` is the tenant's rows of the request-counts table, one per day of a month;
`Total` of the counts is what `_get_monthly_total` adds up, written as the number of
their units. `pc` is where a request is in `increment_and_check` and then where its document
is; `day`, `got` and `created` are its local `today` and `new_count` and the
creation date of its record. `Add` is the atomic increment, `Query` the sum over
the month, `Rollback` and the refund of `Exclude` the conditional decrement. The
date advances at any moment (`Midnight`). `replica` is what the eventually
consistent query sees instead of `item`. `refunds` and `misled` (the requests whose
query returned less than there was) are history, which no action reads.

### DocumentBuild: state and code

`rows` is the partition of the build in the document-builds table: row 0 with the
lock (`submittedAt`), row p with page p. `replica` is what the eventually
consistent query of the partition sees, at most one write behind. `objects` says
whose bytes the key of each page holds, because the bytes are put before the row
whose condition decides whether the upload was allowed. `req` is where each
request is: an upload lists the pages, picks its numbers, puts bytes and rows; a
submission lists, locks (`conditional_submit`), stamps the rows, merges, inserts
the job record (`jobs`), and puts the document (`docs`), with a handler of its own
at each step; deletions remove rows and objects one by one. `owed`, `removed`,
`misled` and `overlap` are history: the acknowledged pages a submission found,
whether row 0 was deleted, whose query missed writes, and whether an upload listed
pages while another was under way. `Last` bounds page numbers and `MaxMade` the
job records.

### ApiKeys: state and code

`row` is the api-keys table by key and hash scheme (HMAC, and the legacy SHA-256):
no row, an active or inactive one, or one without its record ("bare"), which an
unconditional update of a missing row leaves behind. `pepper` is what a container
knows of the secret, `cache` its `TTLCache` with the time its entries have left, `work` the
request it serves, `touches` the `lastUsed` threads. One tick is the lifetime of
an entry divided by `TTL`, and no request outlasts a tick. `revoked`, `by`,
`crossed` and `late` are history: ticks since a deactivation was written and by
which container, keys a deactivation missed because they were being moved, and
keys the closing tenant's list did not show.

### Metrics: state and code

`queue` and `raw` are the copies of a record and the objects made of each;
`daily` and `monthly` the aggregator's files, `usage` and `report` those of the
usage report. All figures are sums over objects, so a file is the *set of the
objects it counts*, and counting twice is having two objects of one document.
`run` is a run of the aggregator (one for today, one for a day before), which
writes the tenants' files, then the global one, then reads the days of the month
and writes the month's files; `reporter` is the run of the report. `mixed` and
`blurred` are history: the days and months two runs worked on at a time.

### DocumentEvaluation: state and code

`row` is the record with the signals the evaluation reads; `rule` and `geo` are the
tenant's extraction rule and the feature flag, which an administrator changes at
any moment (`changes` bounds how often). A process keeps the flag it read for five
minutes (`utils/ssm.py:13-34`), and classification, the answer and its
recomputation run in processes of their own: `held` is the set of values that some
cache may still hold, both after a `Switch` and only the current one after
`Expire`, and each reading finds one of them, or "on" if it fails (`Finds`). BDA's
fields are read level by level, each with a reading of its own (`FlaggedOn`).
`identity` is the screening's verdict, `answer` the last answer recomputed for a
reader. The stored verdicts, the
published code, the recomputed answer and the breakdown of `/evaluation` each read
some of these at different moments; `excuses` records, for the properties, whether
a setting changed or a read failed in between, and whether the answer was made
within the five minutes after a switch. Fields are absent, empty, unlocated
or read; a confidence is below the floor or not. Its `EvaluationInit`,
`EvaluationNext` and `EvaluationSpec` have names of their own because
`Extraction_proofs` extends two specifications.

### AdminRequests: state and code

`pool`, `groups` and `scope` are Cognito's users, role groups and
`custom:tenant_id`; `tenant` the tenants table with its two limits; `told` what
the audit events say of a user. `req` is where each request is, with what it has
read and is to write: the role and tenant of its body, the groups still to remove
(`left`), the event that ends it (`event`, `Keep` for what it does not name), the
row or the body of a tenant. Every Cognito call, table read and table write is an
action, after any of which the request may end with an exception. `excuses` records,
per user or tenant, that requests overlapped or one failed, until a change that ran
alone has ended.

### PageWords and ExtractionCompare: state and code

`PageWords` is operators only. A page is a grid of cells; a word lies in a cell, a
line in a rectangle, which on a skewed scan covers words of other lines. `Blur`
follows the evaluation of quadrants that stops at the first failure, the question
to the LLM about empty quadrants and the fallback to the whole page; `Reading` the
confidence and box of a citation; `Identity` the fields of an identity
document with their places and the check for two dates that are the same, and the
fields Nova adds. A value of Nova's is matched as `_block_text_matches` does: of at
most two characters exactly (`ShortTokens`), otherwise by containment either way
(`Contained`), so that several tokens are found at a word of theirs and `BRO` may
keep the box of `EYES:BRO` while a word with its very text is on the page. A sum
of confidences is the number of their percents (`Sum`), and the average is rounded
down to a percent, where the code keeps two decimals.

`ExtractionCompare` runs one document (`case`: its page, what the engines and LLMs
make of it, its flags) through the processor (`pc`), a BDA job (`job`), the result
processor (`result`) and the OCR mapping lambda (`mapper`), which takes `message`
from its queue up to `MaxReceives` times. `answers` is the map
`apiResponsesByMethod`, which only a comparison has; writing into it raises
otherwise. `failed` is ghost: in which part a call failed.

## 3. Runs

| Run | Instance and bounds | Question |
|---|---|---|
| `LifecycleRetries` | 1 image, 2 faults, 2 deliveries, 2 attempts of an invocation, 3 jobs, 2 environments | with crashes, failed calls and the redeliveries they cause: does the lifecycle implement `DocumentContract` |
| `LifecycleDuplicates` | 5 documents of which one is active: one delivered twice at once; one with the reaper, a waiting client, a failing upload and DELETE around it; a locked, a non-native and a tenantless one; 1 fault | is the claim exclusive, does every increment follow a write, do refused documents stay away from the engines |
| `LifecycleLiveness` | a slow identity card of a comparison, and a slow scanned one; 1 fault, 2 jobs, 2 deliveries; fair | is every document resolved in the end; and, without failures, is the response there, the batch told once, every job findable |
| `BothEngines` | 1 scanned identity document, no faults | refutes "Textract identity and BDA are mutually exclusive" |
| `Batches` | 2 files: one that may be refused, be an identity document and come twice, one whose conversion may fail and that the gate may count ahead; consent given or not, 1 fault, 1 record written over, index that lags; fair | counts, finality, the truth of `completed`, settlement |
| `QuotaLimits` | 3 uploads and a test run, 3 days, limits 1 a day and 2 a month, 1 fault, query that lags | are the limits kept but for refunds and misled queries, is what remains counted what is in use |
| `BuildRequests` | any 3 of 6 requests (2 uploads, 2 submissions, 2 deletions), batches of 2, at most 2 pages, page numbers to 3, 2 faults, query that lags | one document, locked exactly then, with all its pages and within the limit |
| `ApiKeys` | 2 containers, 1 key under 2 hashes, entries that live 1 tick, 2 requests of admins, 1 fault | when does a revocation take effect, is anybody else refused, what does a closed tenant leave |
| `Metrics` | 2 documents (one without a tenant; one classified twice, one whose message comes twice), a month of 2 days and a day of the next, 1 report, 1 fault | is each document counted once, do the tenants add up, do figures go back |
| `Evaluations` | 2 fields (symmetric), every rule, the flag on, off or switched just before, 1 change of a setting, 1 failed read | do code, answer, breakdown and event tell the same story |
| `AdminRequests` | 3 requests about 1 user and 1 tenant, 1 call that raises | does the trail tell the pool, do limits stay in order; what repairs them |
| `Comparisons` | about 4000 screened pages on a 4x4 grid, every reading of small straight and skewed pages, identity documents with a field added by Nova, every path of a comparison with 2 failed calls, 3 receives; fair | the verdict on blur, answers grounded in the page, the primary engine decides, comparisons complete |

**Documents.** They share no state but the reaper's sweep and the environments, so
that a second one adds interference only through those, and `MaxActive` lets one
run explore several one at a time. A document has at most two deliveries of each
event, which is what it takes to overlap; only one with the trait `repeated` is
delivered again without a failure. Up to three jobs: two attempts of one
invocation plus a redelivery can start three. `KeepsContract` is about the
documents that are `Calm`: delivered once at a time, for one engine, below the
reaper's threshold and with no client that gives up waiting. With any of these the
code does not keep it: a repeated upload reopens a claimed record
(`OneJobPerDocument` below), an identity document that Textract has classified goes
to BDA too (`EnginesExclusive`), and the reaper and a client that gave up classify
from what they read earlier. For the same reason `CountedExactlyOnce` speaks of
documents that are `Undisturbed` and `JobsAreFindable` of uploads delivered once.
The properties name these conditions themselves; no bound of an instance hides
them.

**Batches and the quota.** Two files are what a race for the last increment takes,
and enough for `completed`, `partial` and `failed` to differ; one record that is
classified twice is enough to finalize the batch with the other file open. The
proofs hold for any number of files and of records written over. Three counted uploads against a daily limit of one and a monthly
limit of two leave room for a request in flight, a refused one and one that takes
the place of a refund; three days let the month fill up without the daily limit.
`CountSettles` speaks of behaviours without failures, which leave a count too high
until the day ends, and sets aside refunds of uploads that were not counted and
those whose record was created after the midnight that followed the count.

**Builds.** Three requests are a race of two with a third in the middle. With a
limit of two pages and numbers up to three there are holes; a batch of two can
half fit. `PageLimit` leaves out uploads that overlap and `DocumentIsWhole`
queries that missed a page, as the code does.

**Keys.** One key under two hashes is all that a lookup touches; two containers
are a request and another that moves, revokes or caches. A lifetime of one tick
and a clock that stops counting two ticks after it tell "at once", "within" and
"after" apart. What the properties leave out is what the code does not prevent,
each in a history variable of its own.

**Metrics.** Two days and a day make an ordinary day, an end of month and a first
of the month, where the end dates differ.

**Comparisons.** A quadrant holds up to three words, the number from which it is
populated, at confidences on both sides of each threshold, so that a page may fail
by a share, by an average, in a quadrant, as a whole, or not at all. The
percentages are the code's (floor 70, 30 % low, average 85); the numbers of words
are scaled down (3 for 5 words worth a look, 7 for 20 of a dense page) so that they
stay related as in the code: a dense page with an empty quadrant has a populated
one (`PageAssumption`). On identity documents Nova adds a value of one token, of one
short token or of two, and points at a word that matches it, at one that does not
while another does, or at none; the texts on the page contain one another, so that
a value may match several words, of which the rightmost is taken.

**Evaluations** and **AdminRequests** need no more than they have: a required field
and one that is not, and a flag of which the caches hold both values, from a switch
before the document or during it; a pair that overlaps, and a request that repairs.

**One failed call** reaches every branch that handles one; two are allowed where
what handles the first can fail itself (retries, the roll-back of a submission,
redeliveries of OCR mapping).

### Fairness

`EventuallyResolved` (`LifecycleLiveness`): a running invocation takes its next
step (a lambda that does not is killed, which is `Crash`), BDA ends its jobs, the
clock passes the reaper's threshold, and the schedule (`document_reaper`, every
hour) starts it again and again. It does not assume that an event is delivered.

`SettlesUnlessLost` (`Batches`): the tasks, threads and the request go on (the
event loop runs them), increments, the lambdas that classify stored documents, the
reaper, and clients that go on polling; none of failures or `DELETE`. What the
code drops is named in `lost`: the increments rejected while the batch is
uploading, those that fail (their exceptions are swallowed), and those the gate
never makes.

`CompareCompletes` (`Comparisons`): the processor, the result processor and the
mapping lambda run what was delivered to them, SQS delivers again what was not
deleted, and a BDA job ends.

In all runs a call that fails is taken to have had no effect, except where an
action says otherwise (an increment whose call fails may have been counted, a
classification may fail before or after its write, a deletion of a message may be
lost). Deadlock is checked in `ApiKeys`, where time always passes, and not in
the runs where the system comes to rest (a document that is done, a batch that is
final, requests that have ended).

Every property of a passing run has a mutant: an operator with a longer name,
placed before its target, that changes the code's own definition the way a bug
would (dropped guard, forgotten write, unlisted status, strict for non-strict) and
under which the property fails. They are listed in `PROJECT.json`.

## 4. Sentences of the code that the models refute

`BothEngines` is kept as a run, because what it shows changes a stored result: for
a document that is not a comparison, the per-method write raises (the record has
no such map), the exception is taken for a failure of Textract after its result
has been written, and the document goes on to BDA, which reopens it.

The following are definitions of the modules, each of which TLC refutes when it is
added as an INVARIANT (PROPERTY for `LazilyCompleted`) to the cfg named.

| Definition | cfg | What the repository says | What happens |
|---|---|---|---|
| `OneJobPerDocument` | `LifecycleRetries` (in place of its property, with `Traits <- RepeatedTraits`) | the claim "prevents duplicate processing" (`pipeline/document_lifecycle.py:127`) | the second delivery's unconditional upsert reopens the claimed record, and a second job starts |
| `DoneWhenFinal` | `Batches` | the batch is finalized "when all jobs are done" (`batch_operations.py:123`) | the gate counts a locked document before it writes its record; and an identity document that both engines classify is counted twice, in the place of a file that is still open |
| `LazilyCompleted` | `Batches` | "Batch completion is lazily evaluated" (`routers/batch.py:343`) | the endpoint only reads, and an increment made while the batch is uploading is dropped |
| `LimitKept` | `QuotaLimits` | "raise 429 if a limit is exceeded" (`write_limit.py:40`) | a test run, which is not counted, is refunded |
| `RetryPossible` | `BuildRequests` | "clear submittedAt so user can retry" (`routers/build.py:461`) | a submission that fails after its record was made, or in a path that raises an HTTP error, leaves the build locked without a document |
| `PageKeepsBytes` | `BuildRequests` | "overwrite=False prevents concurrent batch requests from clobbering each other" (`routers/build.py:283`) | the bytes are put before the conditional row: an upload refused with 409 has replaced the bytes of the page it lost to |
| `MoveIsHarmless` | `ApiKeys` | the migration is "best-effort" (`utils/auth.py:112`) | a `lastUsed` thread writes into the row that a move has deleted, and the row it makes has no record |
| `UsageNeverTwice` | `Metrics` | the report "excludes today ... to avoid double-counting" (`usage_report/main.py:31`) | on the first of a month the end of the month is taken for yesterday, and today is in both |
| `SuccessMeansComplete` | `Evaluations` | 000: "All required fields extracted" (`docs/documentai-api/response-codes.md:9`) | a required field that the engine did not report is in neither list |
| `SuperAdminUnscoped` | `AdminRequests` (even with `MaxFaults = 0`) | super-admins "aren't scoped to any single tenant" (`utils/jwt_auth.py:131`) | in `routers/users.py:120` the body's role is compared with the name of a scope, `__admin__`, which no role has |
| `PendingMeansRunning` | `Comparisons` | "isCompleted=false while either path is still running" (`extraction_compare.py:102`) | a document that no engine answers, or whose mapping is in the dead-letter queue, is never complete |
| `CitedWordsBoxed` | `Comparisons` | "the bounding boxes of WORD blocks whose text appears in the citation" (`_citation_bbox_from_words`, `extractors/ocr_mapping.py`) | punctuation is stripped from the words and not from the citation |

Others share a cause with one of these or with the qualification of a property:
the terminal write "prevents double-counting" (`document_classification.py:44`,
as `OneJobPerDocument`); a running job is left alone (`document_reaper/main.py:137`:
the reaper decides on a row read before the job was recorded); an "accurate failed
count" (`batch_operations.py:155`: the index may not show the failed job yet, which
`CompletedIsTrue` sets aside); refusal "before incrementing if the limit is already
reached" (`write_limit.py:43`: a request that will be refused holds a write until
its rollback); `today_count` avoids "a stale read" (`write_limit.py:125`: a query
without today's item leaves today out, which `misled` records); a comparison
"Forces OCR mapping extraction regardless of the feature flag" (`run_compare`: not
without a blueprint type). A document that is not a comparison, with the flag on,
always ends its mapping in the dead-letter queue, because its record has no map of
answers.

## 5. Proofs

All theorems hold for every value of the constants that satisfies the assumptions
of their modules, and no fairness is assumed:

- `ConstantsAssumption` (`DocumentLifecycle`, `BatchUpload`, `WriteQuota`,
  `DocumentBuild`, `ApiKeys`, `Metrics`): disjoint sets of names, bounds that are
  numbers, finite sets of files, of documents of metrics and of requests.
- `AdminAssumption` (`AdminRequests`): users are not tenants, "none" and "not named"
  are neither tenants nor roles nor limits, and limits are numbers.
- `EvaluationAssumption` (`DocumentEvaluation`): the bounds are numbers.
- `PageAssumption` and `ReceivesAssumption`: the thresholds are numbers, and a dense
  page has more words than three quadrants without one that is populated.
- `CasesAssumption` (`ExtractionCompare`): a page has finitely many words, each in a
  cell and with a percentage, and its lines are made of words of the page; a citation
  has finitely many tokens. Nothing is assumed of the fields Nova adds.

`DocumentLifecycle_proofs`:

- `TypeCorrect`: `Spec => []TypeOK`;
- `ClaimsAreExclusive`: `Spec => []ClaimExclusive`.

`ClaimExclusive` is not inductive: that a claim is granted to a document with no
claim follows only if an open status (`PendingExtraction` or
`AwaitingProcessing`) implies that no claim has been granted since the record was
last opened (`ClaimsOK`), and that needs three facts about invocations
(`WellFormed`): one that is about to claim has read an open status; one that is
about to write a terminal status holds a terminal one; one that is about to upsert
holds a terminal one or one that lets the document through, in which case the
count starts again. `IInv` is the conjunction with `TypeOK`; one lemma per action
shows that it is preserved, with lemmas for the helpers of the control flow
(`Goto`, `Finish`, `Fail`, `Return`, `Throw`, ...).

Over that invariant, in the same module:

- `CreditsAreEarned`: `Spec => []CreditsFollowWrites`. What is invariant
  (`CreditsOK`) is an account: the increments already made for a document, plus one
  for every invocation that has written its status and has not credited it, plus
  one if the reaper owes it, are at most the terminal writes that landed. The set
  of invocations that owe an increment is finite as part of the invariant, though
  there may be infinitely many environments, and a step adds at most one to either
  side of the account. The lemmas go by what a step does: one that frees its
  invocation of a debt can only forget an increment (`Forgotten`), a terminal write
  that lands takes one on (`LandedOwes`), an increment pays one off (`CountedOnce`).
- `RefusedStayAway`: `Spec => []RefusedNeverExtracted`. The invariant (`RefusedOK`)
  follows a locked, non-native or tenantless document to the dispatch: no
  invocation for it is at the claim or beyond (`Harmless`). A document that is not
  native or has no tenant is refused at the dispatch each time. A locked one is
  refused only by the gate, so that the invariant also says that its record never
  has a category or a status with which another delivery would pass by the gate.
- `ResultsArePublished`: `Spec => []ResultPublished`. The invariant (`PublishedOK`)
  says who still owes the response of a classified record: it is there, or the
  invocation that wrote the status is about to write it (`Marked`). It follows
  DELETE requests too, which may mark a record that was reopened since they read
  it, but not one without a response.

The refinement and what rests on it, still in that module:

- `ContractIsKept`: `Spec => KeepsContract`, the refinement of `DocumentContract`;
- `ResultsFindDocuments`: `Spec => []JobsAreFindable`;
- `BatchHearsOnce`: `Spec => []CountedExactlyOnce`.

"One delivery at a time" is a fact about a queue, redeliveries and several lambdas,
and not an assumption. The event of a document that is not repeated is in one place
(`OnceOK`): in the queue, with one invocation (`Carriers`), or done with
(`HandedOver`) once the record has a job; a result that comes back from BDA belongs
to a document whose upload is done with. So whoever has a document is alone with it,
and its status follows that invocation (`StatusOK`): waiting before the upsert,
`started` between the claim and the record of the job, classified whenever an
increment is owed or DELETE is under way. `OriginOK` says on whose behalf an
invocation works, `AgedOK` that the reaper visits old documents only, `ChoicesOK`
that what is about to be written is no status of another's. That every step is one
of the contract or a stutter (`StepKeepsContract`) follows for the one document the
step touches (`OneDocument`, `Promised`), with `CalmOK`: a terminal write ends a
document and none lands on one that has ended, so that `CreditsOK` admits one
increment. The contract counts the increments of classifications; one that the gate
makes ahead of its upsert is outside of it, since a crash between the two repeats it.

Without failures more holds. Each job is in its record or with the lambda that
started it (`JobsOK`), and the increments of a batch's document, made and owed, are
tallied by its status (`TallyOK`): none while it is open but the one the gate has
just made, one in all once it is classified. Both need a document that one
invocation at a time may classify (`Steady`), for which an identity document must
belong to a comparison: without the map of answers that only a comparison has,
recording Textract's answer raises, and the document goes to BDA too.

`BatchUpload_proofs`:

- `TypeCorrect`, `CountsFollowStatus`: `Spec => []CountFollowsStatus`,
  `FinalBatchesAreResolved`: `Spec => []FinalMeansResolved`, `FinalStatusesStay`:
  `Spec => FinalIsFinal`, `CompletedBatchesAreTrue`: `Spec => []CompletedIsTrue`.

That a final batch has all its documents classified is about a counter and a set.
A document may be classified, and counted, several times (an identity document by
both engines, one whose event comes twice after a late upsert), so that the code
does not hold it as it stands: what it holds is that a final batch has no more open
documents than classifications that another replaced (`Replaced`), hence none when
each document was classified once. The invariant (`CountsOK`) bounds the counter
together with the increments under way by the classified records and the replaced
classifications, and says that only a full count lets anyone
finalize; a full count then leaves no more records open than that
(`FullMeansOwed`). It rests on three facts
about the request: a task before its insert has no record yet (`TasksOK`), so
that no insert reopens a classified one, the batch is open for counting only
after the request has published it (`BatchOK`), and the lambdas hold files with a
record only (`GateOK`). The lemmas `NoneBegin`,
`OneBegins`, `RewriteCounts` and `AddCounts` are the four things a step can do to
the count, and every action is one of them. `CountsOK` is conditional on no document having
been counted ahead by the gate, as the properties are.

What a completed batch says of its documents is decided by one query of an index
and told by two reads, with writes between them. The invariant (`TruthOK`) carries
the finding along: whoever is about to complete the batch, and whoever has read
that it is completed, has no more failed or open jobs before it than replaced
classifications. That there are no more afterwards either is `CountsOK` once more:
the count was full, a classified record changes to a deleted one at most unless it
is written over (`ClassifiedStays`), and writing one over opens one and replaces
one (`NoNewDebt`). `misled` sets aside a query that was shown the past.

`WriteQuota_proofs`:

- `TypeCorrect`, by which no count is ever negative; `DailyLimitKept`:
  `Spec => []DailyLimit`; `MonthlyLimitKept`: `Spec => []MonthlyLimit`;
  `CountsSettle`: `Spec => []CountSettles`.

A request is let through by what its own increment returned, before others take
theirs back, so that the counter says little about those let through. The
invariant keeps two sums: the item and the refunds of a day cover all requests
that hold a write (`Covered`), and those that were below the limit fit into it with
the refunds (`Fits`). An increment that finds itself within the limit has, by
`Covered`, at most that many holders with it; a rollback takes its own request out
of both sides.

The monthly limit is harder, because each request adds up the days at a moment of
its own and knows of today what its increment returned. Two requests of a day are
counted both only by the one whose increment came second, and no variable remembers
which did. The invariant (`MonthOK`) therefore says that *there is* an order of the
increments, `age`, in which everything fits: the requests of a day that were added no
later than one at its query are within what it has got and the refunds (`RankOK`);
and over all days, the requests let through by a query that missed nothing, with
those at their query that one of them has counted, are within the limit and the
refunds (`MonthFits`). An increment extends the order by one request that is younger
than all others; a query that lets its request through has, by `RankOK`, counted
everyone older; for all others the same order goes on. The request of a query that
missed writes is set aside in `misled`, one for one, as the property does. `ThereOK`
adds that a day without an item has no count.

What a count comes to is an equation and not a bound: as long as nothing has
failed or was refunded on another day, the item of a day is exactly the number of
requests whose write is in it (`ExactOK`), including those that will be rolled
back. A step moves one request into that set, out of it, or none (`TakesOne`,
`TakenBack`), by as much as the item changes; when all requests are over, the set is
the live ones. Both conditions of the property are ones that stay broken
(`ExactBefore`), so that the equation may assume them.

`DocumentBuild_proofs`:

- `TypeCorrect`, `SubmittedOnce`: `Spec => []SubmitOnce`, `LockIsTheDocuments`:
  `Spec => []LockFollowsDocument`, and `ConsentIsRespected`:
  `Spec => []ConsentRespected`, which no run checks;
- `PagesWithinLimit`: `Spec => []PageLimit`, and `DocumentsAreWhole`:
  `Spec => []DocumentIsWhole`.

The lock admits one submission at a time, but a roll-back opens it again, so that
uniqueness needs who holds it (`LockOK`): at most one submission is past the lock,
the lock is set as long as there is one, and none is past it beside a document.
That no upload or stamp writes row 0 is an invariant of its own (`PagesOK`), the
reason of a lock without failures another (`LockHeld`). All of it is conditional on
row 0 not having been deleted, as the properties are.

Whether a document is whole is decided long before it is put. The invariant
(`Owes`) follows what a submission owes through its steps: the acknowledged pages
are rows of the table until it lists them, then in its list, then still to be
merged or merged, then in the document. A page deleted meanwhile is no longer owed,
from before its row goes (`OwedOK`); uploads only add rows, and a page that replaces
another is owed as well. The limit on pages (`LimitOK`) is kept by one upload at a
time: while none overlaps with another, the pages that are there and those the
upload under way has still to write are together within it. The lemmas of this part
go by how rows change, not by action: most steps leave both statements alone
(`OwedAside`, `PagesBeside`).

`ApiKeys_proofs`:

- `TypeCorrect`, `RevocationTakesEffect`: `Spec => []RevokedIsRefused`,
  `ActiveKeysAreAccepted`: `Spec => []ActiveIsAccepted`, and
  `ClosedTenantsHaveNoKeys`: `Spec => []ClosedTenantHasNoKeys`.

Each of the three has a part of the invariant of its own. `AgesOK` bounds the age of
a deactivation by whatever is still known of the key from before: for a cache entry
the age and the time left are at most `TTL + 1` together, and a request that read
the row is younger than a tick; what was read from the cache was as old as the entry.
`FreshOK` follows a key that nobody has deactivated: its rows, its cache entries and
what requests have found of it say "active" or are not there, and a request that
is on its way to the legacy row finds it, unless that row has just been moved.
`ClosingOK` says that while a tenant closes, every active key its list showed is
still among the rows to write (`Pending`). That the container which deactivated a key
refuses it at once (`OwnOK`) needs in turn that without failures keys are cached
under their new hash only, and only once they have a row there (`PepperOK`): the
write drops one cache entry, and there must be no other. A key that is being
created is its creator's alone (`KeysOK`). Each part is indifferent to the steps of
admins up to the write of a row (`AdminKeeps`), which is where the parts meet.

`Metrics_proofs`:

- `TypeCorrect`, `CountsOnce`: `Spec => []CountedOnce`, `UsageCountsOnce`:
  `Spec => []UsageOnce`, `TenantsAgree`: `Spec => []TenantsAddUp`, and
  `FiguresGoForward`: `Spec => NeverBackwards`.

Three invariants build on each other. `FilesInv` says what is in a file: objects that
have been made, of the file's day and tenant, and one per document, since a query
keeps a document's latest object (`LatestFound`); what the report has counted was
created before today but on a first of the month. That gives `CountedOnce` and
`UsageOnce`. A file of a month is the union of days' files, and a document has
one day only (`SummaryOnce`).

`DaysOK` follows a run through the files of its day: what it has found carries forward
whatever a file shows, so that a write cannot take anything back, and without failures
the files it need not write any more show exactly what it has found, so that they
agree with the global one when it is done. `MonthsOK` says the same of a month: its
file is never ahead of the run that will write it, nor that run of the days. Both rest
on there being one run at a time for the day or the month, and leave out the
days in `mixed` and the months in `blurred`, where there were two, as the properties do.
That a query finds a latest object at all is the lemma `Greatest`, that a bounded
set of naturals has a greatest one. It would be an induction; the proof compares
cardinalities instead: a set without a greatest member would have more members
than its bound admits.

`Extraction_proofs`, about `ExtractionCompare`:

- `BlurIsAsDescribed`: `Spec => []BlurAsDescribed`. The code reaches its verdict by
  way of the quadrants it evaluated before the first failure, those it skipped and
  those it asked about; the description only mentions populated and empty ones.
  That they agree on a page that is neither is a counting argument: an empty
  quadrant and three that are not populated hold at most `3 * (MinWords - 1)` words,
  so the page is not dense, and the question and the fallback exclude each other.
- `PrimaryAlwaysDecides`: `Spec => []PrimaryDecides`, by an invariant on what each
  point of the processor and of the job implies for the status.
- `AnswersAreGrounded`: `Spec => []AnswersGrounded`. What is invariant
  (`AnswersInv`) is that each answer is the reading of the document for one of its
  citations, or what the two passes over the identity document found, whatever is
  redelivered and fails. The rest is about operators, for any page. The code's loops
  pick a best line, a first or a rightmost word and the ends of a box, all of which
  `CHOOSE` in the model, so that each lemma rests on there being one to choose:
  `LeastExists` gets the least element of a set of numbers from inclusion being
  well-founded on finite sets, `GreatestExists` turns it around below a bound.
  `BestLineExists` is the first among the lines with most tokens, and
  `CitationBoxWithin` that the words' box stays within their line's. `AverageSome`
  compares the percents of the words with the words; a citation that a line has in
  whole can do without a confidence only where Textract has none in a word of the
  line, which the property names. `LocateSays` and `SupplementMatches`
  follow the fallbacks by which a field gets its place; that a short value is placed
  exactly follows from only words with its text matching it (`ShortIsExact`).

`Extraction_proofs`, about `DocumentEvaluation`:

- `EvaluationInvariant`: `EvaluationSpec => []EvaluationInv`;
- `VerdictsAreExplained`: `EvaluationSpec => []VerdictExplained`, `TheAnswersAgree`:
  `EvaluationSpec => []AnswersAgree`, `EventsHaveTheCode`:
  `EvaluationSpec => []EventCode`.

The three are about computations made at different times from one record. The
invariant says what a record of each stage keeps (`StageOK`): nothing extracted
before the engine; from the outcome on, the code that belongs to its status, which
is also the event's, and required fields among those found empty or unlocated; until the
answer, those the rule still names, unless it changed (`RuleStored`). The stored
answer is that of the record for *some* missing fields (`AnswerOK`), which are those
of the rule but for the excuses, and unless one of these explains it every cache holds
the flag that the answer was made with, so that whoever reads it later finds the
same (`Finds`); that is enough to compare it with the breakdown,
which computes them again from the rule of its day. The tables of codes are
evaluated once, in lemmas of their own (`Terminal`, `CodesApart`).

`AdminRequests_proofs`:

- `AdminInvariant`: `Spec => []AdminInv`; `LimitsStayOrdered`:
  `Spec => []LimitsOrdered`; `TrailTellsThePool`: `Spec => []TrailTellsPool`.

Both properties speak of a subject (a user or a tenant) for which nothing has
overlapped, and hold between requests. The invariant says what holds in the middle
of one. A request that is alone with its subject stays so unless an overlap is
recorded (`AloneOK`), and then nobody undoes what it has done (`Alone`): the groups
still there are among those it has yet to remove, the group and the tenant it has
set are those of its event, the limits it is about to write are in order with those
of the row. The user is as told but for what the request under way has written
(`UserOK`), so that the event that ends it makes them agree. A failure or an overlap
suspends this until a change that runs alone re-establishes it. A step touches one
subject; `OthersKeep` has the others, once for all actions.

### Only model-checked

- Liveness, which is out of the prover's reach: `EventuallyResolved`,
  `SettlesUnlessLost`, `CompareCompletes`.

Every invariant and action property that a passing run checks is proved. The type
invariants of `Metrics`, `DocumentEvaluation` and `AdminRequests` are parts of the
proofs and can be added to the runs.

## 6. Not modelled

- Image optimisation, page counting and conversion are numerical code and calls of
  imaging libraries; what they find and whether they fail are inputs of
  `DocumentLifecycle` and `BatchUpload`.
- Prompts, token counts, costs, timings and confidence values of the LLMs and
  engines: what they answer is an input, and only comparisons with a threshold
  matter.
- The catalogues (rules, categories, dictionary, schemas) are single-row reads and
  writes; what a rule does to an answer is in `DocumentEvaluation`. Queries, search
  and presentation masks change no state.
- Storage, AWS wrappers, logging and redaction, the CLI, the user interface, and of
  the infrastructure everything but the delivery of events.
- In modelled components: the `ai_consent` branch of `_dispatch_document_processor`
  (no upload path puts a file without consent in the bucket), unpacking in the ZIP
  endpoint of batches, pages of several formats in a build, changes of a tenant's
  limits while its quota is counted, key names and expiry dates, the daily view of
  the usage endpoint. `PROJECT.json` names them by component.

Two hazards it lists have no property, because the code does not claim or hold
one: a refused file that leaves its batch uploading (`routers/batch.py:232`), and
the bytes of a page that are put before its row (`routers/build.py:99`).

## 7. Plan

Done, in this order: `ProcessStatus`, `DocumentLifecycle` with `DocumentContract`,
`BatchUpload`, `WriteQuota`, `DocumentBuild`, `ApiKeys`, `Metrics`,
`DocumentEvaluation`, `AdminRequests`, `PageWords` and `ExtractionCompare`, and the
proofs above. What would add most next:

1. A composition: a batch of `DocumentLifecycle` documents under `BatchUpload`'s
   finalization, to check that `Process` and `Reap` there are what the lifecycle
   does to its batch.
2. The demo and test-runner endpoints and the ZIP upload, which enter modelled code
   by other doors.
