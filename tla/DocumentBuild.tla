---------------------------- MODULE DocumentBuild ----------------------------
(***************************************************************************)
(* One multi-page build (routers/build.py, utils/document_build.py): pages *)
(* are uploaded one by one or in batches, deleted, and submitted as one    *)
(* merged document.                                                        *)
(*                                                                         *)
(* The build is the rows of one partition: row 0 describes the build and   *)
(* carries its lock, submittedAt; row p is page p, and its bytes are an    *)
(* object of the preprocessing bucket whose key is made of p.  Reads of    *)
(* one row are consistent, the query of the partition is not: it reads the *)
(* replica.  Bytes are named by the request that uploaded them.  All pages *)
(* have one format, so that a page has one key.                            *)
(***************************************************************************)
EXTENDS Naturals, FiniteSets, FiniteSetsExt

CONSTANTS
    Uploaders,     \* requests that upload one page, or a batch
    Submitters,    \* requests that submit the build
    PageDeleters,  \* requests that delete one page
    Deleters,      \* requests that delete the build
    Nobody,        \* no request
    BatchSize,     \* bound: the pages of a batch
    Category,      \* the category each uploader gives its pages, or Nobody
    MaxPages,      \* MAX_PAGES_PER_BUILD
    Last,          \* bound: the highest page number that is tried
    MaxMade,       \* bound: the requests that are made, of all these
    MaxFaults      \* bound: crashes and failed remote calls, in all

Requests == Uploaders \cup Submitters \cup PageDeleters \cup Deleters
Numbers == 0..Last
Pages == 1..Last

ASSUME ConstantsAssumption ==
    /\ Uploaders \cap (Submitters \cup PageDeleters \cup Deleters) = {}
    /\ Submitters \cap (PageDeleters \cup Deleters) = {}
    /\ PageDeleters \cap Deleters = {}
    /\ Nobody \notin Requests
    /\ BatchSize \in Nat \ {0} /\ MaxPages \in Nat \ {0} /\ Last \in Nat \ {0}
    /\ MaxMade \in Nat /\ MaxFaults \in Nat

VARIABLES
    consent,  \* aiConsentFlag is not False
    rows,     \* the rows of the build
    replica,  \* the rows as a query may see them: bound: one write behind
    objects,  \* whose bytes the object of each page holds
    req,      \* where each request is, and what it remembers
    jobs,     \* submissions that have a record
    docs,     \* history: the documents put in the input bucket
    owed,     \* history: the pages a submission found acknowledged
    removed,  \* history: row 0 has been deleted
    misled,   \* history: submissions whose query missed changes
    overlap,  \* history: an upload listed the pages while another was at it
    faults    \* crashes and failed calls so far

vars == <<consent, rows, replica, objects, req, jobs, docs, owed, removed,
          misled, overlap, faults>>
hist == <<docs, owed, removed, misled, overlap>>

Row == [there : BOOLEAN, meta : BOOLEAN, by : Uploaders \cup {Nobody}, submitted : BOOLEAN]
NoRow == [there |-> FALSE, meta |-> FALSE, by |-> Nobody, submitted |-> FALSE]

Active == {"list", "put", "row", "consent", "pages", "lock", "find", "stamp",
           "merge", "insert", "upload", "rollback", "check", "drop", "dropRow",
           "dropAll", "loop"}
Ended == {"ok", "refused", "failed"}

\* todo: the pages still to be treated; page: the one in hand; listed: what the
\* query returned; whole: every page listed has a key; content: what was merged.
Req == [pc : {"start"} \cup Active \cup Ended, todo : SUBSET Numbers, page : Numbers,
        over : BOOLEAN, listed : SUBSET Numbers, whole : BOOLEAN,
        content : [Pages -> Uploaders \cup {Nobody}]]

Fresh == [pc |-> "start", todo |-> {}, page |-> 0, over |-> FALSE, listed |-> {},
          whole |-> TRUE, content |-> [p \in Pages |-> Nobody]]

TypeOK ==
    /\ consent \in BOOLEAN
    /\ rows \in [Numbers -> Row] /\ replica \in [Numbers -> Row]
    /\ objects \in [Pages -> Uploaders \cup {Nobody}]
    /\ req \in [Requests -> Req]
    /\ jobs \subseteq Submitters
    /\ docs \in SUBSET [by : Submitters, content : [Pages -> Uploaders \cup {Nobody}]]
    /\ owed \in [Submitters -> SUBSET Pages]
    /\ removed \in BOOLEAN /\ overlap \in BOOLEAN
    /\ misled \subseteq Submitters
    /\ faults \in 0..MaxFaults

\* create_document_build: the row of the build, which the query sees too.
Init ==
    /\ consent \in BOOLEAN
    /\ rows = [p \in Numbers |-> IF p = 0 THEN [NoRow EXCEPT !.there = TRUE, !.meta = TRUE]
                                          ELSE NoRow]
    /\ replica = rows
    /\ objects = [p \in Pages |-> Nobody]
    /\ req = [r \in Requests |-> Fresh]
    /\ jobs = {} /\ docs = {}
    /\ owed = [s \in Submitters |-> {}]
    /\ removed = FALSE /\ misled = {} /\ overlap = FALSE
    /\ faults = 0

At(r, pc) == req[r].pc = pc
\* A request that has been answered remembers nothing.
Goto2(r, pc, todo) ==
    req' = [req EXCEPT ![r] = IF pc \in Ended THEN [Fresh EXCEPT !.pc = pc]
                              ELSE [@ EXCEPT !.pc = pc, !.todo = todo]]
Goto(r, pc) == Goto2(r, pc, req[r].todo)

\* Pages are treated in the order of their numbers.
First(p, pages) == \A q \in pages : p <= q

\* get_document_build_pages: every row that is not marked as the build's.
PagesIn(items) == {p \in Numbers : items[p].there /\ ~items[p].meta}

\* is_document_build_submitted: any row that carries submittedAt.
SubmittedIn(items) == \E p \in Numbers : items[p].there /\ items[p].submitted

\* A write, which queries may miss until the next one or Replicate.
Lag == replica' = IF rows' = rows THEN replica ELSE rows

\* update_item writes a row that is not there.
Written(row, submitted) == [row EXCEPT !.there = TRUE, !.submitted = submitted]

\* A query of the replica, remembered when it differs from the rows.
Misled(r) == misled' = IF r \in Submitters /\ replica # rows THEN misled \cup {r} ELSE misled

-----------------------------------------------------------------------------
(* Every request *)

\* The pages that are there when a submission begins, and whose uploads,
\* like all others, have been answered.
Acknowledged ==
    IF \A r \in Requests \ Submitters : req[r].pc \notin Active
    THEN {p \in Pages : rows[p].there /\ rows[p].by # Nobody} ELSE {}

\* validate_build_tenant_access, a dependency of each endpoint.
Begin(r, next) ==
    /\ At(r, "start") /\ Cardinality({q \in Requests : ~At(q, "start")}) < MaxMade
    /\ Goto(r, IF rows[0].there /\ rows[0].meta THEN next ELSE "refused")
    /\ owed' = IF r \in Submitters THEN [owed EXCEPT ![r] = Acknowledged] ELSE owed
    /\ UNCHANGED <<consent, rows, replica, objects, jobs, docs, removed, misled, overlap, faults>>

\* A call fails, or the lambda dies.
Stop(r, pc) ==
    /\ req[r].pc \in Active
    /\ faults < MaxFaults /\ faults' = faults + 1
    /\ Goto(r, pc)
    /\ UNCHANGED <<consent, rows, replica, objects, jobs, hist>>

-----------------------------------------------------------------------------
(* Uploads *)

Uploading(r) == req[r].pc \in {"put", "row"}

NextNumber(listed) == Max({0} \cup listed) + 1

FullTooLate(listed, files) == Cardinality(listed) > MaxPages

Full(listed, files) == Cardinality(listed) + files > MaxPages

\* upload_document_build_page and upload_document_build_pages_batch read the
\* pages there are and number the new ones; the first may be given a number,
\* and told to overwrite.
List(r) ==
    /\ At(r, "list")
    /\ LET listed == PagesIn(replica) IN
       \E files \in 1..BatchSize :
          IF Full(listed, files)
          THEN Goto(r, "refused") /\ UNCHANGED overlap
          ELSE /\ \E p \in Pages, over \in BOOLEAN :
                    /\ p + files - 1 \in Pages
                    /\ files > 1 => p = NextNumber(listed) /\ ~over
                    /\ req' = [req EXCEPT ![r].pc = "put", ![r].over = over,
                                          ![r].todo = p..(p + files - 1)]
               /\ overlap' = (overlap \/ replica # rows
                                \/ \E q \in Uploaders \ {r} : Uploading(q))
    /\ Misled(r)
    /\ UNCHANGED <<consent, rows, replica, objects, jobs, docs, owed, removed, faults>>

\* upload_document_for_processing, to the key of the page.
Put(r) ==
    /\ At(r, "put")
    /\ \E p \in req[r].todo :
          /\ objects' = [objects EXCEPT ![p] = r]
          /\ req' = [req EXCEPT ![r].pc = "row", ![r].page = p]
    /\ UNCHANGED <<consent, rows, replica, jobs, hist, faults>>

MayWrite(r) == req[r].over \/ ~rows[req[r].page].there

\* upsert_document_build_page: the whole item, if overwrite or if there is
\* none.  Otherwise 409, and the other tasks of the batch are cancelled.
PutRow(r) ==
    /\ At(r, "row")
    /\ LET p == req[r].page
           left == req[r].todo \ {p} IN
       IF MayWrite(r)
       THEN /\ rows' = [rows EXCEPT ![p] = [there |-> TRUE, meta |-> FALSE, by |-> r,
                                            submitted |-> FALSE]]
            /\ Goto2(r, IF left = {} THEN "ok" ELSE "put", left)
       ELSE Goto(r, "refused") /\ UNCHANGED rows
    /\ Lag
    /\ UNCHANGED <<consent, objects, jobs, hist, faults>>

-----------------------------------------------------------------------------
(* submit *)

Declined == rows[0].there /\ rows[0].meta /\ ~consent

\* The consent, from a row 0 that may be gone: then there is no such flag.
Consent(r) ==
    /\ At(r, "consent")
    /\ IF Declined THEN Goto(r, "ok") /\ jobs' = jobs \cup {r}
       ELSE Goto(r, "pages") /\ UNCHANGED jobs
    /\ UNCHANGED <<consent, rows, replica, objects, hist, faults>>

Categories(items, pages) == {Category[items[p].by] : p \in {q \in pages : items[q].by # Nobody}}

\* The pages, which must be of one category.
Collect(r) ==
    /\ At(r, "pages")
    /\ LET listed == PagesIn(replica) IN
       IF listed = {} \/ Cardinality(Categories(replica, listed) \ {Nobody}) > 1
       THEN Goto(r, "refused")
       ELSE req' = [req EXCEPT ![r].pc = "lock", ![r].listed = listed,
                               ![r].whole = \A p \in listed : replica[p].by # Nobody]
    /\ Misled(r)
    /\ UNCHANGED <<consent, rows, replica, objects, jobs, docs, owed, removed, overlap, faults>>

UnlockedWas == ~replica[0].submitted

Unlocked == ~rows[0].submitted

LockBy(r) ==
    /\ At(r, "lock")
    /\ IF Unlocked
       THEN rows' = [rows EXCEPT ![0] = [Written(@, TRUE) EXCEPT !.by = r]] /\ Goto(r, "find")
       ELSE Goto(r, "refused") /\ UNCHANGED rows
    /\ Lag
    /\ UNCHANGED <<consent, objects, jobs, hist, faults>>

\* mark_document_build_submitted: the conditional write of submittedAt.
Lock(r) ==
    /\ At(r, "lock")
    /\ IF Unlocked
       THEN rows' = [rows EXCEPT ![0] = Written(@, TRUE)] /\ Goto(r, "find")
       ELSE Goto(r, "refused") /\ UNCHANGED rows
    /\ Lag
    /\ UNCHANGED <<consent, objects, jobs, hist, faults>>

\* Its query for the pages to stamp.
Find(r) ==
    /\ At(r, "find")
    /\ Goto2(r, "stamp", {p \in Pages : replica[p].there})
    /\ UNCHANGED <<consent, rows, replica, objects, jobs, hist, faults>>

ToMergeUnstamped(r) == {p \in req[r].listed : ~rows[p].submitted}

ToMerge(r) == req[r].listed

\* Its update of each; then the merge begins.
Stamp(r) ==
    /\ At(r, "stamp")
    /\ IF req[r].todo = {}
       THEN Goto2(r, "merge", ToMerge(r)) /\ UNCHANGED rows
       ELSE \E p \in req[r].todo :
            /\ First(p, req[r].todo)
            /\ rows' = [rows EXCEPT ![p] = Written(@, TRUE)]
            /\ Goto2(r, "stamp", req[r].todo \ {p})
    /\ Lag
    /\ UNCHANGED <<consent, objects, jobs, hist, faults>>

\* merge_pages_to_pdf: the bytes of each page listed; a page without a key or
\* an object fails.
Merge(r) ==
    /\ At(r, "merge")
    /\ IF req[r].todo = {} THEN Goto(r, "insert")
       ELSE \E p \in req[r].todo :
            /\ First(p, req[r].todo)
            /\ IF req[r].whole /\ p # 0 /\ objects[p] # Nobody
               THEN req' = [req EXCEPT ![r].todo = @ \ {p}, ![r].content[p] = objects[p]]
               ELSE Goto(r, "rollback")
    /\ UNCHANGED <<consent, rows, replica, objects, jobs, hist, faults>>

\* insert_minimal_ddb_record
Insert(r) ==
    /\ At(r, "insert")
    /\ jobs' = jobs \cup {r}
    /\ Goto(r, "upload")
    /\ UNCHANGED <<consent, rows, replica, objects, hist, faults>>

\* upload_document_for_processing
Upload(r) ==
    /\ At(r, "upload")
    /\ docs' = docs \cup {[by |-> r, content |-> req[r].content]}
    /\ Goto(r, "ok")
    /\ UNCHANGED <<consent, rows, replica, objects, jobs, owed, removed, misled, overlap, faults>>

\* A failed merge, insert or copy is caught.  The last call of
\* upload_document_for_processing raises an HTTPException, and what fails in
\* mark_document_build_submitted is outside the try: these leave the lock.
Broken(r) ==
    \/ req[r].pc \in {"merge", "insert", "upload"} /\ Stop(r, "rollback")
    \/ Stop(r, "failed")

RollbackForgotten(r) ==
    /\ At(r, "rollback")
    /\ Goto(r, "failed")
    /\ UNCHANGED <<consent, rows, replica, objects, jobs, hist, faults>>

\* clear_submitted_at
Rollback(r) ==
    /\ At(r, "rollback")
    /\ rows' = [rows EXCEPT ![0] = Written(@, FALSE)]
    /\ Goto(r, "failed")
    /\ Lag
    /\ UNCHANGED <<consent, objects, jobs, hist, faults>>

-----------------------------------------------------------------------------
(* Deletions *)

\* delete_document_build_page: not if the query finds submittedAt; then the
\* row, if it is there, after its object.
Check(r) ==
    /\ At(r, "check")
    /\ IF SubmittedIn(replica) THEN Goto(r, "refused")
       ELSE IF r \in Deleters THEN Goto(r, "drop")
       ELSE \E p \in Numbers : req' = [req EXCEPT ![r].pc = "drop", ![r].page = p]
    /\ Misled(r)
    /\ UNCHANGED <<consent, rows, replica, objects, jobs, docs, owed, removed, overlap, faults>>

Drop(r) ==
    /\ At(r, "drop")
    /\ LET p == req[r].page IN
       IF rows[p].there
       THEN /\ objects' = IF rows[p].by # Nobody THEN [objects EXCEPT ![p] = Nobody] ELSE objects
            /\ owed' = [s \in Submitters |-> owed[s] \ {p}]
            /\ Goto(r, "dropRow")
       ELSE /\ Goto(r, IF r \in Deleters THEN "loop" ELSE "refused")
            /\ UNCHANGED <<objects, owed>>
    /\ UNCHANGED <<consent, rows, replica, jobs, docs, removed, misled, overlap, faults>>

\* DELETE of a page takes any number: 0 is the row of the build.
DropRow(r) ==
    /\ At(r, "dropRow")
    /\ LET p == req[r].page IN
       /\ rows' = [rows EXCEPT ![p] = NoRow]
       /\ removed' = (removed \/ p = 0)
    /\ Goto(r, IF r \in Deleters THEN "loop" ELSE "ok")
    /\ Lag
    /\ UNCHANGED <<consent, objects, jobs, docs, owed, misled, overlap, faults>>

\* delete_document_build checks, lists the pages ...
ListAll(r) ==
    /\ At(r, "dropAll")
    /\ IF SubmittedIn(replica) \/ (PagesIn(replica) = {} /\ ~rows[0].there)
       THEN Goto(r, "refused")
       ELSE Goto2(r, "loop", PagesIn(replica))
    /\ Misled(r)
    /\ UNCHANGED <<consent, rows, replica, objects, jobs, docs, owed, removed, overlap, faults>>

\* ... deletes each as DELETE of a page does, and row 0 last.
DeleteNext(r) ==
    /\ At(r, "loop")
    /\ IF req[r].todo = {}
       THEN /\ rows' = [rows EXCEPT ![0] = NoRow]
            /\ removed' = TRUE
            /\ Goto(r, "ok")
       ELSE /\ \E p \in req[r].todo :
                  /\ First(p, req[r].todo)
                  /\ req' = [req EXCEPT ![r].pc = "check", ![r].page = p, ![r].todo = @ \ {p}]
            /\ UNCHANGED <<rows, removed>>
    /\ Lag
    /\ UNCHANGED <<consent, objects, jobs, docs, owed, misled, overlap, faults>>

-----------------------------------------------------------------------------
Replicate ==
    /\ replica # rows /\ replica' = rows
    /\ UNCHANGED <<consent, rows, objects, req, jobs, hist, faults>>

Next ==
    \/ \E r \in Uploaders : Begin(r, "list") \/ List(r) \/ Put(r) \/ PutRow(r)
    \/ \E r \in Submitters :
          \/ Begin(r, "consent") \/ Consent(r) \/ Collect(r) \/ Lock(r) \/ Find(r)
          \/ Stamp(r) \/ Merge(r) \/ Insert(r) \/ Upload(r) \/ Rollback(r)
          \/ Broken(r)
    \/ \E r \in PageDeleters : Begin(r, "check")
    \/ \E r \in PageDeleters \cup Deleters : Check(r) \/ Drop(r) \/ DropRow(r)
    \/ \E r \in Deleters : Begin(r, "dropAll") \/ ListAll(r) \/ DeleteNext(r)
    \/ \E r \in Requests \ Submitters : Stop(r, "failed")
    \/ Replicate

Spec == Init /\ [][Next]_vars

-----------------------------------------------------------------------------
(* Properties *)

\* A submission is past the lock and has not been answered.
Submitting(r) ==
    req[r].pc \in {"find", "stamp", "merge", "insert", "upload", "rollback"}

\* "if two concurrent submits race, only one succeeds": however submissions
\* interleave with uploads, failures and roll-backs, and unless the row of the
\* build is deleted, the build is put in the input bucket at most once.
SubmitOnce == ~removed => Cardinality(docs) <= 1

\* Without failures, and unless the row is deleted: when no submission is
\* under way, the build is locked if and only if its document has been put.
LockFollowsDocument ==
    (faults = 0 /\ ~removed /\ \A r \in Submitters : ~Submitting(r))
        => (rows[0].submitted <=> docs # {})

\* submit: a document holds all the pages that had been acknowledged when its
\* submission began and were not deleted since, whatever is uploaded, deleted
\* or submitted meanwhile, unless the query missed them.
DocumentIsWhole ==
    \A d \in docs : d.by \notin misled => \A p \in owed[d.by] : d.content[p] # Nobody

\* "Build exceeds maximum of MAX_PAGES_PER_BUILD pages": as long as no upload
\* lists the pages while another adds some, batches and numbered pages, holes
\* and deletions together stay within the limit.
PageLimit ==
    ~overlap => Cardinality({p \in Pages : rows[p].there /\ rows[p].by # Nobody}) <= MaxPages

\* aiConsentFlag: without consent nothing of the build is processed, unless
\* the row that says so is deleted.
ConsentRespected == ~consent /\ ~removed => docs = {}

-----------------------------------------------------------------------------
(* What the comments say, and the runs refute *)

\* "clear submittedAt so user can retry": a submission that fails after its
\* record was made does not leave the build locked without a document.
RetryPossible ==
    \A r \in jobs : At(r, "failed") /\ docs = {} /\ (\A q \in Submitters : ~Submitting(q))
        => ~rows[0].submitted

\* "overwrite=False prevents concurrent batch requests from clobbering each
\* other": when no upload is under way, the bytes of a page are those of the
\* upload that its row names.
PageKeepsBytes ==
    (faults = 0 /\ \A r \in Requests : req[r].pc \notin Active)
        => \A p \in Pages : rows[p].there /\ rows[p].by # Nobody => objects[p] = rows[p].by
=============================================================================
