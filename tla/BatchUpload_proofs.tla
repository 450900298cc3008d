------------------------- MODULE BatchUpload_proofs -------------------------
(***************************************************************************)
(* Proofs about BatchUpload, for any finite set of files and any bounds:   *)
(* type correctness, that no classification is counted twice, that a batch *)
(* is final only when all of its files have been classified, but for as    *)
(* many as others were classified again, and that it is completed only     *)
(* without failed jobs, but for as many.                                   *)
(*                                                                         *)
(* FinalMeansResolved is not inductive.  The invariant adds that the count *)
(* reaches the total before anybody finalizes (CountsOK); that a task has  *)
(* no record before its insert, which would otherwise reopen one unseen    *)
(* (TasksOK); and that the lambdas hold files with a record only (GateOK). *)
(* CompletedIsTrue adds who is about to complete the batch, and what the   *)
(* client has read before the jobs (TruthOK): no step adds an open or a    *)
(* failed job without a record being written over (NoNewDebt).             *)
(***************************************************************************)
EXTENDS BatchUpload, FiniteSetTheorems, TLAPS

-----------------------------------------------------------------------------
(* The inductive invariant *)

Adding == {c \in Classifications : count[c] = "add"}

ResolvedFiles == {f \in Files : Resolved(f)}

Full == batch.resolved >= Total

TasksOK ==
    /\ request = "create" => \A f \in Files : task[f] = "none"
    /\ \A f \in Files : task[f] \in {"none", "admit", "insert"} => status[f] = NoStatus

GateOK ==
    \A f \in Files :
        gate[f] # "none" \/ f \in late \/ textract[f] # "none" => status[f] # NoStatus

BatchOK ==
    request \notin {"answered", "dead"} => batch.status \in {"none", "uploading"}

CountsOK ==
    /\ batch.resolved + Cardinality(Adding)
          <= Cardinality(ResolvedFiles) + Cardinality(Replaced)
    /\ \A c \in Classifications : count[c] \in {"query"} \cup Final => Full
    /\ batch.status \in {"completed", "partial"} => Full

IInv == TypeOK /\ TasksOK /\ GateOK /\ BatchOK /\ (NoneCountedAhead => CountsOK)

-----------------------------------------------------------------------------
(* Type correctness *)

\* A classification is one of a file.
LEMMA NowType ==
    ASSUME TypeOK, NEW f \in Files PROVE Now(f) \in Classifications
  BY DEF TypeOK, Now, Classifications

\* And the file of a classification is one of the batch.
LEMMA FileOf ==
    ASSUME NEW c \in Classifications PROVE c[1] \in Files
  BY DEF Classifications

\* What Advance and Raise do to the tasks, wherever they are called.
LEMMA AdvanceType ==
    ASSUME TypeOK, NEW f \in Files, NEW pc, Advance(f, pc),
           pc \in {"upload", "done"} \cup InThread \cup Counting
    PROVE  /\ task' \in [Files -> {"none", "admit", "upload", "done"}
                                      \cup InThread \cup Counting]
           /\ cancelled' \subseteq {g \in Files : task'[g] \in InThread}
  BY DEF TypeOK, Advance

\* A fault is counted within its bound.
LEMMA FaultType == ASSUME TypeOK, Fault PROVE faults' \in 0..MaxFaults
  BY ConstantsAssumption DEF TypeOK, Fault

\* A classification leaves the records and the increments well typed.
LEMMA ResolveType ==
    ASSUME TypeOK, NEW f \in Files, NEW class \in Classified, Resolve(f, class)
    PROVE  /\ status' \in [Files -> Status \cup {NoStatus}]
           /\ count' \in [Classifications -> {"idle", "add", "query"} \cup Final]
  BY NowType DEF TypeOK, Resolve, Status

\* A record that is written over leaves the records well typed.
LEMMA RewriteType ==
    ASSUME TypeOK, NEW f \in Files, NEW s \in Status, Rewrite(f, s)
    PROVE  /\ status' \in [Files -> Status \cup {NoStatus}]
           /\ rewrites' \in [Files -> 0..MaxRewrites]
  BY ConstantsAssumption DEF TypeOK, Rewrite

\* The steps of the tasks.
LEMMA TaskType ==
    ASSUME TypeOK, NEW f \in Files, Task(f)
    PROVE  TypeOK'
  <1>1. CASE Admit(f)
    <2>1. \E pc \in {"insert", "done"} : Advance(f, pc)
      BY <1>1 DEF Admit, Raise
    <2>2. raised' \subseteq {"http", "other"} /\ faults' \in 0..MaxFaults
      BY <1>1, FaultType DEF Admit, Raise, TypeOK
    <2> QED
      BY <1>1, <2>1, <2>2, AdvanceType DEF Admit, TypeOK, InThread, lambdas
  <1>2. CASE Insert(f)
    <2>1. \E pc \in {"upload", "declined", "done"} : Advance(f, pc)
      BY <1>2 DEF Insert, Raise
    <2>2. raised' \subseteq {"http", "other"} /\ faults' \in 0..MaxFaults
      BY <1>2, FaultType DEF Insert, Raise, TypeOK
    <2>3. status' \in [Files -> Status \cup {NoStatus}]
      BY <1>2 DEF Insert, TypeOK, Status, NonTerminal
    <2> QED
      BY <1>2, <2>1, <2>2, <2>3, AdvanceType DEF Insert, TypeOK, InThread, Classifying, lambdas
  <1>3. CASE Upload(f)
    <2>1. \E pc \in {"done", "unconverted", "unstored"} : Advance(f, pc)
      BY <1>3 DEF Upload, Raise
    <2>2. /\ raised' \subseteq {"http", "other"} /\ faults' \in 0..MaxFaults
          /\ stored' \subseteq Files
      BY <1>3, FaultType DEF Upload, Raise, TypeOK
    <2> QED
      BY <1>3, <2>1, <2>2, AdvanceType DEF Upload, TypeOK, InThread, Classifying, lambdas
  <1>4. CASE Classify(f)
    <2>1. \E pc \in {"done", "counting", "counting_unstored"} : Advance(f, pc)
      BY <1>4 DEF Classify, Raise
    <2>2. raised' \subseteq {"http", "other"} /\ faults' \in 0..MaxFaults
      BY <1>4, FaultType DEF Classify, Raise, TypeOK
    <2>3. Class[task[f]] \in Classified
      BY <1>4 DEF Classify, Classifying, Class, Classified
    <2>4. /\ status' \in [Files -> Status \cup {NoStatus}]
          /\ count' \in [Classifications -> {"idle", "add", "query"} \cup Final]
          /\ lost' \subseteq Files
      BY <1>4, <2>3, ResolveType DEF Classify, TypeOK, Status
    <2> QED
      BY <1>4, <2>1, <2>2, <2>4, AdvanceType DEF Classify, TypeOK, Counting, lambdas
  <1>5. CASE Counted(f)
    <2>1. Advance(f, "done")
      BY <1>5 DEF Counted, Raise
    <2>2. raised' \subseteq {"http", "other"}
      BY <1>5 DEF Counted, Raise, TypeOK
    <2> QED
      BY <1>5, <2>1, <2>2, AdvanceType DEF Counted, TypeOK, lambdas
  <1>6. CASE ThreadEnds(f)
    BY <1>6, AdvanceType DEF ThreadEnds, TypeOK, lambdas
  <1> QED
    BY <1>1, <1>2, <1>3, <1>4, <1>5, <1>6 DEF Task

\* The steps of the request.
LEMMA RequestType ==
    ASSUME TypeOK, TasksOK, Request \/ Die
    PROVE  TypeOK'
  <1>1. CASE Create
    <2>1. cancelled = {}
      BY <1>1 DEF Create, TasksOK, TypeOK, InThread, Classifying
    <2>2. batch' \in [status : BatchStatus, resolved : Nat]
      BY <1>1 DEF Create, TypeOK, BatchStatus
    <2>3. faults' \in 0..MaxFaults
      BY <1>1, FaultType DEF Create, TypeOK
    <2> QED
      BY <1>1, <2>1, <2>2, <2>3 DEF Create, TypeOK, lambdas
  <1>2. CASE Cancel
    BY <1>2 DEF Cancel, TypeOK, lambdas
  <1>3. CASE AllDone
    BY <1>3 DEF AllDone, TypeOK, lambdas
  <1>4. CASE Publish
    <2>1. batch' \in [status : BatchStatus, resolved : Nat]
      BY <1>4 DEF Publish, TypeOK, BatchStatus
    <2>2. faults' \in 0..MaxFaults
      BY <1>4, FaultType DEF Publish, TypeOK
    <2> QED
      BY <1>4, <2>1, <2>2 DEF Publish, TypeOK, lambdas
  <1>5. CASE MarkFailed
    <2>1. batch' \in [status : BatchStatus, resolved : Nat]
      BY <1>5 DEF MarkFailed, TypeOK, BatchStatus, Final
    <2>2. faults' \in 0..MaxFaults
      BY <1>5, FaultType DEF MarkFailed, TypeOK
    <2> QED
      BY <1>5, <2>1, <2>2 DEF MarkFailed, TypeOK, lambdas
  <1>6. CASE Die
    <2>1. /\ count' \in [Classifications -> {"idle", "add", "query"} \cup Final]
          /\ lost' \subseteq Files
      BY <1>6, FileOf DEF Die, TypeOK
    <2> QED
      BY <1>6, <2>1, FaultType DEF Die, TypeOK, lambdas
  <1> QED
    BY <1>1, <1>2, <1>3, <1>4, <1>5, <1>6 DEF Request

\* The steps of the lambdas, the reaper and DELETE.
LEMMA DocumentType ==
    ASSUME TypeOK, NEW f \in Files,
           Settle(f) \/ Overwrite(f) \/ GateCounts(f) \/ GateDies(f) \/ Delete(f)
    PROVE  TypeOK'
  <1>1. CASE Process(f)
    <2>1. {"success", "failed"} \cup GateVerdicts \subseteq Classified
      BY ConstantsAssumption DEF UncountedVerdicts, Classified
    <2>2. /\ status' \in [Files -> Status \cup {NoStatus}]
          /\ count' \in [Classifications -> {"idle", "add", "query"} \cup Final]
          /\ lost' \subseteq Files
          /\ textract' \in [Files -> {"none", "recorded", "over"}]
      BY <1>1, <2>1, ResolveType DEF Process, GoesOn, TypeOK, Status
    <2> QED
      BY <1>1, <2>2 DEF Process, TypeOK
  <1>2. CASE GateCounts(f)
    BY <1>2, NowType DEF GateCounts, TypeOK, lambdas
  <1>3. CASE GateRecords(f)
    BY <1>3, ConstantsAssumption DEF GateRecords, TypeOK, Status, Classified, lambdas
  <1>4. CASE GateDies(f)
    BY <1>4, FaultType, NowType DEF GateDies, TypeOK, lambdas
  <1>5. CASE Reap(f)
    <2>1. /\ status' \in [Files -> Status \cup {NoStatus}]
          /\ count' \in [Classifications -> {"idle", "add", "query"} \cup Final]
      BY <1>5, ResolveType DEF Reap, Classified
    <2> QED
      BY <1>5, <2>1 DEF Reap, TypeOK, lambdas
  <1>6. CASE Delete(f)
    BY <1>6 DEF Delete, TypeOK, Status, Classified, lambdas
  <1>7. CASE HandOver(f)
    <2>1. Rewrite(f, "started") /\ "started" \in Status
      BY <1>7 DEF HandOver, Status, NonTerminal
    <2> QED
      BY <1>7, <2>1, RewriteType DEF HandOver, TypeOK
  <1>8. CASE LateRead(f)
    BY <1>8 DEF LateRead, TypeOK
  <1>9. CASE LateWrite(f)
    <2>1. {"started"} \cup GateVerdicts \subseteq Status
      BY ConstantsAssumption DEF UncountedVerdicts, Classified, Status, NonTerminal
    <2>2. \E s \in Status : Rewrite(f, s)
      BY <1>9, <2>1 DEF LateWrite
    <2> QED
      BY <1>9, <2>2, RewriteType DEF LateWrite, TypeOK
  <1> QED
    BY <1>1, <1>2, <1>3, <1>4, <1>5, <1>6, <1>7, <1>8, <1>9 DEF Settle, Overwrite

\* The steps of the increments and of the GET.
LEMMA CountType ==
    ASSUME TypeOK,
           Get \/ \E c \in Classifications : Increment(c) \/ LoseCount(c)
    PROVE  TypeOK'
  <1>1. ASSUME NEW c \in Classifications, Add(c) PROVE TypeOK'
    <2>1. batch' \in [status : BatchStatus, resolved : Nat]
      BY <1>1 DEF Add, TypeOK
    <2> QED
      BY <1>1, <2>1, FileOf DEF Add, TypeOK, lambdas
  <1>2. ASSUME NEW c \in Classifications, Query(c) PROVE TypeOK'
    <2>1. PICK failed \in SUBSET MayReadFailed :
            /\ count' = [count EXCEPT ![c] =
                 CASE failed = {} -> "completed"
                   [] Cardinality(failed) = Total -> "failed"
                   [] OTHER -> "partial"]
            /\ misled' = (misled \/ failed # FailedJobs)
      BY <1>2 DEF Query
    <2>2. misled' \in BOOLEAN
      BY <2>1, ZenonT(30) DEF TypeOK
    <2>3. count' \in [Classifications -> {"idle", "add", "query"} \cup Final]
      BY <2>1 DEF TypeOK, Final
    <2> QED
      BY <1>2, <2>2, <2>3 DEF Query, TypeOK, lambdas
  <1>3. ASSUME NEW c \in Classifications, Finalize(c) PROVE TypeOK'
    <2>1. batch' \in [status : BatchStatus, resolved : Nat]
      BY <1>3 DEF Finalize, TypeOK, BatchStatus
    <2> QED
      BY <1>3, <2>1 DEF Finalize, TypeOK, lambdas
  <1>4. ASSUME NEW c \in Classifications, LoseCount(c) PROVE TypeOK'
    BY <1>4, FaultType, FileOf DEF LoseCount, TypeOK, lambdas
  <1>5. CASE ReadBatch
    <2>1. poll' \in [pc : {"batch", "jobs"}, read : BatchStatus,
                     answer : BatchStatus, open : SUBSET Files]
      BY <1>5 DEF ReadBatch, TypeOK, BatchStatus
    <2> QED
      BY <1>5, <2>1 DEF ReadBatch, TypeOK, lambdas
  <1>6. CASE ReadJobs
    <2>1. PICK open \in SUBSET {f \in Files : MayRead(f) \cap NonTerminal # {}} :
            /\ poll' = [pc |-> "batch", read |-> "none", answer |-> poll.read,
                        open |-> open]
            /\ misled' = (misled \/ open # {f \in Files : status[f] \in NonTerminal})
      BY <1>6 DEF ReadJobs
    <2>2. open \in SUBSET Files /\ poll.read \in BatchStatus
      BY <2>1 DEF TypeOK
    <2>4. misled' \in BOOLEAN
      BY <2>1, ZenonT(30) DEF TypeOK
    <2>3. poll' \in [pc : {"batch", "jobs"}, read : BatchStatus,
                     answer : BatchStatus, open : SUBSET Files]
      BY <2>1, <2>2 DEF BatchStatus
    <2> QED
      BY <1>6, <2>3, <2>4 DEF ReadJobs, TypeOK, lambdas
  <1> QED
    BY <1>1, <1>2, <1>3, <1>4, <1>5, <1>6 DEF Increment, Get

\* The whole step.
LEMMA TypeStep ==
    ASSUME TypeOK, TasksOK, [Next]_vars
    PROVE  TypeOK'
  <1>1. CASE UNCHANGED vars
    BY <1>1 DEF vars, TypeOK, lambdas
  <1>2. CASE Next
    BY <1>2, TaskType, RequestType, DocumentType, CountType DEF Next
  <1> QED
    BY <1>1, <1>2

-----------------------------------------------------------------------------
(* A task has no record before its insert *)

\* Only a task that goes on leaves the points before the insert.
LEMMA AdvanceTasks ==
    ASSUME TypeOK, TasksOK, NEW f \in Files, NEW pc, Advance(f, pc),
           request # "create", request' = request,
           pc \notin {"none", "admit"},
           \A g \in Files : status'[g] = status[g] \/ (g = f /\ pc # "insert"),
           pc = "insert" => status[f] = NoStatus
    PROVE  TasksOK'
  BY DEF TypeOK, TasksOK, Advance

\* A task that runs belongs to a request past its creation.
LEMMA Created ==
    ASSUME TasksOK, NEW f \in Files, task[f] # "none"
    PROVE  request # "create"
  BY DEF TasksOK

\* A step that moves no task back changes the records of those past the
\* insert only.
LEMMA OthersTasks ==
    ASSUME TypeOK, TasksOK, request' # "create" \/ UNCHANGED request,
           UNCHANGED task,
           \A g \in Files : status'[g] = status[g] \/ status[g] # NoStatus
    PROVE  TasksOK'
  BY DEF TypeOK, TasksOK

\* No step leaves a task that runs without its request, nor a record it has
\* not inserted yet.
LEMMA TasksStep ==
    ASSUME TypeOK, TasksOK, GateOK, [Next]_vars
    PROVE  TasksOK'
  <1>1. CASE UNCHANGED vars
    BY <1>1 DEF vars, TasksOK
  <1>2. ASSUME NEW f \in Files, Admit(f) PROVE TasksOK'
    <2>1. request # "create"
      BY <1>2, Created DEF Admit
    <2>2. \E pc \in {"insert", "done"} : Advance(f, pc)
      BY <1>2 DEF Admit, Raise
    <2>3. status[f] = NoStatus
      BY <1>2 DEF Admit, TasksOK
    <2> QED
      BY <1>2, <2>1, <2>2, <2>3, AdvanceTasks DEF Admit
  <1>3. ASSUME NEW f \in Files, Insert(f) PROVE TasksOK'
    <2>1. request # "create"
      BY <1>3, Created DEF Insert
    <2>2. \E pc \in {"upload", "declined", "done"} : Advance(f, pc)
      BY <1>3 DEF Insert, Raise
    <2>3. \A g \in Files : status'[g] = status[g] \/ g = f
      BY <1>3 DEF Insert, TypeOK
    <2> QED
      BY <1>3, <2>1, <2>2, <2>3, AdvanceTasks DEF Insert
  <1>4. ASSUME NEW f \in Files, Upload(f) PROVE TasksOK'
    <2>1. request # "create"
      BY <1>4, Created DEF Upload
    <2>2. \E pc \in {"done", "unconverted", "unstored"} : Advance(f, pc)
      BY <1>4 DEF Upload, Raise
    <2> QED
      BY <1>4, <2>1, <2>2, AdvanceTasks DEF Upload
  <1>5. ASSUME NEW f \in Files, Classify(f) PROVE TasksOK'
    <2>1. request # "create"
      BY <1>5, Created DEF Classify, Classifying
    <2>2. \E pc \in {"done", "counting", "counting_unstored"} : Advance(f, pc)
      BY <1>5 DEF Classify, Raise
    <2>3. \A g \in Files : status'[g] = status[g] \/ g = f
      BY <1>5 DEF Classify, Resolve, TypeOK
    <2> QED
      BY <1>5, <2>1, <2>2, <2>3, AdvanceTasks DEF Classify
  <1>6. ASSUME NEW f \in Files, Counted(f) PROVE TasksOK'
    <2>1. request # "create" /\ Advance(f, "done")
      BY <1>6, Created DEF Counted, Counting, Raise
    <2> QED
      BY <1>6, <2>1, AdvanceTasks DEF Counted
  <1>7. ASSUME NEW f \in Files, ThreadEnds(f) PROVE TasksOK'
    BY <1>7, AdvanceTasks DEF ThreadEnds
  <1>8. CASE Create
    BY <1>8 DEF Create, TasksOK
  <1>9. CASE Cancel
    BY <1>9 DEF Cancel, TasksOK, InThread, Classifying
  <1>10. CASE AllDone \/ Publish \/ MarkFailed
    BY <1>10, OthersTasks DEF AllDone, Publish, MarkFailed
  <1>11. CASE Die
    BY <1>11 DEF Die, TasksOK
  <1>12. ASSUME NEW f \in Files, Process(f) \/ Reap(f) \/ Delete(f) PROVE TasksOK'
    <2>1. status[f] # NoStatus
      BY <1>12 DEF Process, AtGate, AtEngine, Reap, Delete, NoStatus, NonTerminal, Classified
    <2>2. \A g \in Files : status'[g] = status[g] \/ g = f
      BY <1>12 DEF Process, Reap, Delete, Resolve, TypeOK
    <2> QED
      BY <1>12, <2>1, <2>2, OthersTasks DEF Process, Reap, Delete
  <1>13. ASSUME NEW f \in Files, GateRecords(f) PROVE TasksOK'
    <2>1. status[f] # NoStatus
      BY <1>13 DEF GateRecords, GateOK
    <2>2. \A g \in Files : status'[g] = status[g] \/ g = f
      BY <1>13 DEF GateRecords, TypeOK
    <2> QED
      BY <1>13, <2>1, <2>2, OthersTasks DEF GateRecords
  <1>14. ASSUME NEW f \in Files, GateCounts(f) \/ GateDies(f) PROVE TasksOK'
    BY <1>14, OthersTasks DEF GateCounts, GateDies
  <1>16. ASSUME NEW c \in Classifications, Increment(c) \/ LoseCount(c) PROVE TasksOK'
    BY <1>16, OthersTasks DEF Increment, Add, Query, Finalize, LoseCount
  <1>17. ASSUME NEW f \in Files, Overwrite(f) PROVE TasksOK'
    <2>1. status[f] # NoStatus
      BY <1>17 DEF Overwrite, HandOver, LateRead, LateWrite, AtGate, GateOK, NoStatus
    <2>2. \A g \in Files : status'[g] = status[g] \/ g = f
      BY <1>17 DEF Overwrite, HandOver, LateRead, LateWrite, Rewrite, TypeOK
    <2> QED
      BY <1>17, <2>1, <2>2, OthersTasks DEF Overwrite, HandOver, LateRead, LateWrite
  <1>15. CASE Get
    BY <1>15, OthersTasks DEF Get, ReadBatch, ReadJobs
  <1> QED
    BY <1>1, <1>2, <1>3, <1>4, <1>5, <1>6, <1>7, <1>8, <1>9, <1>10, <1>11, <1>12,
       <1>13, <1>14, <1>15, <1>16, <1>17 DEF Next, Task, Settle, Request

-----------------------------------------------------------------------------
(* The gate counts records only *)

\* A classification ends in a status.
LEMMA ResolveStatus ==
    ASSUME TypeOK, NEW f \in Files, NEW class \in Classified, Resolve(f, class)
    PROVE  \A g \in Files : status[g] # NoStatus => status'[g] # NoStatus
  BY DEF TypeOK, Resolve, Classified, NoStatus

\* The gate and the lambdas hold files that have a record, and no step takes a record away.
LEMMA GateStep ==
    ASSUME TypeOK, GateOK, [Next]_vars
    PROVE  GateOK'
  <1> DEFINE Kept == \A g \in Files : status[g] # NoStatus => status'[g] # NoStatus
  <1>1. CASE UNCHANGED <<gate, status, lambdas>>
    BY <1>1 DEF GateOK, lambdas
  <1>2. ASSUME NEW f \in Files, GateCounts(f) PROVE GateOK'
    BY <1>2 DEF GateCounts, AtGate, GateOK, TypeOK, NoStatus, lambdas
  <1>3. ASSUME NEW f \in Files, GateRecords(f) PROVE GateOK'
    <2>1. NoStatus \notin EarlyVerdicts
      BY ConstantsAssumption DEF NoStatus
    <2> QED
      BY <1>3, <2>1 DEF GateRecords, GateOK, TypeOK, lambdas
  <1>4. ASSUME NEW f \in Files, GateDies(f) PROVE GateOK'
    BY <1>4 DEF GateDies, GateOK, TypeOK, lambdas
  <1>5. CASE Kept /\ UNCHANGED <<gate, lambdas>>
    BY <1>5 DEF GateOK, lambdas
  <1>6. ASSUME NEW f \in Files, Insert(f) PROVE Kept
    BY <1>6 DEF Insert, TypeOK, NoStatus
  <1>7. ASSUME NEW f \in Files, Classify(f) PROVE Kept
    <2>1. Class[task[f]] \in Classified
      BY <1>7 DEF Classify, Classifying, Class, Classified
    <2>2. Class[task[f]] # NoStatus
      BY <2>1 DEF Classified, NoStatus
    <2> QED
      BY <1>7, <2>1, <2>2, ResolveStatus DEF Classify, TypeOK
  <1>8. ASSUME NEW f \in Files, Process(f) PROVE Kept
    <2>1. {"success", "failed"} \cup GateVerdicts \subseteq Classified
      BY ConstantsAssumption DEF UncountedVerdicts, Classified
    <2>2. NoStatus \notin Classified
      BY DEF Classified, NoStatus
    <2> QED
      BY <1>8, <2>1, <2>2, ResolveStatus DEF Process, TypeOK
  <1>81. ASSUME NEW f \in Files, Process(f) PROVE GateOK'
    <2>1. Kept /\ status[f] # NoStatus
      BY <1>8, <1>81 DEF Process, AtGate, AtEngine, NoStatus
    <2>2. \A g \in Files : textract'[g] = textract[g] \/ g = f
      BY <1>81 DEF Process, GoesOn, TypeOK
    <2> QED
      BY <1>81, <2>1, <2>2 DEF Process, GateOK
  <1>82. ASSUME NEW f \in Files, Overwrite(f) PROVE GateOK'
    <2>1. status[f] # NoStatus
      BY <1>82 DEF Overwrite, HandOver, LateRead, LateWrite, AtGate, GateOK, NoStatus
    <2>2. NoStatus \notin {"started"} \cup GateVerdicts
      BY ConstantsAssumption DEF UncountedVerdicts, NoStatus
    <2>3. Kept
      BY <1>82, <2>2 DEF Overwrite, HandOver, LateRead, LateWrite, Rewrite, TypeOK
    <2>4. \A h \in Files \ {f} : textract'[h] = textract[h] /\ (h \in late' => h \in late)
      BY <1>82 DEF Overwrite, HandOver, LateRead, LateWrite, TypeOK
    <2>5. UNCHANGED gate
      BY <1>82 DEF Overwrite, HandOver, LateRead, LateWrite
    <2>6. status'[f] # NoStatus
      BY <2>1, <2>3
    <2>7. ASSUME NEW g \in Files \ {f}, gate'[g] # "none" \/ g \in late' \/ textract'[g] # "none"
          PROVE  status'[g] # NoStatus
      <3>1. status[g] # NoStatus
        <4>1. textract'[g] = textract[g] /\ (g \in late' => g \in late)
          BY <2>4
        <4>2. gate'[g] = gate[g]
          BY <2>5
        <4>3. g \in late \/ gate[g] # "none" \/ textract[g] # "none"
          BY <4>1, <4>2, <2>7
        <4> QED
          BY <4>3 DEF GateOK
      <3> QED
        BY <2>3, <3>1
    <2> QED
      BY <2>6, <2>7 DEF GateOK
  <1>9. ASSUME NEW f \in Files, Reap(f) PROVE Kept
    BY <1>9, ResolveStatus DEF Reap, Classified
  <1>10. ASSUME NEW f \in Files, Delete(f) PROVE Kept
    BY <1>10 DEF Delete, TypeOK, NoStatus
  <1> HIDE DEF Kept
  <1>11. CASE Next
    <2>1. CASE Request \/ Die \/ Get
      BY <2>1, <1>1 DEF Request, Create, Cancel, AllDone, Publish, MarkFailed, Die, Get,
                        ReadBatch, ReadJobs
    <2>2. ASSUME NEW f \in Files,
                 Admit(f) \/ Upload(f) \/ Counted(f) \/ ThreadEnds(f)
          PROVE GateOK'
      BY <2>2, <1>1 DEF Admit, Upload, Counted, ThreadEnds
    <2>3. ASSUME NEW f \in Files, Insert(f) \/ Classify(f) \/ Reap(f) \/ Delete(f)
          PROVE GateOK'
      BY <2>3, <1>5, <1>6, <1>7, <1>9, <1>10 DEF Insert, Classify, Reap, Delete
    <2>4. ASSUME NEW c \in Classifications, Increment(c) \/ LoseCount(c)
          PROVE GateOK'
      BY <2>4, <1>1 DEF Increment, Add, Query, Finalize, LoseCount
    <2> QED
      BY <1>11, <1>2, <1>3, <1>4, <1>81, <1>82, <2>1, <2>2, <2>3, <2>4
         DEF Next, Task, Settle
  <1> QED
    BY <1>1, <1>11 DEF vars

-----------------------------------------------------------------------------
(* The count *)

\* The sets of files are finite.
LEMMA FilesFinite ==
    /\ Total \in Nat
    /\ \A S \in SUBSET Files : IsFiniteSet(S) /\ Cardinality(S) \in Nat
  BY ConstantsAssumption, FS_Subset, FS_CardinalityType DEF Total

\* And so are those of classifications, as pairs from two finite sets.
LEMMA ClassificationsFinite ==
    \A S \in SUBSET Classifications : IsFiniteSet(S) /\ Cardinality(S) \in Nat
  <1>1. IsFiniteSet(0..MaxRewrites)
    BY ConstantsAssumption, FS_Interval
  <1>2. IsFiniteSet(Classifications)
    BY <1>1, ConstantsAssumption, FS_Product DEF Classifications
  <1> QED
    BY <1>2, FS_Subset, FS_CardinalityType

\* The terms of CountsOK are numbers.
LEMMA Numbers ==
    ASSUME TypeOK
    PROVE  /\ batch.resolved \in Nat /\ Total \in Nat
           /\ Cardinality(Adding) \in Nat /\ IsFiniteSet(Adding)
           /\ Cardinality(ResolvedFiles) \in Nat /\ IsFiniteSet(ResolvedFiles)
           /\ Cardinality(Replaced) \in Nat /\ IsFiniteSet(Replaced)
  BY FilesFinite, ClassificationsFinite DEF TypeOK, Adding, ResolvedFiles, Replaced

\* A step in which no increment begins, and no record is reopened.
LEMMA NoneBegin ==
    ASSUME TypeOK, TypeOK', CountsOK, batch'.resolved = batch.resolved,
           batch'.status \in {"completed", "partial"} =>
              batch.status \in {"completed", "partial"} \/ Full,
           UNCHANGED rewrites,
           \A f \in Files : Resolved(f) => Resolved(f)',
           \A c \in Classifications : count'[c] = "add" => count[c] = "add",
           \A c \in Classifications : count'[c] \in {"query"} \cup Final =>
              count[c] \in {"query"} \cup Final
    PROVE  CountsOK'
  <1>1. Adding' \subseteq Adding /\ ResolvedFiles \subseteq ResolvedFiles'
    BY DEF Adding, ResolvedFiles
  <1>2. ResolvedFiles' \subseteq Files /\ IsFiniteSet(ResolvedFiles')
    BY FilesFinite DEF ResolvedFiles
  <1>3. /\ Cardinality(Adding') <= Cardinality(Adding)
        /\ Cardinality(ResolvedFiles) <= Cardinality(ResolvedFiles')
    BY <1>1, <1>2, Numbers, FS_Subset
  <1>4. Replaced' = Replaced
    BY DEF Replaced
  <1>5. Cardinality(Adding') \in Nat /\ Cardinality(ResolvedFiles') \in Nat
    BY FilesFinite, ClassificationsFinite DEF Adding, ResolvedFiles
  <1>6. Full' <=> Full
    BY DEF Full, Total
  <1>7. batch'.resolved + Cardinality(Adding')
           <= Cardinality(ResolvedFiles') + Cardinality(Replaced')
    BY <1>3, <1>4, <1>5, Numbers DEF CountsOK
  <1> QED
    BY <1>6, <1>7 DEF CountsOK

\* A record is classified, and its increment begins.
LEMMA OneBegins ==
    ASSUME TypeOK, TypeOK', CountsOK, NEW f \in Files, NEW class \in Classified,
           Resolve(f, class), UNCHANGED <<batch, rewrites>>
    PROVE  CountsOK'
  <1>1. CASE ~MayBecomeTerminal(status[f])
    BY <1>1, NoneBegin DEF Resolve, Resolved
  <1>2. CASE MayBecomeTerminal(status[f])
    <2>1. f \notin ResolvedFiles
      BY <1>2 DEF MayBecomeTerminal, ResolvedFiles, Resolved, NonTerminal, Classified, NoStatus
    <2>2. ResolvedFiles' = ResolvedFiles \cup {f}
      BY <1>2 DEF Resolve, ResolvedFiles, Resolved, TypeOK
    <2>3. PICK now \in Classifications : now = Now(f)
      BY NowType
    <2>4. count' = [count EXCEPT ![now] = "add"]
      BY <1>2, <2>3 DEF Resolve
    <2>5. Adding' = Adding \cup {now}
      BY <2>4 DEF Adding, TypeOK
    <2>6. /\ Cardinality(ResolvedFiles') = Cardinality(ResolvedFiles) + 1
          /\ Cardinality(Adding') <= Cardinality(Adding) + 1
          /\ Cardinality(Adding') \in Nat
      <3>1. Cardinality(ResolvedFiles') = Cardinality(ResolvedFiles) + 1
        BY <2>1, <2>2, Numbers, FS_AddElement
      <3>2. /\ IsFiniteSet(Adding \cup {now})
            /\ Cardinality(Adding \cup {now}) \in
                  {Cardinality(Adding), Cardinality(Adding) + 1}
        BY Numbers, FS_AddElement
      <3> QED
        BY <2>5, <3>1, <3>2, Numbers
    <2>7. Replaced' = Replaced
      BY DEF Replaced
    <2>8. batch'.resolved + Cardinality(Adding')
             <= Cardinality(ResolvedFiles') + Cardinality(Replaced')
      BY <2>6, <2>7, Numbers DEF CountsOK
    <2>9. \A c \in Classifications : count'[c] \in {"query"} \cup Final =>
                                        count[c] \in {"query"} \cup Final
      BY <2>4 DEF TypeOK, Final
    <2>10. Full' <=> Full
      BY DEF Full, Total
    <2> QED
      BY <2>8, <2>9, <2>10 DEF CountsOK
  <1> QED
    BY <1>1, <1>2

\* What a record written over costs: if it was classified, one classification
\* more has been replaced.
LEMMA RewriteCosts ==
    ASSUME TypeOK, NEW f \in Files, NEW s \in Status, Rewrite(f, s)
    PROVE  \/ ~Resolved(f) /\ Replaced' = Replaced
           \/ /\ Resolved(f)
              /\ Cardinality(Replaced') = Cardinality(Replaced) + 1
              /\ IsFiniteSet(Replaced')
  <1>1. CASE ~Resolved(f)
    BY <1>1 DEF Rewrite, Replaced
  <1>2. CASE Resolved(f)
    <2>1. /\ rewrites[f] < MaxRewrites /\ rewrites[f] \in Nat
          /\ rewrites' = [rewrites EXCEPT ![f] = rewrites[f] + 1]
      BY <1>2, ConstantsAssumption DEF Rewrite, TypeOK
    <2>2. <<f, rewrites[f]>> \in Classifications
      BY NowType DEF Now
    <2>3. <<f, rewrites[f]>> \notin Replaced
      BY <2>1 DEF Replaced
    <2>4. ASSUME NEW c \in Classifications
          PROVE  c \in Replaced' <=> c \in Replaced \/ c = <<f, rewrites[f]>>
      <3>1. PICK g \in Files, k \in 0..MaxRewrites : c = <<g, k>>
        BY DEF Classifications
      <3>2. c \in Replaced <=> k < rewrites[g]
        BY <3>1 DEF Replaced
      <3>3. c \in Replaced' <=> k < rewrites'[g]
        BY <3>1 DEF Replaced
      <3>4. CASE g = f
        <4>1. rewrites'[g] = rewrites[f] + 1
          BY <2>1, <3>4 DEF TypeOK
        <4>2. k < rewrites[f] + 1 <=> k < rewrites[f] \/ k = rewrites[f]
          BY <2>1
        <4> QED
          BY <3>1, <3>2, <3>3, <3>4, <4>1, <4>2
      <3>5. CASE g # f
        <4>1. rewrites'[g] = rewrites[g]
          BY <2>1, <3>5 DEF TypeOK
        <4> QED
          BY <3>1, <3>2, <3>3, <3>5, <4>1
      <3> QED
        BY <3>4, <3>5
    <2>5. Replaced \subseteq Classifications /\ Replaced' \subseteq Classifications
      BY DEF Replaced
    <2>6. Replaced' = Replaced \cup {<<f, rewrites[f]>>}
      BY <2>2, <2>4, <2>5
    <2> QED
      BY <1>2, <2>3, <2>6, Numbers, FS_AddElement
  <1> QED
    BY <1>1, <1>2

\* A record is written over, by Textract's lambda or by a late one.
LEMMA RewriteCounts ==
    ASSUME TypeOK, TypeOK', CountsOK, NEW f \in Files, NEW s \in Status, Rewrite(f, s),
           UNCHANGED <<batch, count>>
    PROVE  CountsOK'
  <1>1. CASE ~Resolved(f)
    <2>1. UNCHANGED rewrites
      BY <1>1 DEF Rewrite
    <2>2. \A g \in Files : Resolved(g) => Resolved(g)'
      BY <1>1 DEF Rewrite, Resolved, TypeOK
    <2> QED
      BY <2>1, <2>2, NoneBegin
  <1>2. CASE Resolved(f)
    <2>1. Cardinality(Replaced') = Cardinality(Replaced) + 1
      BY <1>2, RewriteCosts
    <2>2. ResolvedFiles \ {f} \subseteq ResolvedFiles'
      BY DEF Rewrite, ResolvedFiles, Resolved, TypeOK
    <2>3. IsFiniteSet(ResolvedFiles') /\ Cardinality(ResolvedFiles') \in Nat
      BY FilesFinite DEF ResolvedFiles
    <2>4. f \in ResolvedFiles
      BY <1>2 DEF ResolvedFiles
    <2>5. /\ Cardinality(ResolvedFiles \ {f}) = Cardinality(ResolvedFiles) - 1
          /\ Cardinality(ResolvedFiles \ {f}) <= Cardinality(ResolvedFiles')
      BY <2>2, <2>3, <2>4, Numbers, FS_RemoveElement, FS_Subset
    <2>6. Adding' = Adding
      BY DEF Adding
    <2>7. batch'.resolved + Cardinality(Adding')
             <= Cardinality(ResolvedFiles') + Cardinality(Replaced')
      BY <2>1, <2>3, <2>5, <2>6, Numbers DEF CountsOK
    <2>8. Full' <=> Full
      BY DEF Full, Total
    <2> QED
      BY <2>7, <2>8 DEF CountsOK
  <1> QED
    BY <1>1, <1>2

\* The statuses that a lambda writes over a record with.
LEMMA OverwriteStatus ==
    ASSUME NEW f \in Files, HandOver(f) \/ LateWrite(f)
    PROVE  \E s \in Status : Rewrite(f, s)
  <1>1. {"started"} \cup GateVerdicts \subseteq Status
    BY ConstantsAssumption DEF UncountedVerdicts, Classified, Status, NonTerminal
  <1> QED
    BY <1>1 DEF HandOver, LateWrite

\* The steps that lead to it.
LEMMA OverwriteCounts ==
    ASSUME TypeOK, TypeOK', CountsOK, NEW f \in Files, Overwrite(f)
    PROVE  CountsOK'
  <1>1. CASE LateRead(f)
    BY <1>1, NoneBegin DEF LateRead, Resolved
  <1>2. CASE HandOver(f) \/ LateWrite(f)
    BY <1>2, OverwriteStatus, RewriteCounts DEF HandOver, LateWrite
  <1> QED
    BY <1>1, <1>2 DEF Overwrite

\* The increment counts its classification, if at all, and completes at the
\* total.
LEMMA AddCounts ==
    ASSUME TypeOK, TypeOK', CountsOK, NEW c \in Classifications, Add(c)
    PROVE  CountsOK'
  <1>1. CASE ~Open
    <2>1. /\ UNCHANGED <<batch, status, rewrites>>
          /\ count' = [count EXCEPT ![c] = "idle"]
      BY <1>1 DEF Add, lambdas
    <2>2. \A d \in Classifications : count'[d] = count[d] \/ count'[d] = "idle"
      BY <2>1 DEF TypeOK
    <2> QED
      BY <2>1, <2>2, NoneBegin DEF Resolved, Final
  <1>2. CASE Open
    <2>1. Adding' = Adding \ {c} /\ c \in Adding
      BY <1>2 DEF Add, Adding, TypeOK
    <2>2. ResolvedFiles' = ResolvedFiles /\ Replaced' = Replaced
      BY <1>2 DEF Add, ResolvedFiles, Resolved, Replaced, lambdas
    <2>3. batch'.resolved = batch.resolved + 1 /\ batch'.status = batch.status
      BY <1>2 DEF Add, TypeOK
    <2>4. Cardinality(Adding') = Cardinality(Adding) - 1
      BY <2>1, Numbers, FS_RemoveElement
    <2>5. batch'.resolved + Cardinality(Adding')
             <= Cardinality(ResolvedFiles') + Cardinality(Replaced')
      BY <2>2, <2>3, <2>4, Numbers DEF CountsOK
    <2>6. Full => Full'
      BY <2>3, Numbers DEF Full, Total
    <2>7. \A d \in Classifications : count'[d] \in {"query"} \cup Final =>
                                        count[d] \in {"query"} \cup Final \/ Full'
      <3>1. Completes(batch.resolved + 1) => Full'
        BY <2>3, Numbers DEF Completes, Full, Total
      <3>2. count' = [count EXCEPT ![c] = IF Completes(batch.resolved + 1)
                                          THEN "query" ELSE "idle"]
        BY <1>2 DEF Add
      <3> QED
        BY <3>1, <3>2 DEF TypeOK, Final
    <2> QED
      BY <2>3, <2>5, <2>6, <2>7 DEF CountsOK
  <1> QED
    BY <1>1, <1>2

\* What has been counted ahead stays so.
LEMMA AheadStays ==
    ASSUME TypeOK, [Next]_vars, NoneCountedAhead'
    PROVE  NoneCountedAhead
  <1>1. ASSUME NEW f \in Files, GateCounts(f) \/ GateRecords(f) \/ GateDies(f)
        PROVE  gate' = [gate EXCEPT ![f] = "counted"] \/ gate' = [gate EXCEPT ![f] = "over"]
    BY <1>1 DEF GateCounts, GateRecords, GateDies
  <1>2. UNCHANGED gate \/ \E f \in Files : GateCounts(f) \/ GateRecords(f) \/ GateDies(f)
    BY DEF Next, vars, lambdas, Overwrite, HandOver, LateRead, LateWrite, Task, Admit,
           Insert, Upload, Classify, Counted, ThreadEnds, Request, Create, Cancel, AllDone,
           Publish, MarkFailed, Die, Settle, Process, Reap, Delete,
           Increment, Add, Query, Finalize, LoseCount, Get, ReadBatch, ReadJobs
  <1> QED
    BY <1>1, <1>2 DEF NoneCountedAhead, TypeOK

\* The steps of a task: at most a classification.
LEMMA TaskCounts ==
    ASSUME TypeOK, TypeOK', TasksOK, CountsOK, NEW f \in Files, Task(f)
    PROVE  CountsOK'
  <1>1. CASE Admit(f) \/ Upload(f) \/ Counted(f) \/ ThreadEnds(f)
    BY <1>1, NoneBegin DEF Admit, Upload, Counted, ThreadEnds, Resolved, lambdas
  <1>2. CASE Insert(f)
    <2>1. status[f] = NoStatus
      BY <1>2 DEF Insert, TasksOK
    <2>2. \A g \in Files : Resolved(g) => Resolved(g)'
      BY <1>2, <2>1 DEF Insert, Resolved, TypeOK, NoStatus, Classified
    <2> QED
      BY <1>2, <2>2, NoneBegin DEF Insert, lambdas
  <1>3. CASE Classify(f)
    <2>1. Class[task[f]] \in Classified
      BY <1>3 DEF Classify, Classifying, Class, Classified
    <2>2. CASE Resolve(f, Class[task[f]])
      BY <1>3, <2>1, <2>2, OneBegins DEF Classify, lambdas
    <2>3. CASE UNCHANGED <<status, count>>
      BY <1>3, <2>3, NoneBegin DEF Classify, Resolved, lambdas
    <2>4. CASE UNCHANGED count /\ status' = [status EXCEPT ![f] = Class[task[f]]]
      <3>1. \A g \in Files : Resolved(g) => Resolved(g)'
        BY <2>1, <2>4 DEF Resolved, TypeOK
      <3> QED
        BY <1>3, <2>4, <3>1, NoneBegin DEF Classify, lambdas
    <2> QED
      BY <1>3, <2>2, <2>3, <2>4 DEF Classify
  <1> QED
    BY <1>1, <1>2, <1>3 DEF Task

\* The steps of the lambdas and the reaper: likewise.
LEMMA SettleCounts ==
    ASSUME TypeOK, TypeOK', CountsOK, NEW f \in Files, Process(f) \/ Reap(f)
    PROVE  CountsOK'
  <1>1. CASE Reap(f)
    BY <1>1, OneBegins DEF Reap, Classified, lambdas
  <1>2. CASE Process(f)
    <2>1. {"success", "failed"} \cup GateVerdicts \subseteq Classified
      BY ConstantsAssumption DEF UncountedVerdicts, Classified
    <2>2. CASE \E class \in {"success", "failed"} : Resolve(f, class)
      BY <1>2, <2>1, <2>2, OneBegins DEF Process
    <2>3. ASSUME NEW v \in GateVerdicts, status' = [status EXCEPT ![f] = v], UNCHANGED count
          PROVE  CountsOK'
      <3>1. \A g \in Files : Resolved(g) => Resolved(g)'
        BY <2>1, <2>3 DEF Resolved, TypeOK
      <3> QED
        BY <1>2, <2>3, <3>1, NoneBegin DEF Process
    <2> QED
      BY <1>2, <2>2, <2>3 DEF Process
  <1> QED
    BY <1>1, <1>2

\* No step counts a classification twice, or one that has not been made.
LEMMA CountsStep ==
    ASSUME TypeOK, TypeOK', TasksOK, CountsOK, NoneCountedAhead', [Next]_vars
    PROVE  CountsOK'
  <1>1. CASE UNCHANGED <<batch, status, count, rewrites>>
    BY <1>1, NoneBegin DEF Resolved
  <1>2. CASE Create \/ Publish \/ MarkFailed
    <2>1. batch'.resolved = batch.resolved
      BY <1>2 DEF Create, Publish, MarkFailed, TypeOK
    <2>2. batch'.status \in {batch.status, "uploading", "processing", "failed"}
      BY <1>2 DEF Create, Publish, MarkFailed, TypeOK
    <2> QED
      BY <1>2, <2>1, <2>2, NoneBegin DEF Create, Publish, MarkFailed, Resolved, lambdas
  <1>3. CASE Die
    <2>1. \A c \in Classifications : count'[c] = count[c] \/ count'[c] = "idle"
      BY <1>3 DEF Die
    <2> QED
      BY <1>3, <2>1, NoneBegin DEF Die, Resolved, Final, lambdas
  <1>4. ASSUME NEW f \in Files, GateCounts(f) \/ GateRecords(f) \/ GateDies(f) PROVE FALSE
    BY <1>4 DEF GateCounts, GateRecords, GateDies, NoneCountedAhead, TypeOK
  <1>5. ASSUME NEW f \in Files, Delete(f) PROVE CountsOK'
    <2>1. \A g \in Files : Resolved(g) => Resolved(g)'
      BY <1>5 DEF Delete, Resolved, TypeOK, Classified
    <2> QED
      BY <1>5, <2>1, NoneBegin DEF Delete, lambdas
  <1>6. ASSUME NEW c \in Classifications, Query(c) PROVE CountsOK'
    <2>1. \A d \in Classifications :
            count'[d] = count[d]
              \/ (d = c /\ count[d] = "query" /\ count'[d] \in Final)
      BY <1>6 DEF Query, TypeOK, Final
    <2> QED
      BY <1>6, <2>1, NoneBegin DEF Query, Resolved, Final, lambdas
  <1>7. ASSUME NEW c \in Classifications, Finalize(c) PROVE CountsOK'
    <2>1. Full
      BY <1>7 DEF Finalize, CountsOK
    <2>2. batch'.resolved = batch.resolved
      BY <1>7 DEF Finalize, TypeOK
    <2>3. \A d \in Classifications : count'[d] = count[d] \/ count'[d] = "idle"
      BY <1>7 DEF Finalize, TypeOK
    <2> QED
      BY <1>7, <2>1, <2>2, <2>3, NoneBegin DEF Finalize, Resolved, Final, lambdas
  <1>8. ASSUME NEW c \in Classifications, LoseCount(c) PROVE CountsOK'
    <2>1. \A d \in Classifications : count'[d] = count[d] \/ count'[d] = "idle"
      BY <1>8 DEF LoseCount, TypeOK
    <2> QED
      BY <1>8, <2>1, NoneBegin DEF LoseCount, Resolved, Final, lambdas
  <1>9. CASE Cancel \/ AllDone \/ Get
    BY <1>9, <1>1 DEF Cancel, AllDone, Get, ReadBatch, ReadJobs, lambdas
  <1> QED
    BY <1>1, <1>2, <1>3, <1>4, <1>5, <1>6, <1>7, <1>8, <1>9, TaskCounts, SettleCounts,
       OverwriteCounts, AddCounts DEF Next, vars, lambdas, Settle, Increment, Request

\* The batch is open for counting only once its request has ended.
LEMMA BatchStep ==
    ASSUME TypeOK, TasksOK, BatchOK, [Next]_vars
    PROVE  BatchOK' /\ (batch.status \in Final => batch'.status = batch.status)
  <1>1. CASE UNCHANGED <<batch, request>>
    BY <1>1 DEF BatchOK
  <1>2. CASE Request \/ Die
    <2>1. CASE Create
      BY <2>1 DEF Create, BatchOK, TypeOK, Final
    <2>2. CASE Publish
      BY <2>2 DEF Publish, BatchOK, TypeOK, Final
    <2>3. CASE MarkFailed
      BY <2>3 DEF MarkFailed, BatchOK, TypeOK, Final
    <2>4. CASE Cancel \/ AllDone \/ Die
      BY <2>4 DEF Cancel, AllDone, Die, BatchOK
    <2> QED
      BY <1>2, <2>1, <2>2, <2>3, <2>4 DEF Request
  <1>3. ASSUME NEW c \in Classifications, Add(c)
        PROVE  UNCHANGED request /\ batch'.status = batch.status
    BY <1>3 DEF Add, TypeOK
  <1>4. ASSUME NEW c \in Classifications, Finalize(c)
        PROVE  /\ UNCHANGED request
               /\ batch'.status = batch.status \/ batch.status = "processing"
    BY <1>4 DEF Finalize, Open
  <1>5. CASE \E c \in Classifications : Add(c) \/ Finalize(c)
    BY <1>3, <1>4, <1>5 DEF BatchOK, Final
  <1>6. ASSUME NEW f \in Files,
               Task(f) \/ Settle(f) \/ Overwrite(f) \/ GateCounts(f) \/ GateDies(f) \/ Delete(f)
        PROVE  UNCHANGED <<batch, request>>
    BY <1>6 DEF Task, Admit, Insert, Upload, Classify, Counted, ThreadEnds, Settle, Process,
                GateRecords, Reap, Overwrite, HandOver, LateRead, LateWrite,
                GateCounts, GateDies, Delete
  <1>8. ASSUME NEW c \in Classifications, Query(c) \/ LoseCount(c)
        PROVE  UNCHANGED <<batch, request>>
    BY <1>8 DEF Query, LoseCount
  <1>7. CASE Get
    BY <1>1, <1>7 DEF Get, ReadBatch, ReadJobs
  <1> QED
    BY <1>1, <1>2, <1>5, <1>6, <1>7, <1>8 DEF Next, vars, Increment

-----------------------------------------------------------------------------
(* Theorems *)

\* Before its creation a batch has no tasks and no count.
LEMMA InitInv == Init => IInv
  <1> SUFFICES ASSUME Init PROVE IInv
    OBVIOUS
  <1>1. TypeOK
    <2>1. batch \in [status : BatchStatus, resolved : Nat]
      BY DEF Init, BatchStatus
    <2>2. poll \in [pc : {"batch", "jobs"}, read : BatchStatus,
                    answer : BatchStatus, open : SUBSET Files]
      BY DEF Init, BatchStatus
    <2>3. consent \in BOOLEAN /\ faults \in 0..MaxFaults /\ 0 \in 0..MaxRewrites
      BY ConstantsAssumption DEF Init
    <2> QED
      BY <2>1, <2>2, <2>3 DEF Init, TypeOK
  <1>2. TasksOK /\ GateOK /\ BatchOK
    BY DEF Init, TasksOK, GateOK, BatchOK
  <1>3. CountsOK
    <2>1. Adding = {} /\ ResolvedFiles = {}
      BY DEF Init, Adding, ResolvedFiles, Resolved, NoStatus, Classified
    <2>3. Cardinality(Replaced) \in Nat
      BY ClassificationsFinite DEF Replaced
    <2>2. Cardinality(Adding) = 0 /\ Cardinality(ResolvedFiles) = 0
      BY <2>1, FS_EmptySet
    <2> QED
      BY <2>1, <2>2, <2>3 DEF Init, CountsOK, Final
  <1> QED
    BY <1>1, <1>2, <1>3 DEF IInv

\* Whatever order the tasks of the request, the lambdas, the reaper and the
\* increments of increment_resolved_count take, the invariant holds.
THEOREM Invariance == Spec => []IInv
  <1>1. IInv /\ [Next]_vars => IInv'
    BY TypeStep, TasksStep, GateStep, BatchStep, CountsStep, AheadStays DEF IInv
  <1> QED
    BY InitInv, <1>1, PTL DEF Spec

\* Type correctness: among others, a task is waited for as cancelled only
\* while a thread does its call (the TaskGroup of _process_batch_files).
THEOREM TypeCorrect == Spec => []TypeOK
  <1>1. IInv => TypeOK
    BY DEF IInv
  <1> QED
    BY Invariance, <1>1, PTL

\* increment_resolved_count never counts a classification twice, nor one that
\* has not been made, but for the records that the gate counts ahead.
THEOREM CountsFollowStatus == Spec => []CountFollowsStatus
  <1>1. IInv => CountFollowsStatus
    BY DEF IInv, CountsOK, CountFollowsStatus, Adding, ResolvedFiles
  <1> QED
    BY Invariance, <1>1, PTL

OpenFiles == {f \in Files : ~Resolved(f)}

\* When the count has reached the total, each open file is owed to a
\* classification that a later one replaced.
LEMMA FullMeansOwed ==
    ASSUME IInv, NoneCountedAhead, Full
    PROVE  Cardinality(OpenFiles) <= Cardinality(Replaced)
  <1>1. CountsOK /\ TypeOK
    BY DEF IInv
  <1>2. Cardinality(Files) <= Cardinality(ResolvedFiles) + Cardinality(Replaced)
    BY <1>1, Numbers DEF CountsOK, Full, Total
  <1>3. OpenFiles = Files \ ResolvedFiles /\ Files \cap ResolvedFiles = ResolvedFiles
    BY DEF OpenFiles, ResolvedFiles
  <1>4. Cardinality(OpenFiles) = Cardinality(Files) - Cardinality(ResolvedFiles)
    BY <1>3, ConstantsAssumption, FS_Difference
  <1> QED
    BY <1>1, <1>2, <1>4, Numbers DEF Total

\* increment_resolved_count finalizes a batch only when each of its files has
\* been classified, but for as many as others were classified again, and for
\* those that the gate counts ahead.
THEOREM FinalBatchesAreResolved == Spec => []FinalMeansResolved
  <1>1. IInv => FinalMeansResolved
    BY FullMeansOwed DEF IInv, CountsOK, FinalMeansResolved, OpenFiles
  <1> QED
    BY Invariance, <1>1, PTL

\* No write takes a batch back from a final status: not those of the request,
\* made without a condition, nor a second finalization.
THEOREM FinalStatusesStay == Spec => FinalIsFinal
  <1>1. IInv /\ [Next]_vars =>
           [batch.status \in Final => batch'.status = batch.status]_vars
    BY BatchStep DEF IInv
  <1> QED
    BY Invariance, <1>1, PTL DEF Spec, FinalIsFinal

-----------------------------------------------------------------------------
(* A completed batch is one without failed jobs *)

\* The jobs that a completed batch should not have.
Unsettled == {f \in Files : status[f] \notin Classified \ {"failed", "timed_out"}}

\* Who is about to complete the batch, and who has read that it is completed,
\* has no job before it that is not owed to one classified again.
TruthOK ==
    NoneCountedAhead /\ ~misled =>
        /\ \A c \in Classifications :
              count[c] = "completed" => Cardinality(Unsettled) <= Cardinality(Replaced)
        /\ batch.status = "completed" => Cardinality(Unsettled) <= Cardinality(Replaced)
        /\ poll.read = "completed" => Cardinality(OpenFiles) <= Cardinality(Replaced)
        /\ poll.answer = "completed" => Cardinality(poll.open) <= Cardinality(Replaced)

\* A classified record changes to a deleted one at most, unless the gate
\* counts it ahead or a lambda writes over it.
LEMMA ClassifiedStays ==
    ASSUME IInv, NoneCountedAhead, [Next]_vars, NEW f \in Files, Resolved(f),
           ~ \E g \in Files : HandOver(g) \/ LateWrite(g)
    PROVE  status'[f] \in {status[f], "deleted"}
  <1>1. status[f] # NoStatus /\ status[f] \notin NonTerminal /\ ~MayBecomeTerminal(status[f])
    BY DEF Resolved, Classified, NoStatus, NonTerminal, MayBecomeTerminal
  <1>2. TypeOK /\ TasksOK
    BY DEF IInv
  <1>3. ASSUME NEW g \in Files, NEW class, Resolve(g, class) PROVE status'[f] = status[f]
    BY <1>1, <1>2, <1>3 DEF Resolve, TypeOK
  <1>4. ASSUME NEW g \in Files, Insert(g) PROVE status'[f] = status[f]
    <2>1. g # f
      BY <1>1, <1>2, <1>4 DEF Insert, TasksOK
    <2> QED
      BY <1>2, <1>4, <2>1 DEF Insert, TypeOK
  <1>5. ASSUME NEW g \in Files, Classify(g) PROVE status'[f] = status[f]
    <2>1. CASE Resolve(g, Class[task[g]]) \/ UNCHANGED status
      BY <1>3, <2>1
    <2>2. CASE MayBecomeTerminal(status[g]) /\ status' = [status EXCEPT ![g] = Class[task[g]]]
      BY <1>1, <1>2, <2>2 DEF TypeOK
    <2> QED
      BY <1>5, <2>1, <2>2 DEF Classify
  <1>6. ASSUME NEW g \in Files, Task(g) PROVE status'[f] = status[f]
    BY <1>4, <1>5, <1>6 DEF Task, Admit, Upload, Counted, ThreadEnds
  <1>7. ASSUME NEW g \in Files, Process(g) PROVE status'[f] = status[f]
    <2>1. g # f
      BY <1>1, <1>7 DEF Process, AtGate, AtEngine, NonTerminal
    <2>2. CASE \E class \in {"success", "failed"} : Resolve(g, class)
      BY <1>3, <2>2
    <2>3. CASE \E v \in GateVerdicts : status' = [status EXCEPT ![g] = v]
      BY <1>2, <2>1, <2>3 DEF TypeOK
    <2> QED
      BY <1>7, <2>2, <2>3 DEF Process
  <1>8. ASSUME NEW g \in Files, Settle(g) PROVE status'[f] = status[f]
    BY <1>3, <1>7, <1>8 DEF Settle, Reap, GateRecords, NoneCountedAhead
  <1>9. ASSUME NEW g \in Files, Delete(g) PROVE status'[f] \in {status[f], "deleted"}
    BY <1>2, <1>9 DEF Delete, TypeOK
  <1>10. ASSUME NEW g \in Files, GateCounts(g) \/ GateDies(g) \/ LateRead(g)
         PROVE  status'[f] = status[f]
    BY <1>10 DEF GateCounts, GateDies, LateRead
  <1>11. CASE Request \/ Die \/ Get
    BY <1>11 DEF Request, Create, Cancel, AllDone, Publish, MarkFailed, Die, Get,
                 ReadBatch, ReadJobs
  <1>12. CASE UNCHANGED vars
    BY <1>12 DEF vars
  <1>13. ASSUME NEW c \in Classifications, Increment(c) \/ LoseCount(c)
         PROVE  status'[f] = status[f]
    BY <1>13 DEF Increment, Add, Query, Finalize, LoseCount
  <1> QED
    BY <1>6, <1>8, <1>9, <1>10, <1>11, <1>12, <1>13 DEF Next, Overwrite

\* A set that gains one file gains one in number, at most.
LEMMA GainsOne ==
    ASSUME NEW S \in SUBSET Files, NEW T \in SUBSET Files, NEW f \in Files,
           T \subseteq S \cup {f}
    PROVE  Cardinality(T) <= Cardinality(S) + 1
  <1>1. IsFiniteSet(S \cup {f}) /\ Cardinality(S \cup {f}) <= Cardinality(S) + 1
    BY FilesFinite, FS_AddElement
  <1>2. Cardinality(T) <= Cardinality(S \cup {f})
    BY <1>1, FS_Subset
  <1>3. Cardinality(S \cup {f}) \in Nat /\ Cardinality(S) \in Nat /\ Cardinality(T) \in Nat
    BY <1>1, FilesFinite, FS_CardinalityType
  <1> QED
    BY <1>1, <1>2, <1>3

\* The open jobs are among the unsettled ones.
LEMMA OpenUnsettled == OpenFiles \subseteq Unsettled
  BY DEF OpenFiles, Unsettled, Resolved

\* Which jobs a step opens, or lets fail that were not open before: one that a
\* lambda has written over, at most.
LEMMA NewlyOpen ==
    ASSUME IInv, NoneCountedAhead, [Next]_vars
    PROVE  \/ /\ OpenFiles' \subseteq OpenFiles /\ Unsettled' \subseteq Unsettled
              /\ Replaced' = Replaced
           \/ \E f \in Files :
                 /\ OpenFiles' \subseteq OpenFiles \cup {f}
                 /\ Unsettled' \subseteq Unsettled \cup {f}
                 /\ Cardinality(Replaced') = Cardinality(Replaced) + 1
  <1>1. TypeOK
    BY DEF IInv
  <1>2. CASE ~ \E g \in Files : HandOver(g) \/ LateWrite(g)
    <2>1. \A f \in Files : Resolved(f) => status'[f] \in {status[f], "deleted"}
      BY <1>2, ClassifiedStays
    <2>2. OpenFiles' \subseteq OpenFiles /\ Unsettled' \subseteq Unsettled
      BY <2>1 DEF OpenFiles, Unsettled, Resolved, Classified
    <2>3. UNCHANGED rewrites
      BY <1>2 DEF Next, vars, lambdas, Overwrite, LateRead, Task, Admit, Insert, Upload,
                  Classify, Counted, ThreadEnds, Request, Create, Cancel, AllDone, Publish,
                  MarkFailed, Die, Settle, Process, GateRecords, Reap, GateCounts, GateDies,
                  Delete, Increment, Add, Query, Finalize, LoseCount, Get, ReadBatch, ReadJobs
    <2>4. Replaced' = Replaced
      BY <2>3 DEF Replaced
    <2> QED
      BY <2>2, <2>4
  <1>3. ASSUME NEW f \in Files, NEW s \in Status, Rewrite(f, s)
        PROVE  \/ /\ OpenFiles' \subseteq OpenFiles /\ Unsettled' \subseteq Unsettled
                  /\ Replaced' = Replaced
               \/ /\ OpenFiles' \subseteq OpenFiles \cup {f}
                  /\ Unsettled' \subseteq Unsettled \cup {f}
                  /\ Cardinality(Replaced') = Cardinality(Replaced) + 1
    <2>1. \A g \in Files \ {f} : status'[g] = status[g]
      BY <1>1, <1>3 DEF Rewrite, TypeOK
    <2>2. OpenFiles' \subseteq OpenFiles \cup {f} /\ Unsettled' \subseteq Unsettled \cup {f}
      BY <2>1 DEF OpenFiles, Unsettled, Resolved
    <2>3. ~Resolved(f) => f \in OpenFiles /\ f \in Unsettled
      BY DEF OpenFiles, Unsettled, Resolved
    <2> QED
      BY <1>1, <1>3, <2>2, <2>3, RewriteCosts
  <1>4. CASE \E f \in Files : HandOver(f) \/ LateWrite(f)
    BY <1>3, <1>4, OverwriteStatus
  <1> QED
    BY <1>2, <1>4

\* So what is owed stays owed.
LEMMA NoNewDebt ==
    ASSUME IInv, IInv', NoneCountedAhead, [Next]_vars
    PROVE  /\ Cardinality(Replaced) <= Cardinality(Replaced')
           /\ Cardinality(OpenFiles) <= Cardinality(Replaced) =>
                 Cardinality(OpenFiles') <= Cardinality(Replaced')
           /\ Cardinality(Unsettled) <= Cardinality(Replaced) =>
                 Cardinality(Unsettled') <= Cardinality(Replaced')
  <1>1. /\ Cardinality(Replaced) \in Nat /\ Cardinality(Replaced') \in Nat
        /\ Cardinality(OpenFiles) \in Nat /\ Cardinality(OpenFiles') \in Nat
        /\ Cardinality(Unsettled) \in Nat /\ Cardinality(Unsettled') \in Nat
        /\ IsFiniteSet(OpenFiles) /\ IsFiniteSet(Unsettled)
    BY FilesFinite, ClassificationsFinite DEF Replaced, OpenFiles, Unsettled
  <1>2. /\ OpenFiles \in SUBSET Files /\ OpenFiles' \in SUBSET Files
        /\ Unsettled \in SUBSET Files /\ Unsettled' \in SUBSET Files
    BY DEF OpenFiles, Unsettled
  <1>3. CASE /\ OpenFiles' \subseteq OpenFiles /\ Unsettled' \subseteq Unsettled
             /\ Replaced' = Replaced
    <2>1. /\ Cardinality(OpenFiles') <= Cardinality(OpenFiles)
          /\ Cardinality(Unsettled') <= Cardinality(Unsettled)
      BY <1>1, <1>3, FS_Subset
    <2> QED
      BY <1>1, <1>3, <2>1
  <1>4. ASSUME NEW f \in Files,
               OpenFiles' \subseteq OpenFiles \cup {f},
               Unsettled' \subseteq Unsettled \cup {f},
               Cardinality(Replaced') = Cardinality(Replaced) + 1
        PROVE  /\ Cardinality(OpenFiles') <= Cardinality(OpenFiles) + 1
               /\ Cardinality(Unsettled') <= Cardinality(Unsettled) + 1
    BY <1>2, <1>4, GainsOne
  <1> QED
    BY <1>1, <1>3, <1>4, NewlyOpen

\* Steps that choose no final status and read nothing for the client.
LEMMA TruthAside ==
    ASSUME IInv, IInv', TruthOK, [Next]_vars, NoneCountedAhead' => NoneCountedAhead,
           ~misled' => ~misled,
           \A c \in Classifications : count'[c] = "completed" => count[c] = "completed",
           batch'.status = "completed" =>
              batch.status = "completed" \/ \E c \in Classifications : count[c] = "completed",
           poll' = poll
    PROVE  TruthOK'
  <1>1. SUFFICES ASSUME NoneCountedAhead, ~misled
                 PROVE  /\ \A c \in Classifications : count'[c] = "completed" =>
                              Cardinality(Unsettled') <= Cardinality(Replaced')
                        /\ batch'.status = "completed" =>
                              Cardinality(Unsettled') <= Cardinality(Replaced')
                        /\ poll'.read = "completed" =>
                              Cardinality(OpenFiles') <= Cardinality(Replaced')
                        /\ poll'.answer = "completed" =>
                              Cardinality(poll'.open) <= Cardinality(Replaced')
    BY DEF TruthOK
  <1>2. /\ \A c \in Classifications :
              count[c] = "completed" => Cardinality(Unsettled) <= Cardinality(Replaced)
        /\ batch.status = "completed" => Cardinality(Unsettled) <= Cardinality(Replaced)
        /\ poll.read = "completed" => Cardinality(OpenFiles) <= Cardinality(Replaced)
        /\ poll.answer = "completed" => Cardinality(poll.open) <= Cardinality(Replaced)
    BY <1>1 DEF TruthOK
  <1>3. /\ Cardinality(Replaced) <= Cardinality(Replaced')
        /\ Cardinality(OpenFiles) <= Cardinality(Replaced) =>
              Cardinality(OpenFiles') <= Cardinality(Replaced')
        /\ Cardinality(Unsettled) <= Cardinality(Replaced) =>
              Cardinality(Unsettled') <= Cardinality(Replaced')
    BY <1>1, NoNewDebt
  <1>4. /\ Cardinality(Replaced) \in Nat /\ Cardinality(Replaced') \in Nat
        /\ Cardinality(poll.open) \in Nat
    BY FilesFinite, ClassificationsFinite DEF Replaced, IInv, TypeOK
  <1>5. poll.answer = "completed" => Cardinality(poll.open) <= Cardinality(Replaced')
    BY <1>2, <1>3, <1>4
  <1> QED
    BY <1>2, <1>3, <1>5

\* Every step keeps a completed batch true.
LEMMA TruthStep ==
    ASSUME IInv, IInv', TruthOK, [Next]_vars PROVE TruthOK'
  <1>1. TypeOK /\ (NoneCountedAhead' => NoneCountedAhead)
    BY AheadStays DEF IInv
  <1>2. ASSUME UNCHANGED <<count, batch, misled, poll>> PROVE TruthOK'
    BY <1>1, <1>2, TruthAside
  <1>3. CASE UNCHANGED vars
    BY <1>2, <1>3 DEF vars
  <1>4. ASSUME NEW f \in Files, Task(f) \/ Settle(f) \/ GateCounts(f) \/ GateDies(f)
        PROVE  TruthOK'
    <2>1. UNCHANGED <<batch, misled, poll>>
      BY <1>4 DEF Task, Admit, Insert, Upload, Classify, Counted, ThreadEnds, Settle, Process,
                  GateRecords, Reap, GateCounts, GateDies
    <2>2. \A c \in Classifications : count'[c] \in {count[c], "add", "idle"}
      BY <1>1, <1>4 DEF Task, Admit, Insert, Upload, Classify, Counted, ThreadEnds, Settle, Process,
                  GateRecords, Reap, GateCounts, GateDies, Resolve, TypeOK
    <2> QED
      BY <1>1, <2>1, <2>2, TruthAside
  <1>5. ASSUME NEW f \in Files, Delete(f) \/ Overwrite(f) PROVE TruthOK'
    BY <1>2, <1>5 DEF Delete, Overwrite, HandOver, LateRead, LateWrite
  <1>6. CASE Request \/ Die
    <2>1. UNCHANGED <<misled, poll>>
      BY <1>6 DEF Request, Create, Cancel, AllDone, Publish, MarkFailed, Die
    <2>2. \A c \in Classifications : count'[c] \in {count[c], "idle"}
      BY <1>6 DEF Request, Create, Cancel, AllDone, Publish, MarkFailed, Die
    <2>3. batch'.status = batch.status \/ batch'.status # "completed"
      BY <1>1, <1>6 DEF Request, Create, Cancel, AllDone, Publish, MarkFailed, Die, TypeOK
    <2> QED
      BY <1>1, <2>1, <2>2, <2>3, TruthAside
  <1>7. ASSUME NEW c \in Classifications, Add(c) \/ LoseCount(c) PROVE TruthOK'
    <2>1. UNCHANGED <<misled, poll>> /\ batch'.status = batch.status
      BY <1>1, <1>7 DEF Add, LoseCount, TypeOK
    <2>2. \A d \in Classifications : count'[d] \in {count[d], "idle", "query"}
      BY <1>1, <1>7 DEF Add, LoseCount, TypeOK
    <2> QED
      BY <1>1, <2>1, <2>2, TruthAside
  <1>8. ASSUME NEW c \in Classifications, Finalize(c) PROVE TruthOK'
    <2>1. UNCHANGED <<misled, poll>> /\ batch'.status \in {batch.status, count[c]}
      BY <1>1, <1>8 DEF Finalize, TypeOK
    <2>2. \A d \in Classifications : count'[d] \in {count[d], "idle"}
      BY <1>1, <1>8 DEF Finalize, TypeOK
    <2> QED
      BY <1>1, <2>1, <2>2, TruthAside
  <1>9. ASSUME NEW c \in Classifications, Query(c) PROVE TruthOK'
    <2>1. PICK failed \in SUBSET MayReadFailed :
             /\ count' = [count EXCEPT ![c] =
                  CASE failed = {} -> "completed"
                    [] Cardinality(failed) = Total -> "failed"
                    [] OTHER -> "partial"]
             /\ misled' = (misled \/ failed # FailedJobs)
      BY <1>9 DEF Query
    <2>2. UNCHANGED <<batch, poll, status, gate, rewrites>>
      BY <1>9 DEF Query, lambdas
    <2>3. failed # {} => count'[c] # "completed"
      BY <1>1, <2>1 DEF TypeOK
    <2>4. \A d \in Classifications \ {c} : count'[d] = count[d]
      BY <1>1, <2>1 DEF TypeOK
    <2>5. /\ OpenFiles' = OpenFiles /\ Unsettled' = Unsettled /\ Replaced' = Replaced
          /\ NoneCountedAhead' <=> NoneCountedAhead
      BY <2>2 DEF OpenFiles, Unsettled, Resolved, Replaced, NoneCountedAhead
    <2>6. ~misled' => ~misled /\ failed = FailedJobs
      BY <2>1
    <2>7. FailedJobs = {} => Unsettled = OpenFiles
      BY DEF FailedJobs, FailedStatuses, Unsettled, OpenFiles, Resolved, Classified
    <2>8. NoneCountedAhead => Cardinality(OpenFiles) <= Cardinality(Replaced)
      <3>1. NoneCountedAhead => Full
        BY <1>9 DEF Query, IInv, CountsOK
      <3> QED
        BY <3>1, FullMeansOwed
    <2> QED
      BY <2>2, <2>3, <2>4, <2>5, <2>6, <2>7, <2>8 DEF TruthOK
  <1>10. CASE ReadBatch
    <2>1. /\ UNCHANGED <<batch, count, status, gate, misled, rewrites>>
          /\ poll'.read = batch.status /\ poll'.answer = "none"
      BY <1>1, <1>10 DEF ReadBatch, TypeOK, lambdas
    <2>2. /\ OpenFiles' = OpenFiles /\ Unsettled' = Unsettled /\ Replaced' = Replaced
          /\ NoneCountedAhead' <=> NoneCountedAhead
      BY <2>1 DEF OpenFiles, Unsettled, Resolved, Replaced, NoneCountedAhead
    <2>3. NoneCountedAhead /\ batch.status = "completed" =>
             Cardinality(OpenFiles) <= Cardinality(Replaced)
      BY FullMeansOwed DEF IInv, CountsOK
    <2> QED
      BY <2>1, <2>2, <2>3 DEF TruthOK
  <1>11. CASE ReadJobs
    <2>1. PICK open \in SUBSET {f \in Files : MayRead(f) \cap NonTerminal # {}} :
             /\ poll' = [pc |-> "batch", read |-> "none", answer |-> poll.read, open |-> open]
             /\ misled' = (misled \/ open # {f \in Files : status[f] \in NonTerminal})
      BY <1>11 DEF ReadJobs
    <2>2. UNCHANGED <<batch, count, status, gate, rewrites>>
      BY <1>11 DEF ReadJobs, lambdas
    <2>3. /\ OpenFiles' = OpenFiles /\ Unsettled' = Unsettled /\ Replaced' = Replaced
          /\ NoneCountedAhead' <=> NoneCountedAhead
      BY <2>2 DEF OpenFiles, Unsettled, Resolved, Replaced, NoneCountedAhead
    <2>4. poll'.read = "none" /\ poll'.answer = poll.read /\ poll'.open = open
      BY <2>1
    <2>5. ~misled' => ~misled /\ open \subseteq OpenFiles
      BY <2>1 DEF OpenFiles, Resolved, Classified, NonTerminal
    <2>6. ~misled' => Cardinality(open) <= Cardinality(OpenFiles)
      BY <2>5, FilesFinite, FS_Subset DEF OpenFiles
    <2>7. /\ Cardinality(open) \in Nat /\ Cardinality(OpenFiles) \in Nat
          /\ Cardinality(Replaced) \in Nat
      BY FilesFinite, ClassificationsFinite DEF OpenFiles, Replaced
    <2> QED
      BY <2>2, <2>3, <2>4, <2>5, <2>6, <2>7 DEF TruthOK
  <1> QED
    BY <1>3, <1>4, <1>5, <1>6, <1>7, <1>8, <1>9, <1>10, <1>11 DEF Next, Increment, Get

\* increment_resolved_count and get_batch_status: a batch is completed only
\* without failed jobs, and shown as completed only without jobs in progress,
\* but for as many as were classified again, unless the index lagged or a
\* document was counted ahead.
THEOREM CompletedBatchesAreTrue == Spec => []CompletedIsTrue
  <1>1. Init => TruthOK
    BY DEF Init, TruthOK, Final
  <1>2. IInv /\ TruthOK => CompletedIsTrue
    BY DEF TruthOK, CompletedIsTrue, Unsettled
  <1>3. IInv /\ IInv' /\ TruthOK /\ [Next]_vars => TruthOK'
    BY TruthStep
  <1> QED
    BY <1>1, <1>2, <1>3, Invariance, PTL DEF Spec
=============================================================================
