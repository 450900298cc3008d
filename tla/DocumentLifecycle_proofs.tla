---------------------- MODULE DocumentLifecycle_proofs ----------------------
(***************************************************************************)
(* Proofs about DocumentLifecycle, for any set of documents, jobs and      *)
(* lambda environments and any bounds.                                     *)
(*                                                                         *)
(* ClaimExclusive, that the claim of set_processing_status_started is      *)
(* exclusive, is not inductive.  The invariant adds that an unclaimed      *)
(* status means no claim so far (ClaimsOK), that an invocation about to    *)
(* claim has read such a status, and that what it is about to write, it    *)
(* may write (WellFormed).  Each action has one lemma.  Three more results *)
(* build on it:                                                            *)
(*                                                                         *)
(* CreditsFollowWrites: a terminal write that lands leaves its writer with *)
(* one increment to make, and nothing else does.  The invariant adds the   *)
(* increments still to be made to those made (CreditsOK); a retry, a crash *)
(* or a handler can only forget one.                                       *)
(*                                                                         *)
(* RefusedNeverExtracted: a refused document never gets past the dispatch. *)
(* For one that is not native or has no tenant the dispatch refuses it     *)
(* each time.  For a locked one only the gate does, so that the invariant  *)
(* (RefusedOK) must follow what the gate wrote: its status can be claimed  *)
(* from again by no route, and a new delivery that finds an unclaimed      *)
(* status has to pass the gate, because nothing stored a category.         *)
(*                                                                         *)
(* ResultPublished: without failures, whoever writes a final status has    *)
(* the response to write next, or it is there already (Marked); a DELETE   *)
(* that read a final status may find the record reopened, but not without  *)
(* that response.                                                          *)
(***************************************************************************)
EXTENDS DocumentLifecycle, FiniteSetTheorems, TLAPS

-----------------------------------------------------------------------------
(* The inductive invariant *)

\* The statuses from which a document may be claimed.
Open == PendingExtraction \cup AwaitingProcessing

\* An invocation holds what the call it is about to make needs.
WellFormed(v) ==
    /\ v \in Invocation
    /\ v.pc # "idle" => v.event \in Events
    /\ v.pc \notin {"idle", "handler"} => v.doc \in Docs
    /\ v.pc # "idle" /\ v.event \in Docs => v.doc \in Docs
    /\ v.pc = "handler" => v.ctx = "handler"
    /\ v.pc = "claim" => v.seen \in Open
    /\ v.pc \in {"precredit", "finalize", "classify"} => v.class \in Classified
    /\ v.pc = "upsert" => v.class \in PendingExtraction \cup Classified

InvsOK == inv \in [Invs -> Invocation] /\ \A i \in Invs : WellFormed(inv[i])

DeliveriesOK ==
    /\ queued \in [Events -> Nat]
    /\ redeliveries \in [Events -> 0..MaxDeliveries]

\* A document that can be claimed has not been, and none is claimed twice.
ClaimsOK ==
    \A d \in Docs :
        /\ hist[d].claims <= 1
        /\ rec[d].status \in Open => hist[d].claims = 0

IInv == TypeOK /\ InvsOK /\ ClaimsOK

-----------------------------------------------------------------------------
(* How the helpers of the control flow move an invocation *)

\* An environment that Finish or Fail releases is well formed.
LEMMA IdleWellFormed == WellFormed(Idle) /\ Idle.pc = "idle"
  BY DEF WellFormed, Idle, Invocation, PCs, Contexts

\* Replacing one invocation by a well-formed one is all an action does to inv.
LEMMA Update ==
    ASSUME InvsOK, NEW i \in Invs, NEW w, WellFormed(w), inv' = [inv EXCEPT ![i] = w]
    PROVE  InvsOK'
  BY DEF InvsOK, WellFormed

\* Goto to a point that needs nothing beyond a document.
LEMMA GotoStep ==
    ASSUME InvsOK, NEW i \in Invs, NEW pc \in PCs \ {"handler", "precredit", "finalize", "classify",
                             "upsert", "claim"},
           Goto(i, pc),
           inv[i].pc \notin {"idle", "handler"}
    PROVE  InvsOK'
  <1> DEFINE w == [inv[i] EXCEPT !.pc = pc]
  <1>1. inv[i] \in Invocation
    BY DEF InvsOK
  <1>2. inv' = [inv EXCEPT ![i] = w]
    BY DEF Goto, InvsOK
  <1>3. WellFormed(w)
    BY <1>1 DEF InvsOK, WellFormed, Invocation
  <1> QED
    BY <1>2, <1>3, Update

\* The lambda returns.
LEMMA FinishStep ==
    ASSUME InvsOK, NEW i \in Invs, Finish(i) 
    PROVE  InvsOK' /\ UNCHANGED <<queued, redeliveries>>
  BY Update, IdleWellFormed DEF Finish

\* The lambda fails and its event may be queued again.
LEMMA FailStep ==
    ASSUME InvsOK, DeliveriesOK, MaxDeliveries \in Nat,
           NEW i \in Invs, Fail(i), inv[i].pc # "idle"
    PROVE  InvsOK' /\ DeliveriesOK'
  <1>1. InvsOK'
    BY Update, IdleWellFormed DEF Fail
  <1>2. inv[i].event \in Events
    BY DEF InvsOK, WellFormed
  <1>3. DeliveriesOK'
    BY <1>2 DEF Fail, DeliveriesOK
  <1> QED BY <1>1, <1>3

\* Control reaches the catch-all of the handler.
LEMMA EnterHandlerStep ==
    ASSUME InvsOK, NEW i \in Invs, EnterHandler(i), inv[i].pc # "idle"
    PROVE  InvsOK' /\ UNCHANGED <<queued, redeliveries>>
  <1> DEFINE w == [inv[i] EXCEPT !.pc = "handler", !.ctx = "handler"]
  <1>1. inv[i] \in Invocation
    BY DEF InvsOK
  <1>2. inv' = [inv EXCEPT ![i] = w]
    BY <1>1 DEF EnterHandler, InvsOK, Invocation
  <1>3. w \in Invocation
    BY <1>1 DEF Invocation, PCs, Contexts
  <1>4. /\ w.pc = "handler" /\ w.ctx = "handler"
        /\ w.event = inv[i].event /\ w.doc = inv[i].doc
    BY <1>1 DEF Invocation
  <1>5. WellFormed(inv[i])
    BY DEF InvsOK
  <1> HIDE DEF w
  <1>6. WellFormed(w)
    BY <1>3, <1>4, <1>5 DEF WellFormed
  <1> QED
    BY <1>2, <1>6, Update DEF EnterHandler, w

\* A classify_as_* call begins.
LEMMA ClassifyStep ==
    ASSUME InvsOK, NEW i \in Invs, NEW class \in Classified, Classify(i, class), 
           inv[i].pc # "idle", inv[i].doc \in Docs
    PROVE  InvsOK'
  <1> DEFINE w == [inv[i] EXCEPT !.pc = "classify", !.class = class]
  <1>1. inv[i] \in Invocation
    BY DEF InvsOK
  <1>2. inv' = [inv EXCEPT ![i] = w]
    BY <1>1 DEF Classify, InvsOK, Invocation
  <1>3. WellFormed(w)
    BY ZenonT(60), <1>1 DEF InvsOK, WellFormed, Invocation, PCs, Status
  <1> QED
    BY <1>2, <1>3, Update

\* _write_terminal_status returns to its caller.
LEMMA ReturnStep ==
    ASSUME InvsOK, DeliveriesOK, MaxDeliveries \in Nat,
           NEW i \in Invs, Return(i), inv[i].pc # "idle"
    PROVE  InvsOK' /\ DeliveriesOK'
  BY FinishStep, FailStep, EnterHandlerStep DEF Return, DeliveriesOK

\* A remote call raises.
LEMMA ThrowStep ==
    ASSUME InvsOK, DeliveriesOK, MaxDeliveries \in Nat,
           NEW i \in Invs, Throw(i), inv[i].pc # "idle"
    PROVE  InvsOK' /\ DeliveriesOK'
  <1>1. CASE inv[i].ctx \in {"main", "giveup"} /\ EnterHandler(i)
    BY <1>1, EnterHandlerStep DEF DeliveriesOK
  <1>2. CASE inv[i].ctx \in {"handler", "api"} /\ Fail(i)
    BY <1>2, FailStep
  <1>3. CASE /\ inv[i].ctx = "textract"
             /\ inv' = [inv EXCEPT ![i].pc = "bda", ![i].ctx = "main"]
             /\ UNCHANGED <<queued, redeliveries>>
    <2> DEFINE w == [inv[i] EXCEPT !.pc = "bda", !.ctx = "main"]
    <2>1. inv[i] \in Invocation
      BY DEF InvsOK
    <2>2. inv' = [inv EXCEPT ![i] = w]
      BY <1>3, <2>1 DEF InvsOK, Invocation
    <2>3. WellFormed(w)
      BY <1>3, <2>1 DEF InvsOK, WellFormed, Invocation, PCs, Contexts
    <2> QED
      BY <1>3, <2>2, <2>3, Update DEF DeliveriesOK
  <1> QED
    BY <1>1, <1>2, <1>3 DEF Throw

\* How the predicates of ProcessStatus divide the statuses.
LEMMA Closed ==
    /\ Open \cap Classified = {}
    /\ "started" \notin Open
    /\ NoStatus \notin Open
    /\ Open \subseteq Status
    /\ PendingExtraction \subseteq Status
    /\ Classified \subseteq Status
    /\ "started" \in Status
  BY DEF Open, PendingExtraction, AwaitingProcessing, Classified, NonTerminal, Status, NoStatus

-----------------------------------------------------------------------------
(* One lemma per action *)

\* S3 events.
LEMMA EmitKeeps ==
    ASSUME IInv, ConstantsAssumption, NEW e \in Events, Emit(e) PROVE IInv'
  BY DEF IInv, TypeOK, InvsOK, ClaimsOK, Emit, ConstantsAssumption

\* main reads the record.
LEMMA ReceiveKeeps ==
    ASSUME IInv, NEW i \in Invs, NEW d \in Docs, Receive(i, d) PROVE IInv'
  <1> DEFINE pc == IF NeedsPreclassification(rec[d]) THEN "gate" ELSE "dispatch"
             w == [Idle EXCEPT !.pc = pc, !.event = d, !.doc = d, !.seen = rec[d].status]
  <1>1. rec[d].status \in Status \cup {NoStatus}
    BY DEF IInv, TypeOK, Record
  <1>2. WellFormed(w)
    <2>1. Idle \in Invocation /\ pc \in PCs /\ d \in Events
      BY IdleWellFormed DEF WellFormed, PCs, Events
    <2> HIDE DEF pc
    <2>2. w \in Invocation
      BY <1>1, <2>1 DEF Invocation
    <2>3. w.pc = pc /\ w.event = d /\ w.doc = d
      BY <2>1 DEF Invocation
    <2>4. pc \in {"gate", "dispatch"}
      BY DEF pc
    <2> HIDE DEF w
    <2> QED
      BY <2>1, <2>2, <2>3, <2>4 DEF WellFormed
  <1>3. inv' = [inv EXCEPT ![i] = w]
    BY DEF Receive
  <1>4. InvsOK'
    BY <1>2, <1>3, Update DEF IInv
  <1>5. queued' \in [Events -> Nat]
    BY DEF IInv, TypeOK, Receive, Events
  <1>. QED
    BY <1>4, <1>5 DEF IInv, TypeOK, ClaimsOK, InvsOK, WellFormed, Receive

\* The gate leads to a verdict or to a status that lets the document through.
LEMMA GateMoves ==
    ASSUME InvsOK, ConstantsAssumption, NEW i \in Invs, Gate(i) PROVE InvsOK'
  <1>1. inv[i] \in Invocation /\ inv[i].doc \in Docs /\ inv[i].event \in Events
    BY DEF InvsOK, WellFormed, Gate, At
  <1>2. CASE \E c \in BOOLEAN, id \in BOOLEAN :
               inv' = [inv EXCEPT ![i].pc = "upsert", ![i].class = Passed(inv[i].doc),
                                  ![i].categorized = c, ![i].identity = id]
    <2>1. PICK c \in BOOLEAN, id \in BOOLEAN :
               inv' = [inv EXCEPT ![i].pc = "upsert", ![i].class = Passed(inv[i].doc),
                                  ![i].categorized = c, ![i].identity = id]
      BY <1>2
    <2> DEFINE w == [inv[i] EXCEPT !.pc = "upsert", !.class = Passed(inv[i].doc),
                                   !.categorized = c, !.identity = id]
    <2>2. inv' = [inv EXCEPT ![i] = w]
      BY <2>1, <1>1 DEF InvsOK, Invocation
    <2>3. Passed(inv[i].doc) \in PendingExtraction
      BY DEF Passed, PendingExtraction
    <2>4. WellFormed(w)
      BY ZenonT(60), <1>1, <2>3, Closed DEF WellFormed, Invocation, PCs
    <2>. QED
      BY <2>2, <2>4, Update
  <1>3. CASE \E v \in {"password_protected"} \cup GateVerdicts :
               inv' = [inv EXCEPT ![i].class = v,
                         ![i].categorized = v \in Preclassified,
                         ![i].pc = IF v \in CreditedEarly THEN "precredit" ELSE "upsert"]
    <2>1. PICK v \in {"password_protected"} \cup GateVerdicts :
               inv' = [inv EXCEPT ![i].class = v,
                         ![i].categorized = v \in Preclassified,
                         ![i].pc = IF v \in CreditedEarly THEN "precredit" ELSE "upsert"]
      BY <1>3
    <2> DEFINE pc == IF v \in CreditedEarly THEN "precredit" ELSE "upsert"
               c == v \in Preclassified
               w == [inv[i] EXCEPT !.class = v, !.categorized = c, !.pc = pc]
    <2>2. inv' = [inv EXCEPT ![i] = w]
      BY <2>1, <1>1 DEF InvsOK, Invocation
    <2>3. v \in Classified
      BY DEF ConstantsAssumption, AllGateVerdicts, Classified
    <2>. c \in BOOLEAN /\ pc \in {"precredit", "upsert"}
      OBVIOUS
    <2>. HIDE DEF c, pc
    <2>4. WellFormed(w)
      BY <1>1, <2>3, Closed DEF WellFormed, Invocation, PCs
    <2>. QED
      BY <2>2, <2>4, Update
  <1>. QED
    BY <1>2, <1>3 DEF Gate

\* Most actions write neither the table nor the history.
LEMMA Unwritten ==
    ASSUME IInv, InvsOK', DeliveriesOK', faults' \in 0..MaxFaults,
           UNCHANGED <<rec, job, aged, reaper, deleting, hist>>
    PROVE  IInv'
  BY DEF IInv, TypeOK, InvsOK, WellFormed, ClaimsOK, DeliveriesOK

\* upsert_initial_ddb_record up to its first write.
LEMMA GateKeeps ==
    ASSUME IInv, ConstantsAssumption, NEW i \in Invs, Gate(i) PROVE IInv'
  BY Unwritten, GateMoves DEF IInv, TypeOK, DeliveriesOK, Gate

\* A write of one record.
LEMMA RecordUpdate ==
    ASSUME rec \in [Docs -> Record], NEW d \in Docs, NEW r \in Record,
           rec' = [rec EXCEPT ![d] = r]
    PROVE  /\ rec' \in [Docs -> Record]
           /\ rec'[d] = r
           /\ \A e \in Docs \ {d} : rec'[e] = rec[e]
  OBVIOUS

\* A step in the history of one document.
LEMMA HistoryUpdate ==
    ASSUME hist \in [Docs -> History], NEW d \in Docs, NEW h \in History,
           hist' = [hist EXCEPT ![d] = h]
    PROVE  /\ hist' \in [Docs -> History]
           /\ hist'[d] = h
           /\ \A e \in Docs \ {d} : hist'[e] = hist[e]
  OBVIOUS

\* increment_resolved_count grants no claim.
LEMMA CountedHistory ==
    ASSUME hist \in [Docs -> History], NEW d \in Docs, NEW f \in {"early", "credited"},
           hist' = Counted(d, f)
    PROVE  /\ hist' \in [Docs -> History]
           /\ \A e \in Docs : hist'[e].claims = hist[e].claims
  <1> DEFINE h == [hist[d] EXCEPT ![f] = @ + 1]
  <1>1. hist[d] \in History
    OBVIOUS
  <1>2. h \in History /\ h.claims = hist[d].claims
    <2>1. CASE f = "early"
      BY <1>1, <2>1 DEF History
    <2>2. CASE f = "credited"
      BY <1>1, <2>2 DEF History
    <2>. QED
      BY <2>1, <2>2
  <1>3. CASE hist' = [hist EXCEPT ![d] = h]
    BY <1>2, <1>3, HistoryUpdate
  <1>4. CASE hist' = hist
    BY <1>4
  <1>. QED
    BY <1>3, <1>4 DEF Counted

\* The increment before the upsert.
LEMMA PreCreditKeeps ==
    ASSUME IInv, NEW i \in Invs, PreCredit(i) PROVE IInv'
  <1>1. inv[i] \in Invocation /\ inv[i].doc \in Docs /\ inv[i].event \in Events
        /\ inv[i].class \in Classified
    BY DEF IInv, InvsOK, WellFormed, PreCredit, At
  <1> DEFINE w == [inv[i] EXCEPT !.pc = "upsert"]
  <1>2. WellFormed(w)
    BY <1>1, Closed DEF WellFormed, Invocation, PCs
  <1>3. InvsOK'
    BY <1>2, Update DEF IInv, PreCredit, Goto
  <1>4. hist' \in [Docs -> History] /\ \A d \in Docs : hist'[d].claims = hist[d].claims
    BY <1>1, CountedHistory DEF IInv, TypeOK, PreCredit
  <1>. QED
    BY <1>3, <1>4 DEF IInv, TypeOK, ClaimsOK, InvsOK, WellFormed, PreCredit

\* upsert_ddb opens a document, its claims starting again, or ends it.
LEMMA UpsertKeeps ==
    ASSUME IInv, NEW i \in Invs, Upsert(i) PROVE IInv'
  <1> DEFINE d == inv[i].doc
             passed == inv[i].class \in PendingExtraction
             pc == IF passed THEN "reread" ELSE "finalize"
             w == [inv[i] EXCEPT !.pc = pc]
  <1>1. inv[i] \in Invocation /\ d \in Docs /\ inv[i].event \in Events
        /\ inv[i].class \in PendingExtraction \cup Classified
    BY DEF IInv, InvsOK, WellFormed, Upsert, At
  <1>2. WellFormed(w)
    BY <1>1, Closed DEF WellFormed, Invocation, PCs
  <1>3. InvsOK'
    BY <1>2, Update DEF IInv, Upsert, Goto
  <1>4. /\ rec'[d] \in Record
        /\ rec'[d].status = inv[i].class
        /\ \A e \in Docs \ {d} : rec'[e] = rec[e]
        /\ rec' \in [Docs -> Record]
    <2> DEFINE r == [rec[d] EXCEPT !.status = inv[i].class,
                                   !.categorized = @ \/ inv[i].categorized]
    <2>1. rec[d] \in Record /\ rec \in [Docs -> Record]
      BY <1>1 DEF IInv, TypeOK
    <2>2. r \in Record /\ r.status = inv[i].class
      BY <1>1, <2>1 DEF Record, Invocation
    <2>3. rec' = [rec EXCEPT ![d] = r]
      BY <1>1, <2>1 DEF Upsert, Record
    <2>. QED
      BY <1>1, <2>1, <2>2, <2>3, RecordUpdate
  <1>5. /\ hist' \in [Docs -> History]
        /\ \A e \in Docs \ {d} : hist'[e] = hist[e]
        /\ hist'[d].claims = IF passed THEN 0 ELSE hist[d].claims
    BY ZenonT(60), <1>1 DEF IInv, TypeOK, Upsert, History
  <1>6. ClaimsOK'
    BY <1>1, <1>4, <1>5, Closed DEF IInv, ClaimsOK
  <1>. QED
    BY <1>3, <1>4, <1>5, <1>6 DEF IInv, TypeOK, InvsOK, WellFormed, Upsert

\* finalize_v1_response after the gate.
LEMMA FinalizeGateKeeps ==
    ASSUME IInv, NEW i \in Invs, FinalizeGate(i) PROVE IInv'
  <1>1. inv[i].doc \in Docs
    BY DEF IInv, InvsOK, WellFormed, FinalizeGate, At
  <1>2. InvsOK'
    BY GotoStep DEF IInv, PCs, FinalizeGate, At
  <1>3. rec' \in [Docs -> Record] /\ \A d \in Docs : rec'[d].status = rec[d].status
    <2>1. rec \in [Docs -> Record] /\ rec' = [rec EXCEPT ![inv[i].doc].v1 = TRUE]
      BY DEF IInv, TypeOK, FinalizeGate
    <2> QED
      BY <1>1, <2>1 DEF Record
  <1>. QED
    BY <1>2, <1>3 DEF IInv, TypeOK, ClaimsOK, InvsOK, WellFormed, FinalizeGate

\* _preclassify reads the record again.
LEMMA RereadKeeps ==
    ASSUME IInv, NEW i \in Invs, Reread(i) PROVE IInv'
  <1> DEFINE w == [inv[i] EXCEPT !.pc = "dispatch", !.seen = rec[inv[i].doc].status]
  <1>1. inv[i] \in Invocation /\ inv[i].doc \in Docs /\ inv[i].event \in Events
    BY DEF IInv, InvsOK, WellFormed, Reread, At
  <1>2. rec[inv[i].doc].status \in Status \cup {NoStatus}
    BY <1>1 DEF IInv, TypeOK, Record
  <1>3. WellFormed(w)
    BY <1>1, <1>2 DEF WellFormed, Invocation, PCs
  <1>4. inv' = [inv EXCEPT ![i] = w]
    BY <1>1 DEF IInv, InvsOK, Invocation, Reread
  <1>. QED
    BY <1>3, <1>4, Update, Unwritten DEF IInv, TypeOK, DeliveriesOK, Reread

\* _dispatch_document_processor goes on to a claim only from an open status.
LEMMA DispatchKeeps ==
    ASSUME IInv, NEW i \in Invs, Dispatch(i) PROVE IInv'
  <1>1. inv[i] \in Invocation /\ inv[i].doc \in Docs /\ inv[i].event \in Events
        /\ inv[i].pc # "idle"
    BY DEF IInv, InvsOK, WellFormed, Dispatch, At
  <1>2. CASE Finish(i)
    BY <1>2, FinishStep, Unwritten DEF IInv, TypeOK, DeliveriesOK, Dispatch
  <1>3. CASE Classify(i, "failed") /\ UNCHANGED <<queued, redeliveries>>
    BY <1>1, <1>3, ClassifyStep, Unwritten DEF IInv, TypeOK, DeliveriesOK, Dispatch, Classified
  <1>4. CASE /\ inv[i].seen \in PendingExtraction \cup AwaitingProcessing
             /\ Goto(i, "claim") /\ UNCHANGED <<queued, redeliveries>>
    <2> DEFINE w == [inv[i] EXCEPT !.pc = "claim"]
    <2>1. WellFormed(w)
      BY <1>1, <1>4 DEF WellFormed, Invocation, PCs, Open
    <2>. QED
      BY <1>4, <2>1, Update, Unwritten DEF IInv, TypeOK, DeliveriesOK, Dispatch, Goto
  <1>. QED
    BY <1>2, <1>3, <1>4 DEF Dispatch

\* set_processing_status_started: the claim takes the document out of the open statuses.
LEMMA ClaimKeeps ==
    ASSUME IInv, NEW i \in Invs, Claim(i) PROVE IInv'
  <1> DEFINE d == inv[i].doc
  <1>1. d \in Docs /\ inv[i].seen \in Open
    BY DEF IInv, InvsOK, WellFormed, Claim, At
  <1>2. CASE ~ClaimHolds(i)
    BY <1>2, FinishStep, Unwritten DEF IInv, TypeOK, DeliveriesOK, Claim
  <1>3. CASE ClaimHolds(i)
    <2>1. hist[d].claims = 0
      BY <1>1, <1>3 DEF ClaimHolds, IInv, ClaimsOK
    <2>2. /\ rec' \in [Docs -> Record]
          /\ rec'[d].status = "started"
          /\ \A e \in Docs \ {d} : rec'[e] = rec[e]
      <3>1. rec[d] \in Record /\ rec \in [Docs -> Record]
        BY <1>1 DEF IInv, TypeOK
      <3> DEFINE r == [rec[d] EXCEPT !.status = "started"]
      <3>2. r \in Record /\ r.status = "started"
        BY <1>1, <3>1, Closed DEF Record
      <3>3. rec' = [rec EXCEPT ![d] = r]
        BY <1>1, <1>3, <3>1 DEF Claim, Record
      <3>. QED
        BY <1>1, <3>1, <3>2, <3>3, RecordUpdate
    <2>3. /\ hist' \in [Docs -> History]
          /\ hist'[d].claims = hist[d].claims + 1
          /\ \A e \in Docs \ {d} : hist'[e] = hist[e]
      <3>1. hist[d] \in History /\ hist \in [Docs -> History]
        BY <1>1 DEF IInv, TypeOK
      <3> DEFINE h == [hist[d] EXCEPT !.claims = @ + 1]
      <3>2. h \in History /\ h.claims = hist[d].claims + 1
        BY <3>1 DEF History
      <3>3. hist' = [hist EXCEPT ![d] = h]
        BY <1>1, <1>3, <3>1 DEF Claim
      <3> HIDE DEF h
      <3> QED
        BY <1>1, <3>1, <3>2, <3>3
    <2>4. ClaimsOK'
      BY <1>1, <2>1, <2>2, <2>3, Closed DEF IInv, ClaimsOK
    <2>5. InvsOK'
      BY <1>3, GotoStep DEF IInv, PCs, Claim, At
    <2>. QED
      BY <1>3, <2>2, <2>3, <2>4, <2>5 DEF IInv, TypeOK, InvsOK, WellFormed, Claim
  <1>. QED
    BY <1>2, <1>3

\* _invoke_textract_if_identity_path.
LEMMA ExtractKeeps ==
    ASSUME IInv, NEW i \in Invs, Extract(i) PROVE IInv'
  <1>1. inv[i] \in Invocation /\ inv[i].doc \in Docs /\ inv[i].event \in Events
    BY DEF IInv, InvsOK, WellFormed, Extract, At
  <1>2. CASE Goto(i, "bda")
    BY <1>2, GotoStep, Unwritten DEF IInv, TypeOK, DeliveriesOK, Extract, At, PCs
  <1>3. CASE inv' = [inv EXCEPT ![i].pc = "classify", ![i].class = "success",
                                ![i].ctx = "textract"]
    <2> DEFINE w == [inv[i] EXCEPT !.pc = "classify", !.class = "success", !.ctx = "textract"]
    <2>3. "success" \in Classified /\ "success" \in Status
      BY DEF Classified, Status
    <2>1. WellFormed(w)
      BY ZenonT(60), <1>1, <2>3 DEF WellFormed, Invocation, PCs, Contexts
    <2>2. inv' = [inv EXCEPT ![i] = w]
      BY <1>1, <1>3 DEF IInv, InvsOK, Invocation
    <2>. QED
      BY <2>1, <2>2, Update, Unwritten DEF IInv, TypeOK, DeliveriesOK, Extract
  <1>. QED
    BY <1>2, <1>3 DEF Extract

\* _invoke_bda_path.
LEMMA BdaPathKeeps ==
    ASSUME IInv, ConstantsAssumption, NEW i \in Invs, BdaPath(i) PROVE IInv'
  <1>1. inv[i].doc \in Docs
    BY DEF IInv, InvsOK, WellFormed, BdaPath, At
  <1>2. SkipVerdicts \subseteq Classified
    BY DEF ConstantsAssumption, AllSkipVerdicts, Classified
  <1>3. InvsOK'
    <2>1. CASE Goto(i, "invoke")
      BY <2>1, GotoStep DEF IInv, BdaPath, At, PCs
    <2>2. ASSUME NEW v \in SkipVerdicts, Classify(i, v) PROVE InvsOK'
      BY <1>1, <1>2, <2>2, ClassifyStep DEF IInv, BdaPath, At
    <2>. QED
      BY <2>1, <2>2 DEF BdaPath
  <1>. QED
    BY <1>3, Unwritten DEF IInv, TypeOK, DeliveriesOK, BdaPath

\* invoke_bedrock_data_automation.
LEMMA InvokeKeeps ==
    ASSUME IInv, NEW i \in Invs, NEW j \in Jobs, Invoke(i, j) PROVE IInv'
  <1> DEFINE w == [inv[i] EXCEPT !.pc = "record", !.job = j]
  <1>1. inv[i] \in Invocation /\ inv[i].doc \in Docs /\ inv[i].event \in Events
    BY DEF IInv, InvsOK, WellFormed, Invoke, At
  <1>2. WellFormed(w)
    BY <1>1 DEF WellFormed, Invocation, PCs
  <1>3. inv' = [inv EXCEPT ![i] = w]
    BY <1>1 DEF IInv, InvsOK, Invocation, Invoke
  <1>4. InvsOK'
    BY <1>2, <1>3, Update DEF IInv
  <1>5. job' \in [Jobs -> [state : {"free", "running"} \cup Ended, doc : Docs \cup {NoDoc}]]
    BY <1>1 DEF IInv, TypeOK, Invoke
  <1>. QED
    BY <1>4, <1>5 DEF IInv, TypeOK, ClaimsOK, InvsOK, WellFormed, Invoke

\* A status that cannot be claimed from is written.
LEMMA StatusWritten ==
    ASSUME IInv, NEW d \in Docs, NEW s \in Status \ Open,
           rec' = [rec EXCEPT ![d].status = s],
           \A e \in Docs : hist'[e].claims = hist[e].claims
    PROVE  rec' \in [Docs -> Record] /\ ClaimsOK'
  <1> DEFINE r == [rec[d] EXCEPT !.status = s]
  <1>1. rec[d] \in Record /\ rec \in [Docs -> Record]
    BY DEF IInv, TypeOK
  <1>2. r \in Record /\ r.status = s
    BY <1>1 DEF Record
  <1>3. rec' = [rec EXCEPT ![d] = r]
    BY <1>1 DEF Record
  <1>4. rec' \in [Docs -> Record] /\ rec'[d] = r /\ \A e \in Docs \ {d} : rec'[e] = rec[e]
    BY <1>1, <1>2, <1>3, RecordUpdate
  <1>. QED
    BY <1>2, <1>4 DEF IInv, ClaimsOK

\* set_bda_processing_status_started, unconditional as it is.
LEMMA RecordJobKeeps ==
    ASSUME IInv, NEW i \in Invs, RecordJob(i) PROVE IInv'
  <1> DEFINE d == inv[i].doc
             r == [rec[d] EXCEPT !.status = "started", !.job = inv[i].job]
  <1>1. inv[i] \in Invocation /\ d \in Docs
    BY DEF IInv, InvsOK, WellFormed, RecordJob, At
  <1>2. rec[d] \in Record /\ rec \in [Docs -> Record]
    BY <1>1 DEF IInv, TypeOK
  <1>3. r \in Record /\ r.status = "started"
    BY <1>1, <1>2, Closed DEF Record, Invocation
  <1>4. rec' = [rec EXCEPT ![d] = r]
    BY <1>1, <1>2 DEF RecordJob, Record
  <1>5. rec' \in [Docs -> Record] /\ rec'[d] = r /\ \A e \in Docs \ {d} : rec'[e] = rec[e]
    BY <1>1, <1>2, <1>3, <1>4, RecordUpdate
  <1>6. ClaimsOK'
    <2>1. hist' = hist /\ "started" \notin Open
      BY Closed DEF RecordJob
    <2>2. rec'[d].status \notin Open
      BY <1>3, <1>5, <2>1
    <2>3. ClaimsOK
      BY DEF IInv
    <2> HIDE DEF d, r
    <2> QED
      BY <1>5, <2>1, <2>2, <2>3 DEF ClaimsOK
  <1>7. InvsOK' /\ UNCHANGED <<queued, redeliveries>>
    BY FinishStep DEF IInv, RecordJob
  <1>. QED
    BY <1>5, <1>6, <1>7 DEF IInv, TypeOK, InvsOK, WellFormed, RecordJob

\* A retryable error of the BDA call.
LEMMA ThrottledKeeps ==
    ASSUME IInv, ConstantsAssumption, NEW i \in Invs, Throttled(i) PROVE IInv'
  <1>1. inv[i] \in Invocation /\ inv[i].doc \in Docs /\ inv[i].event \in Events
    BY DEF IInv, InvsOK, WellFormed, Throttled, At
  <1>2. faults' \in 0..MaxFaults
    BY DEF IInv, TypeOK, Throttled, Fault, ConstantsAssumption
  <1>3. CASE inv' = [inv EXCEPT ![i].pc = "invoke", ![i].attempts = @ + 1]
    <2> DEFINE n == inv[i].attempts + 1
               w == [inv[i] EXCEPT !.pc = "invoke", !.attempts = n]
    <2>0. n \in Nat
      BY <1>1 DEF Invocation
    <2> HIDE DEF n
    <2>1. w \in Invocation
      BY <1>1, <2>0 DEF Invocation, PCs
    <2>2. WellFormed(w)
      BY <1>1, <2>1 DEF WellFormed, Invocation
    <2>3. inv' = [inv EXCEPT ![i] = w]
      BY <1>1, <1>3 DEF IInv, InvsOK, Invocation, n
    <2>. QED
      BY <1>2, <2>2, <2>3, Update, Unwritten DEF IInv, TypeOK, DeliveriesOK, Throttled
  <1>4. CASE inv' = [inv EXCEPT ![i].pc = "classify", ![i].class = "failed",
                                ![i].ctx = "giveup"]
    <2> DEFINE w == [inv[i] EXCEPT !.pc = "classify", !.class = "failed", !.ctx = "giveup"]
    <2>1. "failed" \in Classified /\ "failed" \in Status
      BY DEF Classified, Status
    <2>2. WellFormed(w)
      BY ZenonT(60), <1>1, <2>1 DEF WellFormed, Invocation, PCs, Contexts
    <2>3. inv' = [inv EXCEPT ![i] = w]
      BY <1>1, <1>4 DEF IInv, InvsOK, Invocation
    <2>. QED
      BY <1>2, <2>2, <2>3, Update, Unwritten DEF IInv, TypeOK, DeliveriesOK, Throttled
  <1>. QED
    BY <1>3, <1>4 DEF Throttled

\* BDA ends a job.
LEMMA EndJobKeeps ==
    ASSUME IInv, NEW j \in Jobs, EndJob(j) PROVE IInv'
  <1>1. job' \in [Jobs -> [state : {"free", "running"} \cup Ended, doc : Docs \cup {NoDoc}]]
    BY DEF IInv, TypeOK, EndJob
  <1>. QED
    BY <1>1 DEF IInv, TypeOK, ClaimsOK, InvsOK, WellFormed, EndJob

\* What process_bda_result makes of a result.
LEMMA ReceiveResultMoves ==
    ASSUME InvsOK, ConstantsAssumption, NEW i \in Invs, NEW j \in Jobs,
           ReceiveResult(i, j)
    PROVE  InvsOK'
  <1> DEFINE start == [Idle EXCEPT !.event = j]
  <1>. j \notin Docs
    BY DEF ConstantsAssumption
  <1>1. CASE inv' = [inv EXCEPT ![i] = [start EXCEPT !.pc = "handler", !.ctx = "handler"]]
    <2> DEFINE w == [start EXCEPT !.pc = "handler", !.ctx = "handler"]
    <2>2. Idle \in Invocation /\ j \in Events /\ "handler" \in PCs /\ "handler" \in Contexts
      BY IdleWellFormed DEF WellFormed, PCs, Contexts, Events
    <2>3. w \in Invocation /\ w.pc = "handler" /\ w.ctx = "handler" /\ w.event = j
          /\ w.doc = Idle.doc
      BY <2>2 DEF Invocation
    <2>4. Idle.doc = NoDoc
      BY DEF Idle
    <2> HIDE DEF w
    <2>1. WellFormed(w)
      BY <2>2, <2>3, <2>4 DEF WellFormed
    <2> USE DEF w
    <2>. QED
      BY <1>1, <2>1, Update
  <1>2. ASSUME NEW d \in Docs,
               inv' = [inv EXCEPT ![i] =
                         [start EXCEPT !.pc = "handler", !.ctx = "handler", !.doc = d]]
        PROVE  InvsOK'
    <2> DEFINE w == [start EXCEPT !.pc = "handler", !.ctx = "handler", !.doc = d]
    <2>2. Idle \in Invocation /\ j \in Events /\ "handler" \in PCs /\ "handler" \in Contexts
      BY IdleWellFormed DEF WellFormed, PCs, Contexts, Events
    <2>3. w \in Invocation /\ w.pc = "handler" /\ w.ctx = "handler" /\ w.event = j /\ w.doc = d
      BY <2>2 DEF Invocation
    <2> HIDE DEF w
    <2>1. WellFormed(w)
      BY <2>2, <2>3 DEF WellFormed
    <2> USE DEF w
    <2>. QED
      BY <1>2, <2>1, Update
  <1>3. ASSUME NEW d \in Docs,
               inv' = [inv EXCEPT ![i] = [start EXCEPT !.pc = "classify", !.doc = d,
                                            !.class = Verdict(job[j].state)]]
        PROVE  InvsOK'
    <2>1. Verdict(job[j].state) \in Classified /\ Classified \subseteq Status
      BY DEF Verdict, Classified, Status
    <2>2. WellFormed([start EXCEPT !.pc = "classify", !.doc = d,
                                   !.class = Verdict(job[j].state)])
      BY <2>1, IdleWellFormed DEF WellFormed, Invocation, PCs, Events
    <2>. QED
      BY <1>3, <2>2, Update
  <1>. QED
    BY <1>1, <1>2, <1>3 DEF ReceiveResult

\* The result processor takes an event.
LEMMA ReceiveResultKeeps ==
    ASSUME IInv, ConstantsAssumption, NEW i \in Invs, NEW j \in Jobs,
           ReceiveResult(i, j)
    PROVE  IInv'
  <1>1. /\ j \in Events
        /\ queued[j] > 0
        /\ queued' = [queued EXCEPT ![j] = @ - 1]
        /\ redeliveries' = redeliveries
    BY DEF ReceiveResult, Events
  <1>2. DeliveriesOK'
    BY <1>1 DEF IInv, TypeOK, DeliveriesOK
  <1>. QED
    BY <1>2, ReceiveResultMoves, Unwritten DEF IInv, TypeOK, ReceiveResult

\* The catch-all of either lambda.
LEMMA HandlerKeeps ==
    ASSUME IInv, ConstantsAssumption, NEW i \in Invs, Handler(i) PROVE IInv'
  <1>1. /\ inv[i] \in Invocation /\ inv[i].event \in Events /\ inv[i].pc = "handler"
        /\ inv[i].event \in Docs => inv[i].doc \in Docs
    BY DEF IInv, InvsOK, WellFormed, Handler, At
  <1>2. "failed" \in Classified /\ "failed" \in Status
    BY DEF Classified, Status
  <1>3. InvsOK' /\ DeliveriesOK'
    <2>1. CASE inv[i].event \in Docs /\ Classify(i, "failed") /\ UNCHANGED <<queued, redeliveries>>
      BY <1>1, <1>2, <2>1, ClassifyStep DEF IInv, TypeOK, DeliveriesOK
    <2>2. ASSUME NEW d \in Docs, UNCHANGED <<queued, redeliveries>>,
                 inv' = [inv EXCEPT ![i].pc = "classify", ![i].doc = d, ![i].class = "failed"]
          PROVE  InvsOK' /\ DeliveriesOK'
      <3> DEFINE w == [inv[i] EXCEPT !.pc = "classify", !.doc = d, !.class = "failed"]
      <3>1. WellFormed(w)
        BY <1>1, <1>2 DEF WellFormed, Invocation, PCs
      <3>2. inv' = [inv EXCEPT ![i] = w]
        BY <1>1, <2>2 DEF IInv, InvsOK, Invocation
      <3>. QED
        BY <2>2, <3>1, <3>2, Update DEF IInv, TypeOK, DeliveriesOK
    <2>3. CASE Fail(i)
      BY <1>1, <2>3, FailStep DEF IInv, TypeOK, DeliveriesOK, ConstantsAssumption
    <2>. QED
      BY <2>1, <2>2, <2>3 DEF Handler
  <1>. QED
    BY <1>3, Unwritten DEF IInv, TypeOK, Handler

\* The conditional write of _write_terminal_status.
LEMMA WriteTerminalKeeps ==
    ASSUME IInv, ConstantsAssumption, NEW i \in Invs, WriteTerminal(i) PROVE IInv'
  <1> DEFINE d == inv[i].doc
  <1>1. d \in Docs /\ inv[i].class \in Classified /\ inv[i].pc = "classify"
    BY DEF IInv, InvsOK, WellFormed, WriteTerminal, At
  <1>2. CASE ~MayBecomeTerminal(rec[d].status)
    BY <1>1, <1>2, ReturnStep, Unwritten
       DEF IInv, TypeOK, DeliveriesOK, ConstantsAssumption, WriteTerminal, Skip
  <1>3. CASE MayBecomeTerminal(rec[d].status)
    <2>1. Recorded(inv[i].class) \in Status \ Open
      BY <1>1, Closed DEF Recorded, Classified, Status
    <2>2. hist' \in [Docs -> History] /\ \A e \in Docs : hist'[e].claims = hist[e].claims
      <3> DEFINE n == hist[d].landed + 1
                 t == hist[d].textract \/ inv[i].ctx = "textract"
                 h == [hist[d] EXCEPT !.landed = n, !.textract = t]
      <3>1. hist[d] \in History /\ hist \in [Docs -> History]
        BY <1>1 DEF IInv, TypeOK
      <3>2. n \in Nat /\ t \in BOOLEAN
        BY <3>1 DEF History
      <3>3. hist' = [hist EXCEPT ![d] = h]
        BY <1>1, <1>3, <3>1 DEF WriteTerminal, History
      <3> HIDE DEF n, t
      <3>4. h \in History /\ h.claims = hist[d].claims
        BY <3>1, <3>2 DEF History
      <3>. QED
        BY <1>1, <3>1, <3>3, <3>4, HistoryUpdate
    <2>3. rec' = [rec EXCEPT ![d].status = Recorded(inv[i].class)]
      BY <1>3 DEF WriteTerminal
    <2>4. rec' \in [Docs -> Record] /\ ClaimsOK'
      BY <1>1, <2>1, <2>2, <2>3, StatusWritten
    <2>5. InvsOK' /\ UNCHANGED <<queued, redeliveries>>
      BY <1>1, <1>3, GotoStep DEF IInv, WriteTerminal, PCs
    <2>. QED
      BY <1>3, <2>2, <2>4, <2>5 DEF IInv, TypeOK, InvsOK, WellFormed, WriteTerminal
  <1>. QED
    BY <1>2, <1>3

\* finalize_v1_response.
LEMMA WriteV1Keeps ==
    ASSUME IInv, NEW i \in Invs, WriteV1(i) PROVE IInv'
  <1>1. inv[i].doc \in Docs
    BY DEF IInv, InvsOK, WellFormed, WriteV1, At
  <1>2. InvsOK'
    BY GotoStep DEF IInv, PCs, WriteV1, At
  <1>3. rec' \in [Docs -> Record] /\ \A d \in Docs : rec'[d].status = rec[d].status
    <2> DEFINE d == inv[i].doc
               r == [rec[d] EXCEPT !.v1 = TRUE]
    <2>1. rec \in [Docs -> Record] /\ rec[d] \in Record
      BY <1>1 DEF IInv, TypeOK
    <2>2. r \in Record /\ r.status = rec[d].status
      BY <2>1 DEF Record
    <2>3. rec' = [rec EXCEPT ![d] = r]
      BY <1>1, <2>1 DEF WriteV1, Record
    <2> HIDE DEF r
    <2>. QED
      BY <1>1, <2>1, <2>2, <2>3
  <1>. QED
    BY <1>2, <1>3 DEF IInv, TypeOK, ClaimsOK, InvsOK, WellFormed, WriteV1

\* increment_resolved_count.
LEMMA CreditKeeps ==
    ASSUME IInv, ConstantsAssumption, NEW i \in Invs, Credit(i) PROVE IInv'
  <1>1. inv[i].doc \in Docs /\ inv[i].pc = "credit"
    BY DEF IInv, InvsOK, WellFormed, Credit, At
  <1>2. hist' \in [Docs -> History] /\ \A e \in Docs : hist'[e].claims = hist[e].claims
    BY <1>1, CountedHistory DEF IInv, TypeOK, Credit
  <1>3. InvsOK' /\ DeliveriesOK'
    <2>1. CASE Goto(i, "method") /\ UNCHANGED <<queued, redeliveries>>
      BY <1>1, <2>1, GotoStep DEF IInv, TypeOK, DeliveriesOK, PCs
    <2>2. CASE Return(i)
      BY <1>1, <2>2, ReturnStep DEF IInv, TypeOK, DeliveriesOK, ConstantsAssumption
    <2>. QED
      BY <2>1, <2>2 DEF Credit
  <1>. QED
    BY <1>2, <1>3 DEF IInv, TypeOK, ClaimsOK, InvsOK, WellFormed, DeliveriesOK, Credit

\* write_extract_method_response.
LEMMA MethodResponseKeeps ==
    ASSUME IInv, ConstantsAssumption, NEW i \in Invs, MethodResponse(i) PROVE IInv'
  <1>1. inv[i].pc = "method"
    BY DEF MethodResponse, At
  <1>2. InvsOK' /\ DeliveriesOK'
    BY <1>1, ReturnStep, ThrowStep
       DEF IInv, TypeOK, DeliveriesOK, ConstantsAssumption, MethodResponse
  <1>. QED
    BY <1>2, Unwritten DEF IInv, TypeOK, MethodResponse

\* The bound on faults.
LEMMA FaultsBounded ==
    ASSUME IInv, ConstantsAssumption, Fault PROVE faults' \in 0..MaxFaults
  BY DEF IInv, TypeOK, Fault, ConstantsAssumption

\* A failed call.
LEMMA RaiseKeeps ==
    ASSUME IInv, ConstantsAssumption, NEW i \in Invs, Raise(i) PROVE IInv'
  BY ThrowStep, FaultsBounded, Unwritten
     DEF IInv, TypeOK, DeliveriesOK, ConstantsAssumption, Raise

\* A lambda is killed.
LEMMA CrashKeeps ==
    ASSUME IInv, ConstantsAssumption, NEW i \in Invs, Crash(i) PROVE IInv'
  BY FailStep, FaultsBounded, Unwritten
     DEF IInv, TypeOK, DeliveriesOK, ConstantsAssumption, Crash, At

\* A document grows old.
LEMMA AgeKeeps == ASSUME IInv, NEW d \in Docs, Age(d) PROVE IInv'
  BY DEF IInv, TypeOK, ClaimsOK, InvsOK, WellFormed, Age

\* _find_stale_records.
LEMMA SweepKeeps == ASSUME IInv, Sweep PROVE IInv'
  <1>1. {[doc |-> d, job |-> rec[d].job] : d \in Stale} \subseteq [doc : Docs, job : Jobs \cup {NoJob}]
    BY DEF IInv, TypeOK, Stale, Record
  <1>2. reaper' \in [todo : SUBSET [doc : Docs, job : Jobs \cup {NoJob}],
                     owes : Docs \cup {NoDoc}]
    BY <1>1 DEF IInv, TypeOK, Sweep
  <1>. QED
    BY <1>2 DEF IInv, TypeOK, ClaimsOK, InvsOK, WellFormed, Sweep

\* The type of the running sweep.
ReaperOK == reaper \in [todo : SUBSET [doc : Docs, job : Jobs \cup {NoJob}],
                        owes : Docs \cup {NoDoc}]

\* _mark_terminal.
LEMMA MarkStep ==
    ASSUME IInv, NEW row \in reaper.todo, NEW s \in {"timed_out", "failed"}, Mark(row, s)
    PROVE  ReaperOK' /\ rec' \in [Docs -> Record] /\ hist' \in [Docs -> History] /\ ClaimsOK'
  <1> DEFINE d == row.doc
  <1>1. d \in Docs
    BY DEF IInv, TypeOK
  <1>2. ReaperOK'
    BY <1>1 DEF IInv, TypeOK, ReaperOK, Mark
  <1>3. CASE ~MayBecomeTerminal(rec[d].status)
    BY <1>2, <1>3 DEF Mark, IInv, TypeOK, ClaimsOK
  <1>4. CASE MayBecomeTerminal(rec[d].status)
    <2>1. s \in Status \ Open
      BY Closed DEF Classified, Status
    <2>2. hist' \in [Docs -> History] /\ \A e \in Docs : hist'[e].claims = hist[e].claims
      <3> DEFINE h == [hist[d] EXCEPT !.landed = @ + 1]
      <3>1. hist[d] \in History /\ hist \in [Docs -> History]
        BY <1>1 DEF IInv, TypeOK
      <3>2. h \in History /\ h.claims = hist[d].claims
        BY <3>1 DEF History
      <3>3. hist' = [hist EXCEPT ![d] = h]
        BY <1>4 DEF Mark
      <3>. QED
        BY <1>1, <3>1, <3>2, <3>3, HistoryUpdate
    <2>3. rec' = [rec EXCEPT ![d].status = s]
      BY <1>4 DEF Mark
    <2>. QED
      BY <1>1, <1>2, <2>1, <2>2, <2>3, StatusWritten
  <1>. QED
    BY <1>3, <1>4

\* _process_stale_record.
LEMMA ReapKeeps ==
    ASSUME IInv, ConstantsAssumption, NEW row \in reaper.todo, Reap(row) PROVE IInv'
  <1>1. faults' \in 0..MaxFaults
    BY FaultsBounded DEF Reap, IInv, TypeOK
  <1>2. ReaperOK' /\ rec' \in [Docs -> Record] /\ hist' \in [Docs -> History] /\ ClaimsOK'
    <2>1. CASE Mark(row, "timed_out") \/ Mark(row, "failed")
      BY <2>1, MarkStep
    <2>2. CASE /\ reaper' = [reaper EXCEPT !.todo = @ \ {row}]
               /\ UNCHANGED <<rec, hist, faults>>
      BY <2>2 DEF ReaperOK, IInv, TypeOK, ClaimsOK
    <2>. QED
      BY <2>1, <2>2 DEF Reap
  <1>. QED
    BY <1>1, <1>2 DEF IInv, TypeOK, InvsOK, WellFormed, ReaperOK, Reap

\* _mark_and_increment after the write.
LEMMA ReaperCreditKeeps == ASSUME IInv, ReaperCredit PROVE IInv'
  <1>1. reaper.owes \in Docs
    BY DEF IInv, TypeOK, ReaperCredit
  <1>2. hist' \in [Docs -> History] /\ \A e \in Docs : hist'[e].claims = hist[e].claims
    BY <1>1, CountedHistory DEF IInv, TypeOK, ReaperCredit
  <1>3. ReaperOK'
    BY DEF IInv, TypeOK, ReaperOK, ReaperCredit
  <1>. QED
    BY <1>2, <1>3 DEF IInv, TypeOK, ClaimsOK, InvsOK, WellFormed, ReaperOK, ReaperCredit

\* The reaper is killed.
LEMMA ReaperCrashKeeps == ASSUME IInv, ConstantsAssumption, ReaperCrash PROVE IInv'
  <1>1. faults' \in 0..MaxFaults
    BY FaultsBounded DEF ReaperCrash
  <1>. QED
    BY <1>1 DEF IInv, TypeOK, ClaimsOK, InvsOK, WellFormed, ReaperCrash

\* An API request classifies a document.
LEMMA ApiClassifies ==
    ASSUME InvsOK, NEW i \in Invs, NEW d \in Docs, NEW class \in {"conversion_failed", "failed"},
           inv' = [inv EXCEPT ![i] = [Idle EXCEPT !.pc = "classify", !.event = d,
                                        !.doc = d, !.class = class, !.ctx = "api"]]
    PROVE  InvsOK'
  <1>1. class \in Classified /\ class \in Status
    BY DEF Classified, Status
  <1>2. WellFormed([Idle EXCEPT !.pc = "classify", !.event = d, !.doc = d,
                                !.class = class, !.ctx = "api"])
    <2> DEFINE w == [Idle EXCEPT !.pc = "classify", !.event = d, !.doc = d,
                                 !.class = class, !.ctx = "api"]
    <2>1. Idle \in Invocation /\ d \in Events /\ "classify" \in PCs /\ "api" \in Contexts
      BY IdleWellFormed DEF WellFormed, PCs, Contexts, Events
    <2>2. w \in Invocation
      BY <1>1, <2>1 DEF Invocation
    <2>3. w.pc = "classify" /\ w.event = d /\ w.doc = d /\ w.class = class
      BY <2>1 DEF Invocation
    <2> HIDE DEF w
    <2>4. WellFormed(w)
      BY <1>1, <2>1, <2>2, <2>3 DEF WellFormed
    <2> QED
      BY <2>4 DEF w
  <1>. QED
    BY <1>2, Update

\* dispatch_upload fails.
LEMMA UploadFailsKeeps ==
    ASSUME IInv, ConstantsAssumption, NEW i \in Invs, NEW d \in Docs, UploadFails(i, d)
    PROVE  IInv'
  <1>1. InvsOK'
    BY ApiClassifies DEF IInv, UploadFails
  <1>2. d \in Events /\ 0 \in 0..MaxDeliveries
    BY DEF ConstantsAssumption, Events
  <1>3. DeliveriesOK'
    BY <1>2 DEF IInv, TypeOK, DeliveriesOK, UploadFails
  <1>. QED
    BY <1>1, <1>3, Unwritten DEF IInv, TypeOK, UploadFails

\* poll_for_completion gives up.
LEMMA WaitTimesOutKeeps ==
    ASSUME IInv, NEW i \in Invs, NEW d \in Docs, WaitTimesOut(i, d) PROVE IInv'
  <1>1. InvsOK'
    BY ApiClassifies DEF IInv, WaitTimesOut
  <1>. QED
    BY <1>1, Unwritten DEF IInv, TypeOK, DeliveriesOK, WaitTimesOut

\* DELETE reads the status.
LEMMA BeginDeleteKeeps == ASSUME IInv, NEW d \in Docs, BeginDelete(d) PROVE IInv'
  BY DEF IInv, TypeOK, ClaimsOK, InvsOK, WellFormed, BeginDelete

\* mark_document_deleted.
LEMMA EndDeleteKeeps ==
    ASSUME IInv, ConstantsAssumption, NEW d \in Docs, EndDelete(d) PROVE IInv'
  <1>1. faults' \in 0..MaxFaults
    BY FaultsBounded DEF EndDelete, IInv, TypeOK
  <1>2. rec' \in [Docs -> Record] /\ ClaimsOK'
    <2>1. CASE rec' = [rec EXCEPT ![d].status = "deleted"]
      <3>1. "deleted" \in Status \ Open
        BY Closed DEF Classified, Status
      <3>. QED
        BY <2>1, <3>1, StatusWritten DEF EndDelete
    <2>2. CASE UNCHANGED rec
      BY <2>2 DEF IInv, TypeOK, ClaimsOK, EndDelete
    <2>. QED
      BY <2>1, <2>2 DEF EndDelete
  <1>. QED
    BY <1>1, <1>2 DEF IInv, TypeOK, InvsOK, WellFormed, EndDelete

-----------------------------------------------------------------------------
(* Init, Next and the theorems *)

\* Nothing happens.
LEMMA StutterKeeps == ASSUME IInv, UNCHANGED vars PROVE IInv'
  BY DEF IInv, TypeOK, ClaimsOK, InvsOK, WellFormed, vars

\* insert_minimal_ddb_record leaves no claim.
LEMMA InitEstablishes == ASSUME ConstantsAssumption, Init PROVE IInv
  <1>1. InvsOK
    BY IdleWellFormed DEF Init, InvsOK, WellFormed
  <1>2. rec \in [Docs -> Record]
    BY DEF Init, Record, Status, NonTerminal, Classified, NoStatus
  <1>3. hist \in [Docs -> History] /\ \A d \in Docs : hist[d].claims = 0
    BY DEF Init, History
  <1>4. ClaimsOK
    BY <1>3 DEF ClaimsOK
  <1>5. job \in [Jobs -> [state : {"free", "running"} \cup Ended, doc : Docs \cup {NoDoc}]]
    BY DEF Init
  <1>. QED
    BY <1>1, <1>2, <1>3, <1>4, <1>5
       DEF Init, IInv, TypeOK, InvsOK, WellFormed, ConstantsAssumption

\* Every step of an environment.
LEMMA LambdaKeeps ==
    ASSUME IInv, ConstantsAssumption, NEW i \in Invs, Lambda(i) PROVE IInv'
  <1>1. CASE Advance(i)
    BY <1>1, GateKeeps, PreCreditKeeps, UpsertKeeps, FinalizeGateKeeps, RereadKeeps,
       DispatchKeeps, ClaimKeeps, ExtractKeeps, BdaPathKeeps, InvokeKeeps,
       RecordJobKeeps, HandlerKeeps, WriteTerminalKeeps, WriteV1Keeps, CreditKeeps,
       MethodResponseKeeps DEF Advance
  <1>. QED
    BY <1>1, ReceiveKeeps, ReceiveResultKeeps, UploadFailsKeeps, WaitTimesOutKeeps,
       ThrottledKeeps, RaiseKeeps, CrashKeeps DEF Lambda

\* Every step.
LEMMA NextKeeps == ASSUME IInv, ConstantsAssumption, [Next]_vars PROVE IInv'
  BY EmitKeeps, LambdaKeeps, EndJobKeeps, SweepKeeps, ReapKeeps, ReaperCreditKeeps,
     ReaperCrashKeeps, AgeKeeps, BeginDeleteKeeps, EndDeleteKeeps, StutterKeeps
     DEF Next, Reaper

\* The inductive invariant holds in every reachable state, whatever lambdas,
\* reaper and API do to the record, in whatever order.
THEOREM Invariance == Spec => []IInv
  <1>1. Init => IInv
    BY InitEstablishes, ConstantsAssumption
  <1>2. IInv /\ [Next]_vars => IInv'
    BY NextKeeps, ConstantsAssumption
  <1>. QED
    BY <1>1, <1>2, PTL DEF Spec

\* Every variable keeps its type: statuses are those of ProcessStatus, and a
\* running invocation has the event and the document its next call needs.
THEOREM TypeCorrect == Spec => []TypeOK
  <1>1. IInv => TypeOK
    BY DEF IInv
  <1>. QED
    BY Invariance, <1>1, PTL

\* The claim of set_processing_status_started is exclusive: between two
\* upserts that open a document, at most one invocation is granted it.
THEOREM ClaimsAreExclusive == Spec => []ClaimExclusive
  <1>1. IInv => ClaimExclusive
    BY DEF IInv, ClaimsOK, ClaimExclusive
  <1>. QED
    BY Invariance, <1>1, PTL

-----------------------------------------------------------------------------
(* The increments a document is still owed *)

\* The points of _write_terminal_status between its write and its increment.
Owing == {"v1", "credit"}

Owed(d) == {i \in Invs : inv[i].pc \in Owing /\ inv[i].doc = d}

ReaperOwes(d) == IF reaper.owes = d THEN 1 ELSE 0

CreditsOK ==
    \A d \in Docs :
        /\ IsFiniteSet(Owed(d))
        /\ hist[d].credited + Cardinality(Owed(d)) + ReaperOwes(d) <= hist[d].landed

\* One invocation moves, to a point where it owes nothing.
Moves(i) == \A k \in Invs \ {i} : inv'[k] = inv[k]

Frees(i) == Moves(i) /\ inv'[i].pc \notin Owing

\* A step that lands no write and makes no increment.
NothingLands ==
    \A d \in Docs : hist'[d].credited = hist[d].credited /\ hist'[d].landed = hist[d].landed

-----------------------------------------------------------------------------
(* Sets of invocations *)

\* Forgetting increments leaves the account in order.
LEMMA Forgotten ==
    ASSUME IInv, CreditsOK, NothingLands,
           \A d \in Docs : Owed(d)' \subseteq Owed(d),
           \A d \in Docs : reaper'.owes = d => reaper.owes = d
    PROVE  CreditsOK'
  <1> SUFFICES ASSUME NEW d \in Docs
               PROVE  /\ IsFiniteSet(Owed(d)')
                      /\ hist'[d].credited + Cardinality(Owed(d)') + ReaperOwes(d)'
                            <= hist'[d].landed
    BY DEF CreditsOK
  <1>1. /\ IsFiniteSet(Owed(d)) /\ Owed(d)' \subseteq Owed(d)
        /\ hist[d].credited + Cardinality(Owed(d)) + ReaperOwes(d) <= hist[d].landed
    BY DEF CreditsOK
  <1>2. /\ IsFiniteSet(Owed(d)')
        /\ Cardinality(Owed(d)') <= Cardinality(Owed(d))
        /\ Cardinality(Owed(d)') \in Nat /\ Cardinality(Owed(d)) \in Nat
    BY <1>1, FS_Subset, FS_CardinalityType
  <1>3. ReaperOwes(d)' <= ReaperOwes(d) /\ ReaperOwes(d) \in Nat /\ ReaperOwes(d)' \in Nat
    BY DEF ReaperOwes
  <1>4. hist[d].credited \in Nat /\ hist[d].landed \in Nat
    BY DEF IInv, TypeOK, History
  <1>. QED
    BY <1>1, <1>2, <1>3, <1>4 DEF NothingLands

\* An invocation that owes nothing any more is in no set of Owed.
LEMMA FreesShrinks ==
    ASSUME NEW i \in Invs, Frees(i)
    PROVE  \A d \in Docs : Owed(d)' \subseteq Owed(d)
  BY DEF Frees, Moves, Owed

\* Most steps free an invocation and touch nothing else of the account.
LEMMA FreesKeeps ==
    ASSUME IInv, CreditsOK, NothingLands, NEW i \in Invs, Frees(i), UNCHANGED reaper
    PROVE  CreditsOK'
  BY Forgotten, FreesShrinks

\* A step that moves no invocation, the reaper's included.
LEMMA OtherKeeps ==
    ASSUME IInv, CreditsOK, UNCHANGED <<inv, hist>>,
           \A d \in Docs : reaper'.owes = d => reaper.owes = d
    PROVE  CreditsOK'
  BY Forgotten DEF NothingLands, Owed

-----------------------------------------------------------------------------
(* The helpers of the control flow *)

\* An invocation is replaced by one that owes nothing.
LEMMA ReplaceFrees ==
    ASSUME InvsOK, NEW i \in Invs, NEW w, w.pc \notin Owing, inv' = [inv EXCEPT ![i] = w]
    PROVE  Frees(i)
  BY DEF InvsOK, Frees, Moves

\* Goto moves one invocation.
LEMMA GotoMoves ==
    ASSUME InvsOK, NEW i \in Invs, NEW pc \in PCs, Goto(i, pc)
    PROVE  Moves(i) /\ inv'[i].pc = pc /\ inv'[i].doc = inv[i].doc
  BY DEF InvsOK, Goto, Moves, Invocation

\* An invocation that ends, however it ends, owes nothing.
LEMMA EndsFree ==
    ASSUME InvsOK, NEW i \in Invs, Finish(i) \/ Fail(i)
    PROVE  Frees(i)
  BY DEF InvsOK, Finish, Fail, Frees, Moves, Idle, Owing

\* A classification that begins has written nothing yet.
LEMMA ClassifyFrees ==
    ASSUME InvsOK, NEW i \in Invs, NEW class, Classify(i, class)
    PROVE  Frees(i)
  BY DEF InvsOK, Classify, Frees, Moves, Owing, Invocation

\* The handler classifies anew.
LEMMA EnterHandlerFrees ==
    ASSUME InvsOK, NEW i \in Invs, EnterHandler(i)
    PROVE  Frees(i)
  BY DEF InvsOK, EnterHandler, Frees, Moves, Owing, Invocation

\* A terminal write that returned is done with its increment, or skipped it.
LEMMA ReturnFrees ==
    ASSUME InvsOK, NEW i \in Invs, Return(i)
    PROVE  Frees(i)
  BY EndsFree, EnterHandlerFrees DEF Return

\* An exception drops the increment.
LEMMA ThrowFrees ==
    ASSUME InvsOK, NEW i \in Invs, Throw(i)
    PROVE  Frees(i)
  <1>1. CASE inv' = [inv EXCEPT ![i].pc = "bda", ![i].ctx = "main"]
    BY <1>1 DEF InvsOK, Frees, Moves, Owing, Invocation
  <1>. QED
    BY <1>1, EndsFree, EnterHandlerFrees DEF Throw

-----------------------------------------------------------------------------
(* The document processor *)

\* Every action of the processor between its terminal writes.
LEMMA ProcessorFrees ==
    ASSUME InvsOK, NEW i \in Invs,
           \/ \E d \in Docs : Receive(i, d)
           \/ Gate(i) \/ PreCredit(i) \/ Upsert(i) \/ FinalizeGate(i) \/ Reread(i)
           \/ Dispatch(i) \/ Claim(i) \/ Extract(i) \/ BdaPath(i)
           \/ \E j \in Jobs : Invoke(i, j)
           \/ RecordJob(i) \/ Throttled(i)
    PROVE  Frees(i)
  <1>1. CASE \E d \in Docs : Receive(i, d)
    <2>1. PICK d \in Docs : Receive(i, d)
      BY <1>1
    <2> DEFINE pc == IF NeedsPreclassification(rec[d]) THEN "gate" ELSE "dispatch"
               w == [Idle EXCEPT !.pc = pc, !.event = d, !.doc = d, !.seen = rec[d].status]
    <2>2. inv' = [inv EXCEPT ![i] = w]
      BY <2>1 DEF Receive
    <2>3. w.pc \notin Owing
      BY DEF Owing, Idle
    <2> HIDE DEF w
    <2>. QED
      BY <2>2, <2>3, ReplaceFrees
  <1>2. CASE Gate(i)
    <2>1. ASSUME NEW pc \in {"upsert", "precredit"}, NEW class, NEW c,
                 inv' = [inv EXCEPT ![i].class = class, ![i].categorized = c, ![i].pc = pc]
          PROVE  Frees(i)
      BY <2>1 DEF InvsOK, Frees, Moves, Owing, Invocation
    <2>2. ASSUME NEW v,
                 inv' = [inv EXCEPT ![i].class = v, ![i].categorized = v \in Preclassified,
                           ![i].pc = IF v \in CreditedEarly THEN "precredit" ELSE "upsert"]
          PROVE  Frees(i)
      <3> DEFINE pc == IF v \in CreditedEarly THEN "precredit" ELSE "upsert"
                 c == v \in Preclassified
      <3>1. pc \in {"upsert", "precredit"}
        OBVIOUS
      <3>2. inv' = [inv EXCEPT ![i].class = v, ![i].categorized = c, ![i].pc = pc]
        BY <2>2
      <3> HIDE DEF pc, c
      <3>. QED
        BY <2>1, <3>1, <3>2
    <2>3. CASE \E c \in BOOLEAN, id \in BOOLEAN :
                 inv' = [inv EXCEPT ![i].pc = "upsert", ![i].class = Passed(inv[i].doc),
                                    ![i].categorized = c, ![i].identity = id]
      BY <2>3 DEF InvsOK, Frees, Moves, Owing, Invocation
    <2>4. CASE \E v \in {"password_protected"} \cup GateVerdicts :
                 inv' = [inv EXCEPT ![i].class = v, ![i].categorized = v \in Preclassified,
                           ![i].pc = IF v \in CreditedEarly THEN "precredit" ELSE "upsert"]
      BY <2>2, <2>4
    <2>. QED
      BY <1>2, <2>3, <2>4 DEF Gate
  <1>3. CASE PreCredit(i) \/ Upsert(i) \/ FinalizeGate(i)
    BY <1>3, GotoMoves DEF PreCredit, Upsert, FinalizeGate, Frees, Owing, PCs
  <1>4. CASE Reread(i)
    BY <1>4 DEF Reread, InvsOK, Frees, Moves, Owing, Invocation
  <1>5. CASE Dispatch(i)
    BY <1>5, EndsFree, ClassifyFrees, GotoMoves DEF Dispatch, Frees, Owing, PCs
  <1>6. CASE Claim(i)
    BY <1>6, EndsFree, GotoMoves DEF Claim, Frees, Owing, PCs
  <1>7. CASE Extract(i)
    <2>1. CASE Goto(i, "bda")
      BY <2>1, GotoMoves DEF Frees, Owing, PCs
    <2>2. CASE inv' = [inv EXCEPT ![i].pc = "classify", ![i].class = "success",
                                  ![i].ctx = "textract"]
      BY <2>2 DEF InvsOK, Frees, Moves, Owing, Invocation
    <2>. QED
      BY <1>7, <2>1, <2>2 DEF Extract
  <1>8. CASE BdaPath(i)
    BY <1>8, ClassifyFrees, GotoMoves DEF BdaPath, Frees, Owing, PCs
  <1>9. CASE \E j \in Jobs : Invoke(i, j)
    <2>1. PICK j \in Jobs : inv' = [inv EXCEPT ![i].pc = "record", ![i].job = j]
      BY <1>9 DEF Invoke
    <2>2. inv[i] \in Invocation
      BY DEF InvsOK
    <2>3. [inv[i] EXCEPT !.pc = "record", !.job = j].pc \notin Owing
      BY <2>2 DEF Invocation, Owing
    <2>. QED
      BY <2>1, <2>3, ReplaceFrees
  <1>10. CASE RecordJob(i)
    BY <1>10, EndsFree DEF RecordJob
  <1>11. CASE Throttled(i)
    BY <1>11 DEF Throttled, InvsOK, Frees, Moves, Owing, Invocation
  <1>. QED
    BY <1>1, <1>2, <1>3, <1>4, <1>5, <1>6, <1>7, <1>8, <1>9, <1>10, <1>11

\* What the processor does between its terminal writes lands none.
LEMMA ProcessorLandsNothing ==
    ASSUME IInv, NEW i \in Invs,
           \/ \E d \in Docs : Receive(i, d)
           \/ Gate(i) \/ PreCredit(i) \/ Upsert(i) \/ FinalizeGate(i) \/ Reread(i)
           \/ Dispatch(i) \/ Claim(i) \/ Extract(i) \/ BdaPath(i)
           \/ \E j \in Jobs : Invoke(i, j)
           \/ RecordJob(i) \/ Throttled(i)
    PROVE  NothingLands /\ UNCHANGED reaper
  <1>1. CASE PreCredit(i)
    BY <1>1 DEF PreCredit, Counted, IInv, TypeOK, History, NothingLands
  <1>2. CASE Upsert(i)
    BY <1>2 DEF Upsert, IInv, TypeOK, History, NothingLands
  <1>3. CASE Claim(i)
    BY <1>3 DEF Claim, IInv, TypeOK, History, NothingLands
  <1>4. CASE \/ \E d \in Docs : Receive(i, d)
             \/ Gate(i) \/ FinalizeGate(i) \/ Reread(i)
             \/ Dispatch(i) \/ Extract(i) \/ BdaPath(i)
             \/ \E j \in Jobs : Invoke(i, j)
             \/ RecordJob(i) \/ Throttled(i)
    BY <1>4 DEF Receive, Gate, FinalizeGate, Reread, Dispatch, Extract, BdaPath, Invoke,
                RecordJob, Throttled, NothingLands
  <1>. QED
    BY <1>1, <1>2, <1>3, <1>4

\* The processor between its terminal writes.
LEMMA ProcessorCredits ==
    ASSUME IInv, CreditsOK, NEW i \in Invs,
           \/ \E d \in Docs : Receive(i, d)
           \/ Gate(i) \/ PreCredit(i) \/ Upsert(i) \/ FinalizeGate(i) \/ Reread(i)
           \/ Dispatch(i) \/ Claim(i) \/ Extract(i) \/ BdaPath(i)
           \/ \E j \in Jobs : Invoke(i, j)
           \/ RecordJob(i) \/ Throttled(i)
    PROVE  CreditsOK'
  BY ProcessorFrees, ProcessorLandsNothing, FreesKeeps DEF IInv

-----------------------------------------------------------------------------
(* _write_terminal_status and its callers *)

\* One more increment is owed after a write that landed.
LEMMA LandedOwes ==
    ASSUME IInv, CreditsOK, NEW i \in Invs, WriteTerminal(i),
           MayBecomeTerminal(rec[inv[i].doc].status)
    PROVE  CreditsOK'
  <1>0. inv[i].doc \in Docs /\ inv[i].pc = "classify"
    BY DEF IInv, InvsOK, WellFormed, WriteTerminal, At
  <1>. PICK d \in Docs : d = inv[i].doc
    BY <1>0
  <1>1. d \in Docs /\ d = inv[i].doc /\ inv[i].pc = "classify" /\ i \notin Owed(d)
    BY <1>0 DEF Owed, Owing
  <1>2. Moves(i) /\ inv'[i].pc = "v1" /\ inv'[i].doc = d
    BY GotoMoves DEF WriteTerminal, IInv, PCs
  <1>3. /\ hist'[d].landed = hist[d].landed + 1
        /\ hist'[d].credited = hist[d].credited
        /\ \A e \in Docs \ {d} : hist'[e] = hist[e]
    BY <1>1 DEF IInv, TypeOK, History, WriteTerminal
  <1>4. Owed(d)' = Owed(d) \cup {i}
    BY <1>1, <1>2 DEF Owed, Owing, Moves
  <1>5. \A e \in Docs \ {d} : Owed(e)' = Owed(e)
    BY <1>1, <1>2 DEF Owed, Owing, Moves
  <1>6. \A e \in Docs : ReaperOwes(e)' = ReaperOwes(e)
    BY DEF WriteTerminal, ReaperOwes
  <1>7. /\ IsFiniteSet(Owed(d)')
        /\ Cardinality(Owed(d)') = Cardinality(Owed(d)) + 1
        /\ Cardinality(Owed(d)) \in Nat
    BY <1>1, <1>4, FS_AddElement, FS_CardinalityType DEF CreditsOK
  <1>8. /\ ReaperOwes(d) \in Nat
        /\ hist[d].credited \in Nat
        /\ hist[d].landed \in Nat
    BY <1>1 DEF IInv, TypeOK, History, ReaperOwes
  <1>. hist[d].credited + Cardinality(Owed(d)) + ReaperOwes(d) <= hist[d].landed
    BY DEF CreditsOK
  <1>9. hist'[d].credited + Cardinality(Owed(d)') + ReaperOwes(d)' <= hist'[d].landed
    BY <1>1, <1>3, <1>6, <1>7, <1>8
  <1>. QED
    BY <1>1, <1>3, <1>5, <1>6, <1>7, <1>9 DEF CreditsOK

\* The conditional write: one that does not apply returns.
LEMMA WriteTerminalCredits ==
    ASSUME IInv, CreditsOK, NEW i \in Invs, WriteTerminal(i) PROVE CreditsOK'
  <1>1. CASE ~MayBecomeTerminal(rec[inv[i].doc].status)
    BY <1>1, ReturnFrees, FreesKeeps DEF IInv, WriteTerminal, Skip, NothingLands
  <1>. QED
    BY <1>1, LandedOwes

\* finalize_v1_response keeps the increment to be made.
LEMMA WriteV1Credits ==
    ASSUME IInv, CreditsOK, NEW i \in Invs, WriteV1(i) PROVE CreditsOK'
  <1>1. Moves(i) /\ inv'[i].pc = "credit" /\ inv'[i].doc = inv[i].doc /\ inv[i].pc = "v1"
    BY GotoMoves DEF WriteV1, IInv, PCs, At
  <1>2. \A d \in Docs : Owed(d)' = Owed(d)
    BY <1>1 DEF Owed, Owing, Moves
  <1>. QED
    BY <1>2, Forgotten DEF WriteV1, NothingLands

\* An increment of a document is one owed less and one made more.
LEMMA CountedOnce ==
    ASSUME hist \in [Docs -> History], NEW d \in Docs, hist' = Counted(d, "credited")
    PROVE  /\ hist'[d].credited \in {hist[d].credited, hist[d].credited + 1}
           /\ \A e \in Docs : hist'[e].landed = hist[e].landed
           /\ \A e \in Docs \ {d} : hist'[e] = hist[e]
  BY DEF Counted, History

\* increment_resolved_count, once for each write.
LEMMA CreditCredits ==
    ASSUME IInv, CreditsOK, NEW i \in Invs, Credit(i) PROVE CreditsOK'
  <1>0. inv[i].doc \in Docs /\ inv[i].pc = "credit"
    BY DEF IInv, InvsOK, WellFormed, Credit, At
  <1>. PICK d \in Docs : d = inv[i].doc
    BY <1>0
  <1>1. d \in Docs /\ d = inv[i].doc /\ inv[i].pc = "credit" /\ i \in Owed(d)
    BY <1>0 DEF Owed, Owing
  <1>2. Frees(i)
    <2>1. CASE Goto(i, "method")
      BY <2>1, GotoMoves DEF IInv, Frees, Owing, PCs
    <2>. QED
      BY <2>1, ReturnFrees DEF Credit, IInv
  <1>3. /\ hist'[d].credited \in {hist[d].credited, hist[d].credited + 1}
        /\ \A e \in Docs : hist'[e].landed = hist[e].landed
        /\ \A e \in Docs \ {d} : hist'[e] = hist[e]
    BY <1>1, CountedOnce DEF Credit, IInv, TypeOK
  <1>4. Owed(d)' = Owed(d) \ {i}
    BY <1>1, <1>2 DEF Owed, Frees, Moves
  <1>5. \A e \in Docs \ {d} : Owed(e)' = Owed(e)
    BY <1>1, <1>2 DEF Owed, Frees, Moves
  <1>6. \A e \in Docs : ReaperOwes(e)' = ReaperOwes(e)
    BY DEF Credit, ReaperOwes
  <1>7. /\ IsFiniteSet(Owed(d)')
        /\ Cardinality(Owed(d)') = Cardinality(Owed(d)) - 1
        /\ Cardinality(Owed(d)) \in Nat
    BY <1>1, <1>4, FS_RemoveElement, FS_CardinalityType DEF CreditsOK
  <1>8. /\ ReaperOwes(d) \in Nat
        /\ hist[d].credited \in Nat
        /\ hist[d].landed \in Nat
    BY <1>1 DEF IInv, TypeOK, History, ReaperOwes
  <1>. hist[d].credited + Cardinality(Owed(d)) + ReaperOwes(d) <= hist[d].landed
    BY DEF CreditsOK
  <1>9. hist'[d].credited + Cardinality(Owed(d)') + ReaperOwes(d)' <= hist'[d].landed
    BY <1>1, <1>3, <1>6, <1>7, <1>8
  <1>. QED
    BY <1>1, <1>3, <1>5, <1>6, <1>7, <1>9 DEF CreditsOK

\* The other steps of a running invocation only drop what it owed.
LEMMA OtherStepsCredit ==
    ASSUME IInv, CreditsOK, NEW i \in Invs,
           \/ Handler(i) \/ MethodResponse(i) \/ Raise(i) \/ Crash(i)
           \/ \E j \in Jobs : ReceiveResult(i, j)
           \/ \E d \in Docs : UploadFails(i, d) \/ WaitTimesOut(i, d)
    PROVE  CreditsOK'
  <1>1. CASE Handler(i)
    <2>1. ASSUME NEW d \in Docs,
                 inv' = [inv EXCEPT ![i].pc = "classify", ![i].doc = d, ![i].class = "failed"]
          PROVE  Frees(i)
      BY <2>1 DEF IInv, InvsOK, Frees, Moves, Owing, Invocation
    <2>2. Frees(i)
      BY <1>1, <2>1, ClassifyFrees, EndsFree DEF Handler, IInv
    <2>. QED
      BY <1>1, <2>2, FreesKeeps DEF Handler, NothingLands
  <1>2. CASE MethodResponse(i)
    BY <1>2, ReturnFrees, ThrowFrees, FreesKeeps DEF MethodResponse, IInv, NothingLands
  <1>3. CASE Raise(i)
    BY <1>3, ThrowFrees, FreesKeeps DEF Raise, IInv, NothingLands
  <1>4. CASE Crash(i)
    BY <1>4, EndsFree, FreesKeeps DEF Crash, IInv, NothingLands
  <1>5. CASE \E j \in Jobs : ReceiveResult(i, j)
    <2>1. Frees(i)
      <3>1. PICK j \in Jobs : ReceiveResult(i, j)
        BY <1>5
      <3> DEFINE start == [Idle EXCEPT !.event = j]
      <3>2. [start EXCEPT !.pc = "handler", !.ctx = "handler"].pc \notin Owing
        BY DEF Idle, Owing
      <3>3. \A d \in Docs : [start EXCEPT !.pc = "handler", !.ctx = "handler", !.doc = d].pc
                             \notin Owing
        BY DEF Idle, Owing
      <3>4. \A d \in Docs : [start EXCEPT !.pc = "classify", !.doc = d,
                                         !.class = Verdict(job[j].state)].pc \notin Owing
        BY DEF Idle, Owing
      <3>. QED
        BY <3>1, <3>2, <3>3, <3>4, ReplaceFrees DEF ReceiveResult, IInv
    <2>. QED
      BY <1>5, <2>1, FreesKeeps DEF ReceiveResult, NothingLands
  <1>6. CASE \E d \in Docs : UploadFails(i, d) \/ WaitTimesOut(i, d)
    <2>1. Frees(i)
      <3>1. PICK d \in Docs, class \in {"conversion_failed", "failed"} :
               inv' = [inv EXCEPT ![i] = [Idle EXCEPT !.pc = "classify", !.event = d,
                                   !.doc = d, !.class = class, !.ctx = "api"]]
        BY <1>6 DEF UploadFails, WaitTimesOut
      <3>2. [Idle EXCEPT !.pc = "classify", !.event = d, !.doc = d, !.class = class,
                         !.ctx = "api"].pc \notin Owing
        BY DEF Idle, Owing
      <3>. QED
        BY <3>1, <3>2, ReplaceFrees DEF IInv
    <2>. QED
      BY <1>6, <2>1, FreesKeeps DEF UploadFails, WaitTimesOut, NothingLands
  <1>. QED
    BY <1>1, <1>2, <1>3, <1>4, <1>5, <1>6

-----------------------------------------------------------------------------
(* The reaper *)

\* _mark_terminal owes an increment only for a write that applied.
LEMMA MarkCredits ==
    ASSUME IInv, CreditsOK, NEW row \in reaper.todo, reaper.owes = NoDoc,
           ConstantsAssumption, UNCHANGED inv,
           NEW s, Mark(row, s)
    PROVE  CreditsOK'
  <1>. row.doc \in Docs
    BY DEF IInv, TypeOK
  <1>. PICK d \in Docs : d = row.doc
    OBVIOUS
  <1>1. d \in Docs /\ d = row.doc
    OBVIOUS
  <1>2. CASE ~MayBecomeTerminal(rec[d].status)
    BY <1>2, OtherKeeps DEF Mark, IInv, TypeOK
  <1>3. CASE MayBecomeTerminal(rec[d].status)
    <2>1. /\ hist'[d].landed = hist[d].landed + 1
          /\ hist'[d].credited = hist[d].credited
          /\ \A e \in Docs \ {d} : hist'[e] = hist[e]
      BY <1>1, <1>3 DEF IInv, TypeOK, History, Mark
    <2>2. \A e \in Docs : Owed(e)' = Owed(e)
      BY DEF Owed
    <2>3. /\ \A e \in Docs : ReaperOwes(e) = 0
          /\ \A e \in Docs \ {d} : ReaperOwes(e)' = 0
          /\ ReaperOwes(d)' = 1
      BY <1>3 DEF Mark, ReaperOwes, ConstantsAssumption, Events
    <2>4. /\ IsFiniteSet(Owed(d)) /\ Cardinality(Owed(d)) \in Nat
          /\ hist[d].credited \in Nat /\ hist[d].landed \in Nat
      BY <1>1, FS_CardinalityType DEF CreditsOK, IInv, TypeOK, History
    <2>5. hist'[d].credited + Cardinality(Owed(d)') + ReaperOwes(d)' <= hist'[d].landed
      BY <1>1, <2>1, <2>2, <2>3, <2>4 DEF CreditsOK
    <2>. QED
      BY <1>1, <2>1, <2>2, <2>3, <2>5 DEF CreditsOK
  <1>. QED
    BY <1>2, <1>3

\* _process_stale_record.
LEMMA ReapCredits ==
    ASSUME IInv, CreditsOK, ConstantsAssumption, NEW row \in reaper.todo, Reap(row)
    PROVE  CreditsOK'
  <1>1. CASE reaper' = [reaper EXCEPT !.todo = @ \ {row}] /\ UNCHANGED hist
    BY <1>1, OtherKeeps DEF Reap, IInv, TypeOK
  <1>. QED
    BY <1>1, MarkCredits DEF Reap

\* _mark_and_increment makes the increment it owes.
LEMMA ReaperCreditCredits ==
    ASSUME IInv, CreditsOK, ConstantsAssumption, ReaperCredit PROVE CreditsOK'
  <1>0. reaper.owes \in Docs
    BY DEF IInv, TypeOK, ReaperCredit
  <1>. PICK d \in Docs : d = reaper.owes
    BY <1>0
  <1>1. d \in Docs /\ d = reaper.owes
    OBVIOUS
  <1>2. /\ hist'[d].credited \in {hist[d].credited, hist[d].credited + 1}
        /\ \A e \in Docs : hist'[e].landed = hist[e].landed
        /\ \A e \in Docs \ {d} : hist'[e] = hist[e]
    BY <1>1, CountedOnce DEF ReaperCredit, IInv, TypeOK
  <1>3. \A e \in Docs : Owed(e)' = Owed(e)
    BY DEF Owed, ReaperCredit
  <1>4. /\ ReaperOwes(d) = 1
        /\ \A e \in Docs \ {d} : ReaperOwes(e) = 0
        /\ \A e \in Docs : ReaperOwes(e)' = 0
    BY DEF ReaperCredit, ReaperOwes, ConstantsAssumption, Events, IInv, TypeOK
  <1>5. /\ IsFiniteSet(Owed(d)) /\ Cardinality(Owed(d)) \in Nat
        /\ hist[d].credited \in Nat /\ hist[d].landed \in Nat
    BY <1>1, FS_CardinalityType DEF CreditsOK, IInv, TypeOK, History
  <1>. hist[d].credited + Cardinality(Owed(d)) + ReaperOwes(d) <= hist[d].landed
    BY DEF CreditsOK
  <1>6. hist'[d].credited + Cardinality(Owed(d)') + ReaperOwes(d)' <= hist'[d].landed
    BY <1>1, <1>2, <1>3, <1>4, <1>5
  <1>. QED
    BY <1>1, <1>2, <1>3, <1>4, <1>6 DEF CreditsOK

-----------------------------------------------------------------------------
(* The theorem *)

\* Every action keeps the account.
LEMMA NextCredits ==
    ASSUME IInv, CreditsOK, ConstantsAssumption, [Next]_vars PROVE CreditsOK'
  <1>1. CASE UNCHANGED vars
    BY <1>1, OtherKeeps DEF vars
  <1>2. ASSUME NEW i \in Invs, Lambda(i) PROVE CreditsOK'
    BY <1>2, ProcessorCredits, WriteTerminalCredits, WriteV1Credits, CreditCredits,
       OtherStepsCredit DEF Lambda, Advance
  <1>3. CASE Sweep \/ ReaperCrash
    BY <1>3, OtherKeeps DEF Sweep, ReaperCrash, IInv, TypeOK, ConstantsAssumption, Events
  <1>4. CASE \/ \E e \in Events : Emit(e)
             \/ \E j \in Jobs : EndJob(j)
             \/ \E d \in Docs : Age(d) \/ BeginDelete(d) \/ EndDelete(d)
    BY <1>4, OtherKeeps DEF Emit, EndJob, Age, BeginDelete, EndDelete
  <1>5. CASE \E row \in reaper.todo : Reap(row)
    BY <1>5, ReapCredits
  <1>6. CASE ReaperCredit
    BY <1>6, ReaperCreditCredits
  <1>. QED
    BY <1>1, <1>2, <1>3, <1>4, <1>5, <1>6 DEF Next, Reaper

\* Nothing is owed at first.
LEMMA InitCredits == ASSUME ConstantsAssumption, Init PROVE CreditsOK
  <1> SUFFICES ASSUME NEW d \in Docs
               PROVE  /\ IsFiniteSet(Owed(d))
                      /\ hist[d].credited + Cardinality(Owed(d)) + ReaperOwes(d)
                            <= hist[d].landed
    BY DEF CreditsOK
  <1>1. Owed(d) = {}
    BY DEF Init, Owed, Owing, Idle
  <1>2. ReaperOwes(d) = 0
    BY DEF Init, ReaperOwes, ConstantsAssumption, Events
  <1>3. hist[d].credited = 0 /\ hist[d].landed = 0
    BY DEF Init
  <1>. QED
    BY <1>1, <1>2, <1>3, FS_EmptySet

\* _write_terminal_status and _mark_and_increment: however often a document is
\* classified, retried, reaped or reopened, its batch never hears of it more
\* often than a terminal write of it landed.
THEOREM CreditsAreEarned == Spec => []CreditsFollowWrites
  <1>1. IInv /\ CreditsOK => CreditsFollowWrites
    <2> SUFFICES ASSUME IInv, CreditsOK, NEW d \in Docs
                 PROVE  hist[d].credited <= hist[d].landed
      BY DEF CreditsFollowWrites
    <2>1. /\ Cardinality(Owed(d)) \in Nat /\ ReaperOwes(d) \in Nat
          /\ hist[d].credited \in Nat /\ hist[d].landed \in Nat
      BY FS_CardinalityType DEF CreditsOK, IInv, TypeOK, History, ReaperOwes
    <2>. QED
      BY <2>1 DEF CreditsOK
  <1>2. Init => CreditsOK
    BY InitCredits, ConstantsAssumption
  <1>3. IInv /\ CreditsOK /\ [Next]_vars => CreditsOK'
    BY NextCredits, ConstantsAssumption
  <1>. QED
    BY <1>1, <1>2, <1>3, Invariance, PTL DEF Spec

-----------------------------------------------------------------------------
(* Refused documents *)

Refused(d) == Is(d, "locked") \/ Is(d, "foreign") \/ Is(d, "orphan")

\* An invocation of a refused document is nowhere near the engines.
Harmless(v) ==
    v.doc \in Docs /\ Refused(v.doc) =>
        /\ v.pc \notin {"claim", "extract", "bda", "invoke", "record"}
        /\ v.ctx # "textract"
        /\ Is(v.doc, "locked") =>
              /\ v.pc \in {"precredit", "upsert"} =>
                    v.class = "password_protected" /\ ~v.categorized
              /\ v.pc \in {"finalize", "reread"} => rec[v.doc].status \notin Open
              /\ v.pc = "dispatch" => v.seen \notin Open

RefusedOK ==
    /\ \A d \in Docs : Refused(d) =>
          /\ rec[d].status # "started"
          /\ rec[d].job = NoJob
          /\ \A j \in Jobs : job[j].doc # d
          /\ ~hist[d].textract
          /\ Is(d, "locked") =>
                rec[d].status # "pending_image_optimization" /\ ~rec[d].categorized
    /\ \A i \in Invs : Harmless(inv[i])

\* A step that leaves refused documents refused.
Kept ==
    \A d \in Docs : Refused(d) =>
        /\ \/ rec'[d].status = rec[d].status
           \/ rec'[d].status \in Classified
           \/ ~Is(d, "locked") /\ rec'[d].status \in Open
        /\ rec'[d].job = rec[d].job
        /\ Is(d, "locked") => rec'[d].categorized = rec[d].categorized
        /\ \A j \in Jobs : job'[j].doc = job[j].doc \/ job'[j].doc # d
        /\ hist'[d].textract = hist[d].textract

\* The tables and the invocations one by one.
LEMMA KeptKeeps ==
    ASSUME IInv, RefusedOK, Kept, \A k \in Invs : inv'[k] = inv[k] \/ Harmless(inv[k])'
    PROVE  RefusedOK'
  <1>1. ASSUME NEW d \in Docs, Refused(d)
        PROVE  /\ rec'[d].status # "started"
               /\ rec'[d].job = NoJob
               /\ \A j \in Jobs : job'[j].doc # d
               /\ ~hist'[d].textract
               /\ Is(d, "locked") =>
                     rec'[d].status # "pending_image_optimization" /\ ~rec'[d].categorized
    BY <1>1, Closed DEF RefusedOK, Kept, Open, PendingExtraction, AwaitingProcessing, Classified
  <1>2. ASSUME NEW k \in Invs, inv'[k] = inv[k] PROVE Harmless(inv[k])'
    <2>1. Harmless(inv[k])
      BY DEF RefusedOK
    <2>. QED
      BY <1>2, <2>1, Closed DEF Harmless, Kept
  <1>. QED
    BY <1>1, <1>2 DEF RefusedOK, Refused, Is

\* A step of one invocation.
LEMMA OneKeeps ==
    ASSUME IInv, RefusedOK, Kept, NEW i \in Invs, Moves(i), Harmless(inv[i])'
    PROVE  RefusedOK'
  BY KeptKeeps DEF Moves

\* A step that writes nothing.
LEMMA NothingWritten ==
    ASSUME UNCHANGED <<rec, job, hist>> PROVE Kept
  BY DEF Kept

\* The points where nothing more is asked of an invocation.
Safe == {"gate", "handler", "classify", "v1", "credit", "method"}

\* An invocation that stays with its document, at a safe point.
LEMMA SafeHarmless ==
    ASSUME RefusedOK, NEW i \in Invs, inv'[i].doc = inv[i].doc, inv'[i].pc \in Safe,
           inv'[i].ctx # "textract" \/ inv'[i].ctx = inv[i].ctx
    PROVE  Harmless(inv[i])'
  <1>1. Harmless(inv[i])
    BY DEF RefusedOK
  <1>. QED
    BY <1>1 DEF Harmless, Safe, Refused, Is

\* An invocation that ended has no document.
LEMMA EndsHarmless ==
    ASSUME ConstantsAssumption, InvsOK, NEW i \in Invs, Finish(i) \/ Fail(i)
    PROVE  Moves(i) /\ Harmless(inv[i])'
  BY DEF Finish, Fail, InvsOK, Moves, Harmless, Idle, ConstantsAssumption, Events

\* A classification begins.
LEMMA ClassifyHarmless ==
    ASSUME RefusedOK, InvsOK, NEW i \in Invs, NEW class, Classify(i, class)
    PROVE  Moves(i) /\ Harmless(inv[i])'
  <1>1. Moves(i) /\ inv'[i].doc = inv[i].doc /\ inv'[i].pc = "classify" /\ inv'[i].ctx = inv[i].ctx
    BY DEF Classify, InvsOK, Invocation, Moves
  <1>. QED
    BY <1>1, SafeHarmless DEF Safe

\* Control reaches the handler.
LEMMA EnterHandlerHarmless ==
    ASSUME RefusedOK, InvsOK, NEW i \in Invs, EnterHandler(i)
    PROVE  Moves(i) /\ Harmless(inv[i])'
  <1>1. Moves(i) /\ inv'[i].doc = inv[i].doc /\ inv'[i].pc = "handler" /\ inv'[i].ctx = "handler"
    BY DEF EnterHandler, InvsOK, Invocation, Moves
  <1>. QED
    BY <1>1, SafeHarmless DEF Safe

\* A terminal write returns.
LEMMA ReturnHarmless ==
    ASSUME ConstantsAssumption, RefusedOK, InvsOK, NEW i \in Invs, Return(i)
    PROVE  Moves(i) /\ Harmless(inv[i])'
  BY EndsHarmless, EnterHandlerHarmless DEF Return

\* Only an exception of Textract leads on to BDA.
LEMMA ThrowHarmless ==
    ASSUME ConstantsAssumption, RefusedOK, InvsOK, NEW i \in Invs, Throw(i)
    PROVE  Moves(i) /\ Harmless(inv[i])'
  <1>1. CASE /\ inv[i].ctx = "textract"
             /\ inv' = [inv EXCEPT ![i].pc = "bda", ![i].ctx = "main"]
    <2>1. Moves(i) /\ inv'[i].doc = inv[i].doc
      BY <1>1 DEF InvsOK, Invocation, Moves
    <2>2. ~(inv[i].doc \in Docs /\ Refused(inv[i].doc))
      BY <1>1 DEF RefusedOK, Harmless
    <2>. QED
      BY <2>1, <2>2 DEF Harmless, Refused, Is
  <1>. QED
    BY <1>1, EndsHarmless, EnterHandlerHarmless DEF Throw

\* A new invocation of a document, at a safe point.
LEMMA StartHarmless ==
    ASSUME InvsOK, NEW i \in Invs, NEW w, inv' = [inv EXCEPT ![i] = w],
           w.pc \in Safe, w.ctx # "textract"
    PROVE  Moves(i) /\ Harmless(inv[i])'
  BY DEF InvsOK, Moves, Harmless, Safe

-----------------------------------------------------------------------------
(* The document processor and refused documents *)

\* main sends an unclaimed locked document to the gate, as often as it comes.
LEMMA ReceiveRefused ==
    ASSUME IInv, RefusedOK, NEW i \in Invs, NEW d \in Docs, Receive(i, d) PROVE RefusedOK'
  <1> DEFINE pc == IF NeedsPreclassification(rec[d]) THEN "gate" ELSE "dispatch"
             w == [Idle EXCEPT !.pc = pc, !.event = d, !.doc = d, !.seen = rec[d].status]
  <1>1. inv' = [inv EXCEPT ![i] = w]
    BY DEF Receive
  <1>2. w.pc = pc /\ w.doc = d /\ w.seen = rec[d].status /\ w.ctx = "main"
    BY DEF Idle
  <1>3. Is(d, "locked") /\ pc = "dispatch" => rec[d].status \notin Open
    BY DEF RefusedOK, Refused, NeedsPreclassification, Open, PendingExtraction,
           AwaitingProcessing
  <1>4. pc \in {"gate", "dispatch"}
    OBVIOUS
  <1> HIDE DEF w, pc
  <1>5. Moves(i) /\ inv'[i] = w
    BY <1>1 DEF IInv, InvsOK, Moves
  <1>6. Harmless(inv[i])'
    BY <1>2, <1>3, <1>4, <1>5 DEF Harmless, Refused, Is
  <1>. QED
    BY <1>5, <1>6, OneKeeps, NothingWritten DEF Receive

\* The gate finds a locked document locked.
LEMMA GateRefused ==
    ASSUME IInv, RefusedOK, NEW i \in Invs, Gate(i) PROVE RefusedOK'
  <1>1. inv[i] \in Invocation /\ Harmless(inv[i]) /\ inv \in [Invs -> Invocation]
    BY DEF IInv, InvsOK, RefusedOK
  <1>2. CASE /\ ~Is(inv[i].doc, "locked")
             /\ \E c \in BOOLEAN, id \in BOOLEAN :
                  inv' = [inv EXCEPT ![i].pc = "upsert", ![i].class = Passed(inv[i].doc),
                                     ![i].categorized = c, ![i].identity = id]
    <2>1. Moves(i) /\ inv'[i].pc = "upsert" /\ inv'[i].doc = inv[i].doc
          /\ inv'[i].ctx = inv[i].ctx
      BY <1>1, <1>2 DEF Invocation, Moves
    <2>2. Harmless(inv[i])'
      BY <1>1, <1>2, <2>1 DEF Harmless, Refused, Is
    <2>. QED
      BY <2>1, <2>2, OneKeeps, NothingWritten DEF Gate
  <1>3. ASSUME NEW v,
               Is(inv[i].doc, "locked") => v = "password_protected",
               inv' = [inv EXCEPT ![i].class = v, ![i].categorized = v \in Preclassified,
                         ![i].pc = IF v \in CreditedEarly THEN "precredit" ELSE "upsert"]
        PROVE  RefusedOK'
    <2> DEFINE pc == IF v \in CreditedEarly THEN "precredit" ELSE "upsert"
               c == v \in Preclassified
    <2>1. pc \in {"upsert", "precredit"} /\ (v = "password_protected" => ~c)
      BY DEF Preclassified
    <2>2. inv' = [inv EXCEPT ![i].class = v, ![i].categorized = c, ![i].pc = pc]
      BY <1>3
    <2> HIDE DEF pc, c
    <2>3. Moves(i) /\ inv'[i].pc = pc /\ inv'[i].doc = inv[i].doc /\ inv'[i].class = v
          /\ inv'[i].categorized = c /\ inv'[i].ctx = inv[i].ctx
      BY <1>1, <2>2 DEF Invocation, Moves
    <2>4. Harmless(inv[i])'
      BY <1>1, <1>3, <2>1, <2>3 DEF Harmless, Refused, Is
    <2>. QED
      BY <2>3, <2>4, OneKeeps, NothingWritten DEF Gate
  <1>4. CASE \E v \in IF Is(inv[i].doc, "locked") THEN {"password_protected"} ELSE GateVerdicts :
               inv' = [inv EXCEPT ![i].class = v, ![i].categorized = v \in Preclassified,
                         ![i].pc = IF v \in CreditedEarly THEN "precredit" ELSE "upsert"]
    BY <1>3, <1>4
  <1>. QED
    BY <1>2, <1>4 DEF Gate

\* The increment before the upsert.
LEMMA PreCreditRefused ==
    ASSUME IInv, RefusedOK, NEW i \in Invs, PreCredit(i) PROVE RefusedOK'
  <1>1. Harmless(inv[i]) /\ inv[i].pc = "precredit" /\ inv[i].doc \in Docs
    BY DEF RefusedOK, PreCredit, At, IInv, InvsOK, WellFormed
  <1>2. Moves(i) /\ inv'[i] = [inv[i] EXCEPT !.pc = "upsert"]
    BY DEF PreCredit, Goto, Moves, IInv, InvsOK
  <1>3. inv'[i].pc = "upsert" /\ inv'[i].doc = inv[i].doc /\ inv'[i].class = inv[i].class
        /\ inv'[i].categorized = inv[i].categorized /\ inv'[i].ctx = inv[i].ctx
    BY <1>2 DEF IInv, InvsOK, Invocation
  <1>4. Harmless(inv[i])'
    BY <1>1, <1>3 DEF Harmless, Refused, Is
  <1>5. Kept
    BY <1>1 DEF Kept, PreCredit, Counted, IInv, TypeOK, History
  <1>. QED
    BY <1>2, <1>4, <1>5, OneKeeps

\* upsert_ddb writes password_protected for a locked document and nothing else.
LEMMA UpsertRefused ==
    ASSUME IInv, RefusedOK, NEW i \in Invs, Upsert(i) PROVE RefusedOK'
  <1>1. /\ Harmless(inv[i]) /\ inv[i].pc = "upsert" /\ inv[i].doc \in Docs
        /\ inv[i].class \in PendingExtraction \cup Classified
        /\ inv[i].categorized \in BOOLEAN
    BY DEF RefusedOK, Upsert, At, IInv, InvsOK, WellFormed, Invocation
  <1>. PICK d \in Docs : d = inv[i].doc
    BY <1>1
  <1>2. /\ rec'[d].status = inv[i].class
        /\ rec'[d].job = rec[d].job
        /\ rec'[d].categorized = (rec[d].categorized \/ inv[i].categorized)
        /\ \A e \in Docs \ {d} : rec'[e] = rec[e]
    BY DEF Upsert, IInv, TypeOK, Record
  <1>3. \A e \in Docs : hist'[e].textract = hist[e].textract
    BY DEF Upsert, IInv, TypeOK, History
  <1>4. Is(d, "locked") => inv[i].class = "password_protected" /\ ~inv[i].categorized
    BY <1>1 DEF Harmless, Refused
  <1>5. Is(d, "locked") => rec'[d].status \notin Open /\ rec'[d].status \in Classified
    BY <1>2, <1>4, Closed DEF Classified
  <1>6. Is(d, "locked") => rec'[d].categorized = rec[d].categorized
    BY <1>2, <1>4 DEF IInv, TypeOK, Record
  <1>7. PendingExtraction \subseteq Open
    BY DEF Open
  <1>8. Kept
    BY <1>1, <1>2, <1>3, <1>5, <1>6, <1>7 DEF Kept, Upsert
  <1>9. Moves(i) /\ inv'[i].pc \in {"reread", "finalize"} /\ inv'[i].doc = d
        /\ inv'[i].ctx = inv[i].ctx
    BY DEF Upsert, Goto, Moves, IInv, InvsOK, Invocation
  <1>10. Harmless(inv[i])'
    BY <1>1, <1>5, <1>9 DEF Harmless, Refused, Is
  <1>. QED
    BY <1>8, <1>9, <1>10, OneKeeps

\* finalize_v1_response and the second read.
LEMMA FinalizeRefused ==
    ASSUME IInv, RefusedOK, NEW i \in Invs, FinalizeGate(i) \/ Reread(i) PROVE RefusedOK'
  <1>1. Harmless(inv[i]) /\ inv[i].pc \in {"finalize", "reread"} /\ inv[i].doc \in Docs
    BY DEF RefusedOK, FinalizeGate, Reread, At, IInv, InvsOK, WellFormed
  <1>2. \A d \in Docs : /\ rec'[d].status = rec[d].status
                        /\ rec'[d].job = rec[d].job
                        /\ rec'[d].categorized = rec[d].categorized
    BY <1>1 DEF FinalizeGate, Reread, IInv, TypeOK, Record
  <1>3. Kept
    BY <1>2 DEF Kept, FinalizeGate, Reread
  <1>4. CASE FinalizeGate(i)
    <2>1. Moves(i) /\ inv'[i].pc = "reread" /\ inv'[i].doc = inv[i].doc
          /\ inv'[i].ctx = inv[i].ctx
      BY <1>4 DEF FinalizeGate, Goto, Moves, IInv, InvsOK, Invocation
    <2>2. Harmless(inv[i])'
      BY <1>1, <1>2, <2>1 DEF Harmless, Refused, Is
    <2>. QED
      BY <1>3, <2>1, <2>2, OneKeeps
  <1>5. CASE Reread(i)
    <2>1. Moves(i) /\ inv'[i].pc = "dispatch" /\ inv'[i].doc = inv[i].doc
          /\ inv'[i].ctx = inv[i].ctx /\ inv'[i].seen = rec[inv[i].doc].status
      BY <1>5 DEF Reread, Moves, IInv, InvsOK, Invocation
    <2>2. Harmless(inv[i])'
      BY <1>1, <2>1 DEF Harmless, Refused, Is
    <2>. QED
      BY <1>3, <2>1, <2>2, OneKeeps
  <1>. QED
    BY <1>4, <1>5

\* The dispatch refuses what is not native or has no tenant, and never sees a
\* locked document it could claim.
LEMMA DispatchRefused ==
    ASSUME IInv, RefusedOK, ConstantsAssumption, NEW i \in Invs, Dispatch(i) PROVE RefusedOK'
  <1>1. Harmless(inv[i]) /\ inv[i].pc = "dispatch"
    BY DEF RefusedOK, Dispatch, At
  <1>2. CASE /\ inv[i].seen \in Open /\ ~Invalid(inv[i].doc)
             /\ Goto(i, "claim")
    <2>1. Moves(i) /\ inv'[i].doc = inv[i].doc
      BY <1>2, GotoMoves DEF IInv, PCs
    <2>2. ~(inv[i].doc \in Docs /\ Refused(inv[i].doc))
      BY <1>1, <1>2 DEF Harmless, Refused, Invalid
    <2>. QED
      BY <2>1, <2>2, OneKeeps, NothingWritten DEF Dispatch, Harmless, Refused, Is
  <1>. QED
    BY <1>2, EndsHarmless, ClassifyHarmless, OneKeeps, NothingWritten DEF Dispatch, IInv, Open

\* The steps that only a claimed document takes.
LEMMA ClaimedRefused ==
    ASSUME IInv, RefusedOK, ConstantsAssumption, NEW i \in Invs,
           \/ Claim(i) \/ Extract(i) \/ BdaPath(i) \/ RecordJob(i) \/ Throttled(i)
           \/ \E j \in Jobs : Invoke(i, j)
    PROVE  RefusedOK'
  <1>1. inv[i].pc \in {"claim", "extract", "bda", "invoke", "record"} /\ inv[i].doc \in Docs
    BY DEF Claim, Extract, BdaPath, RecordJob, Throttled, Invoke, At, IInv, InvsOK, WellFormed
  <1>2. ~Refused(inv[i].doc)
    BY <1>1 DEF RefusedOK, Harmless
  <1>3. Moves(i)
    BY ProcessorFrees DEF IInv, Frees
  <1>t. rec \in [Docs -> Record] /\ hist \in [Docs -> History] /\ inv \in [Invs -> Invocation]
        /\ DOMAIN job = Jobs
    BY DEF IInv, TypeOK, InvsOK
  <1>4. \A d \in Docs \ {inv[i].doc} : rec'[d] = rec[d] /\ hist'[d] = hist[d]
    <2>1. CASE Claim(i)
      BY <1>t, <2>1 DEF Claim
    <2>2. CASE RecordJob(i)
      BY <1>t, <2>2 DEF RecordJob
    <2>3. CASE Extract(i) \/ BdaPath(i) \/ Throttled(i) \/ \E j \in Jobs : Invoke(i, j)
      BY <2>3 DEF Extract, BdaPath, Throttled, Invoke
    <2> QED
      BY <2>1, <2>2, <2>3
  <1>5. \A j \in Jobs : job'[j].doc \in {job[j].doc, inv[i].doc}
    <2>1. CASE \E k \in Jobs : Invoke(i, k)
      <3>1. PICK k \in Jobs : Invoke(i, k)
        BY <2>1
      <3>2. job' = [job EXCEPT ![k] = [state |-> "running", doc |-> inv[i].doc]]
        BY <3>1 DEF Invoke
      <3> QED
        BY <1>t, <3>2
    <2>2. CASE Claim(i) \/ RecordJob(i) \/ Extract(i) \/ BdaPath(i) \/ Throttled(i)
      BY <2>2 DEF Claim, RecordJob, Extract, BdaPath, Throttled
    <2> QED
      BY <2>1, <2>2
  <1>6. Kept
    BY <1>2, <1>4, <1>5 DEF Kept
  <1>7. inv'[i].doc = inv[i].doc \/ inv'[i] = Idle
    <2>1. CASE Claim(i) \/ RecordJob(i)
      BY <1>t, <2>1 DEF Claim, RecordJob, Goto, Finish, Invocation
    <2>2. CASE Extract(i) \/ BdaPath(i)
      BY <1>t, <2>2 DEF Extract, BdaPath, Goto, Classify, Invocation
    <2>3. CASE Throttled(i)
      BY <1>t, <2>3 DEF Throttled, Invocation
    <2>4. CASE \E j \in Jobs : Invoke(i, j)
      <3>1. PICK j \in Jobs : Invoke(i, j)
        BY <2>4
      <3>2. inv' = [inv EXCEPT ![i].pc = "record", ![i].job = j] /\ inv[i] \in Invocation
        BY <1>t, <3>1 DEF Invoke
      <3> QED
        BY <1>t, <3>2 DEF Invocation
    <2> QED
      BY <2>1, <2>2, <2>3, <2>4
  <1>8. Idle.doc \notin Docs
    BY DEF Idle, ConstantsAssumption, Events
  <1>9. Harmless(inv[i])'
    BY <1>2, <1>7, <1>8 DEF Harmless, Refused, Is
  <1>. QED
    BY <1>3, <1>6, <1>9, OneKeeps

-----------------------------------------------------------------------------
(* The other programs and refused documents *)

\* process_bda_result leads to no refused document: none holds a job's id.
LEMMA ReceiveResultRefused ==
    ASSUME IInv, RefusedOK, ConstantsAssumption, NEW i \in Invs, NEW j \in Jobs,
           ReceiveResult(i, j)
    PROVE  RefusedOK'
  <1> DEFINE start == [Idle EXCEPT !.event = j]
  <1>1. ASSUME inv' = [inv EXCEPT ![i] = [start EXCEPT !.pc = "handler", !.ctx = "handler"]]
        PROVE  Moves(i) /\ Harmless(inv[i])'
    <2> DEFINE w == [start EXCEPT !.pc = "handler", !.ctx = "handler"]
    <2>1. w.pc \in Safe /\ w.ctx # "textract"
      BY DEF Idle, Safe
    <2>2. inv' = [inv EXCEPT ![i] = w]
      BY <1>1
    <2> HIDE DEF w
    <2>. QED
      BY <2>1, <2>2, StartHarmless DEF IInv
  <1>2. ASSUME NEW d \in Docs,
               inv' = [inv EXCEPT ![i] =
                         [start EXCEPT !.pc = "handler", !.ctx = "handler", !.doc = d]]
        PROVE  Moves(i) /\ Harmless(inv[i])'
    <2> DEFINE w == [start EXCEPT !.pc = "handler", !.ctx = "handler", !.doc = d]
    <2>1. w.pc \in Safe /\ w.ctx # "textract"
      BY DEF Idle, Safe
    <2>2. inv' = [inv EXCEPT ![i] = w]
      BY <1>2
    <2> HIDE DEF w
    <2>. QED
      BY <2>1, <2>2, StartHarmless DEF IInv
  <1>3. ASSUME NEW d \in Docs,
               inv' = [inv EXCEPT ![i] = [start EXCEPT !.pc = "classify", !.doc = d,
                                                       !.class = Verdict(job[j].state)]]
        PROVE  Moves(i) /\ Harmless(inv[i])'
    <2> DEFINE w == [start EXCEPT !.pc = "classify", !.doc = d, !.class = Verdict(job[j].state)]
    <2>1. w.pc \in Safe /\ w.ctx # "textract"
      BY DEF Idle, Safe
    <2>2. inv' = [inv EXCEPT ![i] = w]
      BY <1>3
    <2> HIDE DEF w
    <2>. QED
      BY <2>1, <2>2, StartHarmless DEF IInv
  <1>4. Moves(i) /\ Harmless(inv[i])'
    BY <1>1, <1>2, <1>3 DEF ReceiveResult
  <1>. QED
    BY <1>4, OneKeeps, NothingWritten DEF ReceiveResult

\* Neither does the handler's second look.
LEMMA HandlerRefused ==
    ASSUME IInv, RefusedOK, ConstantsAssumption, NEW i \in Invs, Handler(i) PROVE RefusedOK'
  <1>1. ASSUME NEW d \in Docs, Finds(inv[i].event, d), inv[i].event \in Jobs,
               inv' = [inv EXCEPT ![i].pc = "classify", ![i].doc = d, ![i].class = "failed"]
        PROVE  Moves(i) /\ Harmless(inv[i])'
    <2>1. Moves(i) /\ inv'[i].doc = d
      BY <1>1 DEF IInv, InvsOK, Invocation, Moves
    <2>2. ~Refused(d)
      BY <1>1 DEF RefusedOK, Finds, ConstantsAssumption, Events
    <2>. QED
      BY <2>1, <2>2 DEF Harmless, Refused, Is
  <1>2. Moves(i) /\ Harmless(inv[i])'
    BY <1>1, ClassifyHarmless, EndsHarmless DEF Handler, IInv
  <1>. QED
    BY <1>2, OneKeeps, NothingWritten DEF Handler

\* A terminal write gives a document a final status, and records a Textract
\* result only for one that reached Textract.
LEMMA WriteTerminalRefused ==
    ASSUME IInv, RefusedOK, ConstantsAssumption, NEW i \in Invs, WriteTerminal(i)
    PROVE  RefusedOK'
  <1>1. /\ Harmless(inv[i]) /\ inv[i].doc \in Docs
        /\ inv[i].class \in Classified
    BY DEF RefusedOK, WriteTerminal, At, IInv, InvsOK, WellFormed
  <1>2. CASE ~MayBecomeTerminal(rec[inv[i].doc].status)
    BY <1>2, ReturnHarmless, OneKeeps, NothingWritten DEF WriteTerminal, Skip, IInv
  <1>3. CASE MayBecomeTerminal(rec[inv[i].doc].status)
    <2>. PICK d \in Docs : d = inv[i].doc
      BY <1>1
    <2>1. Recorded(inv[i].class) \in Classified
      BY <1>1 DEF Recorded, Classified
    <2>2. /\ rec'[d].status = Recorded(inv[i].class)
          /\ rec'[d].job = rec[d].job
          /\ rec'[d].categorized = rec[d].categorized
          /\ \A e \in Docs \ {d} : rec'[e] = rec[e]
      BY <1>3 DEF WriteTerminal, IInv, TypeOK, Record
    <2>3. /\ hist'[d].textract = (hist[d].textract \/ inv[i].ctx = "textract")
          /\ \A e \in Docs \ {d} : hist'[e] = hist[e]
      BY <1>3 DEF WriteTerminal, IInv, TypeOK, History
    <2>4. Refused(d) => hist'[d].textract = hist[d].textract
      BY <1>1, <2>3 DEF Harmless, IInv, TypeOK, History
    <2>5. Kept
      BY <2>1, <2>2, <2>3, <2>4 DEF Kept, WriteTerminal
    <2>6. Moves(i) /\ inv'[i].doc = inv[i].doc /\ inv'[i].pc = "v1"
          /\ inv'[i].ctx = inv[i].ctx
      BY <1>3 DEF WriteTerminal, Goto, IInv, InvsOK, Invocation, Moves
    <2>. QED
      BY <2>5, <2>6, SafeHarmless, OneKeeps DEF Safe
  <1>. QED
    BY <1>2, <1>3

\* The response and the increment.
LEMMA AfterWriteRefused ==
    ASSUME IInv, RefusedOK, ConstantsAssumption, NEW i \in Invs,
           WriteV1(i) \/ Credit(i) \/ MethodResponse(i)
    PROVE  RefusedOK'
  <1>1. inv[i].doc \in Docs
    BY DEF WriteV1, Credit, MethodResponse, At, IInv, InvsOK, WellFormed
  <1>2. \A d \in Docs : /\ rec'[d].status = rec[d].status
                        /\ rec'[d].job = rec[d].job
                        /\ rec'[d].categorized = rec[d].categorized
                        /\ hist'[d].textract = hist[d].textract
    <2>1. CASE WriteV1(i)
      BY <1>1, <2>1 DEF WriteV1, IInv, TypeOK, Record
    <2>2. CASE Credit(i)
      BY <1>1, <2>2 DEF Credit, Counted, IInv, TypeOK, History
    <2>. QED
      BY <2>1, <2>2 DEF MethodResponse
  <1>3. Kept
    BY <1>2 DEF Kept, WriteV1, Credit, MethodResponse
  <1>4. ASSUME NEW pc \in {"credit", "method"}, Goto(i, pc)
        PROVE  Moves(i) /\ Harmless(inv[i])'
    <2>1. Moves(i) /\ inv'[i].doc = inv[i].doc /\ inv'[i].pc = pc /\ inv'[i].ctx = inv[i].ctx
      BY <1>4 DEF Goto, IInv, InvsOK, Invocation, Moves
    <2>. QED
      BY <2>1, SafeHarmless DEF Safe
  <1>5. Moves(i) /\ Harmless(inv[i])'
    BY <1>4, ReturnHarmless, ThrowHarmless DEF WriteV1, Credit, MethodResponse, IInv
  <1>. QED
    BY <1>3, <1>5, OneKeeps

\* Failures and API requests.
LEMMA InterruptedRefused ==
    ASSUME IInv, RefusedOK, ConstantsAssumption, NEW i \in Invs,
           \/ Raise(i) \/ Crash(i)
           \/ \E d \in Docs : UploadFails(i, d) \/ WaitTimesOut(i, d)
    PROVE  RefusedOK'
  <1>1. CASE \E d \in Docs : UploadFails(i, d) \/ WaitTimesOut(i, d)
    <2>1. ASSUME NEW d \in Docs, NEW class,
                 inv' = [inv EXCEPT ![i] = [Idle EXCEPT !.pc = "classify", !.event = d,
                                              !.doc = d, !.class = class, !.ctx = "api"]]
          PROVE  Moves(i) /\ Harmless(inv[i])'
      <3> DEFINE w == [Idle EXCEPT !.pc = "classify", !.event = d, !.doc = d,
                                   !.class = class, !.ctx = "api"]
      <3>1. w.pc \in Safe /\ w.ctx # "textract"
        BY DEF Idle, Safe
      <3>2. inv' = [inv EXCEPT ![i] = w]
        BY <2>1
      <3> HIDE DEF w
      <3>. QED
        BY <3>1, <3>2, StartHarmless DEF IInv
    <2>3. Moves(i) /\ Harmless(inv[i])'
      BY <1>1, <2>1 DEF UploadFails, WaitTimesOut
    <2>. QED
      BY <1>1, <2>3, OneKeeps, NothingWritten DEF UploadFails, WaitTimesOut
  <1>2. CASE Raise(i)
    BY <1>2, ThrowHarmless, OneKeeps, NothingWritten DEF Raise, IInv
  <1>3. CASE Crash(i)
    BY <1>3, EndsHarmless, OneKeeps, NothingWritten DEF Crash, IInv
  <1>. QED
    BY <1>1, <1>2, <1>3

\* The reaper and DELETE write final statuses.
LEMMA OthersRefused ==
    ASSUME IInv, RefusedOK,
           \/ \E row \in reaper.todo : Reap(row)
           \/ ReaperCredit
           \/ \E d \in Docs : EndDelete(d)
    PROVE  RefusedOK'
  <1>1. UNCHANGED <<inv, job>>
    BY DEF Reap, ReaperCredit, EndDelete
  <1>2. ASSUME NEW d \in Docs, NEW s \in Classified, rec' = [rec EXCEPT ![d].status = s],
               \A e \in Docs : hist'[e].textract = hist[e].textract
        PROVE  Kept
    <2>1. /\ rec'[d].status = s
          /\ rec'[d].job = rec[d].job
          /\ rec'[d].categorized = rec[d].categorized
          /\ \A e \in Docs \ {d} : rec'[e] = rec[e]
      BY <1>2 DEF IInv, TypeOK, Record
    <2>. QED
      BY <1>1, <1>2, <2>1 DEF Kept
  <1>3. ASSUME NEW row \in reaper.todo, NEW s \in {"timed_out", "failed"}, Mark(row, s)
        PROVE  Kept
    <2>1. row.doc \in Docs /\ s \in Classified
      BY DEF IInv, TypeOK, Classified
    <2>2. CASE ~MayBecomeTerminal(rec[row.doc].status)
      BY <1>1, <1>3, <2>2, NothingWritten DEF Mark
    <2>3. CASE MayBecomeTerminal(rec[row.doc].status)
      <3>1. \A e \in Docs : hist'[e].textract = hist[e].textract
        BY <1>3, <2>1, <2>3 DEF Mark, IInv, TypeOK, History
      <3>. QED
        BY <1>2, <1>3, <2>1, <2>3, <3>1 DEF Mark
    <2>. QED
      BY <2>2, <2>3
  <1>4. ASSUME \E row \in reaper.todo : Reap(row) PROVE Kept
    <2>1. PICK row \in reaper.todo : Reap(row)
      BY <1>4
    <2>2. CASE Mark(row, "timed_out") \/ Mark(row, "failed")
      BY <1>3, <2>2
    <2>3. CASE UNCHANGED <<rec, hist>>
      BY <1>1, <2>3, NothingWritten
    <2>. QED
      BY <2>1, <2>2, <2>3 DEF Reap
  <1>5. ASSUME ReaperCredit PROVE Kept
    <2>1. \A e \in Docs : hist'[e].textract = hist[e].textract
      BY <1>5 DEF ReaperCredit, Counted, IInv, TypeOK, History
    <2>. QED
      BY <1>1, <1>5, <2>1 DEF ReaperCredit, Kept
  <1>6. ASSUME \E d \in Docs : EndDelete(d) PROVE Kept
    <2>1. "deleted" \in Classified
      BY DEF Classified
    <2>. QED
      BY <1>1, <1>2, <1>6, <2>1 DEF EndDelete, Kept
  <1>. QED
    BY <1>1, <1>4, <1>5, <1>6, KeptKeeps

\* What neither writes a record nor moves an invocation.
LEMMA QuietRefused ==
    ASSUME IInv, RefusedOK,
           \/ UNCHANGED vars
           \/ \E e \in Events : Emit(e)
           \/ \E j \in Jobs : EndJob(j)
           \/ Sweep \/ ReaperCrash
           \/ \E d \in Docs : Age(d) \/ BeginDelete(d)
    PROVE  RefusedOK'
  <1>1. UNCHANGED <<rec, inv, hist>>
    BY DEF vars, Emit, EndJob, Sweep, ReaperCrash, Age, BeginDelete
  <1>2. \A j \in Jobs : job'[j].doc = job[j].doc
    BY DEF vars, Emit, EndJob, Sweep, ReaperCrash, Age, BeginDelete, IInv, TypeOK
  <1>3. Kept
    BY <1>1, <1>2 DEF Kept
  <1>. QED
    BY <1>1, <1>3, KeptKeeps

\* Every action keeps refused documents away from the engines.
LEMMA NextRefused ==
    ASSUME IInv, RefusedOK, ConstantsAssumption, [Next]_vars PROVE RefusedOK'
  <1>1. ASSUME NEW i \in Invs, Lambda(i) PROVE RefusedOK'
    BY <1>1, ReceiveRefused, GateRefused, PreCreditRefused, UpsertRefused, FinalizeRefused,
       DispatchRefused, ClaimedRefused, ReceiveResultRefused, HandlerRefused,
       WriteTerminalRefused, AfterWriteRefused, InterruptedRefused
       DEF Lambda, Advance
  <1>. QED
    BY <1>1, OthersRefused, QuietRefused DEF Next, Reaper

\* insert_minimal_ddb_record leaves a document to be gated.
LEMMA InitRefused == ASSUME ConstantsAssumption, Init PROVE RefusedOK
  <1>1. \A i \in Invs : Harmless(inv[i])
    BY DEF Init, Harmless, Idle, ConstantsAssumption, Events
  <1>2. \A d \in Docs : /\ rec[d].status \in {NoStatus, "pending_upload", "not_started"}
                        /\ rec[d].job = NoJob /\ ~rec[d].categorized
                        /\ ~hist[d].textract
                        /\ \A j \in Jobs : job[j].doc # d
    BY DEF Init, ConstantsAssumption, Events
  <1>. QED
    BY <1>1, <1>2 DEF RefusedOK, NoStatus

\* A locked, non-native or tenantless document never reaches Textract or BDA,
\* whatever is delivered again, fails or overlaps.
THEOREM RefusedStayAway == Spec => []RefusedNeverExtracted
  <1>1. RefusedOK => RefusedNeverExtracted
    BY DEF RefusedOK, RefusedNeverExtracted, Refused, JobsOf
  <1>2. Init => RefusedOK
    BY InitRefused, ConstantsAssumption
  <1>3. IInv /\ RefusedOK /\ [Next]_vars => RefusedOK'
    BY NextRefused, ConstantsAssumption
  <1>. QED
    BY <1>1, <1>2, <1>3, Invariance, PTL DEF Spec

-----------------------------------------------------------------------------
(* The response of a document that has its outcome *)

\* The response is stored, or an invocation is about to store it.
Publishing == {"finalize", "v1"}

Marked(d) == rec[d].v1 \/ \E i \in Invs : inv[i].doc = d /\ inv[i].pc \in Publishing

PublishedOK ==
    /\ faults = 0 => \A d \in Docs :
          ~aged[d] /\ (rec[d].status \in Classified \/ d \in deleting) => Marked(d)
    /\ \A row \in reaper.todo : aged[row.doc]

\* An action of an invocation moves no other one.
LEMMA LambdaMoves ==
    ASSUME IInv, NEW i \in Invs, Lambda(i) PROVE Moves(i)
  <1>. InvsOK
    BY DEF IInv
  <1>1. CASE WriteTerminal(i)
    <2>1. CASE Goto(i, "v1")
      BY <2>1, GotoMoves DEF PCs
    <2>. QED
      BY <1>1, <2>1, ReturnFrees DEF WriteTerminal, Skip, Frees
  <1>2. CASE WriteV1(i) \/ Credit(i) \/ MethodResponse(i)
    BY <1>2, GotoMoves, ReturnFrees, ThrowFrees
       DEF WriteV1, Credit, MethodResponse, Frees, PCs
  <1>3. CASE Handler(i)
    <2>1. ASSUME NEW d \in Docs,
                 inv' = [inv EXCEPT ![i].pc = "classify", ![i].doc = d, ![i].class = "failed"]
          PROVE  Moves(i)
      BY <2>1 DEF InvsOK, Moves
    <2>. QED
      BY <1>3, <2>1, ClassifyFrees, EndsFree DEF Handler, Frees
  <1>4. CASE Raise(i) \/ Crash(i)
    BY <1>4, ThrowFrees, EndsFree DEF Raise, Crash, Frees
  <1>5. CASE \/ \E j \in Jobs : ReceiveResult(i, j)
             \/ \E d \in Docs : UploadFails(i, d) \/ WaitTimesOut(i, d)
    BY <1>5 DEF ReceiveResult, UploadFails, WaitTimesOut, InvsOK, Moves
  <1>. QED
    BY <1>1, <1>2, <1>3, <1>4, <1>5, ProcessorFrees DEF Lambda, Advance, Frees

\* Who is about to store the response stores it next, unless a call fails.
LEMMA PublisherPublishes ==
    ASSUME IInv, NEW i \in Invs, Lambda(i), inv[i].pc \in Publishing, faults' = 0
    PROVE  rec'[inv[i].doc].v1
  <1>1. inv[i].doc \in Docs
    BY DEF IInv, InvsOK, WellFormed, Publishing
  <1>2. ~Fault
    BY DEF Fault, IInv, TypeOK
  <1>3. FinalizeGate(i) \/ WriteV1(i)
    BY <1>2 DEF Lambda, Advance, Receive, ReceiveResult, UploadFails, WaitTimesOut,
       Throttled, Raise, Crash, Gate, PreCredit, Upsert, Reread, Dispatch, Claim, Extract,
       BdaPath, Invoke, RecordJob, Handler, WriteTerminal, Credit, MethodResponse, At,
       Publishing
  <1>. QED
    BY <1>1, <1>3 DEF FinalizeGate, WriteV1, IInv, TypeOK, Record

\* What one write of a record does to the attribute and to the status.
LEMMA ResponseStays ==
    ASSUME IInv, [Next]_vars, NEW d \in Docs, rec[d].v1
    PROVE  rec'[d].v1
  <1>1. CASE UNCHANGED rec
    BY <1>1
  <1>2. ASSUME NEW i \in Invs, Upsert(i) PROVE rec'[d].v1
    BY <1>2 DEF Upsert, IInv, TypeOK, Record
  <1>3. ASSUME NEW i \in Invs, FinalizeGate(i) \/ WriteV1(i) PROVE rec'[d].v1
    BY <1>3 DEF FinalizeGate, WriteV1, IInv, TypeOK, Record
  <1>4. ASSUME NEW i \in Invs, Claim(i) PROVE rec'[d].v1
    BY <1>4 DEF Claim, IInv, TypeOK, Record
  <1>5. ASSUME NEW i \in Invs, RecordJob(i) PROVE rec'[d].v1
    BY <1>5 DEF RecordJob, IInv, TypeOK, Record
  <1>6. ASSUME NEW i \in Invs, WriteTerminal(i) PROVE rec'[d].v1
    BY <1>6 DEF WriteTerminal, IInv, TypeOK, Record
  <1>7. ASSUME NEW row \in reaper.todo, Reap(row) PROVE rec'[d].v1
    <2>1. \A s : Mark(row, s) => rec'[d].v1
      BY DEF Mark, IInv, TypeOK, Record
    <2>. QED
      BY <1>7, <2>1 DEF Reap
  <1>8. ASSUME NEW e \in Docs, EndDelete(e) PROVE rec'[d].v1
    BY <1>8 DEF EndDelete, IInv, TypeOK, Record
  <1>9. ASSUME NEW i \in Invs, Lambda(i) PROVE rec'[d].v1
    BY <1>1, <1>2, <1>3, <1>4, <1>5, <1>6, <1>9
       DEF Lambda, Advance, Receive, ReceiveResult, UploadFails, WaitTimesOut, Throttled,
           Raise, Crash, Gate, PreCredit, Reread, Dispatch, Extract, BdaPath, Invoke,
           Handler, Credit, MethodResponse
  <1>. QED
    BY <1>1, <1>7, <1>8, <1>9
       DEF Next, Reaper, Emit, EndJob, Sweep, ReaperCredit, ReaperCrash, Age, BeginDelete, vars

\* A response once marked is on its way for good.
LEMMA MarkedStays ==
    ASSUME IInv, [Next]_vars, faults' = 0, NEW d \in Docs, Marked(d)
    PROVE  Marked(d)'
  <1>1. CASE rec[d].v1
    BY <1>1, ResponseStays DEF Marked
  <1>2. ASSUME NEW i \in Invs, inv[i].doc = d, inv[i].pc \in Publishing
        PROVE  Marked(d)'
    <2>1. CASE inv'[i] = inv[i]
      BY <1>2, <2>1 DEF Marked
    <2>2. CASE Lambda(i)
      BY <1>2, <2>2, PublisherPublishes DEF Marked
    <2>3. ASSUME NEW k \in Invs \ {i}, Lambda(k) PROVE inv'[i] = inv[i]
      BY <2>3, LambdaMoves DEF Moves
    <2>4. (\A k \in Invs : ~Lambda(k)) => UNCHANGED inv
      BY DEF Next, Reaper, Emit, EndJob, Sweep, Reap, ReaperCredit, ReaperCrash, Age,
             BeginDelete, EndDelete, vars
    <2>. QED
      BY <2>1, <2>2, <2>3, <2>4
  <1>. QED
    BY <1>1, <1>2 DEF Marked

\* A final status comes with its response, from the reaper, or from DELETE.
LEMMA OutcomeMarked ==
    ASSUME IInv, PublishedOK, [Next]_vars, NEW d \in Docs,
           rec[d].status \notin Classified, rec'[d].status \in Classified
    PROVE  Marked(d)' \/ aged[d] \/ d \in deleting
  <1>1. ~UNCHANGED rec
    OBVIOUS
  <1>2. ASSUME NEW i \in Invs, Upsert(i) PROVE Marked(d)'
    <2>1. inv[i].doc \in Docs
      BY <1>2 DEF Upsert, At, IInv, InvsOK, WellFormed
    <2>2. inv[i].doc = d /\ inv[i].class \in Classified
      BY <1>2, <2>1 DEF Upsert, IInv, TypeOK, Record
    <2>3. inv[i].class \notin PendingExtraction
      BY <2>2, Closed DEF Open
    <2>4. inv'[i].pc = "finalize" /\ inv'[i].doc = d
      BY <1>2, <2>2, <2>3, GotoMoves DEF Upsert, IInv, PCs
    <2>. QED
      BY <2>4 DEF Marked, Publishing
  <1>3. ASSUME NEW i \in Invs, WriteTerminal(i) PROVE Marked(d)'
    <2>1. inv[i].doc \in Docs
      BY <1>3 DEF WriteTerminal, At, IInv, InvsOK, WellFormed
    <2>2. inv[i].doc = d /\ MayBecomeTerminal(rec[d].status)
      BY <1>1, <1>3, <2>1 DEF WriteTerminal, IInv, TypeOK, Record
    <2>3. inv'[i].pc = "v1" /\ inv'[i].doc = d
      BY <1>3, <2>2, GotoMoves DEF WriteTerminal, IInv, PCs
    <2>. QED
      BY <2>3 DEF Marked, Publishing
  <1>4. ASSUME NEW i \in Invs, FinalizeGate(i) \/ WriteV1(i) PROVE FALSE
    BY <1>4 DEF FinalizeGate, WriteV1, IInv, TypeOK, Record
  <1>5. ASSUME NEW i \in Invs, Claim(i) \/ RecordJob(i) PROVE FALSE
    <2>1. "started" \notin Classified
      BY DEF Classified
    <2>2. rec'[d].status \in {rec[d].status, "started"}
      <3>1. CASE Claim(i)
        BY <3>1 DEF Claim, IInv, TypeOK, Record
      <3>2. CASE RecordJob(i)
        BY <3>2 DEF RecordJob, IInv, TypeOK, Record
      <3>. QED
        BY <1>5, <3>1, <3>2
    <2>. QED
      BY <2>1, <2>2
  <1>6. ASSUME NEW row \in reaper.todo, Reap(row) PROVE aged[d]
    <2>1. aged[row.doc] /\ row.doc \in Docs
      BY DEF PublishedOK, IInv, TypeOK
    <2>2. \A s : Mark(row, s) => row.doc = d \/ rec'[d] = rec[d]
      BY <2>1 DEF Mark, IInv, TypeOK
    <2>. QED
      BY <1>6, <2>1, <2>2 DEF Reap
  <1>7. ASSUME NEW e \in Docs, EndDelete(e) PROVE d \in deleting
    BY <1>7 DEF EndDelete, IInv, TypeOK
  <1>8. ASSUME NEW i \in Invs, Lambda(i) PROVE Marked(d)'
    BY <1>1, <1>2, <1>3, <1>4, <1>5, <1>8
       DEF Lambda, Advance, Receive, ReceiveResult, UploadFails, WaitTimesOut, Throttled,
           Raise, Crash, Gate, PreCredit, Reread, Dispatch, Extract, BdaPath, Invoke,
           Handler, Credit, MethodResponse
  <1>. QED
    BY <1>1, <1>6, <1>7, <1>8
       DEF Next, Reaper, Emit, EndJob, Sweep, ReaperCredit, ReaperCrash, Age, BeginDelete, vars

\* Time and the reaper's rows only go on; DELETE begins on a final status.
LEMMA AgeingAndDeleting ==
    ASSUME IInv, PublishedOK, [Next]_vars
    PROVE  /\ \A d \in Docs : aged[d] => aged'[d]
           /\ \A row \in reaper'.todo : aged'[row.doc]
           /\ \A d \in deleting' : d \in deleting \/ rec[d].status \in Classified
           /\ faults' = 0 => faults = 0
  <1> DEFINE Goes == /\ \A d \in Docs : aged[d] => aged'[d]
                     /\ \A row \in reaper'.todo : aged'[row.doc]
                     /\ \A d \in deleting' : d \in deleting \/ rec[d].status \in Classified
  <1>1. ASSUME UNCHANGED <<aged, reaper, deleting>> PROVE Goes
    BY <1>1 DEF PublishedOK
  <1>2. ASSUME NEW d \in Docs, Age(d)
        PROVE  UNCHANGED <<reaper, deleting>> /\ \A e \in Docs : aged[e] => aged'[e]
    BY <1>2 DEF Age, IInv, TypeOK
  <1>3. \A row \in reaper.todo : row.doc \in Docs
    BY DEF IInv, TypeOK
  <1>4. ASSUME Sweep PROVE Goes
    <2>1. \A row \in reaper'.todo : aged[row.doc]
      BY <1>4 DEF Sweep, Stale, IInv, TypeOK
    <2>. QED
      BY <1>4, <2>1 DEF Sweep
  <1>5. ASSUME NEW row \in reaper.todo, Reap(row)
        PROVE  UNCHANGED <<aged, deleting>> /\ reaper'.todo \subseteq reaper.todo
    BY <1>5 DEF Reap, Mark, IInv, TypeOK
  <1>6. ASSUME ReaperCredit \/ ReaperCrash PROVE Goes
    BY <1>6 DEF ReaperCredit, ReaperCrash, PublishedOK, IInv, TypeOK
  <1>7. ASSUME \E d \in Docs : BeginDelete(d) \/ EndDelete(d) PROVE Goes
    BY <1>7 DEF BeginDelete, EndDelete, PublishedOK
  <1>8. ASSUME NEW i \in Invs, Lambda(i) PROVE UNCHANGED <<aged, reaper, deleting>>
    BY <1>8
       DEF Lambda, Advance, Receive, ReceiveResult, UploadFails, WaitTimesOut, Throttled,
           Raise, Crash, Gate, PreCredit, Upsert, FinalizeGate, Reread, Dispatch, Claim,
           Extract, BdaPath, Invoke, RecordJob, Handler, WriteTerminal, WriteV1, Credit,
           MethodResponse
  <1>9. faults' \in {faults, faults + 1}
    <2>1. ASSUME NEW i \in Invs, Lambda(i) PROVE faults' \in {faults, faults + 1}
      <3>1. CASE \/ Gate(i) \/ PreCredit(i) \/ Upsert(i) \/ FinalizeGate(i) \/ Reread(i)
                 \/ Dispatch(i) \/ Claim(i) \/ Extract(i)
        BY <3>1 DEF Gate, PreCredit, Upsert, FinalizeGate, Reread, Dispatch, Claim, Extract,
             Fault
      <3>2. CASE \/ BdaPath(i) \/ (\E j \in Jobs : Invoke(i, j)) \/ RecordJob(i) \/ Handler(i)
                 \/ WriteTerminal(i) \/ WriteV1(i) \/ Credit(i) \/ MethodResponse(i)
        BY <3>2 DEF BdaPath, Invoke, RecordJob, Handler, WriteTerminal, WriteV1, Credit,
             MethodResponse, Fault
      <3>3. CASE \/ \E d \in Docs : Receive(i, d) \/ UploadFails(i, d) \/ WaitTimesOut(i, d)
                 \/ \E j \in Jobs : ReceiveResult(i, j)
                 \/ Throttled(i) \/ Raise(i) \/ Crash(i)
        BY <3>3 DEF Receive, UploadFails, WaitTimesOut, ReceiveResult, Throttled, Raise, Crash,
             Fault
      <3>. QED
        BY <2>1, <3>1, <3>2, <3>3 DEF Lambda, Advance
    <2>. QED
      BY <2>1 DEF Next, Reaper, Emit, EndJob, Sweep, Reap, ReaperCredit, ReaperCrash, Age,
             BeginDelete, EndDelete, vars, Fault
  <1>10. ASSUME \E d \in Docs : Age(d) PROVE Goes
    BY <1>2, <1>3, <1>10 DEF PublishedOK
  <1>11. ASSUME \E row \in reaper.todo : Reap(row) PROVE Goes
    BY <1>5, <1>11 DEF PublishedOK
  <1>12. ASSUME \/ \E e \in Events : Emit(e)
                \/ \E j \in Jobs : EndJob(j)
                \/ UNCHANGED vars
         PROVE  Goes
    BY <1>1, <1>12 DEF Emit, EndJob, vars
  <1>13. Goes
    <2> HIDE DEF Goes
    <2>. QED
      BY <1>1, <1>4, <1>6, <1>7, <1>8, <1>10, <1>11, <1>12 DEF Next, Reaper
  <1>. QED
    BY <1>9, <1>13 DEF IInv, TypeOK

\* Every action keeps the responses on their way.
LEMMA NextPublished ==
    ASSUME IInv, PublishedOK, [Next]_vars PROVE PublishedOK'
  <1>1. ASSUME faults' = 0, NEW d \in Docs, ~aged'[d],
               rec'[d].status \in Classified \/ d \in deleting'
        PROVE  Marked(d)'
    <2>1. faults = 0 /\ ~aged[d]
      BY <1>1, AgeingAndDeleting
    <2>2. CASE rec[d].status \in Classified \/ d \in deleting
      BY <1>1, <2>1, <2>2, MarkedStays DEF PublishedOK
    <2>3. CASE rec[d].status \notin Classified /\ d \notin deleting
      BY <1>1, <2>1, <2>3, AgeingAndDeleting, OutcomeMarked
    <2>. QED
      BY <2>2, <2>3
  <1>. QED
    BY <1>1, AgeingAndDeleting DEF PublishedOK

\* No document starts with an outcome.
LEMMA InitPublished == ASSUME Init PROVE PublishedOK
  <1>1. {NoStatus, "pending_upload", "not_started"} \cap Classified = {}
    BY DEF Classified, NoStatus
  <1>. QED
    BY <1>1 DEF Init, PublishedOK

\* A classified document that nobody works on has its v1 response, for
\* poll_for_completion and GET /v1/documents to return, unless a call failed
\* or the reaper had reason to step in.
THEOREM ResultsArePublished == Spec => []ResultPublished
  <1>1. PublishedOK => ResultPublished
    BY DEF PublishedOK, ResultPublished, Marked, Quiet
  <1>2. Init => PublishedOK
    BY InitPublished
  <1>3. IInv /\ PublishedOK /\ [Next]_vars => PublishedOK'
    BY NextPublished
  <1>. QED
    BY <1>1, <1>2, <1>3, Invariance, PTL DEF Spec

-----------------------------------------------------------------------------
(***************************************************************************)
(* What the lambdas and the API keep of DocumentContract, and the results  *)
(* that hold of a document as long as one invocation at a time has it.     *)
(*                                                                         *)
(* The argument has four parts, each an invariant:                         *)
(*                                                                         *)
(*   OriginOK, OnceOK: an upload event that is not repeated is in the      *)
(*     queue, with one invocation, or handed over to BDA's job; so whoever *)
(*     carries it is alone with its document (OnlyOne);                    *)
(*   AgedOK, ChoicesOK: the reaper visits old documents only, and what an  *)
(*     invocation is about to write is no status of another's;             *)
(*   StatusOK: the status of a document that one invocation at a time may  *)
(*     classify (Steady) follows that invocation.  Only a status that no   *)
(*     terminal write may replace is ever owed an increment or deleted;    *)
(*   JobsOK, TallyOK: where each job and each increment of such a document *)
(*     is, without failures.                                               *)
(*                                                                         *)
(* KeepsContract needs no more than StatusOK, so it holds under crashes,   *)
(* failed calls and retries too.  JobsAreFindable and CountedExactlyOnce   *)
(* speak of runs without failures: a killed invocation may have started a  *)
(* job that no record names, or owe an increment that nobody makes.        *)
(***************************************************************************)

-----------------------------------------------------------------------------
(* Where an invocation comes from *)

\* The points of the document processor before a classification.
Processing == {"gate", "precredit", "upsert", "finalize", "reread", "dispatch",
               "claim", "extract", "bda", "invoke", "record"}

\* Those before the upsert, and those after the claim.
Opening == {"gate", "precredit", "upsert"}
Extracting == {"extract", "bda", "invoke", "record"}

\* What an invocation works on, and on whose behalf.
Origin(v) ==
    /\ v.pc = "idle" => v = Idle
    /\ v.event \in Docs => v.doc = v.event
    /\ v.pc \in Processing => v.event \in Docs /\ v.ctx # "api"
    /\ v.ctx = "api" => v.event \in Docs
    /\ v.pc = "record" => v.job \in Jobs
    /\ v.event \in Jobs /\ v.doc \in Docs => rec[v.doc].job # NoJob
    /\ v.identity \/ v.ctx = "textract" => v.event \in Docs /\ Is(v.doc, "identity")

OriginOK == \A i \in Invs : Origin(inv[i])

\* A running invocation goes on for the same event.
Stays(i) ==
    LET v == inv[i]
        w == inv'[i]
    IN  /\ v.pc # "idle" /\ w.pc # "idle"
        /\ w.event = v.event
        /\ \/ w.doc = v.doc
           \/ v.event \in Jobs /\ \E d \in Docs : w.doc = d /\ rec[d].job = v.event
        /\ (w.ctx = "api") <=> (v.ctx = "api")
        /\ w.ctx = "textract" => v.ctx = "textract" \/ v.identity
        /\ w.identity => v.identity \/ (v.pc \in Processing /\ Is(v.doc, "identity"))
        /\ w.pc = "record" => w.job \in Jobs
        /\ w.pc \in Processing => v.pc \in Processing \/ v.ctx = "textract"
        /\ w.pc \in Opening => v.pc \in Opening
        /\ w.pc \in Extracting =>
              \/ v.pc \in Extracting \/ v.pc = "claim"
              \/ v.ctx = "textract" /\ (faults' # 0 \/ ~Is(v.doc, "compare"))
        /\ w.pc \in Owing => v.pc \in Owing \/ v.pc = "classify"
        /\ UNCHANGED <<queued, redeliveries>>

\* It ends, and its event may come again.
Ends(i) ==
    LET e == inv[i].event IN
    /\ inv[i].pc # "idle" /\ inv'[i] = Idle
    /\ \/ UNCHANGED <<queued, redeliveries>>
       \/ /\ inv[i].ctx # "api" /\ redeliveries[e] > 0
          /\ queued' = [queued EXCEPT ![e] = @ + 1]
          /\ redeliveries' = [redeliveries EXCEPT ![e] = @ - 1]

\* A lambda that returns is done with its event.
LEMMA FinishEnds ==
    ASSUME InvsOK, NEW i \in Invs, inv[i].pc # "idle", Finish(i) PROVE Ends(i)
  BY DEF Finish, Ends, InvsOK

\* One that fails may have its event delivered again.
LEMMA FailEnds ==
    ASSUME InvsOK, NEW i \in Invs, inv[i].pc # "idle", Fail(i) PROVE Ends(i)
  BY DEF Fail, Ends, InvsOK

\* Goto stays with the event.
LEMMA GotoStays ==
    ASSUME InvsOK, NEW i \in Invs, NEW pc \in PCs \ {"idle", "record"}, Goto(i, pc),
           inv[i].pc # "idle", UNCHANGED <<queued, redeliveries>>,
           pc \in Processing => inv[i].pc \in Processing,
           pc \in Opening => inv[i].pc \in Opening,
           pc \in Extracting => inv[i].pc \in Extracting \/ inv[i].pc = "claim",
           pc \in Owing => inv[i].pc \in Owing \/ inv[i].pc = "classify"
    PROVE  Stays(i)
  <1>1. inv[i] \in Invocation /\ inv' = [inv EXCEPT ![i] = [inv[i] EXCEPT !.pc = pc]]
    BY DEF InvsOK, Goto
  <1>2. inv'[i] = [inv[i] EXCEPT !.pc = pc]
    BY <1>1 DEF InvsOK
  <1>3. /\ inv'[i].pc = pc /\ inv'[i].event = inv[i].event /\ inv'[i].doc = inv[i].doc
        /\ inv'[i].ctx = inv[i].ctx /\ inv'[i].identity = inv[i].identity
    BY <1>1, <1>2 DEF Invocation
  <1> QED
    BY <1>3 DEF Stays

\* So does a classification that begins,
LEMMA ClassifyStays ==
    ASSUME InvsOK, NEW i \in Invs, NEW class, Classify(i, class), inv[i].pc # "idle",
           UNCHANGED <<queued, redeliveries>>
    PROVE  Stays(i)
  <1>1. /\ inv'[i].pc = "classify" /\ inv'[i].event = inv[i].event /\ inv'[i].doc = inv[i].doc
        /\ inv'[i].ctx = inv[i].ctx /\ inv'[i].identity = inv[i].identity
    BY DEF InvsOK, Classify, Invocation
  <1> QED
    BY <1>1 DEF Stays, Processing, Opening, Extracting, Owing

\* and control that reaches the handler.
LEMMA EnterHandlerStays ==
    ASSUME InvsOK, NEW i \in Invs, inv[i].pc # "idle", inv[i].ctx # "api", EnterHandler(i)
    PROVE  Stays(i)
  <1>1. /\ inv'[i].pc = "handler" /\ inv'[i].event = inv[i].event /\ inv'[i].doc = inv[i].doc
        /\ inv'[i].ctx = "handler" /\ inv'[i].identity = inv[i].identity
    BY DEF InvsOK, EnterHandler, Invocation
  <1> QED
    BY <1>1 DEF Stays, Processing, Opening, Extracting, Owing, EnterHandler

\* A terminal write that returned.
LEMMA ReturnFlows ==
    ASSUME InvsOK, NEW i \in Invs, inv[i].pc # "idle", Return(i)
    PROVE  Stays(i) \/ Ends(i)
  BY FinishEnds, FailEnds, EnterHandlerStays DEF Return

\* An exception leads back to an extraction only from Textract's try block.
LEMMA ThrowFlows ==
    ASSUME InvsOK, NEW i \in Invs, inv[i].pc # "idle", Throw(i),
           faults' # 0 \/ ~Is(inv[i].doc, "compare")
    PROVE  Stays(i) \/ Ends(i)
  <1>1. CASE /\ inv[i].ctx = "textract"
             /\ inv' = [inv EXCEPT ![i].pc = "bda", ![i].ctx = "main"]
             /\ UNCHANGED <<queued, redeliveries>>
    <2>1. /\ inv'[i].pc = "bda" /\ inv'[i].event = inv[i].event /\ inv'[i].doc = inv[i].doc
          /\ inv'[i].ctx = "main" /\ inv'[i].identity = inv[i].identity
      BY <1>1 DEF InvsOK, Invocation
    <2> QED
      BY <1>1, <2>1 DEF Stays, Processing, Opening, Extracting, Owing
  <1>2. CASE inv[i].ctx \in {"main", "giveup"} /\ EnterHandler(i)
    BY <1>2, EnterHandlerStays
  <1>3. CASE inv[i].ctx \in {"handler", "api"} /\ Fail(i)
    BY <1>3, FailEnds
  <1> QED
    BY <1>1, <1>2, <1>3 DEF Throw

\* The document processor up to the claim.
LEMMA OpeningFlows ==
    ASSUME InvsOK, NEW i \in Invs,
           \/ Gate(i) \/ PreCredit(i) \/ Upsert(i) \/ FinalizeGate(i) \/ Reread(i)
           \/ Dispatch(i) \/ Claim(i)
    PROVE  Stays(i) \/ Ends(i)
  <1>0. inv[i] \in Invocation
    BY DEF InvsOK
  <1>1. CASE Gate(i)
    <2>1. CASE ~Is(inv[i].doc, "locked") /\
               \E c \in BOOLEAN, id \in BOOLEAN :
                 /\ id => c /\ Is(inv[i].doc, "identity")
                 /\ inv' = [inv EXCEPT ![i].pc = "upsert", ![i].class = Passed(inv[i].doc),
                                    ![i].categorized = c, ![i].identity = id]
      <3>1. PICK c \in BOOLEAN, id \in BOOLEAN :
                 /\ id => c /\ Is(inv[i].doc, "identity")
                 /\ inv' = [inv EXCEPT ![i].pc = "upsert", ![i].class = Passed(inv[i].doc),
                                    ![i].categorized = c, ![i].identity = id]
        BY <2>1
      <3>2. /\ inv'[i].pc = "upsert" /\ inv'[i].event = inv[i].event
            /\ inv'[i].doc = inv[i].doc /\ inv'[i].ctx = inv[i].ctx
            /\ inv'[i].identity = id
        BY <1>0, <3>1 DEF InvsOK, Invocation
      <3> QED
        BY <1>1, <3>1, <3>2 DEF Gate, At, Stays, Processing, Opening, Extracting, Owing
    <2>2. CASE \E v \in {"password_protected"} \cup GateVerdicts :
                 inv' = [inv EXCEPT ![i].class = v, ![i].categorized = v \in Preclassified,
                           ![i].pc = IF v \in CreditedEarly THEN "precredit" ELSE "upsert"]
      <3>1. PICK v : 
                 inv' = [inv EXCEPT ![i].class = v, ![i].categorized = v \in Preclassified,
                           ![i].pc = IF v \in CreditedEarly THEN "precredit" ELSE "upsert"]
        BY <2>2
      <3> DEFINE pc == IF v \in CreditedEarly THEN "precredit" ELSE "upsert"
                 c == v \in Preclassified
      <3>2. pc \in {"upsert", "precredit"}
        OBVIOUS
      <3>3. inv' = [inv EXCEPT ![i].class = v, ![i].categorized = c, ![i].pc = pc]
        BY <3>1
      <3> HIDE DEF pc, c
      <3>4. /\ inv'[i].pc = pc /\ inv'[i].event = inv[i].event
            /\ inv'[i].doc = inv[i].doc /\ inv'[i].ctx = inv[i].ctx
            /\ inv'[i].identity = inv[i].identity
        BY <1>0, <3>3 DEF InvsOK, Invocation
      <3> QED
        BY <1>1, <3>2, <3>4 DEF Gate, At, Stays, Processing, Opening, Extracting, Owing
    <2> QED
      BY <1>1, <2>1, <2>2 DEF Gate
  <1>2. CASE PreCredit(i)
    BY <1>2, GotoStays DEF PreCredit, At, PCs, Processing, Opening, Extracting, Owing
  <1>3. CASE Upsert(i)
    <2>1. Goto(i, "reread") \/ Goto(i, "finalize")
      BY <1>3 DEF Upsert
    <2> QED
      BY <1>3, <2>1, GotoStays DEF Upsert, At, PCs, Processing, Opening, Extracting, Owing
  <1>4. CASE FinalizeGate(i)
    BY <1>4, GotoStays DEF FinalizeGate, At, PCs, Processing, Opening, Extracting, Owing
  <1>5. CASE Reread(i)
    <2>1. /\ inv'[i].pc = "dispatch" /\ inv'[i].event = inv[i].event
          /\ inv'[i].doc = inv[i].doc /\ inv'[i].ctx = inv[i].ctx
          /\ inv'[i].identity = inv[i].identity
      BY <1>0, <1>5 DEF Reread, InvsOK, Invocation
    <2> QED
      BY <1>5, <2>1 DEF Reread, At, Stays, Processing, Opening, Extracting, Owing
  <1>6. CASE Dispatch(i)
    <2>1. inv[i].pc = "dispatch"
      BY <1>6 DEF Dispatch, At
    <2>2. CASE Finish(i)
      BY <2>1, <2>2, FinishEnds
    <2>3. CASE Classify(i, "failed") /\ UNCHANGED <<queued, redeliveries>>
      BY <2>1, <2>3, ClassifyStays
    <2>4. CASE Goto(i, "claim") /\ UNCHANGED <<queued, redeliveries>>
      BY <2>1, <2>4, GotoStays DEF PCs, Processing, Opening, Extracting, Owing
    <2> QED
      BY <1>6, <2>2, <2>3, <2>4 DEF Dispatch
  <1>7. CASE Claim(i)
    <2>1. inv[i].pc = "claim"
      BY <1>7 DEF Claim, At
    <2>2. CASE Finish(i)
      BY <2>1, <2>2, FinishEnds
    <2>3. CASE Goto(i, "extract") /\ UNCHANGED <<queued, redeliveries>>
      BY <2>1, <2>3, GotoStays DEF PCs, Processing, Opening, Extracting, Owing
    <2> QED
      BY <1>7, <2>2, <2>3 DEF Claim
  <1> QED
    BY <1>1, <1>2, <1>3, <1>4, <1>5, <1>6, <1>7

\* ... and up to the record of a job.
LEMMA ExtractingFlows ==
    ASSUME InvsOK, NEW i \in Invs, Origin(inv[i]),
           \/ Extract(i) \/ BdaPath(i) \/ (\E j \in Jobs : Invoke(i, j))
           \/ RecordJob(i) \/ Throttled(i)
    PROVE  Stays(i) \/ Ends(i)
  <1>0. inv[i] \in Invocation
    BY DEF InvsOK
  <1>1. CASE Extract(i)
    <2>1. /\ inv[i].pc = "extract" /\ UNCHANGED <<queued, redeliveries>>
          /\ inv[i].ctx # "api"
      BY <1>1 DEF Extract, At, Origin, Processing
    <2>2. CASE /\ inv[i].identity
               /\ inv' = [inv EXCEPT ![i].pc = "classify", ![i].class = "success",
                                     ![i].ctx = "textract"]
      <3>1. /\ inv'[i].pc = "classify" /\ inv'[i].event = inv[i].event
            /\ inv'[i].doc = inv[i].doc /\ inv'[i].ctx = "textract"
            /\ inv'[i].identity = inv[i].identity
        BY <1>0, <2>2 DEF InvsOK, Invocation
      <3> QED
        BY <2>1, <2>2, <3>1 DEF Stays, Processing, Opening, Extracting, Owing
    <2>3. CASE Goto(i, "bda")
      BY <2>1, <2>3, GotoStays DEF PCs, Processing, Opening, Extracting, Owing
    <2> QED
      BY <1>1, <2>2, <2>3 DEF Extract
  <1>2. CASE BdaPath(i)
    <2>1. inv[i].pc = "bda" /\ UNCHANGED <<queued, redeliveries>>
      BY <1>2 DEF BdaPath, At
    <2>2. CASE Goto(i, "invoke")
      BY <2>1, <2>2, GotoStays DEF PCs, Processing, Opening, Extracting, Owing
    <2>3. CASE \E v \in SkipVerdicts : Classify(i, v)
      BY <2>1, <2>3, ClassifyStays
    <2> QED
      BY <1>2, <2>2, <2>3 DEF BdaPath
  <1>3. ASSUME NEW j \in Jobs, Invoke(i, j) PROVE Stays(i)
    <2>1. /\ inv'[i].pc = "record" /\ inv'[i].event = inv[i].event
          /\ inv'[i].doc = inv[i].doc /\ inv'[i].ctx = inv[i].ctx
          /\ inv'[i].identity = inv[i].identity /\ inv'[i].job = j
      BY <1>0, <1>3 DEF Invoke, InvsOK, Invocation
    <2> QED
      BY <1>3, <2>1 DEF Invoke, At, Stays, Processing, Opening, Extracting, Owing
  <1>4. CASE RecordJob(i)
    BY <1>4, FinishEnds DEF RecordJob, At
  <1>5. CASE Throttled(i)
    <2>1. /\ inv[i].pc \in {"invoke", "record"} /\ UNCHANGED <<queued, redeliveries>>
          /\ inv[i].ctx # "api"
      BY <1>5 DEF Throttled, At, Origin, Processing
    <2>2. CASE inv' = [inv EXCEPT ![i].pc = "invoke", ![i].attempts = @ + 1]
      <3>1. /\ inv'[i].pc = "invoke" /\ inv'[i].event = inv[i].event
            /\ inv'[i].doc = inv[i].doc /\ inv'[i].ctx = inv[i].ctx
            /\ inv'[i].identity = inv[i].identity
        BY <1>0, <2>2 DEF InvsOK, Invocation
      <3> QED
        BY <2>1, <3>1 DEF Stays, Processing, Opening, Extracting, Owing
    <2>3. CASE inv' = [inv EXCEPT ![i].pc = "classify", ![i].class = "failed",
                                  ![i].ctx = "giveup"]
      <3>1. /\ inv'[i].pc = "classify" /\ inv'[i].event = inv[i].event
            /\ inv'[i].doc = inv[i].doc /\ inv'[i].ctx = "giveup"
            /\ inv'[i].identity = inv[i].identity
        BY <1>0, <2>3 DEF InvsOK, Invocation
      <3> QED
        BY <2>1, <3>1 DEF Stays, Processing, Opening, Extracting, Owing
    <2> QED
      BY <1>5, <2>2, <2>3 DEF Throttled
  <1> QED
    BY <1>1, <1>2, <1>3, <1>4, <1>5

\* The classifications and what interrupts an invocation.
LEMMA ClosingFlows ==
    ASSUME InvsOK, faults \in Nat, NEW i \in Invs,
           \/ Handler(i) \/ WriteTerminal(i) \/ WriteV1(i) \/ Credit(i) \/ MethodResponse(i)
           \/ Raise(i) \/ Crash(i)
    PROVE  Stays(i) \/ Ends(i)
  <1>1. CASE Handler(i)
    <2>1. inv[i].pc = "handler"
      BY <1>1 DEF Handler, At
    <2>2. CASE Classify(i, "failed") /\ UNCHANGED <<queued, redeliveries>>
      BY <2>1, <2>2, ClassifyStays
    <2>3. ASSUME inv[i].event \in Jobs, UNCHANGED <<queued, redeliveries>>,
                 NEW d \in Docs, Finds(inv[i].event, d),
                 inv' = [inv EXCEPT ![i].pc = "classify", ![i].doc = d, ![i].class = "failed"]
          PROVE  Stays(i)
      <3>1. /\ inv'[i].pc = "classify" /\ inv'[i].event = inv[i].event
            /\ inv'[i].doc = d /\ inv'[i].ctx = inv[i].ctx
            /\ inv'[i].identity = inv[i].identity
        BY <2>3 DEF InvsOK, Invocation
      <3> QED
        BY <2>1, <2>3, <3>1 DEF Stays, Processing, Opening, Extracting, Owing, Finds
    <2>4. CASE Fail(i)
      BY <2>1, <2>4, FailEnds
    <2> QED
      BY <1>1, <2>2, <2>3, <2>4 DEF Handler
  <1>2. CASE WriteTerminal(i)
    <2>1. inv[i].pc = "classify"
      BY <1>2 DEF WriteTerminal, At
    <2>2. CASE Goto(i, "v1") /\ UNCHANGED <<queued, redeliveries>>
      BY <2>1, <2>2, GotoStays DEF PCs, Processing, Opening, Extracting, Owing
    <2> QED
      BY <1>2, <2>1, <2>2, ReturnFlows DEF WriteTerminal, Skip
  <1>3. CASE WriteV1(i)
    BY <1>3, GotoStays DEF WriteV1, At, PCs, Processing, Opening, Extracting, Owing
  <1>4. CASE Credit(i)
    <2>1. inv[i].pc = "credit"
      BY <1>4 DEF Credit, At
    <2>2. CASE Goto(i, "method") /\ UNCHANGED <<queued, redeliveries>>
      BY <2>1, <2>2, GotoStays DEF PCs, Processing, Opening, Extracting, Owing
    <2> QED
      BY <1>4, <2>1, <2>2, ReturnFlows DEF Credit
  <1>5. CASE MethodResponse(i)
    BY <1>5, ReturnFlows, ThrowFlows DEF MethodResponse, At
  <1>6. CASE Raise(i)
    <2>1. inv[i].pc # "idle" /\ Throw(i) /\ faults' # 0
      BY <1>6 DEF Raise, Fault
    <2> QED
      BY <2>1, ThrowFlows
  <1>7. CASE Crash(i)
    BY <1>7, FailEnds DEF Crash, At
  <1> QED
    BY <1>1, <1>2, <1>3, <1>4, <1>5, <1>6, <1>7

\* What an environment does that runs an invocation.
Runs(i) == Advance(i) \/ Throttled(i) \/ Raise(i) \/ Crash(i)

\* A running invocation goes on for its event or ends.
LEMMA RunFlows ==
    ASSUME IInv, NEW i \in Invs, Origin(inv[i]), Runs(i)
    PROVE  Stays(i) \/ Ends(i)
  <1>1. InvsOK /\ faults \in Nat
    BY ConstantsAssumption DEF IInv, TypeOK
  <1> QED
    BY <1>1, OpeningFlows, ExtractingFlows, ClosingFlows DEF Runs, Advance

\* Whoever starts works for an event of its own, or for the API.
LEMMA StartFlows ==
    ASSUME InvsOK, NEW i \in Invs, inv[i].pc = "idle", Lambda(i)
    PROVE  \/ \E d \in Docs : Receive(i, d) \/ UploadFails(i, d) \/ WaitTimesOut(i, d)
           \/ \E j \in Jobs : ReceiveResult(i, j)
  BY DEF Lambda, Advance, Throttled, Raise, Crash, Gate, PreCredit, Upsert, FinalizeGate, Reread,
         Dispatch, Claim, Extract, BdaPath, Invoke, RecordJob, Handler, WriteTerminal, WriteV1,
         Credit, MethodResponse, At

\* What the document processor starts with.
LEMMA ReceiveFields ==
    ASSUME InvsOK, NEW i \in Invs, NEW d \in Docs, Receive(i, d)
    PROVE  /\ inv'[i].event = d /\ inv'[i].doc = d /\ inv'[i].ctx = "main"
           /\ inv'[i].identity = FALSE /\ inv'[i].pc \in {"gate", "dispatch"}
           /\ inv'[i].pc = "gate" => NeedsPreclassification(rec[d])
  <1> DEFINE pc == IF NeedsPreclassification(rec[d]) THEN "gate" ELSE "dispatch"
  <1>1. inv' = [inv EXCEPT ![i] =
                  [Idle EXCEPT !.pc = pc, !.event = d, !.doc = d, !.seen = rec[d].status]]
    BY DEF Receive
  <1>2. pc \in {"gate", "dispatch"} /\ (pc = "gate" => NeedsPreclassification(rec[d]))
    OBVIOUS
  <1> HIDE DEF pc
  <1> QED
    BY <1>1, <1>2 DEF InvsOK, Idle

\* What the result processor starts with.
LEMMA ResultFields ==
    ASSUME InvsOK, NEW i \in Invs, NEW j \in Jobs, ReceiveResult(i, j)
    PROVE  /\ inv'[i].event = j /\ inv'[i].ctx \in {"main", "handler"}
           /\ inv'[i].identity = FALSE /\ inv'[i].pc \in {"handler", "classify"}
           /\ inv'[i].doc = NoDoc \/ \E d \in Docs : inv'[i].doc = d /\ rec[d].job = j
  <1> DEFINE Answers(w) ==
               /\ w.event = j /\ w.ctx \in {"main", "handler"} /\ w.identity = FALSE
               /\ w.pc \in {"handler", "classify"}
               /\ w.doc = NoDoc \/ \E d \in Docs : w.doc = d /\ rec[d].job = j
  <1>1. ASSUME NEW w, inv' = [inv EXCEPT ![i] = w], Answers(w)
        PROVE  Answers(inv'[i])
    BY <1>1 DEF InvsOK
  <1>2. Answers([[Idle EXCEPT !.event = j] EXCEPT !.pc = "handler", !.ctx = "handler"])
    BY DEF Idle
  <1>3. ASSUME NEW d \in Docs, Finds(j, d)
        PROVE  /\ Answers([[Idle EXCEPT !.event = j] EXCEPT !.pc = "handler", !.ctx = "handler",
                                                              !.doc = d])
               /\ \A class : Answers([[Idle EXCEPT !.event = j] EXCEPT !.pc = "classify", !.doc = d,
                                                              !.class = class])
    BY <1>3 DEF Idle, Finds
  <1>4. Answers(inv'[i])
    <2> HIDE DEF Answers
    <2> QED
      BY <1>1, <1>2, <1>3 DEF ReceiveResult
  <1> QED
    BY <1>4

\* What the API starts a classification with.
LEMMA ApiFields ==
    ASSUME InvsOK, NEW i \in Invs, NEW d \in Docs, UploadFails(i, d) \/ WaitTimesOut(i, d)
    PROVE  /\ inv'[i].event = d /\ inv'[i].doc = d /\ inv'[i].ctx = "api"
           /\ inv'[i].identity = FALSE /\ inv'[i].pc = "classify"
  <1>1. PICK class :
           inv' = [inv EXCEPT ![i] = [Idle EXCEPT !.pc = "classify", !.event = d,
                                        !.doc = d, !.class = class, !.ctx = "api"]]
    BY DEF UploadFails, WaitTimesOut
  <1> QED
    BY <1>1 DEF InvsOK, Idle

\* Only set_bda_processing_status_started stores a job.
LEMMA JobStays ==
    ASSUME IInv, [Next]_vars, NEW d \in Docs
    PROVE  \/ rec'[d].job = rec[d].job
           \/ \E i \in Invs : RecordJob(i) /\ inv[i].doc = d /\ rec'[d].job = inv[i].job
  <1> DEFINE Same == rec'[d].job = rec[d].job
             Stored == \E i \in Invs : RecordJob(i) /\ inv[i].doc = d /\ rec'[d].job = inv[i].job
  <1>1. CASE UNCHANGED rec
    BY <1>1
  <1>2. ASSUME NEW i \in Invs, Upsert(i) PROVE Same
    BY <1>2 DEF Upsert, IInv, TypeOK, Record
  <1>3. ASSUME NEW i \in Invs, FinalizeGate(i) \/ WriteV1(i) PROVE Same
    BY <1>3 DEF FinalizeGate, WriteV1, IInv, TypeOK, Record
  <1>4. ASSUME NEW i \in Invs, Claim(i) PROVE Same
    BY <1>4 DEF Claim, IInv, TypeOK, Record
  <1>5. ASSUME NEW i \in Invs, RecordJob(i) PROVE Same \/ Stored
    <2>1. rec \in [Docs -> Record]
      BY DEF IInv, TypeOK
    <2>2. CASE inv[i].doc = d
      BY <1>5, <2>1, <2>2 DEF RecordJob, Record
    <2>3. CASE inv[i].doc # d
      BY <1>5, <2>1, <2>3 DEF RecordJob
    <2> QED
      BY <2>2, <2>3
  <1>6. ASSUME NEW i \in Invs, WriteTerminal(i) PROVE Same
    BY <1>6 DEF WriteTerminal, IInv, TypeOK, Record
  <1>7. ASSUME NEW row \in reaper.todo, Reap(row) PROVE Same
    <2>1. \A s : Mark(row, s) => Same
      BY DEF Mark, IInv, TypeOK, Record
    <2>. QED
      BY <1>7, <2>1 DEF Reap
  <1>8. ASSUME NEW e \in Docs, EndDelete(e) PROVE Same
    BY <1>8 DEF EndDelete, IInv, TypeOK, Record
  <1>9. ASSUME NEW i \in Invs, Lambda(i) PROVE Same \/ Stored
    BY <1>1, <1>2, <1>3, <1>4, <1>5, <1>6, <1>9
       DEF Lambda, Advance, Receive, ReceiveResult, UploadFails, WaitTimesOut, Throttled,
           Raise, Crash, Gate, PreCredit, Reread, Dispatch, Extract, BdaPath, Invoke,
           Handler, Credit, MethodResponse
  <1>. QED
    BY <1>1, <1>7, <1>8, <1>9
       DEF Next, Reaper, Emit, EndJob, Sweep, ReaperCredit, ReaperCrash, Age, BeginDelete, vars

\* What is not an action of an invocation moves none.
LEMMA OthersRest ==
    ASSUME [Next]_vars, \A i \in Invs : ~Lambda(i) PROVE UNCHANGED inv
  BY DEF Next, Reaper, Emit, EndJob, Sweep, Reap, ReaperCredit, ReaperCrash, Age,
         BeginDelete, EndDelete, vars

\* Every action keeps the invocations with their documents.
LEMMA OriginStep ==
    ASSUME IInv, OriginOK, [Next]_vars PROVE OriginOK'
  <1>1. ASSUME NEW d \in Docs, rec[d].job # NoJob PROVE rec'[d].job # NoJob
    <2>1. ASSUME NEW i \in Invs, RecordJob(i) PROVE inv[i].job # NoJob
      BY <2>1, ConstantsAssumption DEF RecordJob, At, OriginOK, Origin, Events
    <2> QED
      BY <1>1, <2>1, JobStays
  <1>2. ASSUME NEW k \in Invs, inv'[k] = inv[k] PROVE Origin(inv[k])'
    BY <1>1, <1>2 DEF OriginOK, Origin
  <1>3. ASSUME NEW i \in Invs, Lambda(i) PROVE Origin(inv[i])'
    <2>1. InvsOK /\ Origin(inv[i]) /\ Docs \cap Jobs = {} /\ NoDoc \notin Docs
      BY ConstantsAssumption DEF IInv, OriginOK, Events
    <2>2. ASSUME NEW d \in Docs, Receive(i, d) PROVE Origin(inv[i])'
      BY <2>1, <2>2, ReceiveFields DEF Origin
    <2>3. ASSUME NEW d \in Docs, UploadFails(i, d) \/ WaitTimesOut(i, d) PROVE Origin(inv[i])'
      BY <2>1, <2>3, ApiFields DEF Origin, Processing
    <2>4. ASSUME NEW j \in Jobs, ReceiveResult(i, j) PROVE Origin(inv[i])'
      <3>1. j # NoJob /\ j \notin Docs
        BY <2>1, ConstantsAssumption DEF Events
      <3>2. inv'[i].doc \in Docs => rec'[inv'[i].doc].job # NoJob
        <4>1. CASE inv'[i].doc = NoDoc
          BY <2>1, <4>1
        <4>2. ASSUME NEW d \in Docs, inv'[i].doc = d, rec[d].job = j PROVE rec'[d].job # NoJob
          BY <1>1, <3>1, <4>2
        <4>3. inv'[i].doc = NoDoc \/ \E d \in Docs : inv'[i].doc = d /\ rec[d].job = j
          BY <2>1, <2>4, ResultFields
        <4> QED
          BY <4>1, <4>2, <4>3
      <3> QED
        BY <2>1, <2>4, <3>1, <3>2, ResultFields DEF Origin, Processing
    <2>5. CASE Ends(i)
      <3>1. Idle.event = NoDoc /\ Idle.pc = "idle" /\ Idle.ctx = "main" /\ Idle.identity = FALSE
        BY DEF Idle
      <3>2. NoDoc \notin Jobs
        BY ConstantsAssumption DEF Events
      <3> QED
        BY <2>1, <2>5, <3>1, <3>2 DEF Ends, Origin, Processing
    <2>6. CASE Stays(i)
      <3>1. inv[i].event \in Docs \/ inv[i].event \in Jobs
        BY <2>6 DEF IInv, TypeOK, Stays, Events
      <3>2. NoJob \notin Jobs
        BY ConstantsAssumption DEF Events
      <3>3. inv'[i].event \in Jobs /\ inv'[i].doc \in Docs => rec'[inv'[i].doc].job # NoJob
        BY <1>1, <2>1, <2>6, <3>2 DEF Stays, Origin
      <3> DEFINE v == inv[i]
                 w == inv'[i]
      <3>4. /\ w.pc # "idle" /\ w.event = v.event
            /\ w.doc = v.doc \/ v.event \in Jobs
            /\ (w.ctx = "api") <=> (v.ctx = "api")
            /\ w.ctx = "textract" => v.ctx = "textract" \/ v.identity
            /\ w.identity => v.identity \/ (v.pc \in Processing /\ Is(v.doc, "identity"))
            /\ w.pc = "record" => w.job \in Jobs
            /\ w.pc \in Processing => v.pc \in Processing \/ v.ctx = "textract"
        BY <2>6 DEF Stays
      <3>5. /\ v.event \in Docs => v.doc = v.event
            /\ v.pc \in Processing => v.event \in Docs /\ v.ctx # "api"
            /\ v.ctx = "api" => v.event \in Docs
            /\ v.identity \/ v.ctx = "textract" => v.event \in Docs /\ Is(v.doc, "identity")
        BY <2>1 DEF Origin
      <3> HIDE DEF v, w
      <3>6. /\ w.event \in Docs => w.doc = w.event
            /\ w.pc \in Processing => w.event \in Docs /\ w.ctx # "api"
            /\ w.ctx = "api" => w.event \in Docs
            /\ w.identity \/ w.ctx = "textract" => w.event \in Docs /\ Is(w.doc, "identity")
        BY <2>1, <3>4, <3>5
      <3> QED
        BY <3>3, <3>4, <3>6 DEF Origin, v, w
    <2>7. Lambda(i) => \/ \E d \in Docs : Receive(i, d) \/ UploadFails(i, d) \/ WaitTimesOut(i, d)
                       \/ \E j \in Jobs : ReceiveResult(i, j)
                       \/ Runs(i)
      BY DEF Lambda, Runs
    <2> QED
      BY <1>3, <2>1, <2>2, <2>3, <2>4, <2>5, <2>6, <2>7, RunFlows
  <1>4. ASSUME NEW i \in Invs, Lambda(i), NEW k \in Invs PROVE Origin(inv[k])'
    <2>1. k # i => inv'[k] = inv[k]
      BY <1>4, LambdaMoves DEF Moves
    <2> QED
      BY <1>2, <1>3, <1>4, <2>1
  <1> QED
    BY <1>2, <1>4, OthersRest DEF OriginOK

\* The reaper visits documents that have grown old.
AgedOK ==
    /\ \A d \in Docs : aged[d] => Is(d, "slow")
    /\ \A row \in reaper.todo : aged[row.doc]
    /\ reaper.owes # NoDoc => aged[reaper.owes]

\* An invocation leaves the schedule and the clients alone.
LEMMA LambdaAside ==
    ASSUME NEW i \in Invs, Lambda(i) PROVE UNCHANGED <<aged, reaper, deleting>>
  BY DEF Lambda, Advance, Receive, ReceiveResult, UploadFails, WaitTimesOut, Throttled,
         Raise, Crash, Gate, PreCredit, Upsert, FinalizeGate, Reread, Dispatch, Claim,
         Extract, BdaPath, Invoke, RecordJob, Handler, WriteTerminal, WriteV1, Credit,
         MethodResponse

\* Every action keeps the reaper to old documents.
LEMMA AgedStep == ASSUME IInv, PublishedOK, AgedOK, [Next]_vars PROVE AgedOK'
  <1>1. /\ \A d \in Docs : aged[d] => aged'[d]
        /\ \A row \in reaper'.todo : aged'[row.doc]
    BY AgeingAndDeleting
  <1>2. \A d \in Docs : aged'[d] => aged[d] \/ Age(d)
    <2>1. ASSUME NEW e \in Docs, Age(e) PROVE \A d \in Docs : aged'[d] => aged[d] \/ d = e
      BY <2>1 DEF Age, IInv, TypeOK
    <2>2. ASSUME \A d \in Docs : ~Age(d) PROVE UNCHANGED aged
      <3>1. ASSUME Reaper \/ ReaperCrash PROVE UNCHANGED aged
        BY <3>1 DEF Reaper, Sweep, Reap, ReaperCredit, ReaperCrash
      <3>2. ASSUME NEW e, \/ Emit(e) \/ EndJob(e) \/ BeginDelete(e) \/ EndDelete(e)
            PROVE  UNCHANGED aged
        BY <3>2 DEF Emit, EndJob, BeginDelete, EndDelete
      <3> QED
        BY <2>2, <3>1, <3>2, LambdaAside DEF Next, vars
    <2> QED
      BY <2>1, <2>2
  <1>3. \A d \in Docs : Age(d) => Is(d, "slow")
    BY DEF Age
  <1>4. reaper'.owes \in {NoDoc, reaper.owes} \/ \E row \in reaper.todo : reaper'.owes = row.doc
    <2>1. ASSUME NEW row \in reaper.todo, Reap(row)
          PROVE  reaper'.owes \in {NoDoc, reaper.owes, row.doc}
      <3>1. \A s : Mark(row, s) => reaper'.owes \in {reaper.owes, row.doc}
        BY DEF Mark, IInv, TypeOK
      <3> QED
        BY <2>1, <3>1 DEF Reap, IInv, TypeOK
    <2>2. ASSUME Sweep \/ ReaperCredit \/ ReaperCrash PROVE reaper'.owes \in {NoDoc, reaper.owes}
      BY <2>2 DEF Sweep, ReaperCredit, ReaperCrash, IInv, TypeOK
    <2>3. ASSUME ~Reaper, ~ReaperCrash PROVE UNCHANGED reaper
      <3>1. ASSUME NEW e, \/ Emit(e) \/ EndJob(e) \/ Age(e) \/ BeginDelete(e) \/ EndDelete(e)
            PROVE  UNCHANGED reaper
        BY <3>1 DEF Emit, EndJob, Age, BeginDelete, EndDelete
      <3> QED
        BY <2>3, <3>1, LambdaAside DEF Next, vars
    <2> QED
      BY <2>1, <2>2, <2>3 DEF Reaper
  <1>5. reaper.owes \in Docs \cup {NoDoc} /\ \A row \in reaper.todo : row.doc \in Docs
    BY DEF IInv, TypeOK
  <1>6. reaper'.owes # NoDoc => aged'[reaper'.owes]
    BY <1>1, <1>4, <1>5 DEF AgedOK
  <1>7. \A d \in Docs : aged'[d] => Is(d, "slow")
    BY <1>2, <1>3 DEF AgedOK
  <1> QED
    BY <1>1, <1>6, <1>7 DEF AgedOK

-----------------------------------------------------------------------------
(* An upload event is in one place at a time *)

\* The invocations that the event has started, but not the API's.
Carriers(d) == {i \in Invs : inv[i].event = d /\ inv[i].ctx # "api"}

\* The event is done with.
HandedOver(d) == queued[d] = 0 /\ Carriers(d) = {} /\ redeliveries[d] < MaxDeliveries

\* The event of a document that is not repeated, which is done with when the
\* record has a job, or when the upload failed.
Once(d) ==
    /\ \A i, k \in Carriers(d) : i = k
    /\ queued[d] <= 1
    /\ queued[d] # 0 => Carriers(d) = {}
    /\ queued[d] # 0 \/ Carriers(d) # {} => redeliveries[d] < MaxDeliveries
    /\ rec[d].job # NoJob => HandedOver(d)
    /\ ~Is(d, "waited") =>
          \A i \in Invs : inv[i].event = d /\ inv[i].ctx = "api" => HandedOver(d)

OnceOK == \A d \in Docs : ~Is(d, "repeated") => Once(d)

\* Steps that leave the event where it is.
LEMMA OnceAside ==
    ASSUME NEW d \in Docs, Once(d),
           queued'[d] = queued[d], redeliveries'[d] = redeliveries[d],
           rec[d].job = rec'[d].job \/ HandedOver(d),
           \A k \in Invs : inv'[k].event = d =>
              inv[k].event = d /\ ((inv'[k].ctx = "api") <=> (inv[k].ctx = "api"))
    PROVE  Once(d)'
  <1>1. Carriers(d)' \subseteq Carriers(d)
    BY DEF Carriers
  <1>2. HandedOver(d) => HandedOver(d)'
    BY <1>1 DEF HandedOver
  <1> QED
    BY <1>1, <1>2 DEF Once

\* The invocation that has the event ends.
LEMMA OnceEnds ==
    ASSUME IInv, NEW d \in Docs, Once(d), NEW i \in Invs, Moves(i), Ends(i), inv[i].event = d,
           \/ rec'[d].job = rec[d].job
           \/ inv[i].ctx # "api" /\ UNCHANGED <<queued, redeliveries>>
    PROVE  Once(d)'
  <1>1. /\ queued \in [Events -> Nat] /\ redeliveries \in [Events -> 0..MaxDeliveries]
        /\ d \in Events /\ MaxDeliveries \in Nat
    BY ConstantsAssumption DEF IInv, TypeOK, Events
  <1>2. inv'[i].event = NoDoc /\ NoDoc # d
    BY ConstantsAssumption DEF Ends, Idle, Events
  <1>3. \A k \in Invs : inv'[k].event = d => k # i /\ inv'[k] = inv[k]
    BY <1>2 DEF Moves
  <1>4. Carriers(d)' \subseteq Carriers(d) \ {i}
    BY <1>3 DEF Carriers
  <1>5. CASE inv[i].ctx = "api"
    <2>1. UNCHANGED <<queued, redeliveries>> /\ rec'[d].job = rec[d].job
      BY <1>5 DEF Ends
    <2> QED
      BY <1>3, <2>1, OnceAside
  <1>6. CASE inv[i].ctx # "api"
    <2>1. i \in Carriers(d)
      BY <1>6 DEF Carriers
    <2>2. /\ queued[d] = 0 /\ redeliveries[d] < MaxDeliveries
          /\ Carriers(d)' = {} /\ rec[d].job = NoJob
      BY <1>4, <2>1 DEF Once, HandedOver
    <2>3. ~Is(d, "waited") => \A k \in Invs : ~(inv'[k].event = d /\ inv'[k].ctx = "api")
      BY <1>3, <2>1 DEF Once, HandedOver
    <2>4. CASE UNCHANGED <<queued, redeliveries>>
      BY <2>2, <2>3, <2>4 DEF Once, HandedOver
    <2>5. CASE /\ rec'[d].job = rec[d].job
               /\ redeliveries[d] > 0
               /\ queued' = [queued EXCEPT ![d] = @ + 1]
               /\ redeliveries' = [redeliveries EXCEPT ![d] = @ - 1]
      <3>1. queued'[d] = 1 /\ redeliveries'[d] < MaxDeliveries
        BY <1>1, <2>2, <2>5
      <3> QED
        BY <2>2, <2>3, <2>5, <3>1 DEF Once
    <2> QED
      BY <2>4, <2>5 DEF Ends
  <1> QED
    BY <1>5, <1>6

\* The steps that start an invocation.
LEMMA OnceStarts ==
    ASSUME IInv, NEW d \in Docs, Once(d), NEW i \in Invs, Moves(i), UNCHANGED rec,
           \/ \E e \in Docs : Receive(i, e) \/ UploadFails(i, e)
           \/ \E e \in Docs : WaitTimesOut(i, e)
           \/ \E j \in Jobs : ReceiveResult(i, j)
    PROVE  Once(d)'
  <1>0. /\ queued \in [Events -> Nat] /\ redeliveries \in [Events -> 0..MaxDeliveries]
        /\ d \in Events /\ MaxDeliveries \in Nat /\ InvsOK /\ d \notin Jobs
    BY ConstantsAssumption DEF IInv, TypeOK, Events
  <1>1. ASSUME inv'[i].event # d, queued'[d] = queued[d], redeliveries'[d] = redeliveries[d]
        PROVE  Once(d)'
    <2>1. \A k \in Invs : inv'[k].event = d => k # i /\ inv'[k] = inv[k]
      BY <1>1 DEF Moves
    <2> QED
      BY <1>1, <2>1, OnceAside
  <1>2. ASSUME NEW e \in Docs, Receive(i, e) PROVE Once(d)'
    <2>1. inv'[i].event = e /\ inv'[i].ctx = "main"
      BY <1>0, <1>2, ReceiveFields
    <2>2. CASE e # d
      BY <1>0, <1>1, <1>2, <2>1, <2>2 DEF Receive
    <2>3. CASE e = d
      <3>1. /\ queued[d] > 0 /\ queued' = [queued EXCEPT ![d] = @ - 1]
            /\ UNCHANGED redeliveries
        BY <1>2, <2>3 DEF Receive
      <3>2. queued[d] # 0 /\ queued[d] = 1 /\ queued'[d] = 0
        BY <1>0, <3>1 DEF Once
      <3>3. Carriers(d) = {} /\ redeliveries[d] < MaxDeliveries
        BY <3>2 DEF Once
      <3>4. rec[d].job = NoJob
        BY <3>2 DEF Once, HandedOver
      <3>5. \A k \in Invs : inv'[k].event = d => k = i \/ inv'[k] = inv[k]
        BY DEF Moves
      <3>6. Carriers(d)' \subseteq {i}
        BY <3>3, <3>5 DEF Carriers
      <3>7. ~Is(d, "waited") => \A k \in Invs : ~(inv'[k].event = d /\ inv'[k].ctx = "api")
        BY <2>1, <3>2, <3>5 DEF Once, HandedOver
      <3> QED
        BY <3>1, <3>2, <3>3, <3>4, <3>6, <3>7 DEF Once
    <2> QED
      BY <2>2, <2>3
  <1>3. ASSUME NEW e \in Docs, UploadFails(i, e) PROVE Once(d)'
    <2>1. inv'[i].event = e /\ inv'[i].ctx = "api"
      BY <1>0, <1>3, ApiFields
    <2>2. CASE e # d
      BY <1>0, <1>1, <1>3, <2>1, <2>2 DEF UploadFails
    <2>3. CASE e = d
      <3>1. /\ redeliveries[d] = MaxDeliveries /\ MaxDeliveries > 0
            /\ redeliveries' = [redeliveries EXCEPT ![d] = 0] /\ UNCHANGED queued
        BY <1>3, <2>3 DEF UploadFails
      <3>2. queued[d] = 0 /\ Carriers(d) = {}
        BY <1>0, <3>1 DEF Once
      <3>3. redeliveries'[d] < MaxDeliveries /\ queued'[d] = 0
        BY <1>0, <3>1, <3>2
      <3>4. Carriers(d)' = {}
        BY <2>1, <3>2 DEF Carriers, Moves
      <3> QED
        BY <3>3, <3>4 DEF Once, HandedOver
    <2> QED
      BY <2>2, <2>3
  <1>4. ASSUME NEW e \in Docs, WaitTimesOut(i, e) PROVE Once(d)'
    <2>1. inv'[i].event = e /\ inv'[i].ctx = "api" /\ UNCHANGED <<queued, redeliveries>>
      BY <1>0, <1>4, ApiFields DEF WaitTimesOut
    <2>2. CASE e # d
      BY <1>1, <2>1, <2>2
    <2>3. CASE e = d
      <3>1. Is(d, "waited")
        BY <1>4, <2>3 DEF WaitTimesOut
      <3>2. Carriers(d)' \subseteq Carriers(d)
        BY <2>1 DEF Carriers, Moves
      <3>3. HandedOver(d) => HandedOver(d)'
        BY <2>1, <3>2 DEF HandedOver
      <3> QED
        BY <2>1, <3>1, <3>2, <3>3 DEF Once
    <2> QED
      BY <2>2, <2>3
  <1>5. ASSUME NEW j \in Jobs, ReceiveResult(i, j) PROVE Once(d)'
    <2>1. inv'[i].event = j
      BY <1>0, <1>5, ResultFields
    <2> QED
      BY <1>0, <1>1, <1>5, <2>1 DEF ReceiveResult
  <1> QED
    BY <1>2, <1>3, <1>4, <1>5

\* The steps that run one.
LEMMA OnceRuns ==
    ASSUME IInv, OriginOK, [Next]_vars, NEW d \in Docs, Once(d), NEW i \in Invs, Moves(i), Runs(i)
    PROVE  Once(d)'
  <1>0. /\ queued \in [Events -> Nat] /\ redeliveries \in [Events -> 0..MaxDeliveries]
        /\ d \in Events /\ d \notin Jobs /\ Origin(inv[i])
    BY ConstantsAssumption DEF IInv, TypeOK, Events, OriginOK
  <1>1. \/ rec'[d].job = rec[d].job
        \/ RecordJob(i) /\ inv[i].doc = d
    <2>1. ASSUME NEW k \in Invs, RecordJob(k), k # i PROVE FALSE
      <3>1. inv[k].pc = "record" /\ inv' = [inv EXCEPT ![k] = Idle] /\ inv'[k] = inv[k]
        BY <2>1 DEF RecordJob, Finish, At, Moves
      <3>2. Idle.pc = "idle" /\ inv \in [Invs -> Invocation]
        BY DEF Idle, IInv, TypeOK
      <3> QED
        BY <3>1, <3>2
    <2> QED
      BY <2>1, JobStays
  <1>2. CASE Stays(i)
    <2>1. ~RecordJob(i)
      <3>1. RecordJob(i) => inv' = [inv EXCEPT ![i] = Idle]
        BY DEF RecordJob, Finish
      <3>2. Idle.pc = "idle" /\ inv \in [Invs -> Invocation]
        BY DEF Idle, IInv, TypeOK
      <3> QED
        BY <1>2, <3>1, <3>2 DEF Stays
    <2>2. \A k \in Invs : inv'[k].event = d =>
             inv[k].event = d /\ ((inv'[k].ctx = "api") <=> (inv[k].ctx = "api"))
      BY <1>2 DEF Stays, Moves
    <2> QED
      BY <1>1, <1>2, <2>1, <2>2, OnceAside DEF Stays
  <1>3. CASE Ends(i)
    <2>1. RecordJob(i) =>
             /\ inv[i].event \in Docs /\ inv[i].doc = inv[i].event
             /\ inv[i].ctx # "api" /\ UNCHANGED <<queued, redeliveries>>
      BY <1>0 DEF RecordJob, At, Finish, Origin, Processing
    <2>2. CASE inv[i].event = d
      BY <1>1, <1>3, <2>1, <2>2, OnceEnds
    <2>3. CASE inv[i].event # d
      <3>1. rec'[d].job = rec[d].job
        BY <1>1, <2>1, <2>3
      <3>2. inv[i].event \in Events
        BY <1>3 DEF IInv, TypeOK, Ends
      <3>3. queued'[d] = queued[d] /\ redeliveries'[d] = redeliveries[d]
        BY <1>0, <1>3, <2>3, <3>2 DEF Ends
      <3>4. inv'[i].event # d
        BY <1>3, ConstantsAssumption DEF Ends, Idle, Events
      <3>5. \A k \in Invs : inv'[k].event = d => inv'[k] = inv[k]
        BY <3>4 DEF Moves
      <3> QED
        BY <3>1, <3>3, <3>5, OnceAside
    <2> QED
      BY <2>2, <2>3
  <1> QED
    BY <1>0, <1>2, <1>3, RunFlows

\* Every action keeps the event in one place.
LEMMA OnceStep == ASSUME IInv, OriginOK, OnceOK, [Next]_vars PROVE OnceOK'
  <1> SUFFICES ASSUME NEW d \in Docs, ~Is(d, "repeated") PROVE Once(d)'
    BY DEF OnceOK
  <1>0. /\ Once(d) /\ InvsOK
        /\ queued \in [Events -> Nat] /\ redeliveries \in [Events -> 0..MaxDeliveries]
        /\ d \in Events /\ MaxDeliveries \in Nat /\ d \notin Jobs
    BY ConstantsAssumption DEF IInv, TypeOK, Events, OnceOK
  <1>1. ASSUME NEW i \in Invs, Lambda(i) PROVE Once(d)'
    <2>1. Moves(i)
      BY <1>0, <1>1, LambdaMoves
    <2>2. CASE Runs(i)
      BY <1>0, <2>1, <2>2, OnceRuns
    <2>3. CASE \/ \E e \in Docs : Receive(i, e) \/ UploadFails(i, e)
               \/ \E e \in Docs : WaitTimesOut(i, e)
               \/ \E j \in Jobs : ReceiveResult(i, j)
      <3>1. UNCHANGED rec
        BY <2>3 DEF Receive, UploadFails, WaitTimesOut, ReceiveResult
      <3> QED
        BY <1>0, <2>1, <2>3, <3>1, OnceStarts
    <2> QED
      BY <1>1, <2>2, <2>3 DEF Lambda, Runs
  <1>2. ASSUME \A i \in Invs : ~Lambda(i) PROVE UNCHANGED inv /\ rec'[d].job = rec[d].job
    <2>1. \A i \in Invs : RecordJob(i) => Lambda(i)
      BY DEF Lambda, Advance
    <2> QED
      BY <1>2, <2>1, OthersRest, JobStays
  <1>3. ASSUME NEW e \in Events, Emit(e) PROVE Once(d)'
    <2>1. UNCHANGED <<inv, rec>>
      BY <1>3 DEF Emit
    <2>2. CASE e # d
      <3>1. queued'[d] = queued[d] /\ redeliveries'[d] = redeliveries[d]
        BY <1>0, <1>3, <2>2 DEF Emit
      <3> QED
        BY <1>0, <2>1, <3>1, OnceAside
    <2>3. CASE e = d
      <3>1. /\ redeliveries[d] > 0 /\ redeliveries[d] = MaxDeliveries
            /\ queued' = [queued EXCEPT ![d] = @ + 1]
            /\ redeliveries' = [redeliveries EXCEPT ![d] = @ - 1]
        BY <1>0, <1>3, <2>3 DEF Emit, Repeated
      <3>2. queued[d] = 0 /\ Carriers(d) = {}
        BY <1>0, <3>1 DEF Once
      <3>3. ~HandedOver(d)
        BY <1>0, <3>1 DEF HandedOver
      <3>4. queued'[d] = 1 /\ redeliveries'[d] < MaxDeliveries
        BY <1>0, <3>1, <3>2
      <3>5. Carriers(d)' = {} /\ rec'[d].job = NoJob
        BY <1>0, <2>1, <3>2, <3>3 DEF Carriers, Once
      <3>6. ~Is(d, "waited") => \A k \in Invs : ~(inv'[k].event = d /\ inv'[k].ctx = "api")
        BY <1>0, <2>1, <3>3 DEF Once
      <3> QED
        BY <3>4, <3>5, <3>6 DEF Once
    <2> QED
      BY <2>2, <2>3
  <1>4. ASSUME ~(\E e \in Events : Emit(e)), \A i \in Invs : ~Lambda(i)
        PROVE  UNCHANGED <<queued, redeliveries>>
    <2>1. ASSUME Reaper \/ ReaperCrash PROVE UNCHANGED <<queued, redeliveries>>
      BY <2>1 DEF Reaper, Sweep, Reap, ReaperCredit, ReaperCrash
    <2>2. ASSUME NEW e, EndJob(e) \/ Age(e) \/ BeginDelete(e) \/ EndDelete(e)
          PROVE  UNCHANGED <<queued, redeliveries>>
      BY <2>2 DEF EndJob, Age, BeginDelete, EndDelete
    <2> QED
      BY <1>4, <2>1, <2>2 DEF Next, vars
  <1> QED
    BY <1>0, <1>1, <1>2, <1>3, <1>4, OnceAside

-----------------------------------------------------------------------------
(* What an invocation is about to write *)

\* The points at which the chosen status still matters.
Chosen == {"precredit", "upsert", "classify", "v1", "credit"}

\* Only the gate chooses a status that is credited early, and credits it.
\* Nobody chooses "deleted".
Chooses(v) ==
    /\ v.class # "deleted"
    /\ v.pc = "precredit" => v.class \in CreditedEarly
    /\ v.pc = "upsert" => v.class \in PendingExtraction \cup CreditedEarly \cup AllGateVerdicts
    /\ v.pc \in {"classify", "v1", "credit"} => v.class \in Classified \ CreditedEarly

ChoicesOK == \A i \in Invs : Chooses(inv[i])

\* The choices of the handlers and of the code after the claim.
Choices == Classified \ (CreditedEarly \cup {"deleted"})

\* The statuses the code chooses from.
LEMMA Verdicts ==
    /\ {"failed", "success", "conversion_failed"} \subseteq Choices
    /\ AllSkipVerdicts \subseteq Choices
    /\ \A state \in Ended : Verdict(state) \in Choices
    /\ \A class \in Choices : Recorded(class) \in Choices
    /\ \A d \in Docs : Passed(d) \in PendingExtraction
    /\ "deleted" \notin PendingExtraction \cup CreditedEarly \cup AllGateVerdicts
    /\ NoStatus # "deleted"
    /\ PendingExtraction \cap (CreditedEarly \cup AllGateVerdicts) = {}
  BY DEF Choices, Classified, CreditedEarly, AllSkipVerdicts, Verdict, Ended, Output, Recorded,
         Passed, PendingExtraction, AllGateVerdicts, NoStatus

\* An invocation that starts, ends or chooses nothing.
LEMMA ChoosesNothing ==
    ASSUME NEW i \in Invs, Chooses(inv[i]),
           inv'[i].class \in {inv[i].class, NoStatus}, inv'[i].pc \notin Chosen
    PROVE  Chooses(inv'[i])
  BY Verdicts DEF Chooses, Chosen

\* A classification begins with one of the handlers' choices.
LEMMA ChoosesWell ==
    ASSUME NEW i \in Invs, inv'[i].pc = "classify", inv'[i].class \in Choices
    PROVE  Chooses(inv'[i])
  BY DEF Chooses, Choices

\* The helpers of the control flow keep the choice in order: the ends,
LEMMA EndsChoosing ==
    ASSUME InvsOK, NEW i \in Invs, Chooses(inv[i]), Finish(i) \/ Fail(i)
    PROVE  Chooses(inv'[i])
  <1>1. inv'[i] = Idle
    BY DEF Finish, Fail, InvsOK
  <1> QED
    BY <1>1, ChoosesNothing DEF Idle, Chosen

\* a step to where no choice matters,
LEMMA GotoChoosing ==
    ASSUME InvsOK, NEW i \in Invs, Chooses(inv[i]), NEW pc \in PCs \ Chosen, Goto(i, pc)
    PROVE  Chooses(inv'[i])
  <1>1. inv'[i].pc = pc /\ inv'[i].class = inv[i].class
    BY DEF Goto, InvsOK, Invocation
  <1> QED
    BY <1>1, ChoosesNothing

\* a classification that begins,
LEMMA ClassifyChoosing ==
    ASSUME InvsOK, NEW i \in Invs, NEW class \in Choices, Classify(i, class)
    PROVE  Chooses(inv'[i])
  <1>1. inv'[i].pc = "classify" /\ inv'[i].class = class
    BY DEF Classify, InvsOK, Invocation
  <1> QED
    BY <1>1, ChoosesWell

\* the handler,
LEMMA EnterHandlerChoosing ==
    ASSUME InvsOK, NEW i \in Invs, Chooses(inv[i]), EnterHandler(i)
    PROVE  Chooses(inv'[i])
  <1>1. inv'[i].pc = "handler" /\ inv'[i].class = inv[i].class
    BY DEF EnterHandler, InvsOK, Invocation
  <1> QED
    BY <1>1, ChoosesNothing DEF Chosen

\* the return from a terminal write,
LEMMA ReturnChoosing ==
    ASSUME InvsOK, NEW i \in Invs, Chooses(inv[i]), Return(i)
    PROVE  Chooses(inv'[i])
  BY EndsChoosing, EnterHandlerChoosing DEF Return

\* and an exception.
LEMMA ThrowChoosing ==
    ASSUME InvsOK, NEW i \in Invs, Chooses(inv[i]), Throw(i)
    PROVE  Chooses(inv'[i])
  <1>1. CASE inv' = [inv EXCEPT ![i].pc = "bda", ![i].ctx = "main"]
    <2>1. inv'[i].pc = "bda" /\ inv'[i].class = inv[i].class
      BY <1>1 DEF InvsOK, Invocation
    <2> QED
      BY <2>1, ChoosesNothing DEF Chosen
  <1> QED
    BY <1>1, EndsChoosing, EnterHandlerChoosing DEF Throw

\* The gate and the two steps that follow it.
LEMMA GateChooses ==
    ASSUME InvsOK, NEW i \in Invs, Chooses(inv[i]), Gate(i) \/ PreCredit(i)
    PROVE  Chooses(inv'[i])
  <1>0. inv[i] \in Invocation
    BY DEF InvsOK
  <1>1. CASE \E c \in BOOLEAN, id \in BOOLEAN :
                 inv' = [inv EXCEPT ![i].pc = "upsert", ![i].class = Passed(inv[i].doc),
                                    ![i].categorized = c, ![i].identity = id]
    <2>1. inv'[i].pc = "upsert" /\ inv'[i].class = Passed(inv[i].doc)
      BY <1>0, <1>1 DEF InvsOK, Invocation
    <2>2. Passed(inv[i].doc) \in PendingExtraction
      BY DEF Passed, PendingExtraction
    <2> QED
      BY <2>1, <2>2, Verdicts DEF Chooses
  <1>2. ASSUME NEW v \in {"password_protected"} \cup GateVerdicts,
               inv' = [inv EXCEPT ![i].class = v, ![i].categorized = v \in Preclassified,
                         ![i].pc = IF v \in CreditedEarly THEN "precredit" ELSE "upsert"]
        PROVE  Chooses(inv'[i])
    <2> DEFINE pc == IF v \in CreditedEarly THEN "precredit" ELSE "upsert"
               c == v \in Preclassified
    <2>1. pc \in {"upsert", "precredit"} /\ (pc = "precredit" => v \in CreditedEarly)
      OBVIOUS
    <2>2. inv' = [inv EXCEPT ![i].class = v, ![i].categorized = c, ![i].pc = pc]
      BY <1>2
    <2> HIDE DEF pc, c
    <2>3. inv'[i].pc = pc /\ inv'[i].class = v
      BY <1>0, <2>2 DEF InvsOK, Invocation
    <2>4. v \in CreditedEarly \cup AllGateVerdicts
      BY ConstantsAssumption DEF CreditedEarly
    <2> QED
      BY <2>1, <2>3, <2>4, Verdicts DEF Chooses
  <1>3. CASE PreCredit(i)
    <2>1. inv[i].pc = "precredit" /\ inv'[i].pc = "upsert" /\ inv'[i].class = inv[i].class
      BY <1>0, <1>3 DEF PreCredit, At, Goto, InvsOK, Invocation
    <2> QED
      BY <2>1 DEF Chooses
  <1>4. CASE Gate(i)
    BY <1>1, <1>2, <1>4 DEF Gate
  <1> QED
    BY <1>3, <1>4

\* The other steps of the document processor.
LEMMA ProcessorChooses ==
    ASSUME InvsOK, NEW i \in Invs, Chooses(inv[i]),
           \/ Upsert(i) \/ FinalizeGate(i) \/ Reread(i) \/ Dispatch(i) \/ Claim(i)
           \/ Extract(i) \/ BdaPath(i) \/ (\E j \in Jobs : Invoke(i, j)) \/ RecordJob(i)
           \/ Throttled(i)
    PROVE  Chooses(inv'[i])
  <1>0. inv[i] \in Invocation
    BY DEF InvsOK
  <1>1. CASE Upsert(i) \/ FinalizeGate(i)
    <2>1. Goto(i, "reread") \/ Goto(i, "finalize")
      BY <1>1 DEF Upsert, FinalizeGate
    <2> QED
      BY <2>1, GotoChoosing DEF PCs, Chosen
  <1>2. CASE Reread(i)
    <2>1. inv'[i].pc = "dispatch" /\ inv'[i].class = inv[i].class
      BY <1>0, <1>2 DEF Reread, InvsOK, Invocation
    <2> QED
      BY <2>1, ChoosesNothing DEF Chosen
  <1>3. CASE Dispatch(i) \/ Claim(i)
    <2>1. Finish(i) \/ Classify(i, "failed") \/ Goto(i, "claim") \/ Goto(i, "extract")
      BY <1>3 DEF Dispatch, Claim
    <2> QED
      BY <2>1, EndsChoosing, ClassifyChoosing, GotoChoosing, Verdicts DEF PCs, Chosen
  <1>4. CASE Extract(i)
    <2>1. CASE inv' = [inv EXCEPT ![i].pc = "classify", ![i].class = "success",
                                  ![i].ctx = "textract"]
      <3>1. inv'[i].pc = "classify" /\ inv'[i].class = "success"
        BY <1>0, <2>1 DEF InvsOK, Invocation
      <3> QED
        BY <3>1, ChoosesWell, Verdicts
    <2>2. CASE Goto(i, "bda")
      BY <2>2, GotoChoosing DEF PCs, Chosen
    <2> QED
      BY <1>4, <2>1, <2>2 DEF Extract
  <1>5. CASE BdaPath(i)
    <2>1. CASE Goto(i, "invoke")
      BY <2>1, GotoChoosing DEF PCs, Chosen
    <2>2. ASSUME NEW v \in SkipVerdicts, Classify(i, v) PROVE Chooses(inv'[i])
      <3>1. v \in Choices
        BY Verdicts, ConstantsAssumption
      <3> QED
        BY <2>2, <3>1, ClassifyChoosing
    <2> QED
      BY <1>5, <2>1, <2>2 DEF BdaPath
  <1>6. CASE \E j \in Jobs : Invoke(i, j)
    <2>1. PICK j \in Jobs : inv' = [inv EXCEPT ![i].pc = "record", ![i].job = j]
      BY <1>6 DEF Invoke
    <2>2. inv'[i].pc = "record" /\ inv'[i].class = inv[i].class
      BY <1>0, <2>1 DEF InvsOK, Invocation
    <2> QED
      BY <2>2, ChoosesNothing DEF Chosen
  <1>7. CASE RecordJob(i)
    BY <1>7, EndsChoosing DEF RecordJob
  <1>8. CASE Throttled(i)
    <2>1. CASE inv' = [inv EXCEPT ![i].pc = "invoke", ![i].attempts = @ + 1]
      <3>1. inv'[i].pc = "invoke" /\ inv'[i].class = inv[i].class
        BY <1>0, <2>1 DEF InvsOK, Invocation
      <3> QED
        BY <3>1, ChoosesNothing DEF Chosen
    <2>2. CASE inv' = [inv EXCEPT ![i].pc = "classify", ![i].class = "failed",
                                  ![i].ctx = "giveup"]
      <3>1. inv'[i].pc = "classify" /\ inv'[i].class = "failed"
        BY <1>0, <2>2 DEF InvsOK, Invocation
      <3> QED
        BY <3>1, ChoosesWell, Verdicts
    <2> QED
      BY <1>8, <2>1, <2>2 DEF Throttled
  <1> QED
    BY <1>1, <1>2, <1>3, <1>4, <1>5, <1>6, <1>7, <1>8

\* The terminal writes, the handlers and what interrupts an invocation.
LEMMA WriterChooses ==
    ASSUME InvsOK, NEW i \in Invs, Chooses(inv[i]),
           \/ Handler(i) \/ WriteTerminal(i) \/ WriteV1(i) \/ Credit(i) \/ MethodResponse(i)
           \/ Raise(i) \/ Crash(i)
    PROVE  Chooses(inv'[i])
  <1>0. inv[i] \in Invocation
    BY DEF InvsOK
  <1>1. CASE Handler(i)
    <2>1. ASSUME NEW d \in Docs,
                 inv' = [inv EXCEPT ![i].pc = "classify", ![i].doc = d, ![i].class = "failed"]
          PROVE  Chooses(inv'[i])
      <3>1. inv'[i].pc = "classify" /\ inv'[i].class = "failed"
        BY <1>0, <2>1 DEF InvsOK, Invocation
      <3> QED
        BY <3>1, ChoosesWell, Verdicts
    <2> QED
      BY <1>1, <2>1, EndsChoosing, ClassifyChoosing, Verdicts DEF Handler
  <1>2. ASSUME NEW pc \in {"v1", "credit"}, Goto(i, pc), inv[i].pc \in {"classify", "v1"}
        PROVE  Chooses(inv'[i])
    <2>1. inv'[i].pc = pc /\ inv'[i].class = inv[i].class
      BY <1>0, <1>2 DEF Goto, InvsOK, Invocation
    <2> QED
      BY <1>2, <2>1 DEF Chooses
  <1>3. CASE WriteTerminal(i) \/ WriteV1(i)
    <2>1. \/ Return(i)
          \/ \E pc \in {"v1", "credit"} : Goto(i, pc) /\ inv[i].pc \in {"classify", "v1"}
      BY <1>3 DEF WriteTerminal, WriteV1, Skip, At
    <2> QED
      BY <1>2, <2>1, ReturnChoosing
  <1>4. CASE Credit(i) \/ MethodResponse(i) \/ Raise(i) \/ Crash(i)
    <2>1. Goto(i, "method") \/ Return(i) \/ Throw(i) \/ Fail(i)
      BY <1>4 DEF Credit, MethodResponse, Raise, Crash
    <2> QED
      BY <2>1, GotoChoosing, ReturnChoosing, ThrowChoosing, EndsChoosing DEF PCs, Chosen
  <1> QED
    BY <1>1, <1>3, <1>4

\* An invocation that starts.
LEMMA StartChooses ==
    ASSUME InvsOK, job \in [Jobs -> [state : {"free", "running"} \cup Ended,
                                     doc : Docs \cup {NoDoc}]],
           NEW i \in Invs,
           \/ \E d \in Docs : Receive(i, d) \/ UploadFails(i, d) \/ WaitTimesOut(i, d)
           \/ \E j \in Jobs : ReceiveResult(i, j)
    PROVE  Chooses(inv'[i])
  <1>1. ASSUME NEW w, inv' = [inv EXCEPT ![i] = w], Chooses(w) PROVE Chooses(inv'[i])
    BY <1>1 DEF InvsOK
  <1>2. ASSUME NEW d \in Docs, Receive(i, d) PROVE Chooses(inv'[i])
    <2> DEFINE pc == IF NeedsPreclassification(rec[d]) THEN "gate" ELSE "dispatch"
               w == [Idle EXCEPT !.pc = pc, !.event = d, !.doc = d, !.seen = rec[d].status]
    <2>1. inv' = [inv EXCEPT ![i] = w]
      BY <1>2 DEF Receive
    <2>2. w.pc \notin Chosen /\ w.class = NoStatus
      BY DEF Idle, Chosen
    <2> HIDE DEF w
    <2> QED
      BY <1>1, <2>1, <2>2, Verdicts DEF Chooses, Chosen
  <1>3. ASSUME NEW d \in Docs, UploadFails(i, d) \/ WaitTimesOut(i, d) PROVE Chooses(inv'[i])
    <2>1. PICK class \in {"conversion_failed", "failed"} :
             inv' = [inv EXCEPT ![i] = [Idle EXCEPT !.pc = "classify", !.event = d,
                                          !.doc = d, !.class = class, !.ctx = "api"]]
      BY <1>3 DEF UploadFails, WaitTimesOut
    <2>2. inv'[i].pc = "classify" /\ inv'[i].class = class
      BY <2>1 DEF InvsOK, Idle
    <2> QED
      BY <2>2, ChoosesWell, Verdicts
  <1>4. ASSUME NEW j \in Jobs, ReceiveResult(i, j) PROVE Chooses(inv'[i])
    <2>1. Chooses([[Idle EXCEPT !.event = j] EXCEPT !.pc = "handler", !.ctx = "handler"])
      BY Verdicts DEF Idle, Chooses
    <2>2. \A d \in Docs : Chooses([[Idle EXCEPT !.event = j] EXCEPT
                                      !.pc = "handler", !.ctx = "handler", !.doc = d])
      BY Verdicts DEF Idle, Chooses
    <2>3. \A d \in Docs, class \in Choices :
             Chooses([[Idle EXCEPT !.event = j] EXCEPT !.pc = "classify", !.doc = d,
                                                       !.class = class])
      BY DEF Idle, Chooses, Choices
    <2>4. Verdict(job[j].state) \in Choices
      BY DEF Verdict, Choices, Classified, CreditedEarly
    <2> HIDE DEF Chooses
    <2> QED
      BY <1>1, <1>4, <2>1, <2>2, <2>3, <2>4 DEF ReceiveResult
  <1> QED
    BY <1>2, <1>3, <1>4

\* Every action keeps the choices in order.
LEMMA ChoicesStep == ASSUME IInv, ChoicesOK, [Next]_vars PROVE ChoicesOK'
  <1>0. InvsOK /\ job \in [Jobs -> [state : {"free", "running"} \cup Ended,
                                    doc : Docs \cup {NoDoc}]]
    BY DEF IInv, TypeOK
  <1>1. ASSUME NEW i \in Invs, Lambda(i) PROVE Chooses(inv'[i])
    BY <1>0, <1>1, GateChooses, ProcessorChooses, WriterChooses, StartChooses
       DEF ChoicesOK, Lambda, Advance
  <1>2. ASSUME NEW i \in Invs, Lambda(i), NEW k \in Invs PROVE Chooses(inv'[k])
    <2>1. k # i => inv'[k] = inv[k]
      BY <1>2, LambdaMoves DEF Moves
    <2> QED
      BY <1>1, <1>2, <2>1 DEF ChoicesOK
  <1> QED
    BY <1>2, OthersRest DEF ChoicesOK

-----------------------------------------------------------------------------
(* One invocation at a time has a document *)

\* Whoever carries the event of a document that was delivered once, and whose
\* client waits for nothing, is the only one at work on it.
LEMMA OnlyOne ==
    ASSUME IInv, OriginOK, OnceOK, NEW d \in Docs, ~Is(d, "repeated"), ~Is(d, "waited"),
           NEW i \in Carriers(d), NEW k \in Invs, inv[k].doc = d
    PROVE  k = i
  <1>1. Once(d) /\ Origin(inv[k]) /\ i \in Invs
    BY DEF OnceOK, OriginOK, Carriers
  <1>2. ~HandedOver(d)
    BY DEF HandedOver
  <1>3. rec[d].job = NoJob
    BY <1>1, <1>2 DEF Once
  <1>4. inv[k].pc # "idle"
    BY <1>1, ConstantsAssumption DEF Origin, Idle, Events
  <1>5. inv[k].event \in Docs \cup Jobs
    BY <1>4 DEF IInv, TypeOK, Events
  <1>6. inv[k].event = d
    BY <1>1, <1>3, <1>5 DEF Origin
  <1>7. inv[k].ctx # "api"
    BY <1>1, <1>2, <1>6 DEF Once
  <1> QED
    BY <1>1, <1>6, <1>7 DEF Once, Carriers

\* What a processor holds, its event has brought.
LEMMA ProcessorCarries ==
    ASSUME OriginOK, NEW i \in Invs, inv[i].pc \in Processing, NEW d \in Docs, inv[i].doc = d
    PROVE  i \in Carriers(d)
  BY DEF OriginOK, Origin, Carriers

-----------------------------------------------------------------------------
(* The status of a document that one invocation at a time has *)

\* Who writes the status, and what.
Writes(i, d) ==
    /\ inv[i].doc = d
    /\ \/ Upsert(i) /\ rec'[d].status = inv[i].class
       \/ Claim(i) /\ rec[d].status = inv[i].seen /\ rec'[d].status = "started"
       \/ RecordJob(i) /\ rec'[d].status = "started"
       \/ /\ WriteTerminal(i) /\ Goto(i, "v1")
          /\ MayBecomeTerminal(rec[d].status)
          /\ rec'[d].status = Recorded(inv[i].class)

\* The status of a document is written by the invocation that has it, by the
\* reaper once it is old, or by DELETE.
LEMMA StatusWriters ==
    ASSUME IInv, AgedOK, [Next]_vars, NEW d \in Docs
    PROVE  \/ rec'[d].status = rec[d].status
           \/ \E i \in Invs : Writes(i, d)
           \/ aged[d]
           \/ EndDelete(d) /\ rec'[d].status = "deleted"
  <1> DEFINE Same == rec'[d].status = rec[d].status
             Written == \E i \in Invs : Writes(i, d)
  <1>0. rec \in [Docs -> Record]
    BY DEF IInv, TypeOK
  <1>1. CASE UNCHANGED rec
    BY <1>1
  <1>2. ASSUME NEW i \in Invs, Upsert(i) PROVE Same \/ Written
    <2>1. CASE inv[i].doc = d
      <3>1. rec'[d].status = inv[i].class
        BY <1>0, <1>2, <2>1 DEF Upsert, Record
      <3> QED
        BY <1>2, <2>1, <3>1 DEF Writes
    <2>2. CASE inv[i].doc # d
      BY <1>0, <1>2, <2>2 DEF Upsert
    <2> QED
      BY <2>1, <2>2
  <1>3. ASSUME NEW i \in Invs, FinalizeGate(i) \/ WriteV1(i) PROVE Same
    BY <1>0, <1>3 DEF FinalizeGate, WriteV1, Record
  <1>4. ASSUME NEW i \in Invs, Claim(i) PROVE Same \/ Written
    <2>1. CASE inv[i].doc = d
      BY <1>0, <1>4, <2>1 DEF Claim, ClaimHolds, Record, Writes
    <2>2. CASE inv[i].doc # d
      BY <1>0, <1>4, <2>2 DEF Claim
    <2> QED
      BY <2>1, <2>2
  <1>5. ASSUME NEW i \in Invs, RecordJob(i) PROVE Same \/ Written
    <2>1. CASE inv[i].doc = d
      BY <1>0, <1>5, <2>1 DEF RecordJob, Record, Writes
    <2>2. CASE inv[i].doc # d
      BY <1>0, <1>5, <2>2 DEF RecordJob
    <2> QED
      BY <2>1, <2>2
  <1>6. ASSUME NEW i \in Invs, WriteTerminal(i) PROVE Same \/ Written
    <2>1. CASE inv[i].doc = d
      BY <1>0, <1>6, <2>1 DEF WriteTerminal, Record, Writes
    <2>2. CASE inv[i].doc # d
      BY <1>0, <1>6, <2>2 DEF WriteTerminal
    <2> QED
      BY <2>1, <2>2
  <1>7. ASSUME NEW row \in reaper.todo, Reap(row) PROVE Same \/ aged[d]
    <2>1. aged[row.doc] /\ row.doc \in Docs
      BY DEF AgedOK, IInv, TypeOK
    <2>2. \A s : Mark(row, s) => row.doc = d \/ rec'[d] = rec[d]
      BY <2>1 DEF Mark, IInv, TypeOK
    <2>. QED
      BY <1>7, <2>1, <2>2 DEF Reap
  <1>8. ASSUME NEW e \in Docs, EndDelete(e)
        PROVE  Same \/ (EndDelete(d) /\ rec'[d].status = "deleted")
    <2>1. CASE e = d
      <3>1. rec'[d].status = "deleted" \/ UNCHANGED rec
        BY <1>0, <1>8, <2>1 DEF EndDelete, Record
      <3> QED
        BY <1>8, <2>1, <3>1
    <2>2. CASE e # d
      BY <1>0, <1>8, <2>2 DEF EndDelete
    <2> QED
      BY <2>1, <2>2
  <1>9. ASSUME NEW i \in Invs, Lambda(i) PROVE Same \/ Written
    <2> HIDE DEF Written
    <2> QED
      BY <1>1, <1>2, <1>3, <1>4, <1>5, <1>6, <1>9
         DEF Lambda, Advance, Receive, ReceiveResult, UploadFails, WaitTimesOut, Throttled,
             Raise, Crash, Gate, PreCredit, Reread, Dispatch, Extract, BdaPath, Invoke,
             Handler, Credit, MethodResponse
  <1> HIDE DEF Written
  <1>10. Same \/ Written \/ aged[d] \/ (EndDelete(d) /\ rec'[d].status = "deleted")
    BY <1>1, <1>7, <1>8, <1>9
       DEF Next, Reaper, Emit, EndJob, Sweep, ReaperCredit, ReaperCrash, Age, BeginDelete, vars
  <1>. QED
    BY <1>10 DEF Written

Waiting == {NoStatus} \cup (NonTerminal \ {"started"})

\* A document that one invocation at a time may classify.  Without the map of
\* an extraction comparison, Textract's result would not keep BDA away.
Steady(d) ==
    /\ ~Is(d, "repeated") /\ ~Is(d, "waited") /\ ~aged[d]
    /\ Is(d, "identity") => Is(d, "compare") /\ faults = 0

\* Its status follows the invocation that has it.
InStep(d) ==
    /\ \A i \in Carriers(d) :
          /\ inv[i].pc \in Opening => rec[d].status \in Waiting
          /\ inv[i].pc \in Extracting => rec[d].status = "started"
    /\ \A i \in Invs : inv[i].doc = d /\ inv[i].pc \in Owing => rec[d].status \in Classified
    /\ d \in deleting => rec[d].status \in Classified \ {"deleted"}

StatusOK == \A d \in Docs : Steady(d) => InStep(d)

\* The sets of statuses and of points that the invariant tells apart.
LEMMA StatusSets ==
    /\ Waiting \cap Classified = {} /\ "started" \notin Classified \cup Waiting
    /\ Open \cap Classified = {} /\ "deleted" \in Classified
    /\ {NoStatus} \cup AwaitingProcessing \subseteq Waiting
    /\ Opening \cap Owing = {} /\ Extracting \cap Owing = {} /\ Opening \cap Extracting = {}
    /\ Opening \cup Extracting \subseteq Processing
    /\ {"idle", "v1", "reread", "finalize"} \cap (Opening \cup Extracting) = {}
    /\ {"idle", "extract", "reread", "finalize"} \cap Owing = {}
    /\ Choices \subseteq Classified \ {"deleted"}
  BY DEF Waiting, NonTerminal, Classified, Open, PendingExtraction, AwaitingProcessing, NoStatus,
         Opening, Extracting, Owing, Processing, Choices

\* Two steps of an invocation lead to an increment.
LEMMA OwingEntered ==
    ASSUME IInv, NEW i \in Invs, Lambda(i), inv'[i].pc \in Owing
    PROVE  /\ inv'[i].doc = inv[i].doc
           /\ \/ WriteV1(i) /\ inv[i].pc \in Owing
              \/ WriteTerminal(i) /\ Goto(i, "v1") /\ MayBecomeTerminal(rec[inv[i].doc].status)
  <1>0. InvsOK /\ ~Frees(i)
    BY DEF IInv, Frees
  <1>1. ASSUME Handler(i) PROVE FALSE
    <2>1. ASSUME NEW d \in Docs,
                 inv' = [inv EXCEPT ![i].pc = "classify", ![i].doc = d, ![i].class = "failed"]
          PROVE  inv'[i].pc = "classify"
      BY <1>0, <2>1 DEF InvsOK, Invocation
    <2>. QED
      BY <1>0, <1>1, <2>1, ClassifyFrees, EndsFree DEF Handler, Owing
  <1>2. ASSUME \/ \E d \in Docs : UploadFails(i, d) \/ WaitTimesOut(i, d)
               \/ \E j \in Jobs : ReceiveResult(i, j)
        PROVE  FALSE
    BY <1>0, <1>2, ApiFields, ResultFields DEF Owing
  <1>3. ASSUME Credit(i) \/ MethodResponse(i) \/ Raise(i) \/ Crash(i) PROVE FALSE
    <2>1. Goto(i, "method") \/ Return(i) \/ Throw(i) \/ Fail(i)
      BY <1>3 DEF Credit, MethodResponse, Raise, Crash
    <2> QED
      BY <1>0, <2>1, GotoMoves, ReturnFrees, ThrowFrees, EndsFree DEF PCs, Owing
  <1>4. CASE WriteV1(i)
    <2>1. inv'[i].doc = inv[i].doc /\ inv[i].pc = "v1"
      BY <1>0, <1>4, GotoMoves DEF WriteV1, PCs, At
    <2> QED
      BY <1>4, <2>1 DEF Owing
  <1>5. CASE WriteTerminal(i)
    <2>1. Goto(i, "v1") /\ MayBecomeTerminal(rec[inv[i].doc].status)
      BY <1>0, <1>5, ReturnFrees DEF WriteTerminal, Skip
    <2> QED
      BY <1>0, <1>5, <2>1, GotoMoves DEF PCs
  <1> QED
    BY <1>0, <1>1, <1>2, <1>3, <1>4, <1>5, ProcessorFrees DEF Lambda, Advance

\* A claim that is granted leads to the extraction.
LEMMA ClaimEntered ==
    ASSUME IInv, NEW i \in Invs, Runs(i), inv[i].pc = "claim", inv'[i].pc \in Extracting,
           NEW d \in Docs, inv[i].doc = d
    PROVE  rec'[d].status = "started" \/ (inv[i].ctx = "textract" /\ faults' # 0)
  <1>0. InvsOK /\ rec \in [Docs -> Record] /\ faults \in Nat
    BY ConstantsAssumption DEF IInv, TypeOK
  <1>1. CASE Claim(i)
    <2>1. ~Finish(i)
      BY <1>0 DEF Finish, InvsOK, Idle, Extracting
    <2> QED
      BY <1>0, <1>1, <2>1 DEF Claim, Record
  <1>2. CASE Raise(i)
    <2>1. Throw(i) /\ faults' # 0
      BY <1>0, <1>2 DEF Raise, Fault
    <2>2. ~EnterHandler(i) /\ ~Fail(i)
      BY <1>0 DEF EnterHandler, Fail, InvsOK, Idle, Extracting, Invocation
    <2> QED
      BY <2>1, <2>2 DEF Throw
  <1>3. CASE Crash(i)
    BY <1>0, <1>3 DEF Crash, Fail, InvsOK, Idle, Extracting
  <1>4. ~(Throttled(i) \/ Gate(i) \/ PreCredit(i) \/ Upsert(i) \/ FinalizeGate(i) \/ Reread(i))
    BY DEF Throttled, Gate, PreCredit, Upsert, FinalizeGate, Reread, At
  <1>5. /\ ~(Dispatch(i) \/ Extract(i) \/ BdaPath(i) \/ RecordJob(i) \/ Handler(i))
        /\ \A j \in Jobs : ~Invoke(i, j)
    BY DEF Dispatch, Extract, BdaPath, Invoke, RecordJob, Handler, At
  <1>6. ~(WriteTerminal(i) \/ WriteV1(i) \/ Credit(i) \/ MethodResponse(i))
    BY DEF WriteTerminal, WriteV1, Credit, MethodResponse, At
  <1> QED
    BY <1>1, <1>2, <1>3, <1>4, <1>5, <1>6 DEF Runs, Advance

\* What the rest of the section builds on.
BaseOK == IInv /\ PublishedOK /\ OriginOK /\ AgedOK /\ OnceOK /\ ChoicesOK

\* A document that is steady was steady before.
LEMMA SteadyBefore ==
    ASSUME BaseOK, [Next]_vars, NEW d \in Docs, Steady(d)' PROVE Steady(d)
  <1>1. (aged[d] => aged'[d]) /\ (faults' = 0 => faults = 0)
    BY AgeingAndDeleting DEF BaseOK
  <1> QED
    BY <1>1 DEF Steady, Is

\* DELETE begins on a final status other than its own.
LEMMA DeletingBegins ==
    ASSUME IInv, [Next]_vars, NEW d \in deleting'
    PROVE  d \in deleting \/ rec[d].status \in Classified \ {"deleted"}
  <1>1. ASSUME NEW e \in Docs, BeginDelete(e) \/ EndDelete(e)
        PROVE  d \in deleting \/ rec[d].status \in Classified \ {"deleted"}
    BY <1>1 DEF BeginDelete, EndDelete
  <1>2. ASSUME Reaper \/ ReaperCrash PROVE UNCHANGED deleting
    BY <1>2 DEF Reaper, Sweep, Reap, ReaperCredit, ReaperCrash
  <1>3. ASSUME NEW e, Emit(e) \/ EndJob(e) \/ Age(e) PROVE UNCHANGED deleting
    BY <1>3 DEF Emit, EndJob, Age
  <1> QED
    BY <1>1, <1>2, <1>3, LambdaAside DEF Next, vars

\* An invocation of the document that another one's step leaves alone.
LEMMA Elsewhere ==
    ASSUME IInv, [Next]_vars, NEW i \in Invs, ~Lambda(i) PROVE inv'[i] = inv[i]
  <1>1. ASSUME NEW k \in Invs, Lambda(k) PROVE inv'[i] = inv[i]
    BY <1>1, LambdaMoves DEF Moves
  <1> QED
    BY <1>1, OthersRest

\* Steps that leave the status alone keep the invocations in step with it.
LEMMA InStepAside ==
    ASSUME BaseOK, [Next]_vars, NEW d \in Docs, Steady(d)', InStep(d),
           rec'[d].status = rec[d].status
    PROVE  InStep(d)'
  <1>0. IInv /\ OriginOK /\ InvsOK /\ d \notin Jobs /\ d # NoDoc
    BY ConstantsAssumption DEF BaseOK, IInv, Events
  <1>1. ASSUME NEW i \in Invs, inv'[i].event = d, inv'[i].ctx # "api"
        PROVE  /\ inv'[i].pc \in Opening => rec'[d].status \in Waiting
               /\ inv'[i].pc \in Extracting => rec'[d].status = "started"
    <2>1. CASE ~Lambda(i)
      <3>1. inv'[i] = inv[i]
        BY <1>0, <2>1, Elsewhere
      <3> QED
        BY <1>1, <3>1 DEF InStep, Carriers
    <2>2. ASSUME NEW e \in Docs, Receive(i, e)
          PROVE  /\ inv'[i].pc \in Opening => rec'[d].status \in Waiting
                 /\ inv'[i].pc \notin Extracting
      <3>1. /\ e = d /\ inv'[i].pc \in {"gate", "dispatch"}
            /\ inv'[i].pc = "gate" => NeedsPreclassification(rec[e])
        BY <1>0, <1>1, <2>2, ReceiveFields
      <3>2. NeedsPreclassification(rec[d]) => rec[d].status \in Waiting
        BY StatusSets DEF NeedsPreclassification
      <3> QED
        BY <3>1, <3>2 DEF Opening, Extracting
    <2>3. ASSUME \/ \E e \in Docs : UploadFails(i, e) \/ WaitTimesOut(i, e)
                 \/ \E j \in Jobs : ReceiveResult(i, j)
          PROVE  FALSE
      <3>1. ASSUME NEW e \in Docs, UploadFails(i, e) \/ WaitTimesOut(i, e)
            PROVE  inv'[i].ctx = "api"
        BY <1>0, <3>1, ApiFields
      <3>2. ASSUME NEW j \in Jobs, ReceiveResult(i, j) PROVE inv'[i].event = j
        BY <1>0, <3>2, ResultFields
      <3> QED
        BY <1>0, <1>1, <2>3, <3>1, <3>2
    <2>4. CASE Runs(i)
      <3>1. ~Ends(i)
        BY <1>0, <1>1 DEF Ends, Idle
      <3>2. Stays(i) /\ Origin(inv[i])
        BY <1>0, <2>4, <3>1, RunFlows DEF OriginOK
      <3>3. inv[i].event = d /\ inv[i].ctx # "api" /\ inv[i].doc = d
        BY <1>1, <3>2 DEF Stays, Origin
      <3>4. i \in Carriers(d)
        BY <3>3 DEF Carriers
      <3>5. inv[i].ctx = "textract" => faults' = 0 /\ Is(d, "compare")
        BY <3>2, <3>3 DEF Origin, Steady, Is
      <3>6. inv'[i].pc \in Opening => rec'[d].status \in Waiting
        BY <3>2, <3>4 DEF Stays, InStep
      <3>7. ASSUME inv'[i].pc \in Extracting PROVE rec'[d].status = "started"
        <4>1. inv[i].pc \in Extracting \/ inv[i].pc = "claim"
          BY <3>2, <3>3, <3>5, <3>7 DEF Stays
        <4>2. CASE inv[i].pc \in Extracting
          BY <3>4, <4>2 DEF InStep
        <4>3. CASE inv[i].pc = "claim"
          BY <1>0, <2>4, <3>3, <3>5, <3>7, <4>3, ClaimEntered
        <4> QED
          BY <4>1, <4>2, <4>3
      <3> QED
        BY <3>6, <3>7
    <2> QED
      BY <2>1, <2>2, <2>3, <2>4 DEF Lambda, Runs
  <1>2. ASSUME NEW i \in Invs, inv'[i].doc = d, inv'[i].pc \in Owing
        PROVE  rec'[d].status \in Classified
    <2>1. CASE ~Lambda(i)
      <3>1. inv'[i] = inv[i]
        BY <1>0, <2>1, Elsewhere
      <3> QED
        BY <1>2, <3>1 DEF InStep
    <2>2. CASE Lambda(i)
      <3>1. inv[i].doc = d
        BY <1>0, <1>2, <2>2, OwingEntered
      <3>2. CASE inv[i].pc \in Owing
        BY <3>1, <3>2 DEF InStep
      <3>3. CASE WriteTerminal(i) /\ MayBecomeTerminal(rec[d].status)
        <4>1. rec'[d].status = Recorded(inv[i].class) /\ inv[i].pc = "classify"
          BY <3>1, <3>3 DEF WriteTerminal, At, IInv, TypeOK, Record, BaseOK
        <4>2. inv[i].class \in Choices
          BY <4>1 DEF BaseOK, ChoicesOK, Chooses, Choices
        <4> QED
          BY <4>1, <4>2, Verdicts, StatusSets
      <3> QED
        BY <1>0, <1>2, <2>2, <3>1, <3>2, <3>3, OwingEntered
    <2> QED
      BY <2>1, <2>2
  <1>3. d \in deleting' => rec'[d].status \in Classified \ {"deleted"}
    BY <1>0, DeletingBegins DEF InStep
  <1> QED
    BY <1>1, <1>2, <1>3 DEF InStep, Carriers

\* The writes of the invocation that has the document.
LEMMA InStepWritten ==
    ASSUME BaseOK, [Next]_vars, NEW d \in Docs, Steady(d), InStep(d),
           NEW i \in Invs, Writes(i, d)
    PROVE  /\ InStep(d)'
           /\ Upsert(i) => rec[d].status \in Waiting
           /\ Claim(i) => rec[d].status \in Open
           /\ RecordJob(i) => rec[d].status = "started"
           /\ WriteTerminal(i) => inv[i].class \in Choices
  <1>0. /\ IInv /\ OriginOK /\ OnceOK /\ InvsOK /\ d \notin Jobs /\ d # NoDoc /\ inv[i].doc = d
        /\ ~Is(d, "repeated") /\ ~Is(d, "waited")
    BY ConstantsAssumption DEF BaseOK, IInv, Events, Writes, Steady
  <1>1. Lambda(i) /\ Moves(i)
    <2>1. Lambda(i)
      BY DEF Writes, Lambda, Advance
    <2> QED
      BY <1>0, <2>1, LambdaMoves
  <1>2. d \in deleting' => rec[d].status \in Classified \ {"deleted"}
    BY <1>0, DeletingBegins DEF InStep
  <1>3. ASSUME NEW k \in Carriers(d), inv[k].pc \in Processing PROVE i = k
    BY <1>0, OnlyOne
  <1>4. ASSUME Upsert(i) \/ Claim(i) \/ RecordJob(i)
        PROVE  /\ i \in Carriers(d) /\ \A k \in Invs : inv[k].doc = d => k = i
               /\ inv[i].pc \in Processing
    <2>1. inv[i].pc \in Processing
      BY <1>4 DEF Upsert, Claim, RecordJob, At, Processing
    <2>2. i \in Carriers(d)
      BY <1>0, <2>1, ProcessorCarries
    <2> QED
      BY <1>0, <2>1, <2>2, OnlyOne
  <1>5. ASSUME Upsert(i) \/ Claim(i) \/ RecordJob(i)
        PROVE  /\ \A k \in Carriers(d)' : k = i
               /\ \A k \in Invs : inv'[k].doc = d => k = i
    <2>1. \A k \in Invs \ {i} : inv'[k] = inv[k] /\ inv[k].doc # d
      BY <1>1, <1>4, <1>5 DEF Moves
    <2>2. \A k \in Invs : inv[k].event = d => inv[k].doc = d
      BY <1>0 DEF OriginOK, Origin
    <2> QED
      BY <2>1, <2>2 DEF Carriers
  <1>6. ASSUME Upsert(i) PROVE InStep(d)' /\ rec[d].status \in Waiting
    <2>1. inv'[i].pc \in {"reread", "finalize"}
      BY <1>0, <1>6, GotoMoves DEF Upsert, PCs
    <2>2. rec[d].status \in Waiting
      BY <1>4, <1>6 DEF InStep, Upsert, At, Opening
    <2>3. d \notin deleting'
      BY <1>2, <2>2, StatusSets
    <2> QED
      BY <1>5, <1>6, <2>1, <2>2, <2>3, StatusSets DEF InStep
  <1>7. ASSUME Claim(i) PROVE InStep(d)' /\ rec[d].status \in Open
    <2>1. inv[i].pc = "claim"
      BY <1>7 DEF Claim, At
    <2>2. rec[d].status = inv[i].seen /\ rec'[d].status = "started"
      BY <1>7, <2>1 DEF Writes, Upsert, RecordJob, WriteTerminal, At
    <2>3. rec[d].status \in Open
      BY <1>0, <2>1, <2>2 DEF InvsOK, WellFormed
    <2>4. d \notin deleting'
      BY <1>2, <2>3, StatusSets
    <2>5. inv'[i].pc \in {"extract", "idle"}
      BY <1>0, <1>7, GotoMoves DEF Claim, Finish, InvsOK, Idle, PCs
    <2>6. inv'[i].pc \notin Opening \cup Owing
      BY <2>5, StatusSets DEF Opening
    <2> QED
      BY <1>5, <1>7, <2>2, <2>3, <2>4, <2>6 DEF InStep
  <1>8. ASSUME RecordJob(i) PROVE InStep(d)' /\ rec[d].status = "started"
    <2>1. rec[d].status = "started"
      BY <1>4, <1>8 DEF InStep, RecordJob, At, Extracting
    <2>2. inv'[i].pc = "idle"
      BY <1>0, <1>8 DEF RecordJob, Finish, InvsOK, Idle
    <2>3. d \notin deleting'
      BY <1>2, <2>1, StatusSets
    <2> QED
      BY <1>5, <1>8, <2>1, <2>2, <2>3, StatusSets DEF InStep
  <1>9. ASSUME WriteTerminal(i) PROVE InStep(d)' /\ inv[i].class \in Choices
    <2>1. inv[i].pc = "classify"
      BY <1>9 DEF WriteTerminal, At
    <2>2. inv[i].class \in Choices
      BY <2>1 DEF BaseOK, ChoicesOK, Chooses, Choices
    <2>3. rec'[d].status = Recorded(inv[i].class) /\ Goto(i, "v1")
      BY <1>9, <2>1 DEF Writes, Upsert, RecordJob, Claim, At
    <2>4. rec'[d].status \in Classified \ {"deleted"}
      BY <2>2, <2>3, Verdicts, StatusSets
    <2>5. inv'[i].pc = "v1"
      BY <1>0, <2>3, GotoMoves DEF PCs
    <2>6. ASSUME NEW k \in Carriers(d)', inv'[k].pc \in Opening \cup Extracting PROVE FALSE
      <3>1. k # i /\ k \in Invs
        BY <2>5, <2>6, StatusSets DEF Carriers
      <3>2. k \in Carriers(d) /\ inv[k].pc \in Processing
        BY <1>1, <2>6, <3>1, StatusSets DEF Moves, Carriers
      <3> QED
        BY <1>3, <3>1, <3>2
    <2> QED
      BY <2>2, <2>4, <2>6 DEF InStep
  <1> QED
    BY <1>6, <1>7, <1>8, <1>9 DEF Writes

\* DELETE ends on a status nobody works from.
LEMMA InStepDeleted ==
    ASSUME BaseOK, [Next]_vars, NEW d \in Docs, Steady(d), InStep(d),
           EndDelete(d), rec'[d].status = "deleted"
    PROVE  InStep(d)' /\ rec[d].status \in Classified \ {"deleted"}
  <1>1. d \in deleting /\ d \notin deleting' /\ UNCHANGED inv
    BY DEF EndDelete
  <1>2. rec[d].status \in Classified \ {"deleted"}
    BY <1>1 DEF InStep
  <1>3. \A i \in Carriers(d) : inv[i].pc \notin Opening \cup Extracting
    BY <1>2, StatusSets DEF InStep
  <1> QED
    BY <1>1, <1>2, <1>3, StatusSets DEF InStep, Carriers

\* Every action keeps the status in step with who has the document.
LEMMA StatusStep == ASSUME BaseOK, StatusOK, [Next]_vars PROVE StatusOK'
  <1> SUFFICES ASSUME NEW d \in Docs, Steady(d)' PROVE InStep(d)'
    BY DEF StatusOK
  <1>1. Steady(d) /\ InStep(d) /\ ~aged[d]
    BY SteadyBefore DEF StatusOK, Steady
  <1> QED
    BY <1>1, InStepAside, InStepWritten, InStepDeleted, StatusWriters DEF BaseOK

-----------------------------------------------------------------------------
(* The contract *)

\* A step touches one document's record and history.
Spares(x) == \A e \in Docs \ {x} : rec'[e] = rec[e] /\ hist'[e] = hist[e]

\* An increment touches one history.
LEMMA CountedSpares ==
    ASSUME hist \in [Docs -> History], NEW x, NEW field, hist' = Counted(x, field)
    PROVE  \A e \in Docs \ {x} : hist'[e] = hist[e]
  BY DEF Counted

\* Each action touches one document.
LEMMA OneDocument == ASSUME IInv, [Next]_vars PROVE \E x : Spares(x)
  <1>0. rec \in [Docs -> Record] /\ hist \in [Docs -> History]
    BY DEF IInv, TypeOK
  <1>1. ASSUME UNCHANGED <<rec, hist>> PROVE \E x : Spares(x)
    BY <1>1 DEF Spares
  <1>2. ASSUME NEW i \in Invs, Upsert(i) \/ FinalizeGate(i) \/ RecordJob(i)
        PROVE  Spares(inv[i].doc)
    BY <1>0, <1>2 DEF Upsert, FinalizeGate, RecordJob, Spares
  <1>3. ASSUME NEW i \in Invs, Claim(i) PROVE Spares(inv[i].doc)
    BY <1>0, <1>3 DEF Claim, Spares
  <1>4. ASSUME NEW i \in Invs, WriteTerminal(i) \/ WriteV1(i) PROVE Spares(inv[i].doc)
    BY <1>0, <1>4 DEF WriteTerminal, WriteV1, Spares
  <1>5. ASSUME NEW i \in Invs, PreCredit(i) PROVE Spares(inv[i].doc)
    BY <1>0, <1>5, CountedSpares DEF PreCredit, Spares
  <1>6. ASSUME NEW i \in Invs, Credit(i) PROVE Spares(inv[i].doc)
    BY <1>0, <1>6, CountedSpares DEF Credit, Spares
  <1>7. ASSUME NEW row \in reaper.todo, Reap(row) PROVE Spares(row.doc)
    <2>1. \A s : Mark(row, s) => Spares(row.doc)
      BY <1>0 DEF Mark, Spares
    <2> QED
      BY <1>7, <2>1 DEF Reap, Spares
  <1>8. ASSUME ReaperCredit PROVE Spares(reaper.owes)
    BY <1>0, <1>8, CountedSpares DEF ReaperCredit, Spares
  <1>9. ASSUME NEW e \in Docs, EndDelete(e) PROVE Spares(e)
    BY <1>0, <1>9 DEF EndDelete, Spares
  <1>10. ASSUME NEW i \in Invs, Lambda(i) PROVE \E x : Spares(x)
    <2>1. CASE \/ Gate(i) \/ Reread(i) \/ Dispatch(i) \/ Extract(i) \/ BdaPath(i)
               \/ (\E j \in Jobs : Invoke(i, j)) \/ Handler(i) \/ MethodResponse(i)
               \/ Throttled(i) \/ Raise(i) \/ Crash(i)
      BY <1>1, <2>1 DEF Gate, Reread, Dispatch, Extract, BdaPath, Invoke, Handler,
                        MethodResponse, Throttled, Raise, Crash
    <2>2. CASE \/ \E d \in Docs : Receive(i, d) \/ UploadFails(i, d) \/ WaitTimesOut(i, d)
               \/ \E j \in Jobs : ReceiveResult(i, j)
      BY <1>1, <2>2 DEF Receive, UploadFails, WaitTimesOut, ReceiveResult
    <2> QED
      BY <1>2, <1>3, <1>4, <1>5, <1>6, <1>10, <2>1, <2>2 DEF Lambda, Advance
  <1>11. ASSUME Sweep \/ ReaperCrash \/ UNCHANGED vars PROVE \E x : Spares(x)
    BY <1>1, <1>11 DEF Sweep, ReaperCrash, vars
  <1>12. ASSUME NEW e, Emit(e) \/ EndJob(e) \/ Age(e) \/ BeginDelete(e) PROVE \E x : Spares(x)
    BY <1>1, <1>12 DEF Emit, EndJob, Age, BeginDelete
  <1> QED
    BY <1>7, <1>8, <1>9, <1>10, <1>11, <1>12 DEF Next, Reaper

\* Who makes an increment, and for whom.
LEMMA CreditMakers ==
    ASSUME IInv, AgedOK, [Next]_vars, NEW d \in Docs
    PROVE  \/ hist'[d].credited = hist[d].credited
           \/ aged[d]
           \/ \E i \in Invs : /\ Credit(i) /\ inv[i].doc = d
                              /\ hist'[d].credited = hist[d].credited + 1
  <1> DEFINE Same == hist'[d].credited = hist[d].credited
             Made == \E i \in Invs : /\ Credit(i) /\ inv[i].doc = d
                                     /\ hist'[d].credited = hist[d].credited + 1
  <1>0. hist \in [Docs -> History]
    BY DEF IInv, TypeOK
  <1>1. ASSUME NEW i \in Invs, Credit(i) PROVE Same \/ Made
    <2>1. CASE inv[i].doc = d
      <3>1. hist' = hist \/ hist' = [hist EXCEPT ![d].credited = @ + 1]
        BY <1>1, <2>1 DEF Credit, Counted
      <3>2. Same \/ hist'[d].credited = hist[d].credited + 1
        BY <1>0, <3>1 DEF History
      <3> QED
        BY <1>1, <2>1, <3>2
    <2>2. CASE inv[i].doc # d
      BY <1>0, <1>1, <2>2, CountedSpares DEF Credit
    <2> QED
      BY <2>1, <2>2
  <1>2. ASSUME NEW i \in Invs, PreCredit(i) PROVE Same
    <2>1. hist' = hist \/ hist' = [hist EXCEPT ![inv[i].doc].early = @ + 1]
      BY <1>2 DEF PreCredit, Counted
    <2> QED
      BY <1>0, <2>1 DEF History
  <1>3. ASSUME NEW i \in Invs, Upsert(i) \/ Claim(i) PROVE Same
    BY <1>0, <1>3 DEF Upsert, Claim, History
  <1>4. ASSUME NEW i \in Invs, WriteTerminal(i) PROVE Same
    BY <1>0, <1>4 DEF WriteTerminal, History
  <1>5. ASSUME NEW row \in reaper.todo, Reap(row) PROVE Same
    <2>1. \A s : Mark(row, s) => Same
      BY <1>0 DEF Mark, History
    <2> QED
      BY <1>5, <2>1 DEF Reap
  <1>6. ASSUME ReaperCredit PROVE Same \/ aged[d]
    <2>1. CASE reaper.owes = d
      BY <1>6, <2>1, ConstantsAssumption DEF AgedOK, Events
    <2>2. CASE reaper.owes # d
      BY <1>0, <1>6, <2>2, CountedSpares DEF ReaperCredit
    <2> QED
      BY <2>1, <2>2
  <1>7. ASSUME NEW i \in Invs, Lambda(i) PROVE Same \/ Made
    <2> HIDE DEF Made
    <2>1. CASE \/ Gate(i) \/ Reread(i) \/ Dispatch(i) \/ Extract(i) \/ BdaPath(i)
               \/ (\E j \in Jobs : Invoke(i, j)) \/ Handler(i) \/ MethodResponse(i)
               \/ Throttled(i) \/ Raise(i) \/ Crash(i)
      BY <2>1 DEF Gate, Reread, Dispatch, Extract, BdaPath, Invoke, Handler,
                  MethodResponse, Throttled, Raise, Crash
    <2>2. CASE \/ \E e \in Docs : Receive(i, e) \/ UploadFails(i, e) \/ WaitTimesOut(i, e)
               \/ \E j \in Jobs : ReceiveResult(i, j)
               \/ FinalizeGate(i) \/ RecordJob(i) \/ WriteV1(i)
      BY <2>2 DEF Receive, UploadFails, WaitTimesOut, ReceiveResult, FinalizeGate, RecordJob,
                  WriteV1
    <2> QED
      BY <1>1, <1>2, <1>3, <1>4, <1>7, <2>1, <2>2 DEF Lambda, Advance
  <1>8. ASSUME Sweep \/ ReaperCrash \/ UNCHANGED vars PROVE Same
    BY <1>8 DEF Sweep, ReaperCrash, vars
  <1>9. ASSUME NEW e, Emit(e) \/ EndJob(e) \/ Age(e) \/ BeginDelete(e) \/ EndDelete(e) PROVE Same
    BY <1>9 DEF Emit, EndJob, Age, BeginDelete, EndDelete
  <1> HIDE DEF Same, Made
  <1>10. Same \/ aged[d] \/ Made
    BY <1>5, <1>6, <1>7, <1>8, <1>9 DEF Next, Reaper
  <1> QED
    BY <1>10 DEF Same, Made

\* No step writes a status and makes an increment.
LEMMA WriteOrCredit ==
    ASSUME IInv, NEW d \in Docs, NEW i \in Invs, Writes(i, d)
    PROVE  hist'[d].credited = hist[d].credited /\ hist'[d].early = hist[d].early
  BY DEF Writes, Upsert, Claim, RecordJob, WriteTerminal, IInv, TypeOK, History

\* A calm document is steady, whatever fails.
LEMMA CalmSteady == ASSUME AgedOK, NEW d \in Calm PROVE d \in Docs /\ Steady(d)
  BY DEF AgedOK, Calm, Steady, Is

\* What the statuses are to the contract.
LEMMA Phases ==
    /\ \A s \in Open \cup Waiting : Phase(s) = "waiting"
    /\ Phase("started") = "working" /\ Phase("deleted") = "deleted"
    /\ \A s \in Classified \ {"deleted"} : Phase(s) = "resolved"
    /\ \A s : MayBecomeTerminal(s) => Phase(s) \in {"waiting", "working"}
    /\ \A s : MayBecomeTerminal(s) => s \notin Classified
    /\ "started" \notin Classified
    /\ (Open \cup Waiting) \cap Classified = {}
  BY DEF Phase, Open, Waiting, PendingExtraction, AwaitingProcessing, NonTerminal, NoStatus,
         Classified, MayBecomeTerminal

\* What the contract says of one document, as the records tell it.
PhaseOf(d) == Phase(rec[d].status)
OutcomeOf(d) ==
    IF rec[d].status \in Classified \ {"deleted"} THEN rec[d].status ELSE "undecided"
CountedOf(d) == hist[d].credited

HeardOnce == \A d \in Calm : CountedOf(d) <= 1

\* Each step is one of the contract for the document it touches.
Promised(d) ==
    \/ UNCHANGED <<PhaseOf(d), OutcomeOf(d), CountedOf(d)>>
    \/ /\ PhaseOf(d) = "waiting" /\ PhaseOf(d)' = "working"
       /\ UNCHANGED <<OutcomeOf(d), CountedOf(d)>>
    \/ /\ PhaseOf(d) \in {"waiting", "working"} /\ PhaseOf(d)' = "resolved"
       /\ OutcomeOf(d)' \in Classified \ {"deleted"} /\ UNCHANGED CountedOf(d)
    \/ /\ CountedOf(d) = 0 /\ PhaseOf(d) \in {"resolved", "deleted"}
       /\ CountedOf(d)' = CountedOf(d) + 1
       /\ UNCHANGED <<PhaseOf(d), OutcomeOf(d)>>
    \/ /\ PhaseOf(d) = "resolved" /\ PhaseOf(d)' = "deleted"
       /\ OutcomeOf(d)' = "undecided" /\ UNCHANGED CountedOf(d)

\* Each action is a step of the contract for a calm document.
LEMMA StepPromised ==
    ASSUME BaseOK, StatusOK, [Next]_vars, NEW d \in Calm, CountedOf(d)' <= 1
    PROVE  Promised(d)
  <1>0. /\ d \in Docs /\ Steady(d) /\ InStep(d) /\ ~aged[d] /\ IInv /\ AgedOK
        /\ ~Is(d, "repeated") /\ ~Is(d, "waited")
        /\ hist[d].credited \in Nat
    BY CalmSteady DEF BaseOK, StatusOK, Steady, IInv, TypeOK, History
  <1>1. CASE rec'[d].status = rec[d].status
    <2>1. UNCHANGED <<PhaseOf(d), OutcomeOf(d)>>
      BY <1>1 DEF PhaseOf, OutcomeOf
    <2>2. CASE hist'[d].credited = hist[d].credited
      BY <2>1, <2>2 DEF Promised, CountedOf
    <2>3. ASSUME NEW i \in Invs, Credit(i), inv[i].doc = d,
                 hist'[d].credited = hist[d].credited + 1
          PROVE  Promised(d)
      <3>1. rec[d].status \in Classified
        BY <1>0, <2>3 DEF InStep, Credit, At, Owing
      <3>2. PhaseOf(d) \in {"resolved", "deleted"}
        BY <3>1, Phases DEF PhaseOf
      <3>3. CountedOf(d) = 0 /\ CountedOf(d)' = CountedOf(d) + 1
        BY <1>0, <2>3 DEF CountedOf
      <3> QED
        BY <2>1, <3>2, <3>3 DEF Promised
    <2> QED
      BY <1>0, <2>2, <2>3, CreditMakers
  <1>2. ASSUME NEW i \in Invs, Writes(i, d) PROVE Promised(d)
    <2>1. UNCHANGED CountedOf(d)
      BY <1>0, <1>2, WriteOrCredit DEF CountedOf
    <2>2. /\ Upsert(i) => rec[d].status \in Waiting
          /\ Claim(i) => rec[d].status \in Open
          /\ RecordJob(i) => rec[d].status = "started"
          /\ WriteTerminal(i) => inv[i].class \in Choices
      BY <1>0, <1>2, InStepWritten
    <2>3. CASE Upsert(i) /\ rec'[d].status = inv[i].class
      <3>1. PhaseOf(d) = "waiting" /\ OutcomeOf(d) = "undecided"
        BY <2>2, <2>3, Phases DEF PhaseOf, OutcomeOf
      <3>2. inv[i].class \in PendingExtraction \cup Classified /\ inv[i].class # "deleted"
        BY <1>0, <2>3 DEF Upsert, At, IInv, InvsOK, WellFormed, BaseOK, ChoicesOK, Chooses
      <3>3. CASE inv[i].class \in PendingExtraction
        <4>1. PhaseOf(d)' = "waiting" /\ OutcomeOf(d)' = "undecided"
          BY <2>3, <3>3, Phases DEF PhaseOf, OutcomeOf, Open
        <4> QED
          BY <2>1, <3>1, <4>1 DEF Promised
      <3>4. CASE inv[i].class \in Classified \ {"deleted"}
        <4>1. PhaseOf(d)' = "resolved" /\ OutcomeOf(d)' \in Classified \ {"deleted"}
          BY <2>3, <3>4, Phases DEF PhaseOf, OutcomeOf
        <4> QED
          BY <2>1, <3>1, <4>1 DEF Promised
      <3> QED
        BY <3>2, <3>3, <3>4
    <2>4. CASE Claim(i) /\ rec'[d].status = "started"
      <3>1. PhaseOf(d) = "waiting" /\ OutcomeOf(d) = "undecided"
        BY <2>2, <2>4, Phases DEF PhaseOf, OutcomeOf
      <3>2. PhaseOf(d)' = "working" /\ OutcomeOf(d)' = "undecided"
        BY <2>4, Phases DEF PhaseOf, OutcomeOf
      <3> QED
        BY <2>1, <3>1, <3>2 DEF Promised
    <2>5. CASE RecordJob(i) /\ rec'[d].status = "started"
      BY <2>1, <2>2, <2>5 DEF Promised, PhaseOf, OutcomeOf
    <2>6. CASE /\ WriteTerminal(i) /\ MayBecomeTerminal(rec[d].status)
               /\ rec'[d].status = Recorded(inv[i].class)
      <3>1. PhaseOf(d) \in {"waiting", "working"}
        BY <2>6, Phases DEF PhaseOf
      <3>2. rec'[d].status \in Classified \ {"deleted"}
        BY <2>2, <2>6, Verdicts, StatusSets
      <3>3. PhaseOf(d)' = "resolved" /\ OutcomeOf(d)' \in Classified \ {"deleted"}
        BY <3>2, Phases DEF PhaseOf, OutcomeOf
      <3> QED
        BY <2>1, <3>1, <3>3 DEF Promised
    <2> QED
      BY <1>2, <2>3, <2>4, <2>5, <2>6 DEF Writes
  <1>3. CASE EndDelete(d) /\ rec'[d].status = "deleted"
    <2>1. rec[d].status \in Classified \ {"deleted"} /\ UNCHANGED hist
      BY <1>0, <1>3, InStepDeleted DEF EndDelete
    <2>2. PhaseOf(d) = "resolved" /\ PhaseOf(d)' = "deleted" /\ OutcomeOf(d)' = "undecided"
      BY <1>3, <2>1, Phases DEF PhaseOf, OutcomeOf
    <2> QED
      BY <2>1, <2>2 DEF Promised, CountedOf
  <1> QED
    BY <1>0, <1>1, <1>2, <1>3, StatusWriters

\* A function that differs from another at one point.
LEMMA OnePoint ==
    ASSUME NEW S, NEW f, NEW g, NEW x \in S,
           f = [e \in S |-> f[e]], g = [e \in S |-> g[e]], \A e \in S \ {x} : g[e] = f[e]
    PROVE  g = [f EXCEPT ![x] = g[x]] /\ (g[x] = f[x] => g = f)
  OBVIOUS

\* Hence each action is a step of the contract, or none.
LEMMA StepKeepsContract ==
    ASSUME BaseOK, StatusOK, [Next]_vars, HeardOnce'
    PROVE  [Contract!Next]_(Contract!vars)
  <1> DEFINE phase == [d \in Calm |-> Phase(rec[d].status)]
             outcome == [d \in Calm |-> IF rec[d].status \in Classified \ {"deleted"}
                                        THEN rec[d].status ELSE "undecided"]
             counted == [d \in Calm |-> hist[d].credited]
  <1>0. Calm \subseteq Docs
    BY DEF Calm
  <1>1. PICK x : Spares(x)
    BY OneDocument DEF BaseOK
  <1>2. \A e \in Calm \ {x} : /\ rec'[e].status = rec[e].status
                              /\ hist'[e].credited = hist[e].credited
    BY <1>0, <1>1 DEF Spares
  <1>3. CASE \/ x \notin Calm
             \/ UNCHANGED <<PhaseOf(x), OutcomeOf(x), CountedOf(x)>>
    <2>1. phase' = phase /\ outcome' = outcome /\ counted' = counted
      BY <1>2, <1>3 DEF PhaseOf, OutcomeOf, CountedOf
    <2> QED
      BY <2>1 DEF Contract!vars
  <1>4. CASE x \in Calm
    <2>1. Promised(x)
      BY <1>4, StepPromised DEF HeardOnce
    <2>2. \A e \in Calm \ {x} : UNCHANGED <<phase[e], outcome[e], counted[e]>>
      BY <1>2
    <2>3. /\ phase[x] = PhaseOf(x) /\ phase'[x] = PhaseOf(x)'
          /\ outcome[x] = OutcomeOf(x) /\ outcome'[x] = OutcomeOf(x)'
          /\ counted[x] = CountedOf(x) /\ counted'[x] = CountedOf(x)'
      BY <1>4 DEF PhaseOf, OutcomeOf, CountedOf
    <2>9. /\ phase' = [phase EXCEPT ![x] = PhaseOf(x)']
          /\ outcome' = [outcome EXCEPT ![x] = OutcomeOf(x)']
          /\ counted' = [counted EXCEPT ![x] = CountedOf(x)']
          /\ UNCHANGED PhaseOf(x) => phase' = phase
          /\ UNCHANGED OutcomeOf(x) => outcome' = outcome
          /\ UNCHANGED CountedOf(x) => counted' = counted
      <3>1. /\ phase = [e \in Calm |-> phase[e]] /\ phase' = [e \in Calm |-> phase'[e]]
            /\ outcome = [e \in Calm |-> outcome[e]] /\ outcome' = [e \in Calm |-> outcome'[e]]
            /\ counted = [e \in Calm |-> counted[e]] /\ counted' = [e \in Calm |-> counted'[e]]
        OBVIOUS
      <3>2. \A e \in Calm \ {x} : /\ phase'[e] = phase[e] /\ outcome'[e] = outcome[e]
                                   /\ counted'[e] = counted[e]
        BY <2>2
      <3> HIDE DEF phase, outcome, counted
      <3>3. phase' = [phase EXCEPT ![x] = phase'[x]] /\ (phase'[x] = phase[x] => phase' = phase)
        BY <1>4, <3>1, <3>2, OnePoint
      <3>4. /\ outcome' = [outcome EXCEPT ![x] = outcome'[x]]
            /\ outcome'[x] = outcome[x] => outcome' = outcome
        BY <1>4, <3>1, <3>2, OnePoint
      <3>5. /\ counted' = [counted EXCEPT ![x] = counted'[x]]
            /\ counted'[x] = counted[x] => counted' = counted
        BY <1>4, <3>1, <3>2, OnePoint
      <3> QED
        BY <2>3, <3>3, <3>4, <3>5
    <2>4. CASE UNCHANGED <<PhaseOf(x), OutcomeOf(x), CountedOf(x)>>
      BY <1>3, <2>4
    <2>5. CASE /\ PhaseOf(x) = "waiting" /\ PhaseOf(x)' = "working"
               /\ UNCHANGED <<OutcomeOf(x), CountedOf(x)>>
      <3>1. /\ phase' = [phase EXCEPT ![x] = "working"]
            /\ outcome' = outcome /\ counted' = counted
        BY <2>9, <2>5
      <3> QED
        BY <1>4, <2>3, <2>5, <3>1 DEF Contract!Next, Contract!Take
    <2>6. CASE /\ PhaseOf(x) \in {"waiting", "working"} /\ PhaseOf(x)' = "resolved"
               /\ OutcomeOf(x)' \in Classified \ {"deleted"} /\ UNCHANGED CountedOf(x)
      <3>1. /\ phase' = [phase EXCEPT ![x] = "resolved"]
            /\ outcome' = [outcome EXCEPT ![x] = OutcomeOf(x)'] /\ counted' = counted
        BY <2>9, <2>6
      <3>2. PICK o \in Classified \ {"deleted"} : outcome' = [outcome EXCEPT ![x] = o]
        BY <2>6, <3>1
      <3>3. Contract!Resolve(x)
        BY <2>3, <2>6, <3>1, <3>2 DEF Contract!Resolve
      <3> QED
        BY <1>4, <2>3, <2>6, <3>3 DEF Contract!Next
    <2>7. CASE /\ CountedOf(x) = 0 /\ PhaseOf(x) \in {"resolved", "deleted"}
               /\ CountedOf(x)' = CountedOf(x) + 1
               /\ UNCHANGED <<PhaseOf(x), OutcomeOf(x)>>
      <3>1. /\ counted' = [counted EXCEPT ![x] = counted[x] + 1]
            /\ outcome' = outcome /\ phase' = phase
        BY <2>3, <2>9, <2>7
      <3> QED
        BY <1>4, <2>3, <2>7, <3>1 DEF Contract!Next, Contract!Count
    <2>8. CASE /\ PhaseOf(x) = "resolved" /\ PhaseOf(x)' = "deleted"
               /\ OutcomeOf(x)' = "undecided" /\ UNCHANGED CountedOf(x)
      <3>1. /\ phase' = [phase EXCEPT ![x] = "deleted"]
            /\ outcome' = [outcome EXCEPT ![x] = "undecided"] /\ counted' = counted
        BY <2>9, <2>8
      <3> QED
        BY <1>4, <2>3, <2>8, <3>1 DEF Contract!Next, Contract!Delete, Contract!Undecided
    <2> QED
      BY <2>1, <2>4, <2>5, <2>6, <2>7, <2>8 DEF Promised
  <1> QED
    BY <1>3, <1>4

\* The invariant that the results below share.
FlowOK == BaseOK /\ StatusOK

\* What insert_minimal_ddb_record leaves.
LEMMA InitFlow == ASSUME Init PROVE FlowOK
  <1>0. IInv /\ PublishedOK
    BY InitEstablishes, InitPublished, ConstantsAssumption
  <1>1. \A i \in Invs : inv[i] = Idle
    BY DEF Init
  <1>2. /\ Idle.pc = "idle" /\ Idle.event = NoDoc /\ Idle.doc = NoDoc /\ Idle.ctx = "main"
        /\ Idle.identity = FALSE /\ Idle.class = NoStatus
    BY DEF Idle
  <1>3. NoDoc \notin Docs /\ NoDoc \notin Jobs /\ MaxDeliveries \in Nat
    BY ConstantsAssumption DEF Events
  <1>4. OriginOK
    BY <1>1, <1>2, <1>3 DEF OriginOK, Origin, Processing
  <1>5. AgedOK
    BY DEF Init, AgedOK
  <1>6. \A d \in Docs : Carriers(d) = {} /\ \A i \in Invs : inv[i].event # d /\ inv[i].doc # d
    BY <1>1, <1>2, <1>3 DEF Carriers
  <1>7. OnceOK
    <2>1. \A d \in Docs : queued[d] = 0 /\ rec[d].job = NoJob
      BY DEF Init, Events
    <2> QED
      BY <1>6, <2>1 DEF OnceOK, Once
  <1>8. ChoicesOK
    BY <1>1, <1>2, Verdicts DEF ChoicesOK, Chooses
  <1>9. StatusOK
    <2>1. deleting = {}
      BY DEF Init
    <2> QED
      BY <1>6, <2>1 DEF StatusOK, InStep
  <1> QED
    BY <1>0, <1>4, <1>5, <1>7, <1>8, <1>9 DEF FlowOK, BaseOK

\* Every action keeps the four parts together.
LEMMA NextFlow == ASSUME FlowOK, [Next]_vars PROVE FlowOK'
  BY NextKeeps, NextPublished, OriginStep, AgedStep, OnceStep, ChoicesStep, StatusStep,
     ConstantsAssumption
     DEF FlowOK, BaseOK

\* They always hold.
LEMMA FlowInvariance == Spec => []FlowOK
  <1>1. Init => FlowOK
    BY InitFlow
  <1>2. FlowOK /\ [Next]_vars => FlowOK'
    BY NextFlow
  <1> QED
    BY <1>1, <1>2, PTL DEF Spec

-----------------------------------------------------------------------------
(* A calm document is counted once *)

\* What lands on it ends it, and nothing lands on what has ended.
LandedOK ==
    \A d \in Calm :
        /\ hist[d].landed <= 1
        /\ hist[d].landed # 0 => rec[d].status \in Classified

\* With the account of the increments this bounds them.
CalmOK == TypeOK /\ CreditsOK /\ LandedOK

\* Whose terminal write lands.
Lands(i, d) ==
    /\ WriteTerminal(i) /\ Writes(i, d) /\ MayBecomeTerminal(rec[d].status)
    /\ rec'[d].status = Recorded(inv[i].class)
    /\ hist'[d].landed = hist[d].landed + 1

\* A terminal write lands on a document that is not old from an invocation.
LEMMA LandingMakers ==
    ASSUME IInv, AgedOK, [Next]_vars, NEW d \in Docs
    PROVE  \/ hist'[d].landed = hist[d].landed
           \/ aged[d]
           \/ \E i \in Invs : Lands(i, d)
  <1> DEFINE Same == hist'[d].landed = hist[d].landed
             Made == \E i \in Invs : Lands(i, d)
  <1>0. hist \in [Docs -> History] /\ rec \in [Docs -> Record]
    BY DEF IInv, TypeOK
  <1>1. ASSUME NEW i \in Invs, Credit(i) \/ PreCredit(i) PROVE Same
    <2>1. \/ hist' = hist
          \/ hist' = [hist EXCEPT ![inv[i].doc].credited = @ + 1]
          \/ hist' = [hist EXCEPT ![inv[i].doc].early = @ + 1]
      BY <1>1 DEF Credit, PreCredit, Counted
    <2> QED
      BY <1>0, <2>1 DEF History
  <1>2. ASSUME NEW i \in Invs, Upsert(i) \/ Claim(i) PROVE Same
    BY <1>0, <1>2 DEF Upsert, Claim, History
  <1>3. ASSUME NEW i \in Invs, WriteTerminal(i) PROVE Same \/ Made
    <2> HIDE DEF Same, Made
    <2>1. CASE hist' = hist
      BY <2>1 DEF Same
    <2>2. CASE /\ MayBecomeTerminal(rec[inv[i].doc].status)
               /\ rec' = [rec EXCEPT ![inv[i].doc].status = Recorded(inv[i].class)]
               /\ hist' = [hist EXCEPT ![inv[i].doc].landed = @ + 1,
                              ![inv[i].doc].textract = @ \/ inv[i].ctx = "textract"]
               /\ Goto(i, "v1")
      <3>1. CASE inv[i].doc = d
        <4>1. hist'[d].landed = hist[d].landed + 1
          BY <1>0, <2>2, <3>1 DEF History
        <4>2. rec'[d].status = Recorded(inv[i].class)
          BY <1>0, <2>2, <3>1 DEF Record
        <4>3. Lands(i, d)
          BY <1>3, <2>2, <3>1, <4>1, <4>2 DEF Lands, Writes
        <4> QED
          BY <4>3 DEF Made
      <3>2. CASE inv[i].doc # d
        BY <1>0, <2>2, <3>2 DEF History, Same
      <3> QED
        BY <3>1, <3>2
    <2> QED
      BY <1>3, <2>1, <2>2 DEF WriteTerminal
  <1>4. ASSUME NEW row \in reaper.todo, Reap(row) PROVE Same \/ aged[d]
    <2>1. \A s : Mark(row, s) => Same \/ row.doc = d
      BY <1>0 DEF Mark, History
    <2>2. aged[row.doc]
      BY DEF AgedOK
    <2> QED
      BY <1>4, <2>1, <2>2 DEF Reap
  <1>5. ASSUME ReaperCredit PROVE Same
    <2>1. hist' = hist \/ hist' = [hist EXCEPT ![reaper.owes].credited = @ + 1]
      BY <1>5 DEF ReaperCredit, Counted
    <2> QED
      BY <1>0, <2>1 DEF History
  <1>6. ASSUME NEW i \in Invs, Lambda(i) PROVE Same \/ Made
    <2> HIDE DEF Made
    <2>1. CASE \/ Gate(i) \/ Reread(i) \/ Dispatch(i) \/ Extract(i) \/ BdaPath(i)
               \/ (\E j \in Jobs : Invoke(i, j)) \/ Handler(i) \/ MethodResponse(i)
               \/ Throttled(i) \/ Raise(i) \/ Crash(i)
      BY <2>1 DEF Gate, Reread, Dispatch, Extract, BdaPath, Invoke, Handler,
                  MethodResponse, Throttled, Raise, Crash
    <2>2. CASE \/ \E e \in Docs : Receive(i, e) \/ UploadFails(i, e) \/ WaitTimesOut(i, e)
               \/ \E j \in Jobs : ReceiveResult(i, j)
               \/ FinalizeGate(i) \/ RecordJob(i) \/ WriteV1(i)
      BY <2>2 DEF Receive, UploadFails, WaitTimesOut, ReceiveResult, FinalizeGate, RecordJob,
                  WriteV1
    <2> QED
      BY <1>1, <1>2, <1>3, <1>6, <2>1, <2>2 DEF Lambda, Advance
  <1>7. ASSUME Sweep \/ ReaperCrash \/ UNCHANGED vars PROVE Same
    BY <1>7 DEF Sweep, ReaperCrash, vars
  <1>8. ASSUME NEW e, Emit(e) \/ EndJob(e) \/ Age(e) \/ BeginDelete(e) \/ EndDelete(e) PROVE Same
    BY <1>8 DEF Emit, EndJob, Age, BeginDelete, EndDelete
  <1> HIDE DEF Same, Made
  <1>9. Same \/ aged[d] \/ Made
    BY <1>4, <1>5, <1>6, <1>7, <1>8 DEF Next, Reaper
  <1> QED
    BY <1>9 DEF Same, Made

\* A calm document that has ended stays so, and only one that has not is ended.
LEMMA LandedStep == ASSUME FlowOK, LandedOK, [Next]_vars PROVE LandedOK'
  <1> SUFFICES ASSUME NEW d \in Calm
               PROVE  /\ hist'[d].landed <= 1
                      /\ hist'[d].landed # 0 => rec'[d].status \in Classified
    BY DEF LandedOK, Calm
  <1>0. /\ BaseOK /\ IInv /\ AgedOK /\ d \in Docs /\ Steady(d) /\ InStep(d) /\ ~aged[d]
        /\ hist[d].landed \in Nat
    BY CalmSteady DEF FlowOK, BaseOK, StatusOK, Steady, IInv, TypeOK, History
  <1>1. hist[d].landed <= 1 /\ (hist[d].landed # 0 => rec[d].status \in Classified)
    BY DEF LandedOK
  <1>2. ASSUME NEW i \in Invs, Writes(i, d) PROVE rec[d].status \notin Classified
    <2>1. /\ Upsert(i) => rec[d].status \in Waiting
          /\ Claim(i) => rec[d].status \in Open
          /\ RecordJob(i) => rec[d].status = "started"
      BY <1>0, <1>2, InStepWritten
    <2> QED
      BY <1>2, <2>1, Phases DEF Writes
  <1>3. CASE hist'[d].landed = hist[d].landed
    <2>1. rec[d].status \in Classified => rec'[d].status \in Classified
      BY <1>0, <1>2, StatusWriters, StatusSets
    <2> QED
      BY <1>1, <1>3, <2>1
  <1>4. ASSUME NEW i \in Invs, Lands(i, d)
        PROVE  /\ hist'[d].landed <= 1
               /\ rec'[d].status \in Classified
    <2>1. hist[d].landed = 0
      BY <1>1, <1>2, <1>4 DEF Lands
    <2>2. inv[i].class \in Choices
      BY <1>0, <1>4, InStepWritten DEF Lands
    <2>3. rec'[d].status \in Classified
      BY <1>4, <2>2, Verdicts, StatusSets DEF Lands
    <2> QED
      BY <1>4, <2>1, <2>3 DEF Lands
  <1> QED
    BY <1>0, <1>3, <1>4, LandingMakers

\* So the account admits one increment.
LEMMA CountedAtMostOnce == CalmOK => HeardOnce
  <1> SUFFICES ASSUME CalmOK, NEW d \in Calm PROVE hist[d].credited <= 1
    BY DEF HeardOnce, CountedOf
  <1>0. d \in Docs
    BY DEF Calm
  <1>1. /\ hist[d].credited \in Nat /\ hist[d].landed \in Nat
        /\ Cardinality(Owed(d)) \in Nat /\ ReaperOwes(d) \in Nat
    BY <1>0, FS_CardinalityType DEF CalmOK, CreditsOK, TypeOK, History, ReaperOwes
  <1>2. hist[d].credited + Cardinality(Owed(d)) + ReaperOwes(d) <= hist[d].landed
    BY <1>0 DEF CalmOK, CreditsOK
  <1>3. hist[d].landed <= 1
    BY DEF CalmOK, LandedOK
  <1> QED
    BY <1>1, <1>2, <1>3

\* The account and what lands hold in every state.
LEMMA CalmInvariance == Spec => []CalmOK
  <1>1. Init => CalmOK
    <2> SUFFICES ASSUME Init PROVE CalmOK
      OBVIOUS
    <2>1. LandedOK
      BY DEF Init, LandedOK, Calm
    <2> QED
      BY <2>1, InitCredits, InitEstablishes, ConstantsAssumption DEF CalmOK, IInv
  <1>2. FlowOK /\ FlowOK' /\ CalmOK /\ [Next]_vars => CalmOK'
    <2> SUFFICES ASSUME FlowOK, FlowOK', CalmOK, [Next]_vars PROVE CalmOK'
      OBVIOUS
    <2>1. TypeOK'
      BY DEF FlowOK, BaseOK, IInv
    <2> QED
      BY <2>1, NextCredits, LandedStep, ConstantsAssumption DEF CalmOK, FlowOK, BaseOK
  <1> QED
    BY <1>1, <1>2, FlowInvariance, PTL DEF Spec

\* For a calm document, the records the lambdas and the API share go through
\* what the contract allows and nothing else, whatever crashes, is retried or
\* overlaps.
THEOREM ContractIsKept == Spec => KeepsContract
  <1>1. Init => Contract!Init
    <2> SUFFICES ASSUME Init PROVE Contract!Init
      OBVIOUS
    <2>1. \A d \in Calm : /\ rec[d].status \in Waiting
                          /\ hist[d].credited = 0
      BY DEF Init, Calm, Waiting, NonTerminal
    <2>2. \A d \in Calm : Phase(rec[d].status) = "waiting"
      BY <2>1, Phases
    <2>4. \A d \in Calm : rec[d].status \notin Classified
      BY <2>1, Phases
    <2>5. [d \in Calm |-> hist[d].credited] = [d \in Calm |-> 0]
      BY <2>1
    <2>6. [d \in Calm |-> Phase(rec[d].status)] = [d \in Calm |-> "waiting"]
      BY <2>2
    <2>7. [d \in Calm |-> IF rec[d].status \in Classified \ {"deleted"}
                          THEN rec[d].status ELSE "undecided"]
             = [d \in Calm |-> "undecided"]
      BY <2>4
    <2> QED
      BY <2>5, <2>6, <2>7 DEF Contract!Init, Contract!Undecided
  <1>2. FlowOK /\ HeardOnce' /\ [Next]_vars => [Contract!Next]_(Contract!vars)
    BY StepKeepsContract DEF FlowOK
  <1> QED
    BY <1>1, <1>2, CountedAtMostOnce, FlowInvariance, CalmInvariance, PTL
       DEF Spec, KeepsContract, Contract!Spec

-----------------------------------------------------------------------------
(* The job of a document *)

\* A job BDA accepted is in the record, or with the invocation that started it.
Traced(d, j) ==
    \/ rec[d].job = j
    \/ \E i \in Invs : inv[i].pc = "record" /\ inv[i].job = j /\ inv[i].doc = d

JobsOK ==
    faults = 0 =>
      \A d \in Docs, j \in Jobs : job[j].doc = d /\ ~Is(d, "repeated") => Traced(d, j)

\* Who started a job records it, unless a call fails.
LEMMA RecorderRecords ==
    ASSUME IInv, NEW i \in Invs, Lambda(i), inv[i].pc = "record", faults' = 0
    PROVE  RecordJob(i)
  <1>1. ~Fault
    BY DEF Fault, IInv, TypeOK
  <1>2. ~(Throttled(i) \/ Raise(i) \/ Crash(i))
    BY <1>1 DEF Throttled, Raise, Crash
  <1>3. ~(Gate(i) \/ PreCredit(i) \/ Upsert(i) \/ FinalizeGate(i) \/ Reread(i))
    BY DEF Gate, PreCredit, Upsert, FinalizeGate, Reread, At
  <1>4. /\ ~(Dispatch(i) \/ Claim(i) \/ Extract(i) \/ BdaPath(i) \/ Handler(i))
        /\ \A j \in Jobs : ~Invoke(i, j)
    BY DEF Dispatch, Claim, Extract, BdaPath, Invoke, Handler, At
  <1>5. ~(WriteTerminal(i) \/ WriteV1(i) \/ Credit(i) \/ MethodResponse(i))
    BY DEF WriteTerminal, WriteV1, Credit, MethodResponse, At
  <1>6. /\ \A d \in Docs : ~(Receive(i, d) \/ UploadFails(i, d) \/ WaitTimesOut(i, d))
        /\ \A j \in Jobs : ~ReceiveResult(i, j)
    BY DEF Receive, UploadFails, WaitTimesOut, ReceiveResult, At
  <1> QED
    BY <1>2, <1>3, <1>4, <1>5, <1>6 DEF Lambda, Advance

\* A job gets its document when BDA accepts it, and keeps it.
LEMMA JobKeepsDocument ==
    ASSUME IInv, [Next]_vars, NEW j \in Jobs
    PROVE  job'[j].doc = job[j].doc \/ \E i \in Invs : Invoke(i, j) /\ job'[j].doc = inv[i].doc
  <1>0. job \in [Jobs -> [state : {"free", "running"} \cup Ended, doc : Docs \cup {NoDoc}]]
    BY DEF IInv, TypeOK
  <1>1. ASSUME NEW k \in Jobs, EndJob(k) PROVE job'[j].doc = job[j].doc
    BY <1>0, <1>1 DEF EndJob
  <1>2. ASSUME NEW i \in Invs, NEW k \in Jobs, Invoke(i, k)
        PROVE  job'[j].doc = job[j].doc \/ (Invoke(i, j) /\ job'[j].doc = inv[i].doc)
    <2>1. CASE k = j
      BY <1>0, <1>2, <2>1 DEF Invoke
    <2>2. CASE k # j
      BY <1>0, <1>2, <2>2 DEF Invoke
    <2> QED
      BY <2>1, <2>2
  <1>3. ASSUME NEW i \in Invs, Lambda(i), \A k \in Jobs : ~Invoke(i, k) PROVE UNCHANGED job
    BY <1>3 DEF Lambda, Advance, Receive, ReceiveResult, UploadFails, WaitTimesOut, Throttled,
       Raise, Crash, Gate, PreCredit, Upsert, FinalizeGate, Reread, Dispatch, Claim, Extract,
       BdaPath, RecordJob, Handler, WriteTerminal, WriteV1, Credit, MethodResponse
  <1>4. ASSUME Reaper \/ ReaperCrash \/ UNCHANGED vars PROVE UNCHANGED job
    BY <1>4 DEF Reaper, Sweep, Reap, ReaperCredit, ReaperCrash, vars
  <1>5. ASSUME NEW e, Emit(e) \/ Age(e) \/ BeginDelete(e) \/ EndDelete(e) PROVE UNCHANGED job
    BY <1>5 DEF Emit, Age, BeginDelete, EndDelete
  <1> QED
    BY <1>1, <1>2, <1>3, <1>4, <1>5 DEF Next

\* Every action keeps the jobs traced.
LEMMA JobsStep == ASSUME FlowOK, JobsOK, [Next]_vars PROVE JobsOK'
  <1> SUFFICES ASSUME faults' = 0, NEW d \in Docs, NEW j \in Jobs,
                      job'[j].doc = d, ~Is(d, "repeated")
               PROVE  Traced(d, j)'
    BY DEF JobsOK, Is
  <1>0. IInv /\ OriginOK /\ OnceOK /\ InvsOK /\ j # NoJob /\ faults = 0
    BY AgeingAndDeleting, ConstantsAssumption DEF FlowOK, BaseOK, IInv, Events
  <1>1. ASSUME NEW i \in Invs, Invoke(i, j), inv[i].doc = d PROVE Traced(d, j)'
    <2>1. inv' = [inv EXCEPT ![i].pc = "record", ![i].job = j]
      BY <1>1 DEF Invoke
    <2>2. inv'[i].pc = "record" /\ inv'[i].job = j /\ inv'[i].doc = d
      BY <1>0, <1>1, <2>1 DEF InvsOK, Invocation
    <2> QED
      BY <2>2 DEF Traced
  <1>2. CASE job[j].doc = d
    <2>1. Traced(d, j)
      BY <1>0, <1>2 DEF JobsOK
    <2>2. CASE rec[d].job = j
      <3>1. ASSUME NEW i \in Invs, RecordJob(i), inv[i].doc = d PROVE FALSE
        <4>1. i \in Carriers(d)
          BY <1>0, <3>1, ProcessorCarries DEF RecordJob, At, Processing
        <4> QED
          BY <1>0, <2>2, <4>1 DEF OnceOK, Once, HandedOver
      <3> QED
        BY <1>0, <2>2, <3>1, JobStays DEF Traced
    <2>3. ASSUME NEW i \in Invs, inv[i].pc = "record", inv[i].job = j, inv[i].doc = d
          PROVE  Traced(d, j)'
      <3>1. CASE Lambda(i)
        <4>1. RecordJob(i)
          BY <1>0, <2>3, <3>1, RecorderRecords
        <4>2. rec'[d].job = j
          BY <1>0, <2>3, <4>1 DEF RecordJob, IInv, TypeOK, Record
        <4> QED
          BY <4>2 DEF Traced
      <3>2. CASE ~Lambda(i)
        <4>1. inv'[i] = inv[i]
          BY <1>0, <3>2, Elsewhere
        <4> QED
          BY <2>3, <4>1 DEF Traced
      <3> QED
        BY <3>1, <3>2
    <2> QED
      BY <2>1, <2>2, <2>3 DEF Traced
  <1> QED
    BY <1>0, <1>1, <1>2, JobKeepsDocument

\* Every result that BDA delivers finds its document, as long as no call fails
\* and the upload is delivered once.
THEOREM ResultsFindDocuments == Spec => []JobsAreFindable
  <1>1. JobsOK => JobsAreFindable
    BY DEF JobsOK, Traced, JobsAreFindable
  <1>2. Init => JobsOK
    BY ConstantsAssumption DEF Init, JobsOK, Events
  <1>3. FlowOK /\ JobsOK /\ [Next]_vars => JobsOK'
    BY JobsStep
  <1> QED
    BY <1>1, <1>2, <1>3, FlowInvariance, PTL DEF Spec

-----------------------------------------------------------------------------
(* The batch hears of a document once *)

\* The gate has credited a document whose status it is about to write.
EarlyDue(d) == \E i \in Carriers(d) : inv[i].pc = "upsert" /\ inv[i].class \in CreditedEarly

\* The increments of a document, by its status.
Tally(d) ==
    /\ rec[d].status \notin Classified =>
          hist[d].credited = 0 /\ hist[d].early = IF EarlyDue(d) THEN 1 ELSE 0
    /\ rec[d].status \in CreditedEarly =>
          hist[d].early = 1 /\ hist[d].credited = 0 /\ Owed(d) = {}
    /\ rec[d].status \in Heard \ CreditedEarly =>
          hist[d].early = 0 /\ hist[d].credited = IF Owed(d) = {} THEN 1 ELSE 0
    /\ rec[d].status # "deleted" => \A i, k \in Owed(d) : i = k

TallyOK == faults = 0 => \A d \in Docs : Steady(d) /\ Is(d, "batch") => Tally(d)

\* The statuses that are credited early, late and not at all.
LEMMA TallySets ==
    /\ CreditedEarly \subseteq Classified \ {"deleted"}
    /\ Heard \subseteq Classified \ {"deleted"}
    /\ Choices \cap CreditedEarly = {}
    /\ (AllGateVerdicts \ CreditedEarly) \cap (Heard \cup CreditedEarly) = {}
    /\ AllGateVerdicts \subseteq Classified \ {"deleted"}
    /\ PendingExtraction \cap Classified = {}
  BY DEF CreditedEarly, Classified, Heard, Choices, AllGateVerdicts, PendingExtraction

\* Who makes the increment that comes before the upsert.
LEMMA EarlyMakers ==
    ASSUME IInv, [Next]_vars, NEW d \in Docs
    PROVE  \/ hist'[d].early = hist[d].early
           \/ \E i \in Invs : PreCredit(i) /\ inv[i].doc = d
  <1> DEFINE Same == hist'[d].early = hist[d].early
             Made == \E i \in Invs : PreCredit(i) /\ inv[i].doc = d
  <1>0. hist \in [Docs -> History]
    BY DEF IInv, TypeOK
  <1>1. ASSUME NEW i \in Invs, PreCredit(i) PROVE Same \/ Made
    <2>1. CASE inv[i].doc = d
      BY <1>1, <2>1
    <2>2. CASE inv[i].doc # d
      BY <1>0, <1>1, <2>2, CountedSpares DEF PreCredit
    <2> QED
      BY <2>1, <2>2
  <1>2. ASSUME NEW x, hist' = Counted(x, "credited") PROVE Same
    <2>1. hist' = hist \/ hist' = [hist EXCEPT ![x].credited = @ + 1]
      BY <1>2 DEF Counted
    <2> QED
      BY <1>0, <2>1 DEF History
  <1>3. ASSUME NEW i \in Invs, Upsert(i) \/ Claim(i) PROVE Same
    BY <1>0, <1>3 DEF Upsert, Claim, History
  <1>4. ASSUME NEW i \in Invs, WriteTerminal(i) PROVE Same
    BY <1>0, <1>4 DEF WriteTerminal, History
  <1>5. ASSUME NEW row \in reaper.todo, Reap(row) PROVE Same
    <2>1. \A s : Mark(row, s) => Same
      BY <1>0 DEF Mark, History
    <2> QED
      BY <1>5, <2>1 DEF Reap
  <1>6. ASSUME ReaperCredit PROVE Same
    BY <1>2, <1>6 DEF ReaperCredit
  <1>7. ASSUME NEW i \in Invs, Lambda(i) PROVE Same \/ Made
    <2> HIDE DEF Made, Same
    <2>1. CASE \/ Gate(i) \/ Reread(i) \/ Dispatch(i) \/ Extract(i) \/ BdaPath(i)
               \/ (\E j \in Jobs : Invoke(i, j)) \/ Handler(i) \/ MethodResponse(i)
               \/ Throttled(i) \/ Raise(i) \/ Crash(i)
      BY <2>1 DEF Gate, Reread, Dispatch, Extract, BdaPath, Invoke, Handler,
                  MethodResponse, Throttled, Raise, Crash, Same
    <2>2. CASE \/ \E e \in Docs : Receive(i, e) \/ UploadFails(i, e) \/ WaitTimesOut(i, e)
               \/ \E j \in Jobs : ReceiveResult(i, j)
               \/ FinalizeGate(i) \/ RecordJob(i) \/ WriteV1(i)
      BY <2>2 DEF Receive, UploadFails, WaitTimesOut, ReceiveResult, FinalizeGate, RecordJob,
                  WriteV1, Same
    <2>3. CASE Credit(i)
      BY <1>2, <2>3 DEF Credit
    <2> QED
      BY <1>1, <1>3, <1>4, <1>7, <2>1, <2>2, <2>3 DEF Lambda, Advance
  <1>8. ASSUME Sweep \/ ReaperCrash \/ UNCHANGED vars PROVE Same
    BY <1>8 DEF Sweep, ReaperCrash, vars
  <1>9. ASSUME NEW e, Emit(e) \/ EndJob(e) \/ Age(e) \/ BeginDelete(e) \/ EndDelete(e) PROVE Same
    BY <1>9 DEF Emit, EndJob, Age, BeginDelete, EndDelete
  <1> HIDE DEF Same, Made
  <1>10. Same \/ Made
    BY <1>5, <1>6, <1>7, <1>8, <1>9 DEF Next, Reaper
  <1> QED
    BY <1>10 DEF Same, Made

\* Without failures, who owes an increment stores the response and makes it.
LEMMA OwerPays ==
    ASSUME IInv, NEW i \in Invs, Lambda(i), inv[i].pc \in Owing, faults' = 0
    PROVE  WriteV1(i) \/ Credit(i)
  <1>1. ~Fault
    BY DEF Fault, IInv, TypeOK
  <1>2. ~(Throttled(i) \/ Raise(i) \/ Crash(i))
    BY <1>1 DEF Throttled, Raise, Crash
  <1>3. ~(Gate(i) \/ PreCredit(i) \/ Upsert(i) \/ FinalizeGate(i) \/ Reread(i))
    BY DEF Gate, PreCredit, Upsert, FinalizeGate, Reread, At, Owing
  <1>4. /\ ~(Dispatch(i) \/ Claim(i) \/ Extract(i) \/ BdaPath(i) \/ Handler(i) \/ RecordJob(i))
        /\ \A j \in Jobs : ~Invoke(i, j)
    BY DEF Dispatch, Claim, Extract, BdaPath, Invoke, Handler, RecordJob, At, Owing
  <1>5. ~(WriteTerminal(i) \/ MethodResponse(i))
    BY DEF WriteTerminal, MethodResponse, At, Owing
  <1>6. /\ \A d \in Docs : ~(Receive(i, d) \/ UploadFails(i, d) \/ WaitTimesOut(i, d))
        /\ \A j \in Jobs : ~ReceiveResult(i, j)
    BY DEF Receive, UploadFails, WaitTimesOut, ReceiveResult, At, Owing
  <1> QED
    BY <1>2, <1>3, <1>4, <1>5, <1>6 DEF Lambda, Advance

\* Without failures, the upsert follows its choice.
LEMMA UpserterWrites ==
    ASSUME IInv, NEW i \in Invs, Lambda(i), inv[i].pc = "upsert", faults' = 0
    PROVE  Upsert(i)
  <1>1. ~Fault
    BY DEF Fault, IInv, TypeOK
  <1>2. ~(Throttled(i) \/ Raise(i) \/ Crash(i))
    BY <1>1 DEF Throttled, Raise, Crash
  <1>3. ~(Gate(i) \/ PreCredit(i) \/ FinalizeGate(i) \/ Reread(i))
    BY DEF Gate, PreCredit, FinalizeGate, Reread, At
  <1>4. /\ ~(Dispatch(i) \/ Claim(i) \/ Extract(i) \/ BdaPath(i) \/ Handler(i) \/ RecordJob(i))
        /\ \A j \in Jobs : ~Invoke(i, j)
    BY DEF Dispatch, Claim, Extract, BdaPath, Invoke, Handler, RecordJob, At
  <1>5. ~(WriteTerminal(i) \/ WriteV1(i) \/ Credit(i) \/ MethodResponse(i))
    BY DEF WriteTerminal, WriteV1, Credit, MethodResponse, At
  <1>6. /\ \A d \in Docs : ~(Receive(i, d) \/ UploadFails(i, d) \/ WaitTimesOut(i, d))
        /\ \A j \in Jobs : ~ReceiveResult(i, j)
    BY DEF Receive, UploadFails, WaitTimesOut, ReceiveResult, At
  <1> QED
    BY <1>2, <1>3, <1>4, <1>5, <1>6 DEF Lambda, Advance

\* The gate leaves for the upsert without a status that is credited early.
LEMMA GateLeaves ==
    ASSUME InvsOK, NEW i \in Invs, Gate(i)
    PROVE  inv'[i].pc = "precredit" \/ inv'[i].class \notin CreditedEarly
  <1>0. inv[i] \in Invocation
    BY DEF InvsOK
  <1>1. CASE \E c \in BOOLEAN, id \in BOOLEAN :
                 inv' = [inv EXCEPT ![i].pc = "upsert", ![i].class = Passed(inv[i].doc),
                                    ![i].categorized = c, ![i].identity = id]
    <2>1. inv'[i].class = Passed(inv[i].doc)
      BY <1>0, <1>1 DEF InvsOK, Invocation
    <2>2. Passed(inv[i].doc) \in PendingExtraction
      BY DEF Passed, PendingExtraction
    <2> QED
      BY <2>1, <2>2 DEF PendingExtraction, CreditedEarly
  <1>2. ASSUME NEW v,
               inv' = [inv EXCEPT ![i].class = v, ![i].categorized = v \in Preclassified,
                         ![i].pc = IF v \in CreditedEarly THEN "precredit" ELSE "upsert"]
        PROVE  inv'[i].pc = "precredit" \/ inv'[i].class \notin CreditedEarly
    <2> DEFINE pc == IF v \in CreditedEarly THEN "precredit" ELSE "upsert"
               c == v \in Preclassified
    <2>1. pc = "precredit" \/ v \notin CreditedEarly
      OBVIOUS
    <2>2. inv' = [inv EXCEPT ![i].class = v, ![i].categorized = c, ![i].pc = pc]
      BY <1>2
    <2> HIDE DEF pc, c
    <2>3. inv'[i].pc = pc /\ inv'[i].class = v
      BY <1>0, <2>2 DEF InvsOK, Invocation
    <2> QED
      BY <2>1, <2>3
  <1> QED
    BY <1>1, <1>2 DEF Gate

\* Who is about to write such a status has credited it.
LEMMA UpsertEntered ==
    ASSUME IInv, NEW i \in Invs, Origin(inv[i]), Lambda(i), inv'[i].pc = "upsert",
           inv'[i].class \in CreditedEarly
    PROVE  PreCredit(i)
  <1>0. InvsOK
    BY DEF IInv
  <1>1. ASSUME \/ \E d \in Docs : Receive(i, d) \/ UploadFails(i, d) \/ WaitTimesOut(i, d)
               \/ \E j \in Jobs : ReceiveResult(i, j)
        PROVE  FALSE
    BY <1>0, <1>1, ReceiveFields, ApiFields, ResultFields
  <1>2. CASE Runs(i)
    <2>1. ~Ends(i)
      BY DEF Ends, Idle
    <2>2. inv[i].pc \in Opening
      BY <1>2, <2>1, RunFlows DEF Stays, Opening
    <2>3. ~(Upsert(i) \/ Raise(i) \/ Crash(i))
      <3>1. ~Throw(i)
        <4>1. ~EnterHandler(i) /\ ~Fail(i)
          BY <1>0 DEF EnterHandler, Fail, InvsOK, Idle, Invocation
        <4>2. inv' # [inv EXCEPT ![i].pc = "bda", ![i].ctx = "main"]
          BY <1>0 DEF InvsOK, Invocation
        <4> QED
          BY <4>1, <4>2 DEF Throw
      <3>2. ~Goto(i, "reread") /\ ~Goto(i, "finalize") /\ ~Fail(i)
        BY <1>0 DEF Goto, Fail, Idle, InvsOK, Invocation
      <3> QED
        BY <3>1, <3>2 DEF Upsert, Raise, Crash
    <2>4. ~(FinalizeGate(i) \/ Reread(i) \/ Throttled(i))
      BY <2>2 DEF FinalizeGate, Reread, Throttled, At, Opening
    <2>5. /\ ~(Dispatch(i) \/ Claim(i) \/ Extract(i) \/ BdaPath(i) \/ Handler(i) \/ RecordJob(i))
          /\ \A j \in Jobs : ~Invoke(i, j)
      BY <2>2 DEF Dispatch, Claim, Extract, BdaPath, Invoke, Handler, RecordJob, At, Opening
    <2>6. ~(WriteTerminal(i) \/ WriteV1(i) \/ Credit(i) \/ MethodResponse(i))
      BY <2>2 DEF WriteTerminal, WriteV1, Credit, MethodResponse, At, Opening
    <2>7. ~Gate(i)
      BY <1>0, GateLeaves
    <2> QED
      BY <1>2, <2>3, <2>4, <2>5, <2>6, <2>7 DEF Runs, Advance
  <1> QED
    BY <1>1, <1>2 DEF Lambda, Runs

\* What the steps below share: d belongs to a batch, and nothing has failed.
Tallied(d) ==
    /\ FlowOK /\ [Next]_vars /\ faults' = 0
    /\ Steady(d) /\ Steady(d)' /\ InStep(d) /\ Is(d, "batch") /\ Tally(d)

\* What Tallied brings along.
LEMMA TallyBasics ==
    ASSUME NEW d \in Docs, Tallied(d)
    PROVE  /\ IInv /\ OriginOK /\ OnceOK /\ InvsOK /\ AgedOK /\ BaseOK /\ ChoicesOK
           /\ ~Is(d, "repeated") /\ ~Is(d, "waited") /\ ~aged[d]
           /\ hist[d].credited \in Nat /\ hist[d].early \in Nat
  BY DEF Tallied, FlowOK, BaseOK, IInv, Steady, TypeOK, History

\* The processor that has the document is alone with it.
LEMMA AloneAtWork ==
    ASSUME NEW d \in Docs, Tallied(d), NEW i \in Invs, inv[i].doc = d,
           inv[i].pc \in Processing, Moves(i)
    PROVE  /\ i \in Carriers(d) /\ \A k \in Invs : inv[k].doc = d => k = i
           /\ Owed(d) = {} /\ Owed(d)' \subseteq {i}
           /\ Carriers(d) = {i} /\ Carriers(d)' \subseteq {i}
  <1>1. i \in Carriers(d)
    BY TallyBasics, ProcessorCarries
  <1>2. \A k \in Invs : inv[k].doc = d => k = i
    BY <1>1, TallyBasics, OnlyOne
  <1>3. \A k \in Invs : inv[k].event = d => inv[k].doc = d
    BY TallyBasics DEF OriginOK, Origin
  <1>4. Carriers(d) = {i} /\ Carriers(d)' \subseteq {i}
    BY <1>1, <1>2, <1>3 DEF Carriers, Moves
  <1>5. inv[i].pc \notin Owing
    BY DEF Processing, Owing
  <1>6. Owed(d) = {} /\ Owed(d)' \subseteq {i}
    BY <1>2, <1>5 DEF Owed, Moves
  <1> QED
    BY <1>1, <1>2, <1>4, <1>6

\* The writes of a status: the tally of the old one becomes that of the new.
LEMMA WrittenTally ==
    ASSUME NEW d \in Docs, Tallied(d), NEW i \in Invs, Writes(i, d)
    PROVE  Tally(d)'
  <1>0. /\ hist'[d].credited = hist[d].credited /\ hist'[d].early = hist[d].early
        /\ inv[i].doc = d
    BY TallyBasics, WriteOrCredit DEF Writes
  <1>1. Lambda(i) /\ Moves(i)
    <2>1. Lambda(i)
      BY DEF Writes, Lambda, Advance
    <2> QED
      BY <2>1, TallyBasics, LambdaMoves
  <1>2. /\ Upsert(i) => rec[d].status \in Waiting
        /\ Claim(i) => rec[d].status \in Open
        /\ RecordJob(i) => rec[d].status = "started"
        /\ WriteTerminal(i) => inv[i].class \in Choices
    BY TallyBasics, InStepWritten DEF Tallied
  <1>3. CASE Upsert(i) /\ rec'[d].status = inv[i].class
    <2>1. inv[i].pc = "upsert" /\ inv'[i].pc \in {"reread", "finalize"}
      BY <1>3, TallyBasics, GotoMoves DEF Upsert, At, PCs
    <2>2. Carriers(d) = {i} /\ Carriers(d)' \subseteq {i} /\ Owed(d)' \subseteq {i}
      BY <1>0, <1>1, <2>1, AloneAtWork DEF Processing
    <2>3. EarlyDue(d) <=> inv[i].class \in CreditedEarly
      BY <2>1, <2>2 DEF EarlyDue
    <2>4. ~EarlyDue(d)' /\ Owed(d)' = {}
      BY <2>1, <2>2 DEF EarlyDue, Owed, Owing
    <2>5. hist[d].credited = 0 /\ hist[d].early = IF EarlyDue(d) THEN 1 ELSE 0
      BY <1>2, <1>3, StatusSets DEF Tallied, Tally
    <2>6. inv[i].class \in PendingExtraction \cup CreditedEarly \cup AllGateVerdicts
      BY <2>1, TallyBasics DEF ChoicesOK, Chooses
    <2>7. CASE inv[i].class \in CreditedEarly
      BY <1>0, <1>3, <2>3, <2>4, <2>5, <2>7, TallySets DEF Tally
    <2>8. CASE inv[i].class \in PendingExtraction
      <3>1. inv[i].class \notin Classified /\ inv[i].class \notin CreditedEarly \cup Heard
        BY <2>8, TallySets
      <3> QED
        BY <1>0, <1>3, <2>3, <2>4, <2>5, <3>1 DEF Tally
    <2>9. CASE inv[i].class \in AllGateVerdicts \ CreditedEarly
      <3>1. inv[i].class \in Classified /\ inv[i].class \notin CreditedEarly \cup Heard
        BY <2>9, TallySets
      <3> QED
        BY <1>3, <2>4, <3>1 DEF Tally
    <2> QED
      BY <2>6, <2>7, <2>8, <2>9
  <1>4. CASE (Claim(i) \/ RecordJob(i)) /\ rec'[d].status = "started"
    <2>1. /\ inv[i].pc \in {"claim", "record"} /\ inv'[i].pc \in {"extract", "idle"}
      <3>1. inv \in [Invs -> Invocation] /\ InvsOK
        BY TallyBasics DEF InvsOK
      <3>2. inv[i].pc \in {"claim", "record"} /\ (Goto(i, "extract") \/ Finish(i))
        BY <1>4 DEF Claim, RecordJob, At
      <3>3. Goto(i, "extract") => inv'[i].pc = "extract"
        BY <3>1, GotoMoves DEF PCs
      <3>4. Finish(i) => inv'[i].pc = "idle"
        BY <3>1 DEF Finish, Idle
      <3> QED
        BY <3>2, <3>3, <3>4
    <2>2. Carriers(d) = {i} /\ Carriers(d)' \subseteq {i} /\ Owed(d)' \subseteq {i}
      BY <1>0, <1>1, <2>1, AloneAtWork DEF Processing
    <2>3. ~EarlyDue(d) /\ ~EarlyDue(d)' /\ Owed(d)' = {}
      BY <2>1, <2>2 DEF EarlyDue, Owed, Owing
    <2>4. rec[d].status \notin Classified
      BY <1>2, <1>4, StatusSets
    <2>5. hist[d].credited = 0 /\ hist[d].early = 0
      BY <2>3, <2>4 DEF Tallied, Tally
    <2>6. "started" \notin Classified \cup CreditedEarly \cup Heard
      BY StatusSets, TallySets
    <2> QED
      BY <1>0, <1>4, <2>3, <2>5, <2>6 DEF Tally
  <1>5. CASE /\ WriteTerminal(i) /\ Goto(i, "v1") /\ MayBecomeTerminal(rec[d].status)
             /\ rec'[d].status = Recorded(inv[i].class)
    <2>1. inv[i].pc = "classify" /\ inv'[i].pc = "v1" /\ inv'[i].doc = d
      BY <1>0, <1>5, TallyBasics, GotoMoves DEF WriteTerminal, At, PCs
    <2>2. rec[d].status \notin Classified
      BY <1>5, Phases
    <2>3. ~EarlyDue(d)
      <3>1. ASSUME NEW k \in Carriers(d), inv[k].pc = "upsert" PROVE FALSE
        <4>1. i = k
          BY <1>0, TallyBasics, OnlyOne
        <4> QED
          BY <2>1, <3>1, <4>1
      <3> QED
        BY <3>1 DEF EarlyDue
    <2>4. hist[d].credited = 0 /\ hist[d].early = 0
      BY <2>2, <2>3 DEF Tallied, Tally
    <2>5. Owed(d) = {}
      BY <2>2 DEF Owed, Tallied, InStep
    <2>6. Owed(d)' = {i}
      BY <1>1, <2>1, <2>5 DEF Owed, Moves, Owing
    <2>7. rec'[d].status \in Choices
      BY <1>2, <1>5, Verdicts
    <2>8. rec'[d].status \in Classified /\ rec'[d].status \notin CreditedEarly
      BY <2>7, StatusSets, TallySets
    <2> QED
      BY <1>0, <2>4, <2>6, <2>8 DEF Tally
  <1> QED
    BY <1>3, <1>4, <1>5 DEF Writes

\* A deleted document has no tally to keep.
LEMMA DeletedTally ==
    ASSUME NEW d \in Docs, rec'[d].status = "deleted" PROVE Tally(d)'
  BY StatusSets, TallySets DEF Tally

\* The increment after a terminal write.
LEMMA CreditTally ==
    ASSUME NEW d \in Docs, Tallied(d), NEW i \in Invs, Credit(i), inv[i].doc = d
    PROVE  Tally(d)'
  <1>1. i \in Owed(d) /\ rec[d].status \in Classified
    BY DEF Owed, Credit, At, Owing, Tallied, InStep
  <1>2. rec' = rec
    BY DEF Credit
  <1>3. CASE rec[d].status = "deleted"
    BY <1>2, <1>3, DeletedTally
  <1>4. CASE rec[d].status # "deleted"
    <2>1. Owed(d) = {i}
      BY <1>1, <1>4 DEF Tallied, Tally
    <2>2. Frees(i)
      <3>1. Goto(i, "method") \/ Return(i)
        BY DEF Credit
      <3> QED
        BY <3>1, TallyBasics, GotoMoves, ReturnFrees DEF Frees, Owing, PCs
    <2>3. Owed(d)' = {}
      BY <2>1, <2>2 DEF Owed, Frees, Moves
    <2>4. hist' = [hist EXCEPT ![d]["credited"] = @ + 1]
      BY DEF Credit, Counted, Tallied
    <2>5. hist \in [Docs -> History]
      BY TallyBasics DEF IInv, TypeOK
    <2>6. hist'[d].credited = hist[d].credited + 1 /\ hist'[d].early = hist[d].early
      BY <2>4, <2>5 DEF History
    <2>7. rec[d].status \notin CreditedEarly
      BY <1>1 DEF Tallied, Tally
    <2>8. rec[d].status \in Heard => hist[d].early = 0 /\ hist[d].credited = 0
      BY <1>1, <2>7 DEF Tallied, Tally
    <2> QED
      BY <1>1, <1>2, <2>3, <2>6, <2>7, <2>8 DEF Tally
  <1> QED
    BY <1>3, <1>4

\* The increment before the upsert.
LEMMA PreCreditTally ==
    ASSUME NEW d \in Docs, Tallied(d), NEW i \in Invs, PreCredit(i), inv[i].doc = d
    PROVE  Tally(d)'
  <1>0. inv[i].pc = "precredit" /\ rec' = rec /\ Goto(i, "upsert")
    BY DEF PreCredit, At
  <1>1. Moves(i) /\ inv'[i].pc = "upsert" /\ inv'[i].doc = d
    BY <1>0, TallyBasics, GotoMoves DEF PCs
  <1>2. inv'[i].class = inv[i].class /\ inv'[i].event = inv[i].event /\ inv'[i].ctx = inv[i].ctx
    BY <1>0, TallyBasics DEF Goto, InvsOK, Invocation
  <1>3. /\ i \in Carriers(d) /\ Carriers(d) = {i} /\ Carriers(d)' \subseteq {i}
        /\ Owed(d)' \subseteq {i}
    BY <1>0, <1>1, AloneAtWork DEF Processing
  <1>4. inv[i].class \in CreditedEarly
    BY <1>0, TallyBasics DEF ChoicesOK, Chooses
  <1>5. ~EarlyDue(d)
    BY <1>0, <1>3 DEF EarlyDue
  <1>6. EarlyDue(d)' /\ Owed(d)' = {}
    BY <1>1, <1>2, <1>3, <1>4 DEF EarlyDue, Carriers, Owed, Owing
  <1>7. rec[d].status \notin Classified
    BY <1>0, <1>3, StatusSets DEF Tallied, InStep, Opening
  <1>8. hist[d].credited = 0 /\ hist[d].early = 0
    BY <1>5, <1>7 DEF Tallied, Tally
  <1>9. hist'[d].credited = 0 /\ hist'[d].early = 1
    <2>1. hist' = [hist EXCEPT ![d]["early"] = @ + 1]
      BY DEF PreCredit, Counted, Tallied
    <2>2. hist \in [Docs -> History]
      BY TallyBasics DEF IInv, TypeOK
    <2> QED
      BY <1>8, <2>1, <2>2 DEF History
  <1> QED
    BY <1>0, <1>6, <1>7, <1>9, TallySets DEF Tally

\* Every other step leaves the tally alone.
LEMMA AsideTally ==
    ASSUME NEW d \in Docs, Tallied(d), rec'[d].status = rec[d].status,
           \A i \in Invs : ~Writes(i, d),
           \A i \in Invs : inv[i].doc = d => ~Credit(i) /\ ~PreCredit(i)
    PROVE  Tally(d)'
  <1>1. hist'[d].credited = hist[d].credited /\ hist'[d].early = hist[d].early
    BY TallyBasics, CreditMakers, EarlyMakers DEF Tallied
  <1>2. ASSUME NEW i \in Owed(d) PROVE i \in Owed(d)'
    <2>1. i \in Invs /\ inv[i].doc = d /\ inv[i].pc \in Owing
      BY <1>2 DEF Owed
    <2>2. CASE Lambda(i)
      <3>1. WriteV1(i)
        BY <2>1, <2>2, TallyBasics, OwerPays DEF Tallied
      <3>2. inv'[i].pc = "credit" /\ inv'[i].doc = d
        BY <2>1, <3>1, TallyBasics, GotoMoves DEF WriteV1, PCs
      <3> QED
        BY <2>1, <3>2 DEF Owed, Owing
    <2>3. CASE ~Lambda(i)
      <3>1. inv'[i] = inv[i]
        BY <2>1, <2>3, TallyBasics, Elsewhere DEF Tallied
      <3> QED
        BY <2>1, <3>1 DEF Owed
    <2> QED
      BY <2>2, <2>3
  <1>3. ASSUME NEW i \in Owed(d)' PROVE i \in Owed(d)
    <2>1. i \in Invs /\ inv'[i].doc = d /\ inv'[i].pc \in Owing
      BY <1>3 DEF Owed
    <2>2. CASE Lambda(i)
      <3>1. inv[i].doc = d
        BY <2>1, <2>2, TallyBasics, OwingEntered
      <3>2. ~(WriteTerminal(i) /\ Goto(i, "v1") /\ MayBecomeTerminal(rec[d].status))
        <4>1. ASSUME WriteTerminal(i), MayBecomeTerminal(rec[d].status)
              PROVE  rec'[d].status = Recorded(inv[i].class)
          BY <3>1, <4>1, TallyBasics DEF WriteTerminal, IInv, TypeOK, Record
        <4> QED
          BY <2>1, <3>1, <4>1 DEF Writes
      <3>3. inv[i].pc \in Owing
        BY <2>1, <2>2, <3>1, <3>2, TallyBasics, OwingEntered
      <3> QED
        BY <2>1, <3>1, <3>3 DEF Owed
    <2>3. CASE ~Lambda(i)
      <3>1. inv'[i] = inv[i]
        BY <2>1, <2>3, TallyBasics, Elsewhere DEF Tallied
      <3> QED
        BY <2>1, <3>1 DEF Owed
    <2> QED
      BY <2>2, <2>3
  <1>4. Owed(d)' = Owed(d)
    BY <1>2, <1>3
  <1>5. ASSUME EarlyDue(d) PROVE EarlyDue(d)'
    <2>1. PICK i \in Carriers(d) : inv[i].pc = "upsert" /\ inv[i].class \in CreditedEarly
      BY <1>5 DEF EarlyDue
    <2>2. i \in Invs /\ inv[i].doc = d
      BY <2>1, TallyBasics DEF Carriers, OriginOK, Origin
    <2>3. ~Lambda(i)
      <3>1. ASSUME Upsert(i) PROVE FALSE
        <4>1. rec'[d].status = inv[i].class
          BY <2>2, <3>1, TallyBasics DEF Upsert, IInv, TypeOK, Record
        <4> QED
          BY <2>2, <3>1, <4>1 DEF Writes
      <3> QED
        BY <2>1, <2>2, <3>1, TallyBasics, UpserterWrites DEF Tallied
    <2>4. inv'[i] = inv[i]
      BY <2>2, <2>3, TallyBasics, Elsewhere DEF Tallied
    <2> QED
      BY <2>1, <2>4 DEF EarlyDue, Carriers
  <1>6. ASSUME EarlyDue(d)' PROVE EarlyDue(d)
    <2>1. PICK i \in Carriers(d)' : inv'[i].pc = "upsert" /\ inv'[i].class \in CreditedEarly
      BY <1>6 DEF EarlyDue
    <2>2. i \in Invs /\ inv'[i].event = d /\ inv'[i].ctx # "api"
      BY <2>1 DEF Carriers
    <2>3. CASE Lambda(i)
      <3>1. PreCredit(i)
        BY <2>1, <2>2, <2>3, TallyBasics, UpsertEntered DEF OriginOK
      <3>2. inv[i].pc = "precredit" /\ inv[i].event = d
        BY <2>2, <3>1, TallyBasics DEF PreCredit, At, Goto, InvsOK, Invocation
      <3>3. inv[i].doc = d
        BY <2>2, <3>2, TallyBasics DEF OriginOK, Origin
      <3> QED
        BY <2>2, <3>1, <3>3
    <2>4. CASE ~Lambda(i)
      <3>1. inv'[i] = inv[i]
        BY <2>2, <2>4, TallyBasics, Elsewhere DEF Tallied
      <3> QED
        BY <2>1, <2>2, <3>1 DEF EarlyDue, Carriers
    <2> QED
      BY <2>3, <2>4
  <1>7. EarlyDue(d)' <=> EarlyDue(d)
    BY <1>5, <1>6
  <1> QED
    BY <1>1, <1>4, <1>7 DEF Tallied, Tally

\* Every action keeps the tallies.
LEMMA TallyStep == ASSUME FlowOK, TallyOK, [Next]_vars PROVE TallyOK'
  <1> SUFFICES ASSUME faults' = 0, NEW d \in Docs, Steady(d)', Is(d, "batch")
               PROVE  Tally(d)'
    BY DEF TallyOK, Is
  <1>1. faults = 0 /\ BaseOK /\ IInv /\ AgedOK
    BY AgeingAndDeleting DEF FlowOK, BaseOK
  <1>2. Steady(d)
    BY <1>1, SteadyBefore
  <1>3. Tallied(d)
    BY <1>1, <1>2 DEF Tallied, TallyOK, FlowOK, StatusOK
  <1>4. \/ rec'[d].status = rec[d].status
        \/ \E i \in Invs : Writes(i, d)
        \/ rec'[d].status = "deleted"
    BY <1>1, <1>2, StatusWriters DEF Steady
  <1> QED
    BY <1>3, <1>4, WrittenTally, DeletedTally, CreditTally, PreCreditTally, AsideTally

\* A batch hears exactly once of each document that one invocation at a time
\* may classify, when no call fails.
THEOREM BatchHearsOnce == Spec => []CountedExactlyOnce
  <1>1. FlowOK /\ TallyOK => CountedExactlyOnce
    <2> SUFFICES ASSUME TallyOK, FlowOK, faults = 0, NEW d \in Docs, Quiet(d), Undisturbed(d),
                        Is(d, "batch"), rec[d].status \in Heard
                 PROVE  hist[d].credited + hist[d].early = 1
      BY DEF CountedExactlyOnce
    <2>1. Tally(d)
      BY DEF TallyOK, Undisturbed, Steady
    <2>2. Owed(d) = {}
      BY DEF Quiet, Owed
    <2> QED
      BY <2>1, <2>2 DEF Tally
  <1>2. Init => TallyOK
    <2> SUFFICES ASSUME Init, NEW d \in Docs PROVE Tally(d)
      BY DEF TallyOK
    <2>1. \A i \in Invs : inv[i].event # d /\ inv[i].doc # d
      BY ConstantsAssumption DEF Init, Idle, Events
    <2>2. ~EarlyDue(d) /\ Owed(d) = {}
      BY <2>1 DEF EarlyDue, Carriers, Owed
    <2>3. hist[d].credited = 0 /\ hist[d].early = 0 /\ rec[d].status \in Waiting
      BY DEF Init, Waiting, NonTerminal
    <2>4. rec[d].status \notin Classified \cup CreditedEarly \cup Heard
      BY <2>3, StatusSets, TallySets
    <2> QED
      BY <2>2, <2>3, <2>4 DEF Tally
  <1>3. FlowOK /\ TallyOK /\ [Next]_vars => TallyOK'
    BY TallyStep
  <1> QED
    BY <1>1, <1>2, <1>3, FlowInvariance, PTL DEF Spec
=============================================================================
