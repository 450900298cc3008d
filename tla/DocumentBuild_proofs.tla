------------------------- MODULE DocumentBuild_proofs -------------------------
(***************************************************************************)
(* Proofs about DocumentBuild, for any requests, limits and failures: type *)
(* correctness, that a build is submitted once, that its lock follows its  *)
(* document, that consent is respected, that a build stays within its      *)
(* limit of pages, and that its document holds all of them.                *)
(*                                                                         *)
(* The invariant says what holding the lock means (LockOK): one submission *)
(* past it at most, and none beside a document.  Row 0 must not be written *)
(* by an upload or a stamp, hence PagesOK.                                 *)
(*                                                                         *)
(* A second one is about the pages (PagesInv): what an upload has still to *)
(* write fits beside what is there (LimitOK), and what a submission owes   *)
(* is there until it is listed, and is listed until it is merged (Owes).   *)
(***************************************************************************)
EXTENDS DocumentBuild, FiniteSetTheorems, TLAPS

-----------------------------------------------------------------------------
(* The inductive invariant *)

PCs == {"start"} \cup Active \cup Ended

\* What is uploaded or stamped is never row 0.
PagesOK ==
    \A r \in Requests :
        /\ req[r].pc \in {"put", "row", "stamp"} => req[r].todo \subseteq Pages
        /\ req[r].pc = "row" => req[r].page \in Pages

\* Row 0 is there, and locked by the one submission that is past the lock, or
\* for the one document.
LockOK ==
    /\ rows[0].there /\ rows[0].meta
    /\ \A r \in Submitters : Submitting(r) => rows[0].submitted /\ docs = {}
    /\ \A q, r \in Submitters : Submitting(q) /\ Submitting(r) => q = r
    /\ docs # {} => rows[0].submitted
    /\ \A d, e \in docs : d = e

\* Without failures the lock has a reason.
LockHeld ==
    faults = 0 /\ rows[0].submitted => docs # {} \/ \E r \in Submitters : Submitting(r)

\* Without consent no submission gets past the question.
ConsentOK ==
    ~consent => /\ docs = {}
                /\ \A r \in Submitters : req[r].pc \notin {"pages", "lock"} /\ ~Submitting(r)

IInv == TypeOK /\ PagesOK /\ (~removed => LockOK /\ LockHeld /\ ConsentOK)

-----------------------------------------------------------------------------
(* Type correctness *)

\* An answered request, or one that has not been made.
LEMMA FreshType == Fresh \in Req
  <1>1. 0 \in Numbers
    BY ConstantsAssumption DEF Numbers
  <1>2. [p \in Pages |-> Nobody] \in [Pages -> Uploaders \cup {Nobody}]
    OBVIOUS
  <1> QED
    BY <1>1, <1>2 DEF Fresh, Req

\* Goto and Goto2 keep the requests well typed.
LEMMA GotoType ==
    ASSUME TypeOK, NEW r \in Requests, NEW pc \in PCs, NEW todo \in SUBSET Numbers,
           Goto2(r, pc, todo)
    PROVE  /\ req' \in [Requests -> Req]
           /\ req'[r].pc = pc
           /\ \A q \in Requests \ {r} : req'[q] = req[q]
           /\ pc \notin Ended => req'[r].todo = todo /\ req'[r].page = req[r].page
  <1> DEFINE e == IF pc \in Ended THEN [Fresh EXCEPT !.pc = pc]
                  ELSE [req[r] EXCEPT !.pc = pc, !.todo = todo]
  <1>1. req \in [Requests -> Req] /\ req[r] \in Req
    BY DEF TypeOK
  <1>2. e \in Req /\ e.pc = pc
    <2>1. CASE pc \in Ended
      BY <2>1, FreshType DEF Req, PCs
    <2>2. CASE pc \notin Ended
      BY <2>2, <1>1 DEF Req, PCs
    <2> QED
      BY <2>1, <2>2
  <1>3. pc \notin Ended => e.todo = todo /\ e.page = req[r].page
    BY <1>1 DEF Req
  <1>4. req' = [req EXCEPT ![r] = e]
    BY DEF Goto2
  <1> HIDE DEF e
  <1> QED
    BY <1>1, <1>2, <1>3, <1>4

\* Goto keeps what is still to be treated.
LEMMA GotoKeeps ==
    ASSUME TypeOK, NEW r \in Requests, NEW pc \in PCs, Goto(r, pc)
    PROVE  /\ req' \in [Requests -> Req]
           /\ req'[r].pc = pc
           /\ \A q \in Requests \ {r} : req'[q] = req[q]
           /\ pc \notin Ended => req'[r].todo = req[r].todo /\ req'[r].page = req[r].page
  <1>1. req[r].todo \in SUBSET Numbers
    BY DEF TypeOK, Req
  <1>2. Goto2(r, pc, req[r].todo)
    BY DEF Goto
  <1> QED
    BY <1>1, <1>2, GotoType

-----------------------------------------------------------------------------
(* What a step may do to the lock *)

\* A step that leaves row 0, the documents and the consent alone, lets no
\* submission past the lock or the question, and if there was no failure lets
\* none go.
LEMMA Aside ==
    ASSUME IInv, removed' = removed, rows'[0] = rows[0], docs' = docs,
           consent' = consent, faults' = 0 => faults = 0,
           \A r \in Submitters : Submitting(r)' => Submitting(r),
           \A r \in Submitters : req'[r].pc \in {"pages", "lock"}
                                     => req[r].pc \in {"pages", "lock"},
           faults' = 0 => \A r \in Submitters : Submitting(r) => Submitting(r)'
    PROVE  ~removed' => LockOK' /\ LockHeld' /\ ConsentOK'
  <1> SUFFICES ASSUME ~removed PROVE LockOK' /\ LockHeld' /\ ConsentOK'
    OBVIOUS
  <1>1. LockOK /\ LockHeld /\ ConsentOK
    BY DEF IInv
  <1>2. LockOK'
    BY <1>1 DEF LockOK
  <1>3. LockHeld'
    BY <1>1 DEF LockHeld
  <1>4. ConsentOK'
    BY <1>1 DEF ConsentOK
  <1> QED
    BY <1>2, <1>3, <1>4

\* One request moves between two points that are on the same side of the lock
\* and of the question.
LEMMA Beside ==
    ASSUME IInv, removed' = removed, rows'[0] = rows[0], docs' = docs,
           consent' = consent, faults' = 0 => faults = 0,
           NEW r \in Requests,
           \A q \in Requests \ {r} : req'[q] = req[q],
           r \in Submitters =>
              /\ Submitting(r)' => Submitting(r)
              /\ req'[r].pc \in {"pages", "lock"} => req[r].pc \in {"pages", "lock"}
              /\ faults' = 0 => (Submitting(r) => Submitting(r)')
    PROVE  ~removed' => LockOK' /\ LockHeld' /\ ConsentOK'
  <1>1. \A q \in Submitters \ {r} : req'[q] = req[q]
    BY DEF Requests
  <1>2. \A q \in Submitters \ {r} : Submitting(q)' <=> Submitting(q)
    BY <1>1 DEF Submitting
  <1>3. ASSUME NEW q \in Submitters
        PROVE  /\ Submitting(q)' => Submitting(q)
               /\ req'[q].pc \in {"pages", "lock"} => req[q].pc \in {"pages", "lock"}
               /\ faults' = 0 => (Submitting(q) => Submitting(q)')
    <2>1. CASE q = r
      <3>1. r \in Submitters
        BY <2>1
      <3>2. /\ Submitting(r)' => Submitting(r)
            /\ req'[r].pc \in {"pages", "lock"} => req[r].pc \in {"pages", "lock"}
            /\ faults' = 0 => (Submitting(r) => Submitting(r)')
        BY <3>1
      <3> QED
        BY <2>1, <3>2 DEF Submitting
    <2>2. CASE q # r
      BY <1>1, <1>2, <2>2
    <2> QED
      BY <2>1, <2>2
  <1> QED
    BY <1>3, Aside

\* PagesOK, when one request moves.
LEMMA PagesKept ==
    ASSUME IInv, NEW r \in Requests,
           \A q \in Requests \ {r} : req'[q] = req[q],
           req'[r].pc \in {"put", "row", "stamp"} => req'[r].todo \subseteq Pages,
           req'[r].pc = "row" => req'[r].page \in Pages
    PROVE  PagesOK'
  BY DEF IInv, PagesOK

\* A row that is not row 0 is replaced.
LEMMA RowType ==
    ASSUME TypeOK, NEW p \in Numbers, NEW w \in Row, rows' = [rows EXCEPT ![p] = w]
    PROVE  rows' \in [Numbers -> Row] /\ (p # 0 => rows'[0] = rows[0])
  <1>1. rows \in [Numbers -> Row] /\ 0 \in Numbers
    BY ConstantsAssumption DEF TypeOK, Numbers
  <1> QED
    BY <1>1

\* The replica is made of rows.
LEMMA LagType ==
    ASSUME TypeOK, Lag PROVE replica' \in [Numbers -> Row]
  BY DEF TypeOK, Lag

-----------------------------------------------------------------------------
(* Every request *)

\* The access check.
LEMMA BeginKeeps ==
    ASSUME IInv, NEW r \in Requests, NEW next \in {"list", "consent", "check", "dropAll"},
           Begin(r, next)
    PROVE  IInv'
  <1> DEFINE pc == IF rows[0].there /\ rows[0].meta THEN next ELSE "refused"
  <1>1. pc \in PCs /\ pc \notin {"put", "row", "stamp", "pages", "lock"}
    BY DEF PCs, Active, Ended
  <1>2. TypeOK /\ Goto(r, pc)
    BY DEF Begin, IInv
  <1>3. /\ req' \in [Requests -> Req]
        /\ req'[r].pc = pc
        /\ \A q \in Requests \ {r} : req'[q] = req[q]
    BY <1>1, <1>2, GotoKeeps
  <1>4. owed' \in [Submitters -> SUBSET Pages]
    <2>1. Acknowledged \subseteq Pages
      BY DEF Acknowledged
    <2> QED
      BY <1>2, <2>1 DEF Begin, TypeOK
  <1>5. TypeOK'
    BY <1>2, <1>3, <1>4 DEF Begin, TypeOK
  <1>6. PagesOK'
    BY <1>1, <1>3, PagesKept
  <1>7. ~Submitting(r)' /\ ~Submitting(r)
    BY <1>1, <1>3 DEF Submitting, Begin, At
  <1>8. ~removed' => LockOK' /\ LockHeld' /\ ConsentOK'
    BY <1>1, <1>3, <1>7, Beside DEF Begin
  <1> QED
    BY <1>5, <1>6, <1>8 DEF IInv

\* A failure, caught or not.
LEMMA StopKeeps ==
    ASSUME IInv, NEW r \in Requests, NEW pc \in {"failed", "rollback"}, Stop(r, pc),
           pc = "rollback" => Submitting(r)
    PROVE  IInv'
  <1>1. TypeOK /\ Goto(r, pc) /\ pc \in PCs
    BY DEF Stop, IInv, PCs, Active, Ended
  <1>2. /\ req' \in [Requests -> Req]
        /\ req'[r].pc = pc
        /\ \A q \in Requests \ {r} : req'[q] = req[q]
    BY <1>1, GotoKeeps
  <1>3. faults' \in 0..MaxFaults /\ faults' # 0
    BY <1>1, ConstantsAssumption DEF Stop, TypeOK
  <1>4. TypeOK'
    BY <1>1, <1>2, <1>3 DEF Stop, TypeOK, hist
  <1>5. PagesOK'
    BY <1>2, PagesKept
  <1>6. Submitting(r)' => Submitting(r)
    BY <1>2 DEF Submitting
  <1>7. ~removed' => LockOK' /\ LockHeld' /\ ConsentOK'
    BY <1>2, <1>3, <1>6, Beside DEF Stop, hist
  <1> QED
    BY <1>4, <1>5, <1>7 DEF IInv

-----------------------------------------------------------------------------
(* Uploads and deletions *)

\* The numbers an upload takes are numbers of pages.
LEMMA ListKeeps ==
    ASSUME IInv, NEW r \in Uploaders, List(r) PROVE IInv'
  <1>1. TypeOK /\ r \in Requests /\ r \notin Submitters
    BY ConstantsAssumption DEF IInv, Requests
  <1>2. /\ req' \in [Requests -> Req]
        /\ \A q \in Requests \ {r} : req'[q] = req[q]
        /\ req'[r].pc \in {"put", "row", "stamp"} => req'[r].todo \subseteq Pages
        /\ req'[r].pc # "row"
    <2>1. CASE Goto(r, "refused")
      BY <1>1, <2>1, GotoKeeps DEF PCs, Ended
    <2>2. CASE ~Goto(r, "refused")
      <3>1. PICK files \in 1..BatchSize, p \in Pages, over \in BOOLEAN :
              /\ p + files - 1 \in Pages
              /\ req' = [req EXCEPT ![r].pc = "put", ![r].over = over,
                                    ![r].todo = p..(p + files - 1)]
        BY <2>2 DEF List
      <3> DEFINE w == [req[r] EXCEPT !.pc = "put", !.over = over, !.todo = p..(p + files - 1)]
      <3>2. req \in [Requests -> Req] /\ req[r] \in Req
        BY <1>1 DEF TypeOK
      <3>3. p..(p + files - 1) \subseteq Pages /\ Pages \subseteq Numbers
        BY <3>1, ConstantsAssumption DEF Pages, Numbers
      <3>4. w \in Req /\ w.pc = "put" /\ w.todo = p..(p + files - 1)
        BY <3>2, <3>3 DEF Req, Active
      <3>5. req' = [req EXCEPT ![r] = w]
        BY <3>1, <3>2 DEF Req
      <3> HIDE DEF w
      <3> QED
        BY <1>1, <3>2, <3>3, <3>4, <3>5
    <2> QED
      BY <2>1, <2>2
  <1>3. overlap' \in BOOLEAN
    BY <1>1 DEF List, TypeOK
  <1>4. misled' = misled
    BY <1>1 DEF List, Misled
  <1>5. TypeOK'
    BY <1>1, <1>2, <1>3, <1>4 DEF List, TypeOK
  <1>6. PagesOK'
    BY <1>1, <1>2, PagesKept
  <1>7. ~removed' => LockOK' /\ LockHeld' /\ ConsentOK'
    BY <1>1, <1>2, Beside DEF List
  <1> QED
    BY <1>5, <1>6, <1>7 DEF IInv

\* The bytes.
LEMMA PutKeeps ==
    ASSUME IInv, NEW r \in Uploaders, Put(r) PROVE IInv'
  <1>1. TypeOK /\ r \in Requests /\ r \notin Submitters
    BY ConstantsAssumption DEF IInv, Requests
  <1>2. PICK p \in req[r].todo :
           /\ objects' = [objects EXCEPT ![p] = r]
           /\ req' = [req EXCEPT ![r].pc = "row", ![r].page = p]
    BY DEF Put
  <1> DEFINE w == [req[r] EXCEPT !.pc = "row", !.page = p]
  <1>3. req \in [Requests -> Req] /\ req[r] \in Req
    BY <1>1 DEF TypeOK
  <1>4. req[r].todo \subseteq Pages /\ Pages \subseteq Numbers
    BY <1>1, ConstantsAssumption DEF IInv, PagesOK, Put, At, Pages, Numbers
  <1>5. w \in Req /\ w.todo = req[r].todo /\ w.page = p
    BY <1>3, <1>4 DEF Req, Active
  <1>6. req' = [req EXCEPT ![r] = w]
    BY <1>2, <1>3 DEF Req
  <1> HIDE DEF w
  <1>7. /\ req' \in [Requests -> Req]
        /\ \A q \in Requests \ {r} : req'[q] = req[q]
        /\ req'[r].todo \subseteq Pages /\ req'[r].page \in Pages
    BY <1>1, <1>3, <1>4, <1>5, <1>6
  <1>8. objects' \in [Pages -> Uploaders \cup {Nobody}]
    BY <1>1, <1>2, <1>4 DEF TypeOK
  <1>9. TypeOK'
    BY <1>1, <1>7, <1>8 DEF Put, TypeOK, hist
  <1>10. PagesOK'
    BY <1>1, <1>7, PagesKept
  <1>11. ~removed' => LockOK' /\ LockHeld' /\ ConsentOK'
    BY <1>1, <1>7, Beside DEF Put, hist
  <1> QED
    BY <1>9, <1>10, <1>11 DEF IInv

\* The row of a page.
LEMMA PutRowKeeps ==
    ASSUME IInv, NEW r \in Uploaders, PutRow(r) PROVE IInv'
  <1> DEFINE p == req[r].page
             left == req[r].todo \ {p}
             w == [there |-> TRUE, meta |-> FALSE, by |-> r, submitted |-> FALSE]
  <1>1. TypeOK /\ r \in Requests /\ r \notin Submitters /\ req[r] \in Req
    BY ConstantsAssumption DEF IInv, Requests, TypeOK
  <1>2. p \in Pages /\ req[r].todo \subseteq Pages /\ Pages \subseteq Numbers /\ p # 0
    BY <1>1, ConstantsAssumption DEF IInv, PagesOK, PutRow, At, Pages, Numbers
  <1>3. /\ req' \in [Requests -> Req]
        /\ \A q \in Requests \ {r} : req'[q] = req[q]
        /\ req'[r].pc \in {"put", "row", "stamp"} => req'[r].todo \subseteq Pages
        /\ req'[r].pc # "row"
    <2>1. CASE MayWrite(r)
      <3> DEFINE pc == IF left = {} THEN "ok" ELSE "put"
      <3>1. Goto2(r, pc, left) /\ pc \in PCs /\ left \in SUBSET Numbers
        BY <1>2, <2>1 DEF PutRow, PCs, Active, Ended
      <3>2. pc = "ok" \/ (pc = "put" /\ pc \notin Ended)
        BY DEF Ended
      <3> HIDE DEF pc
      <3> QED
        BY <1>1, <1>2, <3>1, <3>2, GotoType
    <2>2. CASE ~MayWrite(r)
      BY <1>1, <2>2, GotoKeeps DEF PutRow, PCs, Ended
    <2> QED
      BY <2>1, <2>2
  <1>4. rows' \in [Numbers -> Row] /\ rows'[0] = rows[0]
    <2>1. CASE MayWrite(r)
      <3>1. w \in Row
        BY DEF Row
      <3>2. rows' = [rows EXCEPT ![p] = w]
        BY <2>1 DEF PutRow
      <3> HIDE DEF w
      <3> QED
        BY <1>1, <1>2, <3>1, <3>2, RowType
    <2>2. CASE ~MayWrite(r)
      BY <1>1, <2>2 DEF PutRow, TypeOK
    <2> QED
      BY <2>1, <2>2
  <1>5. replica' \in [Numbers -> Row]
    BY <1>1, LagType DEF PutRow
  <1>6. TypeOK'
    BY <1>1, <1>3, <1>4, <1>5 DEF PutRow, TypeOK, hist
  <1>7. PagesOK'
    BY <1>1, <1>3, PagesKept
  <1>8. ~removed' => LockOK' /\ LockHeld' /\ ConsentOK'
    BY <1>1, <1>3, <1>4, Beside DEF PutRow, hist
  <1> QED
    BY <1>6, <1>7, <1>8 DEF IInv

\* The checks of the deletions.
LEMMA CheckKeeps ==
    ASSUME IInv, NEW r \in PageDeleters \cup Deleters, Check(r) PROVE IInv'
  <1>1. TypeOK /\ r \in Requests /\ r \notin Submitters /\ req[r] \in Req
    BY ConstantsAssumption DEF IInv, Requests, TypeOK
  <1>2. /\ req' \in [Requests -> Req]
        /\ \A q \in Requests \ {r} : req'[q] = req[q]
        /\ req'[r].pc \notin {"put", "row", "stamp"}
    <2>1. CASE Goto(r, "refused") \/ Goto(r, "drop")
      BY <1>1, <2>1, GotoKeeps DEF PCs, Ended, Active
    <2>2. ASSUME NEW p \in Numbers, req' = [req EXCEPT ![r].pc = "drop", ![r].page = p]
          PROVE  /\ req' \in [Requests -> Req]
                 /\ \A q \in Requests \ {r} : req'[q] = req[q]
                 /\ req'[r].pc \notin {"put", "row", "stamp"}
      <3> DEFINE w == [req[r] EXCEPT !.pc = "drop", !.page = p]
      <3>1. w \in Req /\ w.pc = "drop"
        BY <1>1 DEF Req, Active
      <3>2. req' = [req EXCEPT ![r] = w] /\ req \in [Requests -> Req]
        BY <1>1, <2>2 DEF Req, TypeOK
      <3> HIDE DEF w
      <3> QED
        BY <1>1, <3>1, <3>2
    <2> QED
      BY <2>1, <2>2 DEF Check
  <1>3. misled' = misled
    BY <1>1 DEF Check, Misled
  <1>4. TypeOK'
    BY <1>1, <1>2, <1>3 DEF Check, TypeOK
  <1>5. PagesOK'
    BY <1>1, <1>2, PagesKept
  <1>6. ~removed' => LockOK' /\ LockHeld' /\ ConsentOK'
    BY <1>1, <1>2, Beside DEF Check
  <1> QED
    BY <1>4, <1>5, <1>6 DEF IInv

\* The object of a page.
LEMMA DropKeeps ==
    ASSUME IInv, NEW r \in PageDeleters \cup Deleters, Drop(r) PROVE IInv'
  <1>1. TypeOK /\ r \in Requests /\ r \notin Submitters
    BY ConstantsAssumption DEF IInv, Requests
  <1>2. PICK pc \in {"dropRow", "loop", "refused"} : Goto(r, pc)
    BY DEF Drop
  <1>3. /\ req' \in [Requests -> Req]
        /\ \A q \in Requests \ {r} : req'[q] = req[q]
        /\ req'[r].pc \notin {"put", "row", "stamp"}
    BY <1>1, <1>2, GotoKeeps DEF PCs, Ended, Active
  <1>4. objects' \in [Pages -> Uploaders \cup {Nobody}]
    BY <1>1 DEF Drop, TypeOK
  <1>5. owed' \in [Submitters -> SUBSET Pages]
    BY <1>1 DEF Drop, TypeOK
  <1>6. TypeOK'
    BY <1>1, <1>3, <1>4, <1>5 DEF Drop, TypeOK
  <1>7. PagesOK'
    BY <1>1, <1>3, PagesKept
  <1>8. ~removed' => LockOK' /\ LockHeld' /\ ConsentOK'
    BY <1>1, <1>3, Beside DEF Drop
  <1> QED
    BY <1>6, <1>7, <1>8 DEF IInv

\* The row, and with row 0 the lock.
LEMMA DropRowKeeps ==
    ASSUME IInv, NEW r \in PageDeleters \cup Deleters, DropRow(r) PROVE IInv'
  <1>1. TypeOK /\ r \in Requests /\ r \notin Submitters
    BY ConstantsAssumption DEF IInv, Requests
  <1>2. PICK pc \in {"loop", "ok"} : Goto(r, pc)
    BY DEF DropRow
  <1>3. /\ req' \in [Requests -> Req]
        /\ \A q \in Requests \ {r} : req'[q] = req[q]
        /\ req'[r].pc \notin {"put", "row", "stamp"}
    BY <1>1, <1>2, GotoKeeps DEF PCs, Ended, Active
  <1>4. req[r].page \in Numbers /\ NoRow \in Row
    BY <1>1 DEF TypeOK, Req, NoRow, Row
  <1>5. /\ rows' \in [Numbers -> Row]
        /\ req[r].page # 0 => rows'[0] = rows[0]
    <2>1. rows' = [rows EXCEPT ![req[r].page] = NoRow]
      BY DEF DropRow
    <2> HIDE DEF NoRow
    <2> QED
      BY <1>1, <1>4, <2>1, RowType
  <1>6. replica' \in [Numbers -> Row]
    BY <1>1, LagType DEF DropRow
  <1>7. TypeOK'
    BY <1>1, <1>3, <1>5, <1>6 DEF DropRow, TypeOK
  <1>8. PagesOK'
    BY <1>1, <1>3, PagesKept
  <1>9. ~removed' => LockOK' /\ LockHeld' /\ ConsentOK'
    <2>1. CASE req[r].page = 0
      BY <2>1 DEF DropRow
    <2>2. CASE req[r].page # 0
      <3>1. removed' = removed
        BY <1>1, <2>2 DEF DropRow, TypeOK
      <3> QED
        BY <1>1, <1>3, <1>5, <2>2, <3>1, Beside DEF DropRow
    <2> QED
      BY <2>1, <2>2
  <1> QED
    BY <1>7, <1>8, <1>9 DEF IInv

\* DELETE of the build lists the pages.
LEMMA ListAllKeeps ==
    ASSUME IInv, NEW r \in Deleters, ListAll(r) PROVE IInv'
  <1>1. TypeOK /\ r \in Requests /\ r \notin Submitters
    BY ConstantsAssumption DEF IInv, Requests
  <1>2. PagesIn(replica) \in SUBSET Numbers
    BY DEF PagesIn
  <1>3. /\ req' \in [Requests -> Req]
        /\ \A q \in Requests \ {r} : req'[q] = req[q]
        /\ req'[r].pc \notin {"put", "row", "stamp"}
    <2>1. CASE Goto(r, "refused")
      BY <1>1, <2>1, GotoKeeps DEF PCs, Ended
    <2>2. CASE Goto2(r, "loop", PagesIn(replica))
      BY <1>1, <1>2, <2>2, GotoType DEF PCs, Active
    <2> QED
      BY <2>1, <2>2 DEF ListAll
  <1>4. misled' = misled
    BY <1>1 DEF ListAll, Misled
  <1>5. TypeOK'
    BY <1>1, <1>3, <1>4 DEF ListAll, TypeOK
  <1>6. PagesOK'
    BY <1>1, <1>3, PagesKept
  <1>7. ~removed' => LockOK' /\ LockHeld' /\ ConsentOK'
    BY <1>1, <1>3, Beside DEF ListAll
  <1> QED
    BY <1>5, <1>6, <1>7 DEF IInv

\* It goes on to the next page, or removes row 0.
LEMMA DeleteNextKeeps ==
    ASSUME IInv, NEW r \in Deleters, DeleteNext(r) PROVE IInv'
  <1>1. TypeOK /\ r \in Requests /\ r \notin Submitters /\ req[r] \in Req
    BY ConstantsAssumption DEF IInv, Requests, TypeOK
  <1>2. /\ req' \in [Requests -> Req]
        /\ \A q \in Requests \ {r} : req'[q] = req[q]
        /\ req'[r].pc \notin {"put", "row", "stamp"}
    <2>1. CASE Goto(r, "ok")
      BY <1>1, <2>1, GotoKeeps DEF PCs, Ended
    <2>2. ASSUME NEW p \in req[r].todo,
                 req' = [req EXCEPT ![r].pc = "check", ![r].page = p, ![r].todo = @ \ {p}]
          PROVE  /\ req' \in [Requests -> Req]
                 /\ \A q \in Requests \ {r} : req'[q] = req[q]
                 /\ req'[r].pc \notin {"put", "row", "stamp"}
      <3> DEFINE w == [req[r] EXCEPT !.pc = "check", !.page = p, !.todo = @ \ {p}]
      <3>1. w \in Req /\ w.pc = "check"
        BY <1>1 DEF Req, Active
      <3>2. req' = [req EXCEPT ![r] = w] /\ req \in [Requests -> Req]
        BY <1>1, <2>2 DEF Req, TypeOK
      <3> HIDE DEF w
      <3> QED
        BY <1>1, <3>1, <3>2
    <2> QED
      BY <2>1, <2>2 DEF DeleteNext
  <1>3. rows' \in [Numbers -> Row]
    <2>1. CASE req[r].todo = {}
      <3>1. NoRow \in Row /\ 0 \in Numbers
        BY ConstantsAssumption DEF NoRow, Row, Numbers
      <3> HIDE DEF NoRow
      <3> QED
        BY <1>1, <2>1, <3>1, RowType DEF DeleteNext
    <2>2. CASE req[r].todo # {}
      BY <1>1, <2>2 DEF DeleteNext, TypeOK
    <2> QED
      BY <2>1, <2>2
  <1>4. replica' \in [Numbers -> Row]
    BY <1>1, LagType DEF DeleteNext
  <1>5. TypeOK'
    BY <1>1, <1>2, <1>3, <1>4 DEF DeleteNext, TypeOK
  <1>6. PagesOK'
    BY <1>1, <1>2, PagesKept
  <1>7. ~removed' => LockOK' /\ LockHeld' /\ ConsentOK'
    <2>1. CASE req[r].todo = {}
      BY <2>1 DEF DeleteNext
    <2>2. CASE req[r].todo # {}
      BY <1>1, <1>2, <2>2, Beside DEF DeleteNext
    <2> QED
      BY <2>1, <2>2
  <1> QED
    BY <1>5, <1>6, <1>7 DEF IInv

-----------------------------------------------------------------------------
(* Submissions *)

\* The question of consent: row 0 is there, so it is asked.
LEMMA ConsentKeeps ==
    ASSUME IInv, NEW r \in Submitters, Consent(r) PROVE IInv'
  <1>1. TypeOK /\ r \in Requests
    BY DEF IInv, Requests
  <1>2. PICK pc \in {"ok", "pages"} : Goto(r, pc) /\ (pc = "pages" => ~Declined)
    BY DEF Consent
  <1>3. /\ req' \in [Requests -> Req]
        /\ \A q \in Requests \ {r} : req'[q] = req[q]
        /\ req'[r].pc = pc
    BY <1>1, <1>2, GotoKeeps DEF PCs, Ended, Active
  <1>4. TypeOK'
    BY <1>1, <1>3 DEF Consent, TypeOK, hist
  <1>5. PagesOK'
    BY <1>1, <1>3, PagesKept
  <1>6. ~Submitting(r) /\ ~Submitting(r)'
    BY <1>3 DEF Submitting, Consent, At
  <1>7. ASSUME ~removed' PROVE LockOK' /\ LockHeld' /\ ConsentOK'
    <2>1. LockOK /\ LockHeld /\ ConsentOK
      BY <1>7 DEF IInv, Consent, hist
    <2>2. \A q \in Submitters : Submitting(q)' <=> Submitting(q)
      BY <1>3, <1>6 DEF Submitting, Requests
    <2>3. LockOK'
      BY <2>1, <2>2 DEF LockOK, Consent, hist
    <2>4. LockHeld'
      BY <2>1, <2>2 DEF LockHeld, Consent, hist
    <2>5. ConsentOK'
      <3>1. CASE pc = "ok"
        BY <1>3, <2>1, <2>2, <3>1 DEF ConsentOK, Consent, hist, Requests
      <3>2. CASE pc = "pages"
        BY <1>2, <2>1, <3>2 DEF ConsentOK, LockOK, Declined, Consent, hist
      <3> QED
        BY <3>1, <3>2
    <2> QED
      BY <2>3, <2>4, <2>5
  <1> QED
    BY <1>4, <1>5, <1>7 DEF IInv

\* The pages.
LEMMA CollectKeeps ==
    ASSUME IInv, NEW r \in Submitters, Collect(r) PROVE IInv'
  <1> DEFINE listed == PagesIn(replica)
             whole == \A p \in listed : replica[p].by # Nobody
             w == [req[r] EXCEPT !.pc = "lock", !.listed = listed, !.whole = whole]
  <1>1. TypeOK /\ r \in Requests /\ req[r] \in Req
    BY DEF IInv, Requests, TypeOK
  <1>2. /\ req' \in [Requests -> Req]
        /\ \A q \in Requests \ {r} : req'[q] = req[q]
        /\ req'[r].pc \in {"refused", "lock"}
    <2>1. CASE Goto(r, "refused")
      BY <1>1, <2>1, GotoKeeps DEF PCs, Ended
    <2>2. CASE req' = [req EXCEPT ![r].pc = "lock", ![r].listed = listed, ![r].whole = whole]
      <3>1. listed \subseteq Numbers /\ whole \in BOOLEAN
        BY DEF PagesIn
      <3> HIDE DEF listed, whole
      <3>2. w \in Req /\ w.pc = "lock"
        BY <1>1, <3>1 DEF Req, Active
      <3>3. req' = [req EXCEPT ![r] = w] /\ req \in [Requests -> Req]
        BY <1>1, <2>2 DEF Req, TypeOK
      <3> HIDE DEF w
      <3> QED
        BY <1>1, <3>2, <3>3
    <2> QED
      BY <2>1, <2>2 DEF Collect
  <1>3. misled' \subseteq Submitters
    BY <1>1 DEF Collect, Misled, TypeOK
  <1>4. TypeOK'
    BY <1>1, <1>2, <1>3 DEF Collect, TypeOK
  <1>5. PagesOK'
    BY <1>1, <1>2, PagesKept
  <1>6. ~Submitting(r) /\ ~Submitting(r)' /\ req[r].pc = "pages"
    BY <1>2 DEF Submitting, Collect, At
  <1>7. ~removed' => LockOK' /\ LockHeld' /\ ConsentOK'
    BY <1>1, <1>2, <1>6, Beside DEF Collect
  <1> QED
    BY <1>4, <1>5, <1>7 DEF IInv

\* Row 0 is written by the lock and the roll-back.
LEMMA WrittenType ==
    ASSUME TypeOK, NEW p \in Numbers, NEW b \in BOOLEAN,
           rows' = [rows EXCEPT ![p] = Written(@, b)]
    PROVE  /\ rows' \in [Numbers -> Row]
           /\ p # 0 => rows'[0] = rows[0]
           /\ p = 0 => /\ rows'[0].there /\ rows'[0].submitted = b
                       /\ rows'[0].meta = rows[0].meta
  <1> DEFINE w == Written(rows[p], b)
  <1>1. rows \in [Numbers -> Row] /\ rows[p] \in Row /\ 0 \in Numbers
    BY ConstantsAssumption DEF TypeOK, Numbers
  <1>2. w \in Row /\ w.there /\ w.submitted = b /\ w.meta = rows[p].meta
    BY <1>1 DEF Row, Written
  <1>3. rows' = [rows EXCEPT ![p] = w]
    OBVIOUS
  <1> HIDE DEF w
  <1> QED
    BY <1>1, <1>2, <1>3

\* The lock: if it was free, nobody is past it and there is no document.
LEMMA LockKeeps ==
    ASSUME IInv, NEW r \in Submitters, Lock(r) PROVE IInv'
  <1>1. TypeOK /\ r \in Requests /\ 0 \in Numbers
    BY ConstantsAssumption DEF IInv, Requests, Numbers
  <1>2. PICK pc \in {"find", "refused"} : Goto(r, pc) /\ (pc = "find" <=> Unlocked)
    BY DEF Lock
  <1>3. /\ req' \in [Requests -> Req]
        /\ \A q \in Requests \ {r} : req'[q] = req[q]
        /\ req'[r].pc = pc
    BY <1>1, <1>2, GotoKeeps DEF PCs, Ended, Active
  <1>4. /\ rows' \in [Numbers -> Row]
        /\ pc = "refused" => rows' = rows
        /\ pc = "find" => rows'[0].there /\ rows'[0].submitted /\ rows'[0].meta = rows[0].meta
    <2>1. CASE pc = "find"
      BY <1>1, <1>2, <2>1, WrittenType DEF Lock
    <2>2. CASE pc = "refused"
      BY <1>1, <1>2, <2>2 DEF Lock, TypeOK
    <2> QED
      BY <2>1, <2>2
  <1>5. replica' \in [Numbers -> Row]
    BY <1>1, LagType DEF Lock
  <1>6. TypeOK'
    BY <1>1, <1>3, <1>4, <1>5 DEF Lock, TypeOK, hist
  <1>7. PagesOK'
    BY <1>1, <1>3, PagesKept
  <1>8. ~removed' => LockOK' /\ LockHeld' /\ ConsentOK'
    <2>1. CASE pc = "refused"
      <3>1. ~Submitting(r) /\ ~Submitting(r)'
        BY <1>3, <2>1 DEF Submitting, Lock, At
      <3> QED
        BY <1>1, <1>3, <1>4, <2>1, <3>1, Beside DEF Lock, hist
    <2>2. ASSUME pc = "find", ~removed' PROVE LockOK' /\ LockHeld' /\ ConsentOK'
      <3>1. LockOK /\ LockHeld /\ ConsentOK
        BY <2>2 DEF IInv, Lock, hist
      <3>2. \A q \in Submitters : ~Submitting(q)
        BY <1>2, <2>2, <3>1 DEF LockOK, Unlocked
      <3>3. docs = {} /\ docs' = docs
        BY <1>2, <2>2, <3>1 DEF LockOK, Unlocked, Lock, hist
      <3>4. \A q \in Submitters : Submitting(q)' <=> q = r
        BY <1>3, <2>2, <3>2 DEF Submitting, Requests
      <3>5. LockOK'
        BY <1>4, <2>2, <3>1, <3>3, <3>4 DEF LockOK
      <3>6. LockHeld'
        BY <3>4 DEF LockHeld
      <3>7. consent' /\ ConsentOK'
        BY <3>1 DEF ConsentOK, Lock, At
      <3> QED
        BY <3>5, <3>6, <3>7
    <2> QED
      BY <2>1, <2>2
  <1> QED
    BY <1>6, <1>7, <1>8 DEF IInv

\* The pages to stamp.
LEMMA FindKeeps ==
    ASSUME IInv, NEW r \in Submitters, Find(r) PROVE IInv'
  <1> DEFINE found == {p \in Pages : replica[p].there}
  <1>1. TypeOK /\ r \in Requests
    BY DEF IInv, Requests
  <1>2. found \in SUBSET Numbers /\ found \subseteq Pages
    BY ConstantsAssumption DEF Pages, Numbers
  <1>3. Goto2(r, "stamp", found) /\ "stamp" \in PCs /\ "stamp" \notin Ended
    BY DEF Find, PCs, Active, Ended
  <1> HIDE DEF found
  <1>4. /\ req' \in [Requests -> Req]
        /\ \A q \in Requests \ {r} : req'[q] = req[q]
        /\ req'[r].pc = "stamp" /\ req'[r].todo = found
    BY <1>1, <1>2, <1>3, GotoType
  <1>5. TypeOK'
    BY <1>1, <1>4 DEF Find, TypeOK, hist
  <1>6. PagesOK'
    BY <1>1, <1>2, <1>4, PagesKept
  <1>7. Submitting(r) /\ Submitting(r)'
    BY <1>4 DEF Submitting, Find, At
  <1>8. ~removed' => LockOK' /\ LockHeld' /\ ConsentOK'
    BY <1>1, <1>4, <1>7, Beside DEF Find, hist
  <1> QED
    BY <1>5, <1>6, <1>8 DEF IInv

\* A page is stamped, or the merge begins.
LEMMA StampKeeps ==
    ASSUME IInv, NEW r \in Submitters, Stamp(r) PROVE IInv'
  <1>1. TypeOK /\ r \in Requests /\ req[r] \in Req
    BY DEF IInv, Requests, TypeOK
  <1>2. req[r].todo \subseteq Pages /\ Pages \subseteq Numbers /\ 0 \notin Pages
    BY <1>1, ConstantsAssumption DEF IInv, PagesOK, Stamp, At, Pages, Numbers
  <1>3. /\ req' \in [Requests -> Req]
        /\ \A q \in Requests \ {r} : req'[q] = req[q]
        /\ req'[r].pc \in {"stamp", "merge"}
        /\ req'[r].pc = "stamp" => req'[r].todo \subseteq Pages
        /\ rows' \in [Numbers -> Row] /\ rows'[0] = rows[0]
    <2>1. CASE req[r].todo = {}
      <3>1. Goto2(r, "merge", ToMerge(r)) /\ rows' = rows
        BY <2>1 DEF Stamp
      <3>2. ToMerge(r) \in SUBSET Numbers /\ "merge" \in PCs
        BY <1>1 DEF ToMerge, Req, PCs, Active
      <3>3. /\ req' \in [Requests -> Req]
            /\ \A q \in Requests \ {r} : req'[q] = req[q]
            /\ req'[r].pc = "merge"
        BY <1>1, <3>1, <3>2, GotoType
      <3> QED
        BY <1>1, <3>1, <3>3 DEF TypeOK
    <2>2. CASE req[r].todo # {}
      <3>1. PICK p \in req[r].todo :
               /\ rows' = [rows EXCEPT ![p] = Written(@, TRUE)]
               /\ Goto2(r, "stamp", req[r].todo \ {p})
        BY <2>2 DEF Stamp
      <3>2. req[r].todo \ {p} \in SUBSET Numbers /\ "stamp" \in PCs /\ "stamp" \notin Ended
        BY <1>2 DEF PCs, Active, Ended
      <3>3. /\ req' \in [Requests -> Req]
            /\ \A q \in Requests \ {r} : req'[q] = req[q]
            /\ req'[r].pc = "stamp" /\ req'[r].todo = req[r].todo \ {p}
        BY <1>1, <3>1, <3>2, GotoType
      <3>4. rows' \in [Numbers -> Row] /\ rows'[0] = rows[0]
        BY <1>1, <1>2, <3>1, WrittenType
      <3> QED
        BY <1>2, <3>3, <3>4
    <2> QED
      BY <2>1, <2>2
  <1>4. replica' \in [Numbers -> Row]
    BY <1>1, LagType DEF Stamp
  <1>5. TypeOK'
    BY <1>1, <1>3, <1>4 DEF Stamp, TypeOK, hist
  <1>6. PagesOK'
    BY <1>1, <1>3, PagesKept
  <1>7. Submitting(r) /\ Submitting(r)'
    BY <1>3 DEF Submitting, Stamp, At
  <1>8. ~removed' => LockOK' /\ LockHeld' /\ ConsentOK'
    BY <1>1, <1>3, <1>7, Beside DEF Stamp, hist
  <1> QED
    BY <1>5, <1>6, <1>8 DEF IInv

\* The bytes of a page.
LEMMA MergeKeeps ==
    ASSUME IInv, NEW r \in Submitters, Merge(r) PROVE IInv'
  <1>1. TypeOK /\ r \in Requests /\ req[r] \in Req
    BY DEF IInv, Requests, TypeOK
  <1>2. /\ req' \in [Requests -> Req]
        /\ \A q \in Requests \ {r} : req'[q] = req[q]
        /\ req'[r].pc \in {"merge", "insert", "rollback"}
    <2>1. CASE Goto(r, "insert") \/ Goto(r, "rollback")
      BY <1>1, <2>1, GotoKeeps DEF PCs, Active
    <2>2. ASSUME NEW p \in req[r].todo, p # 0,
                 req' = [req EXCEPT ![r].todo = @ \ {p}, ![r].content[p] = objects[p]]
          PROVE  /\ req' \in [Requests -> Req]
                 /\ \A q \in Requests \ {r} : req'[q] = req[q]
                 /\ req'[r].pc \in {"merge", "insert", "rollback"}
      <3> DEFINE c == [req[r].content EXCEPT ![p] = objects[p]]
                 w == [req[r] EXCEPT !.todo = @ \ {p}, !.content = c]
      <3>1. p \in Pages
        BY <1>1, <2>2, ConstantsAssumption DEF Req, Numbers, Pages
      <3>2. c \in [Pages -> Uploaders \cup {Nobody}]
        BY <1>1, <3>1 DEF Req, TypeOK
      <3>3. req' = [req EXCEPT ![r] = w] /\ req \in [Requests -> Req]
        BY <1>1, <2>2 DEF Req, TypeOK
      <3> HIDE DEF c
      <3>4. w \in Req /\ w.pc = req[r].pc
        BY <1>1, <3>2 DEF Req
      <3> HIDE DEF w
      <3> QED
        BY <1>1, <3>3, <3>4 DEF Merge, At
    <2> QED
      BY <2>1, <2>2 DEF Merge
  <1>3. TypeOK'
    BY <1>1, <1>2 DEF Merge, TypeOK, hist
  <1>4. PagesOK'
    BY <1>1, <1>2, PagesKept
  <1>5. Submitting(r) /\ Submitting(r)'
    BY <1>2 DEF Submitting, Merge, At
  <1>6. ~removed' => LockOK' /\ LockHeld' /\ ConsentOK'
    BY <1>1, <1>2, <1>5, Beside DEF Merge, hist
  <1> QED
    BY <1>3, <1>4, <1>6 DEF IInv

\* The record of the document.
LEMMA InsertKeeps ==
    ASSUME IInv, NEW r \in Submitters, Insert(r) PROVE IInv'
  <1>1. TypeOK /\ r \in Requests /\ Goto(r, "upload") /\ "upload" \in PCs
    BY DEF IInv, Requests, Insert, PCs, Active
  <1>2. /\ req' \in [Requests -> Req]
        /\ \A q \in Requests \ {r} : req'[q] = req[q]
        /\ req'[r].pc = "upload"
    BY <1>1, GotoKeeps
  <1>3. TypeOK'
    BY <1>1, <1>2 DEF Insert, TypeOK, hist
  <1>4. PagesOK'
    BY <1>1, <1>2, PagesKept
  <1>5. Submitting(r) /\ Submitting(r)'
    BY <1>2 DEF Submitting, Insert, At
  <1>6. ~removed' => LockOK' /\ LockHeld' /\ ConsentOK'
    BY <1>1, <1>2, <1>5, Beside DEF Insert, hist
  <1> QED
    BY <1>3, <1>4, <1>6 DEF IInv

\* The document: there was none, and the only submission past the lock ends.
LEMMA UploadKeeps ==
    ASSUME IInv, NEW r \in Submitters, Upload(r) PROVE IInv'
  <1> DEFINE new == [by |-> r, content |-> req[r].content]
  <1>1. TypeOK /\ r \in Requests /\ Goto(r, "ok") /\ "ok" \in PCs /\ docs' = docs \cup {new}
    BY DEF IInv, Requests, Upload, PCs, Ended
  <1>2. /\ req' \in [Requests -> Req]
        /\ \A q \in Requests \ {r} : req'[q] = req[q]
        /\ req'[r].pc = "ok"
    BY <1>1, GotoKeeps
  <1>3. new \in [by : Submitters, content : [Pages -> Uploaders \cup {Nobody}]]
    BY <1>1 DEF TypeOK, Req
  <1> HIDE DEF new
  <1>4. TypeOK'
    BY <1>1, <1>2, <1>3 DEF Upload, TypeOK
  <1>5. PagesOK'
    BY <1>1, <1>2, PagesKept
  <1>6. Submitting(r) /\ ~Submitting(r)'
    BY <1>2 DEF Submitting, Upload, At
  <1>7. ASSUME ~removed' PROVE LockOK' /\ LockHeld' /\ ConsentOK'
    <2>1. LockOK /\ LockHeld /\ ConsentOK
      BY <1>7 DEF IInv, Upload
    <2>2. \A q \in Submitters : Submitting(q) => q = r
      BY <1>6, <2>1 DEF LockOK
    <2>3. \A q \in Submitters : ~Submitting(q)'
      BY <1>2, <1>6, <2>2 DEF Submitting, Requests
    <2>4. docs = {} /\ rows[0].submitted /\ docs' = {new}
      BY <1>1, <1>6, <2>1 DEF LockOK
    <2>5. LockOK'
      BY <2>1, <2>3, <2>4 DEF LockOK, Upload
    <2>6. LockHeld'
      BY <2>4 DEF LockHeld
    <2>7. ConsentOK'
      BY <1>6, <2>1 DEF ConsentOK, Upload
    <2> QED
      BY <2>5, <2>6, <2>7
  <1> QED
    BY <1>4, <1>5, <1>7 DEF IInv

\* The roll-back: the lock was this submission's.
LEMMA RollbackKeeps ==
    ASSUME IInv, NEW r \in Submitters, Rollback(r) PROVE IInv'
  <1>1. TypeOK /\ r \in Requests /\ Goto(r, "failed") /\ "failed" \in PCs /\ 0 \in Numbers
    BY ConstantsAssumption DEF IInv, Requests, Rollback, PCs, Ended, Numbers
  <1>2. /\ req' \in [Requests -> Req]
        /\ \A q \in Requests \ {r} : req'[q] = req[q]
        /\ req'[r].pc = "failed"
    BY <1>1, GotoKeeps
  <1>3. /\ rows' \in [Numbers -> Row] /\ rows'[0].there /\ ~rows'[0].submitted
        /\ rows'[0].meta = rows[0].meta
    BY <1>1, WrittenType DEF Rollback
  <1>4. replica' \in [Numbers -> Row]
    BY <1>1, LagType DEF Rollback
  <1>5. TypeOK'
    BY <1>1, <1>2, <1>3, <1>4 DEF Rollback, TypeOK, hist
  <1>6. PagesOK'
    BY <1>1, <1>2, PagesKept
  <1>7. Submitting(r) /\ ~Submitting(r)'
    BY <1>2 DEF Submitting, Rollback, At
  <1>8. ASSUME ~removed' PROVE LockOK' /\ LockHeld' /\ ConsentOK'
    <2>1. LockOK /\ LockHeld /\ ConsentOK
      BY <1>8 DEF IInv, Rollback, hist
    <2>2. \A q \in Submitters : Submitting(q) => q = r
      BY <1>7, <2>1 DEF LockOK
    <2>3. \A q \in Submitters : ~Submitting(q)'
      BY <1>2, <1>7, <2>2 DEF Submitting, Requests
    <2>4. docs = {} /\ docs' = {}
      BY <1>7, <2>1 DEF LockOK, Rollback, hist
    <2>5. LockOK'
      BY <1>3, <2>1, <2>3, <2>4 DEF LockOK
    <2>6. LockHeld'
      BY <1>3 DEF LockHeld
    <2>7. ConsentOK'
      BY <1>7, <2>1 DEF ConsentOK, Rollback
    <2> QED
      BY <2>5, <2>6, <2>7
  <1> QED
    BY <1>5, <1>6, <1>8 DEF IInv

-----------------------------------------------------------------------------
(* The theorems *)

\* Every step keeps the invariant.
LEMMA NextKeeps ==
    ASSUME IInv, [Next]_vars PROVE IInv'
  <1>1. CASE UNCHANGED vars
    <2>1. \A r \in Submitters : Submitting(r)' <=> Submitting(r)
      BY <1>1 DEF Submitting, vars
    <2> QED
      BY <1>1, <2>1 DEF IInv, TypeOK, PagesOK, LockOK, LockHeld, ConsentOK, vars
  <1>2. ASSUME NEW r \in Uploaders,
               Begin(r, "list") \/ List(r) \/ Put(r) \/ PutRow(r)
        PROVE  IInv'
    BY <1>2, BeginKeeps, ListKeeps, PutKeeps, PutRowKeeps DEF Requests
  <1>3. ASSUME NEW r \in Submitters,
               \/ Begin(r, "consent") \/ Consent(r) \/ Collect(r) \/ Lock(r) \/ Find(r)
               \/ Stamp(r) \/ Merge(r) \/ Insert(r) \/ Upload(r) \/ Rollback(r)
        PROVE  IInv'
    BY <1>3, BeginKeeps, ConsentKeeps, CollectKeeps, LockKeeps, FindKeeps, StampKeeps,
       MergeKeeps, InsertKeeps, UploadKeeps, RollbackKeeps DEF Requests
  <1>4. ASSUME NEW r \in Submitters, Broken(r) PROVE IInv'
    <2>1. CASE req[r].pc \in {"merge", "insert", "upload"} /\ Stop(r, "rollback")
      BY <2>1, StopKeeps DEF Submitting, Requests
    <2>2. CASE Stop(r, "failed")
      BY <2>2, StopKeeps DEF Requests
    <2> QED
      BY <1>4, <2>1, <2>2 DEF Broken
  <1>5. ASSUME NEW r \in PageDeleters \cup Deleters,
               \/ Begin(r, "check") \/ Check(r) \/ Drop(r) \/ DropRow(r)
        PROVE  IInv'
    BY <1>5, BeginKeeps, CheckKeeps, DropKeeps, DropRowKeeps DEF Requests
  <1>6. ASSUME NEW r \in Deleters, Begin(r, "dropAll") \/ ListAll(r) \/ DeleteNext(r)
        PROVE  IInv'
    BY <1>6, BeginKeeps, ListAllKeeps, DeleteNextKeeps DEF Requests
  <1>7. ASSUME NEW r \in Requests \ Submitters, Stop(r, "failed") PROVE IInv'
    BY <1>7, StopKeeps
  <1>8. CASE Replicate
    <2>1. \A r \in Submitters : Submitting(r)' <=> Submitting(r)
      BY <1>8 DEF Submitting, Replicate
    <2>2. TypeOK' /\ PagesOK'
      BY <1>8 DEF IInv, TypeOK, PagesOK, Replicate, hist
    <2> QED
      BY <1>8, <2>1, <2>2 DEF IInv, LockOK, LockHeld, ConsentOK, Replicate, hist
  <1> QED
    BY <1>1, <1>2, <1>3, <1>4, <1>5, <1>6, <1>7, <1>8 DEF Next

\* A build begins unlocked.
LEMMA InitIInv == Init => IInv
  <1> SUFFICES ASSUME Init PROVE IInv
    OBVIOUS
  <1>1. 0 \in Numbers /\ 0 \notin Pages
    BY ConstantsAssumption DEF Numbers, Pages
  <1>2. rows \in [Numbers -> Row]
    <2>1. NoRow \in Row /\ [NoRow EXCEPT !.there = TRUE, !.meta = TRUE] \in Row
      BY DEF Row, NoRow
    <2> HIDE DEF NoRow
    <2> QED
      BY <2>1 DEF Init
  <1>3. objects \in [Pages -> Uploaders \cup {Nobody}]
    BY DEF Init
  <1>4. req \in [Requests -> Req] /\ \A r \in Requests : req[r].pc = "start"
    <2>1. Fresh.pc = "start"
      BY DEF Fresh
    <2> HIDE DEF Fresh
    <2> QED
      BY <2>1, FreshType DEF Init
  <1>5. TypeOK
    <2>1. replica \in [Numbers -> Row]
      BY <1>2 DEF Init
    <2>2. owed \in [Submitters -> SUBSET Pages]
      BY DEF Init
    <2>3. faults \in 0..MaxFaults
      BY ConstantsAssumption DEF Init
    <2> QED
      BY <1>2, <1>3, <1>4, <2>1, <2>2, <2>3 DEF Init, TypeOK
  <1>6. PagesOK
    BY <1>4 DEF PagesOK
  <1>7. \A r \in Submitters : ~Submitting(r) /\ req[r].pc = "start"
    BY <1>4 DEF Submitting, Requests
  <1>8. rows[0].there /\ rows[0].meta /\ ~rows[0].submitted /\ docs = {}
    BY <1>1 DEF Init, NoRow
  <1>9. LockOK /\ LockHeld /\ ConsentOK
    BY <1>7, <1>8 DEF LockOK, LockHeld, ConsentOK
  <1> QED
    BY <1>5, <1>6, <1>9 DEF IInv

\* The invariant holds in every state.
LEMMA Invariance == Spec => []IInv
  BY InitIInv, NextKeeps, PTL DEF Spec

\* The tables, the requests and the histories of a build keep their types.
THEOREM TypeCorrect == Spec => []TypeOK
  <1>1. IInv => TypeOK
    BY DEF IInv
  <1> QED
    BY <1>1, Invariance, PTL

\* mark_document_build_submitted: of any number of submissions, interleaved
\* with uploads, failures and roll-backs, at most one puts a document.
THEOREM SubmittedOnce == Spec => []SubmitOnce
  <1>1. IInv => SubmitOnce
    <2> SUFFICES ASSUME IInv, ~removed PROVE Cardinality(docs) <= 1
      BY DEF SubmitOnce
    <2>1. \A d, e \in docs : d = e
      BY DEF IInv, LockOK
    <2>2. CASE docs = {}
      BY <2>2, FS_EmptySet
    <2>3. CASE docs # {}
      <3>1. PICK d \in docs : TRUE
        BY <2>3
      <3>2. docs = {d}
        BY <2>1, <3>1
      <3> QED
        BY <3>2, FS_Singleton
    <2> QED
      BY <2>2, <2>3
  <1> QED
    BY <1>1, Invariance, PTL

\* submittedAt: without failures it is set between submissions exactly when
\* there is a document.
THEOREM LockIsTheDocuments == Spec => []LockFollowsDocument
  <1>1. IInv => LockFollowsDocument
    BY DEF IInv, LockOK, LockHeld, LockFollowsDocument
  <1> QED
    BY <1>1, Invariance, PTL

\* aiConsentFlag: nothing of a build without consent is put.
THEOREM ConsentIsRespected == Spec => []ConsentRespected
  <1>1. IInv => ConsentRespected
    BY DEF IInv, ConsentOK, ConsentRespected
  <1> QED
    BY <1>1, Invariance, PTL

-----------------------------------------------------------------------------
(* The pages: the invariant *)

\* The pages that are there and have a key.
Held == {p \in Pages : rows[p].there /\ rows[p].by # Nobody}

\* Rows of pages are not marked as the build's, and a page that is not there
\* was uploaded by nobody.
RowsOK == \A p \in Pages : ~rows[p].meta /\ (~rows[p].there => rows[p].by = Nobody)

\* The page in hand is among those still to be written.
InHandOK == \A r \in Uploaders : req[r].pc = "row" => req[r].page \in req[r].todo

\* While no two uploads overlap, at most one is numbering pages, and those
\* that it is still to write fit beside the ones that are there.
LimitOK ==
    ~overlap =>
        /\ \A q, r \in Uploaders : Uploading(q) /\ Uploading(r) => q = r
        /\ Cardinality(Held) <= MaxPages
        /\ \A r \in Uploaders :
              Uploading(r) => Cardinality(Held \cup req[r].todo) <= MaxPages

\* What has been read or merged of the pages that a submission owes.
Owes(s) ==
    /\ req[s].pc \in {"consent", "pages"} => owed[s] \subseteq Held
    /\ req[s].pc \in {"lock", "find", "stamp"} => owed[s] \subseteq req[s].listed
    /\ req[s].pc = "merge" =>
          \A p \in owed[s] : p \in req[s].todo \/ req[s].content[p] # Nobody
    /\ req[s].pc \in {"insert", "upload"} =>
          \A p \in owed[s] : req[s].content[p] # Nobody

\* A page about to be removed is owed by nobody, and who has put a document
\* has begun.
OwedOK ==
    /\ \A r \in PageDeleters \cup Deleters, s \in Submitters :
          req[r].pc = "dropRow" => req[r].page \notin owed[s]
    /\ \A s \in Submitters \ misled : Owes(s)
    /\ \A d \in docs : req[d.by].pc # "start"
    /\ DocumentIsWhole

PagesInv == RowsOK /\ InHandOK /\ LimitOK /\ OwedOK

-----------------------------------------------------------------------------
(* How rows change *)

\* Pages are few, and row 0 is none.
LEMMA PagesFinite ==
    /\ IsFiniteSet(Pages) /\ Pages \subseteq Numbers /\ 0 \in Numbers /\ 0 \notin Pages
    /\ \A A \in SUBSET Pages : IsFiniteSet(A) /\ Cardinality(A) \in Nat
  <1>1. Last \in Nat
    BY ConstantsAssumption
  <1>2. IsFiniteSet(1..Last)
    BY <1>1, FS_Interval
  <1>3. \A A \in SUBSET Pages : IsFiniteSet(A)
    BY <1>2, FS_Subset DEF Pages
  <1>4. \A A \in SUBSET Pages : Cardinality(A) \in Nat
    BY <1>3, FS_CardinalityType
  <1> QED
    BY <1>1, <1>2, <1>3, <1>4 DEF Pages, Numbers

\* Nothing but the rows matters.
LEMMA SameRows == ASSUME RowsOK, rows' = rows PROVE RowsOK' /\ Held' = Held
  BY DEF RowsOK, Held

\* Row 0 is written.
LEMMA RowOfBuild ==
    ASSUME TypeOK, RowsOK, NEW w, rows' = [rows EXCEPT ![0] = w]
    PROVE  RowsOK' /\ Held' = Held
  <1>1. \A p \in Pages : rows'[p] = rows[p]
    BY PagesFinite DEF TypeOK
  <1> QED
    BY <1>1 DEF RowsOK, Held

\* A page is stamped, which may bring back one that was removed, but no key.
LEMMA RowStamped ==
    ASSUME TypeOK, RowsOK, NEW p \in Pages, rows' = [rows EXCEPT ![p] = Written(@, TRUE)]
    PROVE  RowsOK' /\ Held' = Held
  <1> DEFINE w == Written(rows[p], TRUE)
  <1>1. rows \in [Numbers -> Row] /\ rows[p] \in Row /\ p \in Numbers
    BY PagesFinite DEF TypeOK
  <1>2. w.there /\ w.by = rows[p].by /\ w.meta = rows[p].meta
    BY <1>1 DEF Row, Written
  <1>3. rows' = [rows EXCEPT ![p] = w]
    OBVIOUS
  <1> HIDE DEF w
  <1>4. rows'[p] = w /\ \A q \in Pages \ {p} : rows'[q] = rows[q]
    BY <1>1, <1>3, PagesFinite
  <1>5. RowsOK'
    BY <1>2, <1>4 DEF RowsOK
  <1>6. ASSUME NEW q \in Pages PROVE q \in Held' <=> q \in Held
    <2>1. CASE q = p
      BY <1>2, <1>4, <2>1 DEF RowsOK, Held
    <2>2. CASE q # p
      BY <1>4, <2>2 DEF Held
    <2> QED
      BY <2>1, <2>2
  <1>7. Held' \subseteq Pages /\ Held \subseteq Pages
    BY DEF Held
  <1> QED
    BY <1>5, <1>6, <1>7

\* A page is removed.
LEMMA RowRemoved ==
    ASSUME TypeOK, RowsOK, NEW p \in Numbers, rows' = [rows EXCEPT ![p] = NoRow]
    PROVE  RowsOK' /\ Held' = Held \ {p}
  <1>1. rows'[p] = NoRow /\ \A q \in Numbers \ {p} : rows'[q] = rows[q]
    BY DEF TypeOK
  <1>2. ~NoRow.there /\ ~NoRow.meta /\ NoRow.by = Nobody
    BY DEF NoRow
  <1>3. ASSUME NEW q \in Pages PROVE ~rows'[q].meta /\ (~rows'[q].there => rows'[q].by = Nobody)
    <2>1. CASE q = p
      BY <1>1, <1>2, <2>1
    <2>2. CASE q # p
      BY <1>1, <2>2, PagesFinite DEF RowsOK
    <2> QED
      BY <2>1, <2>2
  <1>4. ASSUME NEW q \in Pages PROVE q \in Held' <=> q \in Held /\ q # p
    <2>1. CASE q = p
      BY <1>1, <1>2, <2>1 DEF Held
    <2>2. CASE q # p
      BY <1>1, <2>2, PagesFinite DEF Held
    <2> QED
      BY <2>1, <2>2
  <1>5. Held' \subseteq Pages /\ Held \subseteq Pages
    BY DEF Held
  <1> QED
    BY <1>3, <1>4, <1>5 DEF RowsOK

\* A page is uploaded.
LEMMA RowPut ==
    ASSUME TypeOK, RowsOK, NEW r \in Uploaders, NEW p \in Pages,
           rows' = [rows EXCEPT ![p] = [there |-> TRUE, meta |-> FALSE, by |-> r,
                                        submitted |-> FALSE]]
    PROVE  RowsOK' /\ Held' = Held \cup {p}
  <1>1. r # Nobody
    BY ConstantsAssumption DEF Requests
  <1> DEFINE w == [there |-> TRUE, meta |-> FALSE, by |-> r, submitted |-> FALSE]
  <1>2. w.there /\ ~w.meta /\ w.by = r
    OBVIOUS
  <1>3. rows' = [rows EXCEPT ![p] = w]
    OBVIOUS
  <1> HIDE DEF w
  <1>4. rows'[p] = w /\ \A q \in Pages \ {p} : rows'[q] = rows[q]
    BY <1>3, PagesFinite DEF TypeOK
  <1>5. RowsOK'
    BY <1>2, <1>4 DEF RowsOK
  <1>6. ASSUME NEW q \in Pages PROVE q \in Held' <=> q \in Held \/ q = p
    <2>1. CASE q = p
      BY <1>1, <1>2, <1>4, <2>1 DEF Held
    <2>2. CASE q # p
      BY <1>4, <2>2 DEF Held
    <2> QED
      BY <2>1, <2>2
  <1>7. Held' \subseteq Pages /\ Held \subseteq Pages
    BY DEF Held
  <1> QED
    BY <1>5, <1>6, <1>7

-----------------------------------------------------------------------------
(* The limit of pages *)

\* Steps that number no pages and put none.
LEMMA LimitAside ==
    ASSUME IInv, PagesInv, overlap' = overlap, RowsOK', Held' \subseteq Held,
           \A r \in Uploaders :
              Uploading(r)' => Uploading(r) /\ req'[r].todo \subseteq req[r].todo
    PROVE  LimitOK'
  <1>1. SUFFICES ASSUME ~overlap'
                 PROVE  /\ \A q, r \in Uploaders : Uploading(q)' /\ Uploading(r)' => q = r
                        /\ Cardinality(Held') <= MaxPages
                        /\ \A r \in Uploaders :
                              Uploading(r)' => Cardinality(Held' \cup req'[r].todo) <= MaxPages
    BY DEF LimitOK
  <1>2. /\ \A q, r \in Uploaders : Uploading(q) /\ Uploading(r) => q = r
        /\ Cardinality(Held) <= MaxPages
        /\ \A r \in Uploaders :
              Uploading(r) => Cardinality(Held \cup req[r].todo) <= MaxPages
    BY <1>1 DEF PagesInv, LimitOK
  <1>3. MaxPages \in Nat /\ Held \subseteq Pages
    BY ConstantsAssumption DEF Held
  <1>4. \A A, B \in SUBSET Pages : B \subseteq A => Cardinality(B) <= Cardinality(A)
    BY PagesFinite, FS_Subset
  <1>5. Cardinality(Held') <= MaxPages
    <2>1. Cardinality(Held') <= Cardinality(Held)
      BY <1>3, <1>4
    <2>2. Cardinality(Held') \in Nat /\ Cardinality(Held) \in Nat
      BY <1>3, PagesFinite
    <2> QED
      BY <1>2, <1>3, <2>1, <2>2
  <1>6. ASSUME NEW r \in Uploaders, Uploading(r)'
        PROVE  Cardinality(Held' \cup req'[r].todo) <= MaxPages
    <2>1. Uploading(r) /\ req'[r].todo \subseteq req[r].todo
      BY <1>6
    <2>2. req[r].todo \subseteq Pages
      BY <2>1 DEF Uploading, IInv, PagesOK, Requests
    <2> DEFINE A == Held \cup req[r].todo
               B == Held' \cup req'[r].todo
    <2>3. A \subseteq Pages /\ B \subseteq A
      BY <1>3, <2>1, <2>2
    <2>4. Cardinality(A) <= MaxPages
      BY <1>2, <2>1
    <2> HIDE DEF A, B
    <2>5. Cardinality(B) <= Cardinality(A) /\ Cardinality(B) \in Nat /\ Cardinality(A) \in Nat
      BY <1>4, <2>3, PagesFinite
    <2>6. Cardinality(B) <= MaxPages
      BY <1>3, <2>4, <2>5
    <2> QED
      BY <2>6 DEF B
  <1> QED
    BY <1>2, <1>5, <1>6

\* One request moves, and no upload begins.
LEMMA LimitBeside ==
    ASSUME IInv, PagesInv, overlap' = overlap, RowsOK', Held' \subseteq Held,
           NEW r \in Requests, \A q \in Requests \ {r} : req'[q] = req[q],
           r \in Uploaders /\ req'[r].pc \in {"put", "row"} =>
              Uploading(r) /\ req'[r].todo \subseteq req[r].todo
    PROVE  LimitOK'
  <1>1. ASSUME NEW q \in Uploaders, Uploading(q)'
        PROVE  Uploading(q) /\ req'[q].todo \subseteq req[q].todo
    <2>1. CASE q = r
      BY <1>1, <2>1 DEF Uploading
    <2>2. CASE q # r
      <3>1. req'[q] = req[q]
        BY <2>2 DEF Requests
      <3> QED
        BY <1>1, <3>1 DEF Uploading
    <2> QED
      BY <2>1, <2>2
  <1> QED
    BY <1>1, LimitAside

\* The numbers that an upload takes fit beside the pages it has read, which
\* are all those there are.
LEMMA ListLimit ==
    ASSUME IInv, PagesInv, NEW r \in Uploaders, List(r) PROVE LimitOK'
  <1> DEFINE listed == PagesIn(replica)
  <1>1. PICK files \in 1..BatchSize :
           IF Full(listed, files)
           THEN Goto(r, "refused") /\ UNCHANGED overlap
           ELSE /\ \E p \in Pages, over \in BOOLEAN :
                     /\ p + files - 1 \in Pages
                     /\ req' = [req EXCEPT ![r].pc = "put", ![r].over = over,
                                           ![r].todo = p..(p + files - 1)]
                /\ overlap' = (overlap \/ replica # rows
                                 \/ \E q \in Uploaders \ {r} : Uploading(q))
    BY DEF List
  <1>2. TypeOK /\ r \in Requests /\ req[r] \in Req /\ RowsOK /\ rows' = rows
    BY DEF IInv, PagesInv, TypeOK, Requests, List
  <1>3. RowsOK' /\ Held' = Held /\ Held \subseteq Pages
    BY <1>2, SameRows DEF Held
  <1>4. CASE Full(listed, files)
    <2>1. Goto(r, "refused") /\ overlap' = overlap
      BY <1>1, <1>4
    <2>2. /\ req'[r].pc = "refused"
          /\ \A q \in Requests \ {r} : req'[q] = req[q]
      BY <1>2, <2>1, GotoKeeps DEF PCs, Ended
    <2> QED
      BY <1>2, <1>3, <2>1, <2>2, LimitBeside
  <1>5. CASE ~Full(listed, files)
    <2>1. PICK p \in Pages, over \in BOOLEAN :
             /\ p + files - 1 \in Pages
             /\ req' = [req EXCEPT ![r].pc = "put", ![r].over = over,
                                   ![r].todo = p..(p + files - 1)]
      BY <1>1, <1>5
    <2>2. overlap' = (overlap \/ replica # rows \/ \E q \in Uploaders \ {r} : Uploading(q))
      BY <1>1, <1>5
    <2> DEFINE w == [req[r] EXCEPT !.pc = "put", !.over = over, !.todo = p..(p + files - 1)]
    <2>3. req' = [req EXCEPT ![r] = w] /\ w.todo = p..(p + files - 1) /\ req \in [Requests -> Req]
      BY <1>2, <2>1 DEF Req, TypeOK
    <2> HIDE DEF w
    <2>4. /\ req'[r].todo = p..(p + files - 1)
          /\ \A q \in Requests \ {r} : req'[q] = req[q]
      BY <1>2, <2>3
    <2>5. SUFFICES ASSUME ~overlap'
                   PROVE  /\ \A q, u \in Uploaders : Uploading(q)' /\ Uploading(u)' => q = u
                          /\ Cardinality(Held') <= MaxPages
                          /\ \A q \in Uploaders :
                                Uploading(q)' => Cardinality(Held' \cup req'[q].todo) <= MaxPages
      BY DEF LimitOK
    <2>6. ~overlap /\ replica = rows /\ \A q \in Uploaders \ {r} : ~Uploading(q)
      BY <2>2, <2>5
    <2>7. \A q \in Uploaders : Uploading(q)' => q = r
      BY <2>4, <2>6 DEF Uploading, Requests
    <2>8. Cardinality(Held) <= MaxPages
      BY <2>6 DEF PagesInv, LimitOK
    <2> DEFINE new == p..(p + files - 1)
    <2>9. Cardinality(Held \cup new) <= MaxPages
      <3>1. Held \subseteq listed
        BY <1>2, <2>6, PagesFinite DEF Held, PagesIn, RowsOK
      <3>2. listed \subseteq Numbers /\ IsFiniteSet(Numbers)
        BY ConstantsAssumption, FS_Interval DEF PagesIn, Numbers
      <3> HIDE DEF listed
      <3>3. IsFiniteSet(listed) /\ Cardinality(Held) <= Cardinality(listed)
        BY <3>1, <3>2, FS_Subset
      <3>4. p \in Nat /\ files \in Nat \ {0} /\ MaxPages \in Nat /\ p \in Int
        BY ConstantsAssumption DEF Pages
      <3>5. IsFiniteSet(new) /\ Cardinality(new) = files
        <4>1. p <= p + files - 1 /\ p + files - 1 \in Int /\ (p + files - 1) - p + 1 = files
          BY <3>4
        <4> QED
          BY <3>4, <4>1, FS_Interval
      <3>6. IsFiniteSet(Held) /\ Cardinality(Held) \in Nat
        BY <1>3, PagesFinite
      <3> HIDE DEF new
      <3>7. /\ IsFiniteSet(Held \cup new)
            /\ Cardinality(Held \cup new) <= Cardinality(Held) + Cardinality(new)
        <4>1. /\ Cardinality(Held \cup new)
                    = Cardinality(Held) + Cardinality(new) - Cardinality(Held \cap new)
              /\ IsFiniteSet(Held \cap new)
          BY <3>5, <3>6, FS_Union, FS_Intersection
        <4>2. Cardinality(Held \cap new) \in Nat
          BY <4>1, FS_CardinalityType
        <4> QED
          BY <3>4, <3>5, <3>6, <4>1, <4>2, FS_Union
      <3>8. Cardinality(listed) + files <= MaxPages
        <4>1. Cardinality(listed) \in Nat
          BY <3>3, FS_CardinalityType
        <4> QED
          BY <1>5, <3>4, <4>1 DEF Full
      <3>9. Cardinality(Held \cup new) \in Nat /\ Cardinality(listed) \in Nat
        BY <3>3, <3>7, FS_CardinalityType
      <3> QED
        BY <3>3, <3>4, <3>5, <3>6, <3>7, <3>8, <3>9
    <2> QED
      BY <1>3, <2>4, <2>7, <2>8, <2>9
  <1> QED
    BY <1>4, <1>5

\* A page that was numbered is written.
LEMMA PutRowLimit ==
    ASSUME IInv, PagesInv, NEW r \in Uploaders, PutRow(r) PROVE RowsOK' /\ LimitOK'
  <1> DEFINE p == req[r].page
             left == req[r].todo \ {p}
  <1>1. TypeOK /\ r \in Requests /\ req[r] \in Req /\ RowsOK /\ req[r].pc = "row"
    BY DEF IInv, PagesInv, TypeOK, Requests, PutRow, At
  <1>2. p \in Pages /\ req[r].todo \subseteq Pages
    BY <1>1 DEF IInv, PagesOK
  <1>3. CASE ~MayWrite(r)
    <2>1. Goto(r, "refused") /\ rows' = rows /\ overlap' = overlap
      BY <1>3 DEF PutRow, hist
    <2>2. /\ req'[r].pc = "refused"
          /\ \A q \in Requests \ {r} : req'[q] = req[q]
      BY <1>1, <2>1, GotoKeeps DEF PCs, Ended
    <2>3. RowsOK' /\ Held' = Held
      BY <1>1, <2>1, SameRows
    <2> QED
      BY <1>1, <2>1, <2>2, <2>3, LimitBeside
  <1>4. CASE MayWrite(r)
    <2> DEFINE pc == IF left = {} THEN "ok" ELSE "put"
    <2>1. Goto2(r, pc, left) /\ pc \in PCs /\ left \in SUBSET Numbers /\ overlap' = overlap
      BY <1>2, <1>4, PagesFinite DEF PutRow, PCs, Active, Ended, hist
    <2>2. pc = "ok" \/ (pc = "put" /\ pc \notin Ended)
      BY DEF Ended
    <2> HIDE DEF pc
    <2>3. /\ \A q \in Requests \ {r} : req'[q] = req[q]
          /\ req'[r].pc \in {"put", "row"} => req'[r].todo = left
      BY <1>1, <2>1, <2>2, GotoType
    <2>4. rows' = [rows EXCEPT ![p] = [there |-> TRUE, meta |-> FALSE, by |-> r,
                                       submitted |-> FALSE]]
      BY <1>4 DEF PutRow
    <2>5. RowsOK' /\ Held' = Held \cup {p}
      BY <1>1, <1>2, <2>4, RowPut
    <2>6. SUFFICES ASSUME ~overlap'
                   PROVE  /\ \A q, u \in Uploaders : Uploading(q)' /\ Uploading(u)' => q = u
                          /\ Cardinality(Held') <= MaxPages
                          /\ \A q \in Uploaders :
                                Uploading(q)' => Cardinality(Held' \cup req'[q].todo) <= MaxPages
      BY <2>5 DEF LimitOK
    <2>7. /\ \A q, u \in Uploaders : Uploading(q) /\ Uploading(u) => q = u
          /\ Uploading(r)
          /\ Cardinality(Held \cup req[r].todo) <= MaxPages
      BY <1>1, <2>1, <2>6 DEF PagesInv, LimitOK, Uploading
    <2>8. \A q \in Uploaders : Uploading(q)' => q = r
      BY <2>3, <2>7 DEF Uploading, Requests
    <2>9. /\ Held' \cup left = Held \cup req[r].todo
          /\ Held' \subseteq Held \cup req[r].todo
      BY <1>1, <2>5 DEF PagesInv, InHandOK
    <2>10. Cardinality(Held' \cup left) <= MaxPages
      BY <2>7, <2>9
    <2>11. Cardinality(Held') <= MaxPages
      <3> DEFINE A == Held \cup req[r].todo
                 B == Held'
      <3>1. A \subseteq Pages /\ B \subseteq A /\ Cardinality(A) <= MaxPages
        BY <1>2, <2>7, <2>9 DEF Held
      <3> HIDE DEF A, B
      <3>2. Cardinality(B) <= Cardinality(A) /\ Cardinality(B) \in Nat /\ Cardinality(A) \in Nat
        BY <3>1, PagesFinite, FS_Subset
      <3>3. Cardinality(B) <= MaxPages
        BY <3>1, <3>2, ConstantsAssumption
      <3> QED
        BY <3>3 DEF B
    <2>12. ASSUME NEW q \in Uploaders, Uploading(q)'
           PROVE  Cardinality(Held' \cup req'[q].todo) <= MaxPages
      <3>1. q = r /\ req'[r].todo = left
        BY <2>3, <2>8, <2>12 DEF Uploading
      <3> QED
        BY <2>10, <3>1
    <2> QED
      BY <2>8, <2>11, <2>12
  <1> QED
    BY <1>3, <1>4

-----------------------------------------------------------------------------
(* What a document holds *)

\* One request moves, what is owed to a submission is there or has been read,
\* and nothing is put.
LEMMA OwedBeside ==
    ASSUME IInv, PagesInv, docs' = docs, misled \subseteq misled',
           NEW r \in Requests, \A q \in Requests \ {r} : req'[q] = req[q],
           req'[r].pc # "start",
           \A s \in Submitters : owed'[s] \subseteq owed[s] /\ owed'[s] \cap Held \subseteq Held',
           r \in PageDeleters \cup Deleters /\ req'[r].pc = "dropRow" =>
              \A s \in Submitters : req'[r].page \notin owed'[s],
           r \in Submitters \ misled' => Owes(r)'
    PROVE  OwedOK'
  <1>1. OwedOK
    BY DEF PagesInv
  <1>2. \A s \in Submitters : owed'[s] \subseteq owed[s]
    OBVIOUS
  <1>3. ASSUME NEW q \in PageDeleters \cup Deleters, NEW s \in Submitters, req'[q].pc = "dropRow"
        PROVE  req'[q].page \notin owed'[s]
    <2>1. CASE q = r
      BY <1>3, <2>1
    <2>2. CASE q # r
      <3>1. req'[q] = req[q]
        BY <2>2 DEF Requests
      <3> QED
        BY <1>1, <1>2, <1>3, <3>1 DEF OwedOK
    <2> QED
      BY <2>1, <2>2
  <1>4. ASSUME NEW s \in Submitters \ misled' PROVE Owes(s)'
    <2>1. CASE s = r
      BY <2>1
    <2>2. CASE s # r
      <3>1. req'[s] = req[s] /\ Owes(s)
        BY <1>1, <2>2 DEF Requests, OwedOK
      <3>2. owed'[s] \subseteq owed[s] /\ owed'[s] \cap Held \subseteq Held'
        OBVIOUS
      <3> QED
        BY <3>1, <3>2 DEF Owes
    <2> QED
      BY <2>1, <2>2
  <1>5. ASSUME NEW d \in docs' PROVE req'[d.by].pc # "start"
    <2>1. CASE d.by = r
      BY <2>1
    <2>2. CASE d.by # r
      <3>1. d.by \in Requests
        BY DEF IInv, TypeOK, Requests
      <3> QED
        BY <1>1, <2>2, <3>1 DEF OwedOK
    <2> QED
      BY <2>1, <2>2
  <1>6. DocumentIsWhole'
    <2>1. ASSUME NEW d \in docs, d.by \notin misled', NEW p \in owed'[d.by]
          PROVE  d.content[p] # Nobody
      <3>1. d.by \in Submitters
        BY DEF IInv, TypeOK
      <3> QED
        BY <1>1, <1>2, <2>1, <3>1 DEF OwedOK, DocumentIsWhole
    <2> QED
      BY <2>1 DEF DocumentIsWhole
  <1> QED
    BY <1>3, <1>4, <1>5, <1>6 DEF OwedOK

\* A request that is not a submission moves, and takes back nothing that is
\* owed.
LEMMA OwedAside ==
    ASSUME IInv, PagesInv, docs' = docs, misled' = misled, owed' = owed, Held \subseteq Held',
           NEW r \in Requests \ Submitters, \A q \in Requests \ {r} : req'[q] = req[q],
           req'[r].pc \notin {"start", "dropRow"}
    PROVE  OwedOK'
  BY OwedBeside

\* The access check of a submission takes note of what it owes.
LEMMA BeginPages ==
    ASSUME IInv, PagesInv, NEW r \in Requests, NEW next \in {"list", "consent", "check", "dropAll"},
           Begin(r, next), next = "consent" <=> r \in Submitters
    PROVE  PagesInv'
  <1> DEFINE pc == IF rows[0].there /\ rows[0].meta THEN next ELSE "refused"
  <1>1. pc \in PCs /\ pc \notin {"put", "row", "start", "dropRow", "pages", "lock", "find",
                                 "stamp", "merge", "insert", "upload"}
    BY DEF PCs, Active, Ended
  <1>2. TypeOK /\ Goto(r, pc) /\ req[r].pc = "start"
    BY DEF Begin, IInv, At
  <1>3. /\ req'[r].pc = pc
        /\ \A q \in Requests \ {r} : req'[q] = req[q]
    BY <1>1, <1>2, GotoKeeps
  <1>4. RowsOK' /\ Held' = Held
    BY SameRows DEF PagesInv, Begin
  <1>5. InHandOK'
    BY <1>1, <1>3 DEF InHandOK, PagesInv, Requests
  <1>6. LimitOK'
    BY <1>1, <1>3, <1>4, LimitBeside DEF Begin
  <1>7. OwedOK'
    <2>1. CASE r \notin Submitters
      BY <1>1, <1>3, <1>4, <2>1, OwedAside DEF Begin
    <2>2. CASE r \in Submitters
      <3>1. owed' = [owed EXCEPT ![r] = Acknowledged] /\ docs' = docs /\ misled' = misled
        BY <2>2 DEF Begin
      <3>2. owed'[r] = Acknowledged /\ \A s \in Submitters \ {r} : owed'[s] = owed[s]
        BY <1>2, <2>2, <3>1 DEF TypeOK
      <3>3. Acknowledged \subseteq Held
        BY DEF Acknowledged, Held
      <3>4. ASSUME NEW q \in PageDeleters \cup Deleters, NEW s \in Submitters,
                   req'[q].pc = "dropRow"
            PROVE  req'[q].page \notin owed'[s]
        <4>1. q \in Requests \ Submitters /\ q # r
          BY <2>2, ConstantsAssumption DEF Requests
        <4>2. req'[q] = req[q]
          BY <1>3, <4>1
        <4>3. Acknowledged = {}
          BY <3>4, <4>1, <4>2 DEF Acknowledged, Active
        <4>4. req[q].page \notin owed[s]
          BY <3>4, <4>2 DEF PagesInv, OwedOK
        <4> QED
          BY <3>2, <4>2, <4>3, <4>4
      <3>5. ASSUME NEW s \in Submitters \ misled' PROVE Owes(s)'
        <4>1. CASE s = r
          BY <1>1, <1>3, <1>4, <3>2, <3>3, <4>1 DEF Owes
        <4>2. CASE s # r
          <5>1. req'[s] = req[s] /\ Owes(s) /\ owed'[s] = owed[s]
            BY <1>3, <3>1, <3>2, <3>5, <4>2 DEF Requests, PagesInv, OwedOK
          <5> QED
            BY <1>4, <5>1 DEF Owes
        <4> QED
          BY <4>1, <4>2
      <3>6. ASSUME NEW d \in docs PROVE d.by # r /\ d.by \in Submitters
        BY <1>2 DEF TypeOK, PagesInv, OwedOK
      <3>7. ASSUME NEW d \in docs' PROVE req'[d.by].pc # "start"
        BY <1>3, <3>1, <3>6 DEF PagesInv, OwedOK, Requests
      <3>8. DocumentIsWhole'
        BY <3>1, <3>2, <3>6 DEF DocumentIsWhole, PagesInv, OwedOK
      <3> QED
        BY <3>4, <3>5, <3>7, <3>8 DEF OwedOK
    <2> QED
      BY <2>1, <2>2
  <1> QED
    BY <1>4, <1>5, <1>6, <1>7 DEF PagesInv

-----------------------------------------------------------------------------
(* The pages: one lemma per action *)

\* A request moves that numbers no pages.
LEMMA PagesBeside ==
    ASSUME IInv, PagesInv, docs' = docs, overlap' = overlap, misled \subseteq misled',
           RowsOK', Held' \subseteq Held,
           NEW r \in Requests, \A q \in Requests \ {r} : req'[q] = req[q],
           req'[r].pc # "start", r \in Uploaders => req'[r].pc \notin {"put", "row"},
           \A s \in Submitters : owed'[s] \subseteq owed[s] /\ owed'[s] \cap Held \subseteq Held',
           r \in PageDeleters \cup Deleters /\ req'[r].pc = "dropRow" =>
              \A s \in Submitters : req'[r].page \notin owed'[s],
           r \in Submitters \ misled' => Owes(r)'
    PROVE  PagesInv'
  <1>1. InHandOK'
    <2>1. ASSUME NEW q \in Uploaders, req'[q].pc = "row" PROVE req'[q] = req[q]
      BY <2>1 DEF Requests
    <2> QED
      BY <2>1 DEF InHandOK, PagesInv
  <1>2. LimitOK'
    BY LimitBeside
  <1>3. OwedOK'
    BY OwedBeside
  <1> QED
    BY <1>1, <1>2, <1>3 DEF PagesInv

\* A request that is over owes nothing.
LEMMA Over == ASSUME NEW r, req'[r].pc \in Ended \cup {"rollback"} PROVE Owes(r)'
  BY DEF Owes, Ended

\* A failure, caught or not.
LEMMA StopPages ==
    ASSUME IInv, PagesInv, NEW r \in Requests, NEW pc \in {"failed", "rollback"}, Stop(r, pc)
    PROVE  PagesInv'
  <1>1. TypeOK /\ Goto(r, pc) /\ pc \in PCs /\ rows' = rows /\ UNCHANGED hist
    BY DEF Stop, IInv, PCs, Active, Ended
  <1>2. /\ req'[r].pc = pc
        /\ \A q \in Requests \ {r} : req'[q] = req[q]
    BY <1>1, GotoKeeps
  <1>3. RowsOK' /\ Held' = Held
    BY <1>1, SameRows DEF PagesInv
  <1>4. Owes(r)'
    BY <1>2, Over DEF Ended
  <1> QED
    BY <1>1, <1>2, <1>3, <1>4, PagesBeside DEF hist

\* An upload is refused, or takes up the pages that there is room for.
LEMMA ListPages ==
    ASSUME IInv, PagesInv, NEW r \in Uploaders, List(r) PROVE PagesInv'
  <1>1. TypeOK /\ r \in Requests /\ r \notin Submitters /\ req[r] \in Req /\ RowsOK
    BY ConstantsAssumption DEF IInv, PagesInv, TypeOK, Requests
  <1>2. /\ \A q \in Requests \ {r} : req'[q] = req[q]
        /\ req'[r].pc \in {"refused", "put"}
    <2>1. CASE Goto(r, "refused")
      BY <1>1, <2>1, GotoKeeps DEF PCs, Ended
    <2>2. ASSUME NEW files \in Nat, NEW p \in Pages, NEW over \in BOOLEAN,
                 req' = [req EXCEPT ![r].pc = "put", ![r].over = over,
                                    ![r].todo = p..(p + files - 1)]
          PROVE  /\ \A q \in Requests \ {r} : req'[q] = req[q]
                 /\ req'[r].pc \in {"refused", "put"}
      <3> DEFINE w == [req[r] EXCEPT !.pc = "put", !.over = over, !.todo = p..(p + files - 1)]
      <3>1. req' = [req EXCEPT ![r] = w] /\ w.pc = "put" /\ req \in [Requests -> Req]
        BY <1>1, <2>2 DEF Req, TypeOK
      <3> HIDE DEF w
      <3> QED
        BY <1>1, <3>1
    <2>3. 1..BatchSize \subseteq Nat
      BY ConstantsAssumption
    <2>4. PICK files \in 1..BatchSize :
             \/ Goto(r, "refused")
             \/ \E p \in Pages, over \in BOOLEAN :
                   req' = [req EXCEPT ![r].pc = "put", ![r].over = over,
                                      ![r].todo = p..(p + files - 1)]
      BY DEF List
    <2> QED
      BY <2>1, <2>2, <2>3, <2>4
  <1>3. RowsOK' /\ Held' = Held
    BY <1>1, SameRows DEF List
  <1>4. InHandOK'
    BY <1>2 DEF InHandOK, PagesInv, Requests
  <1>5. LimitOK'
    BY ListLimit
  <1>6. misled' = misled /\ owed' = owed /\ docs' = docs
    BY <1>1 DEF List, Misled
  <1>7. OwedOK'
    BY <1>1, <1>2, <1>3, <1>6, OwedAside
  <1> QED
    BY <1>3, <1>4, <1>5, <1>7 DEF PagesInv

\* The bytes of a page are no page yet.
LEMMA PutPages ==
    ASSUME IInv, PagesInv, NEW r \in Uploaders, Put(r) PROVE PagesInv'
  <1>1. TypeOK /\ r \in Requests /\ r \notin Submitters /\ req[r] \in Req /\ RowsOK
    BY ConstantsAssumption DEF IInv, PagesInv, TypeOK, Requests
  <1>2. PICK p \in req[r].todo : req' = [req EXCEPT ![r].pc = "row", ![r].page = p]
    BY DEF Put
  <1> DEFINE w == [req[r] EXCEPT !.pc = "row", !.page = p]
  <1>3. /\ req' = [req EXCEPT ![r] = w] /\ req \in [Requests -> Req]
        /\ w.pc = "row" /\ w.page = p /\ w.todo = req[r].todo
    BY <1>1, <1>2 DEF Req, TypeOK
  <1> HIDE DEF w
  <1>4. /\ \A q \in Requests \ {r} : req'[q] = req[q]
        /\ req'[r].pc = "row" /\ req'[r].page = p /\ req'[r].todo = req[r].todo
    BY <1>1, <1>3
  <1>5. RowsOK' /\ Held' = Held /\ UNCHANGED hist
    BY <1>1, SameRows DEF Put
  <1>6. InHandOK'
    BY <1>4 DEF InHandOK, PagesInv, Requests
  <1>7. LimitOK'
    <2>1. Uploading(r)
      BY DEF Put, At, Uploading
    <2> QED
      BY <1>1, <1>4, <1>5, <2>1, LimitBeside DEF hist
  <1>8. OwedOK'
    BY <1>1, <1>4, <1>5, OwedAside DEF hist
  <1> QED
    BY <1>5, <1>6, <1>7, <1>8 DEF PagesInv

\* An upload adds the page that its count left room for.
LEMMA PutRowPages ==
    ASSUME IInv, PagesInv, NEW r \in Uploaders, PutRow(r) PROVE PagesInv'
  <1> DEFINE p == req[r].page
             left == req[r].todo \ {p}
  <1>1. /\ TypeOK /\ r \in Requests /\ r \notin Submitters /\ req[r] \in Req /\ RowsOK
        /\ p \in Pages /\ left \in SUBSET Numbers
    BY ConstantsAssumption DEF IInv, PagesInv, PagesOK, TypeOK, Requests, PutRow, At, Req
  <1>2. UNCHANGED hist
    BY DEF PutRow
  <1>3. /\ \A q \in Requests \ {r} : req'[q] = req[q]
        /\ req'[r].pc \in {"ok", "put", "refused"}
    <2>1. CASE MayWrite(r)
      <3> DEFINE pc == IF left = {} THEN "ok" ELSE "put"
      <3>1. Goto2(r, pc, left) /\ pc \in PCs /\ pc \in {"ok", "put"}
        BY <2>1 DEF PutRow, PCs, Active, Ended
      <3> HIDE DEF pc, left
      <3> QED
        BY <1>1, <3>1, GotoType
    <2>2. CASE ~MayWrite(r)
      BY <1>1, <2>2, GotoKeeps DEF PutRow, PCs, Ended
    <2> QED
      BY <2>1, <2>2
  <1>4. RowsOK' /\ LimitOK'
    BY PutRowLimit
  <1>5. Held \subseteq Held'
    <2>1. CASE MayWrite(r)
      BY <1>1, <2>1, RowPut DEF PutRow
    <2>2. CASE ~MayWrite(r)
      BY <1>1, <2>2, SameRows DEF PutRow
    <2> QED
      BY <2>1, <2>2
  <1>6. InHandOK'
    BY <1>3 DEF InHandOK, PagesInv, Requests
  <1>7. OwedOK'
    BY <1>1, <1>2, <1>3, <1>5, OwedAside DEF hist
  <1> QED
    BY <1>4, <1>6, <1>7 DEF PagesInv

\* The question of consent.
LEMMA ConsentPages ==
    ASSUME IInv, PagesInv, NEW r \in Submitters, Consent(r) PROVE PagesInv'
  <1>1. TypeOK /\ r \in Requests /\ rows' = rows /\ UNCHANGED hist /\ req[r].pc = "consent"
    BY DEF IInv, Requests, Consent, At
  <1>2. PICK pc \in {"ok", "pages"} : Goto(r, pc)
    BY DEF Consent
  <1>3. /\ req'[r].pc = pc
        /\ \A q \in Requests \ {r} : req'[q] = req[q]
    BY <1>1, <1>2, GotoKeeps DEF PCs, Ended, Active
  <1>4. RowsOK' /\ Held' = Held
    BY <1>1, SameRows DEF PagesInv
  <1>5. ASSUME r \notin misled' PROVE Owes(r)'
    <2>1. Owes(r) /\ owed'[r] = owed[r]
      BY <1>1, <1>5 DEF PagesInv, OwedOK, hist
    <2> QED
      BY <1>1, <1>3, <1>4, <2>1 DEF Owes
  <1> QED
    BY <1>1, <1>3, <1>4, <1>5, ConstantsAssumption, PagesBeside DEF hist

\* A query that misses nothing reads all that is owed.
LEMMA CollectPages ==
    ASSUME IInv, PagesInv, NEW r \in Submitters, Collect(r) PROVE PagesInv'
  <1> DEFINE listed == PagesIn(replica)
             whole == \A p \in listed : replica[p].by # Nobody
             w == [req[r] EXCEPT !.pc = "lock", !.listed = listed, !.whole = whole]
  <1>1. TypeOK /\ r \in Requests /\ req[r] \in Req /\ RowsOK /\ req[r].pc = "pages"
    BY DEF IInv, Requests, TypeOK, PagesInv, Collect, At
  <1>2. /\ \A q \in Requests \ {r} : req'[q] = req[q]
        /\ \/ req'[r].pc = "refused"
           \/ req'[r].pc = "lock" /\ req'[r].listed = listed
    <2>1. CASE Goto(r, "refused")
      BY <1>1, <2>1, GotoKeeps DEF PCs, Ended
    <2>2. CASE req' = [req EXCEPT ![r].pc = "lock", ![r].listed = listed, ![r].whole = whole]
      <3> HIDE DEF listed, whole
      <3>1. req' = [req EXCEPT ![r] = w] /\ req \in [Requests -> Req]
        BY <1>1, <2>2 DEF Req, TypeOK
      <3>2. w.pc = "lock" /\ w.listed = listed
        BY <1>1 DEF Req
      <3> HIDE DEF w
      <3> QED
        BY <1>1, <3>1, <3>2
    <2> QED
      BY <2>1, <2>2 DEF Collect
  <1>3. RowsOK' /\ Held' = Held /\ docs' = docs /\ owed' = owed /\ overlap' = overlap
    BY <1>1, SameRows DEF Collect
  <1>4. misled \subseteq misled' /\ (r \notin misled' => replica = rows)
    BY DEF Collect, Misled
  <1>5. ASSUME r \notin misled' PROVE Owes(r)'
    <2>1. replica = rows /\ owed[r] \subseteq Held
      BY <1>1, <1>4, <1>5 DEF PagesInv, OwedOK, Owes
    <2>2. Held \subseteq listed
      BY <1>1, <2>1, PagesFinite DEF Held, PagesIn, RowsOK
    <2> HIDE DEF listed
    <2>3. owed'[r] \subseteq listed
      BY <1>3, <2>1, <2>2
    <2> QED
      BY <1>2, <2>3 DEF Owes
  <1> QED
    BY <1>1, <1>2, <1>3, <1>4, <1>5, ConstantsAssumption, PagesBeside

\* The lock.
LEMMA LockPages ==
    ASSUME IInv, PagesInv, NEW r \in Submitters, Lock(r) PROVE PagesInv'
  <1>1. TypeOK /\ r \in Requests /\ UNCHANGED hist /\ req[r].pc = "lock" /\ RowsOK /\ req[r] \in Req
    BY DEF IInv, Requests, Lock, At, PagesInv, TypeOK
  <1>2. PICK pc \in {"find", "refused"} : Goto(r, pc)
    BY DEF Lock
  <1>3. /\ req'[r].pc = pc
        /\ \A q \in Requests \ {r} : req'[q] = req[q]
    BY <1>1, <1>2, GotoKeeps DEF PCs, Ended, Active
  <1>4. pc = "find" => req'[r].listed = req[r].listed
    BY <1>1, <1>2 DEF Goto, Goto2, Ended, TypeOK, Req
  <1>5. RowsOK' /\ Held' = Held
    <2>1. CASE rows' = rows
      BY <1>1, <2>1, SameRows
    <2>2. CASE rows' # rows
      <3>1. rows' = [rows EXCEPT ![0] = Written(@, TRUE)]
        BY <2>2 DEF Lock
      <3>2. PICK w : rows' = [rows EXCEPT ![0] = w]
        BY <3>1
      <3> QED
        BY <1>1, <3>2, RowOfBuild
    <2> QED
      BY <2>1, <2>2
  <1>6. ASSUME r \notin misled' PROVE Owes(r)'
    <2>1. Owes(r) /\ owed'[r] = owed[r]
      BY <1>1, <1>6 DEF PagesInv, OwedOK, hist
    <2> QED
      BY <1>1, <1>3, <1>4, <2>1 DEF Owes
  <1> QED
    BY <1>1, <1>3, <1>5, <1>6, ConstantsAssumption, PagesBeside DEF hist

\* The pages to stamp.
LEMMA FindPages ==
    ASSUME IInv, PagesInv, NEW r \in Submitters, Find(r) PROVE PagesInv'
  <1> DEFINE found == {p \in Pages : replica[p].there}
  <1>1. TypeOK /\ r \in Requests /\ rows' = rows /\ UNCHANGED hist /\ req[r].pc = "find"
    BY DEF IInv, Requests, Find, At
  <1>2. Goto2(r, "stamp", found) /\ found \in SUBSET Numbers
    BY PagesFinite DEF Find
  <1> HIDE DEF found
  <1>3. /\ req'[r].pc = "stamp"
        /\ \A q \in Requests \ {r} : req'[q] = req[q]
    BY <1>1, <1>2, GotoType DEF PCs, Active
  <1>4. req'[r].listed = req[r].listed
    BY <1>1, <1>2 DEF Goto2, Ended, TypeOK, Req
  <1>5. RowsOK' /\ Held' = Held
    BY <1>1, SameRows DEF PagesInv
  <1>6. ASSUME r \notin misled' PROVE Owes(r)'
    <2>1. Owes(r) /\ owed'[r] = owed[r]
      BY <1>1, <1>6 DEF PagesInv, OwedOK, hist
    <2> QED
      BY <1>1, <1>3, <1>4, <2>1 DEF Owes
  <1> QED
    BY <1>1, <1>3, <1>5, <1>6, ConstantsAssumption, PagesBeside DEF hist

\* A page is stamped, or the merge begins with all that was listed.
LEMMA StampPages ==
    ASSUME IInv, PagesInv, NEW r \in Submitters, Stamp(r) PROVE PagesInv'
  <1>1. TypeOK /\ r \in Requests /\ UNCHANGED hist /\ req[r].pc = "stamp" /\ RowsOK /\ req[r] \in Req
    BY DEF IInv, Requests, Stamp, At, PagesInv, TypeOK
  <1>2. req[r].todo \subseteq Pages /\ Pages \subseteq Numbers
    BY <1>1, PagesFinite DEF IInv, PagesOK
  <1>3. /\ \A q \in Requests \ {r} : req'[q] = req[q]
        /\ \/ req'[r].pc = "stamp" /\ req'[r].listed = req[r].listed
           \/ req'[r].pc = "merge" /\ req'[r].todo = req[r].listed
        /\ RowsOK' /\ Held' = Held
    <2>1. CASE req[r].todo = {}
      <3>1. Goto2(r, "merge", ToMerge(r)) /\ rows' = rows
        BY <2>1 DEF Stamp
      <3>2. ToMerge(r) \in SUBSET Numbers /\ "merge" \in PCs /\ "merge" \notin Ended
        BY <1>1 DEF ToMerge, Req, PCs, Active, Ended
      <3>3. /\ \A q \in Requests \ {r} : req'[q] = req[q]
            /\ req'[r].pc = "merge" /\ req'[r].todo = req[r].listed
        BY <1>1, <3>1, <3>2, GotoType DEF ToMerge
      <3> QED
        BY <1>1, <3>1, <3>3, SameRows
    <2>2. CASE req[r].todo # {}
      <3>1. PICK p \in req[r].todo :
               /\ rows' = [rows EXCEPT ![p] = Written(@, TRUE)]
               /\ Goto2(r, "stamp", req[r].todo \ {p})
        BY <2>2 DEF Stamp
      <3>2. req[r].todo \ {p} \in SUBSET Numbers /\ "stamp" \in PCs /\ "stamp" \notin Ended
        BY <1>2 DEF PCs, Active, Ended
      <3>3. /\ \A q \in Requests \ {r} : req'[q] = req[q]
            /\ req'[r].pc = "stamp"
        BY <1>1, <3>1, <3>2, GotoType
      <3>4. req'[r].listed = req[r].listed
        BY <1>1, <3>1 DEF Goto2, Ended, TypeOK, Req
      <3>5. RowsOK' /\ Held' = Held
        BY <1>1, <1>2, <3>1, RowStamped
      <3> QED
        BY <3>3, <3>4, <3>5
    <2> QED
      BY <2>1, <2>2
  <1>4. ASSUME r \notin misled' PROVE Owes(r)'
    <2>1. Owes(r) /\ owed'[r] = owed[r]
      BY <1>1, <1>4 DEF PagesInv, OwedOK, hist
    <2> QED
      BY <1>1, <1>3, <2>1 DEF Owes
  <1> QED
    BY <1>1, <1>3, <1>4, ConstantsAssumption, PagesBeside DEF hist

\* The bytes of a page, of one that has some.
LEMMA MergePages ==
    ASSUME IInv, PagesInv, NEW r \in Submitters, Merge(r) PROVE PagesInv'
  <1>1. TypeOK /\ r \in Requests /\ UNCHANGED hist /\ req[r].pc = "merge" /\ rows' = rows /\ req[r] \in Req
    BY DEF IInv, Requests, Merge, At, TypeOK
  <1>2. RowsOK' /\ Held' = Held
    BY <1>1, SameRows DEF PagesInv
  <1>3. ASSUME r \notin misled'
        PROVE  \A p \in owed[r] : p \in req[r].todo \/ req[r].content[p] # Nobody
    BY <1>1, <1>3 DEF PagesInv, OwedOK, Owes, hist
  <1>4. CASE req[r].todo = {}
    <2>1. Goto(r, "insert")
      BY <1>4 DEF Merge
    <2>2. /\ \A q \in Requests \ {r} : req'[q] = req[q]
          /\ req'[r].pc = "insert"
      BY <1>1, <2>1, GotoKeeps DEF PCs, Active
    <2>3. req'[r].content = req[r].content
      BY <1>1, <2>1 DEF Goto, Goto2, Ended, TypeOK, Req
    <2>4. r \notin misled' => Owes(r)'
      BY <1>1, <1>3, <1>4, <2>2, <2>3 DEF Owes, hist
    <2> QED
      BY <1>1, <1>2, <2>2, <2>4, ConstantsAssumption, PagesBeside DEF hist
  <1>5. CASE Goto(r, "rollback")
    <2>1. /\ \A q \in Requests \ {r} : req'[q] = req[q]
          /\ req'[r].pc = "rollback"
      BY <1>1, <1>5, GotoKeeps DEF PCs, Active
    <2>2. Owes(r)'
      BY <2>1, Over
    <2> QED
      BY <1>1, <1>2, <2>1, <2>2, ConstantsAssumption, PagesBeside DEF hist
  <1>6. ASSUME NEW p \in req[r].todo, p # 0, objects[p] # Nobody,
               req' = [req EXCEPT ![r].todo = @ \ {p}, ![r].content[p] = objects[p]]
        PROVE  PagesInv'
    <2> DEFINE c == [req[r].content EXCEPT ![p] = objects[p]]
               w == [req[r] EXCEPT !.todo = @ \ {p}, !.content = c]
    <2>1. p \in Pages
      BY <1>1, <1>6, ConstantsAssumption DEF Req, Numbers, Pages
    <2>2. c[p] # Nobody /\ \A q \in Pages \ {p} : c[q] = req[r].content[q]
      BY <1>1, <1>6, <2>1 DEF Req
    <2>3. req' = [req EXCEPT ![r] = w] /\ req \in [Requests -> Req]
      BY <1>1, <1>6 DEF Req, TypeOK
    <2> HIDE DEF c
    <2>4. w.content = c /\ w.todo = req[r].todo \ {p} /\ w.pc = "merge"
      BY <1>1 DEF Req
    <2> HIDE DEF w
    <2>5. /\ \A q \in Requests \ {r} : req'[q] = req[q]
          /\ req'[r].pc = "merge" /\ req'[r].content = c /\ req'[r].todo = req[r].todo \ {p}
      BY <1>1, <2>3, <2>4
    <2>6. ASSUME r \notin misled' PROVE Owes(r)'
      <3>1. owed'[r] = owed[r] /\ owed[r] \subseteq Pages
        BY <1>1 DEF hist, TypeOK
      <3>2. ASSUME NEW q \in owed[r] PROVE q \in req'[r].todo \/ req'[r].content[q] # Nobody
        BY <1>3, <2>2, <2>5, <2>6, <3>1
      <3> QED
        BY <2>5, <3>1, <3>2 DEF Owes
    <2> QED
      BY <1>1, <1>2, <2>5, <2>6, ConstantsAssumption, PagesBeside DEF hist
  <1> QED
    BY <1>4, <1>5, <1>6 DEF Merge

\* The record of the document.
LEMMA InsertPages ==
    ASSUME IInv, PagesInv, NEW r \in Submitters, Insert(r) PROVE PagesInv'
  <1>1. /\ TypeOK /\ r \in Requests /\ Goto(r, "upload") /\ "upload" \in PCs
        /\ rows' = rows /\ UNCHANGED hist /\ req[r].pc = "insert"
    BY DEF IInv, Requests, Insert, PCs, Active, At
  <1>2. /\ \A q \in Requests \ {r} : req'[q] = req[q]
        /\ req'[r].pc = "upload"
    BY <1>1, GotoKeeps
  <1>3. req'[r].content = req[r].content
    BY <1>1 DEF Goto, Goto2, Ended, TypeOK, Req
  <1>4. RowsOK' /\ Held' = Held
    BY <1>1, SameRows DEF PagesInv
  <1>5. ASSUME r \notin misled' PROVE Owes(r)'
    <2>1. Owes(r) /\ owed'[r] = owed[r]
      BY <1>1, <1>5 DEF PagesInv, OwedOK, hist
    <2> QED
      BY <1>1, <1>2, <1>3, <2>1 DEF Owes
  <1> QED
    BY <1>1, <1>2, <1>4, <1>5, ConstantsAssumption, PagesBeside DEF hist

\* The document: it holds what was merged.
LEMMA UploadPages ==
    ASSUME IInv, PagesInv, NEW r \in Submitters, Upload(r) PROVE PagesInv'
  <1> DEFINE new == [by |-> r, content |-> req[r].content]
  <1>1. /\ TypeOK /\ r \in Requests /\ Goto(r, "ok") /\ "ok" \in PCs /\ docs' = docs \cup {new}
        /\ rows' = rows /\ misled' = misled /\ owed' = owed /\ overlap' = overlap
        /\ req[r].pc = "upload" /\ r \notin Uploaders /\ r \notin PageDeleters \cup Deleters
    BY ConstantsAssumption DEF IInv, Requests, Upload, PCs, Ended, At
  <1>2. /\ \A q \in Requests \ {r} : req'[q] = req[q]
        /\ req'[r].pc = "ok"
    BY <1>1, GotoKeeps
  <1>3. RowsOK' /\ Held' = Held
    BY <1>1, SameRows DEF PagesInv
  <1>4. InHandOK'
    BY <1>1, <1>2 DEF InHandOK, PagesInv, Requests
  <1>5. LimitOK'
    BY <1>1, <1>2, <1>3, LimitBeside
  <1>6. OwedOK'
    <2>1. OwedOK
      BY DEF PagesInv
    <2>2. new.by = r /\ new.content = req[r].content
      OBVIOUS
    <2> HIDE DEF new
    <2>3. ASSUME NEW q \in PageDeleters \cup Deleters, NEW s \in Submitters,
                 req'[q].pc = "dropRow"
          PROVE  req'[q].page \notin owed'[s]
      BY <1>1, <1>2, <2>1, <2>3 DEF OwedOK, Requests
    <2>4. ASSUME NEW s \in Submitters \ misled' PROVE Owes(s)'
      <3>1. CASE s = r
        BY <1>2, <3>1, Over DEF Ended
      <3>2. CASE s # r
        <4>1. req'[s] = req[s] /\ Owes(s)
          BY <1>1, <1>2, <2>1, <3>2 DEF Requests, OwedOK
        <4> QED
          BY <1>1, <1>3, <4>1 DEF Owes
      <3> QED
        BY <3>1, <3>2
    <2>5. ASSUME NEW d \in docs' PROVE req'[d.by].pc # "start"
      <3>1. CASE d.by = r
        BY <1>2, <3>1
      <3>2. CASE d.by # r
        <4>1. d \in docs
          BY <1>1, <2>2, <3>2
        <4>2. d.by \in Requests
          BY <1>1, <4>1 DEF TypeOK, Requests
        <4> QED
          BY <1>2, <2>1, <3>2, <4>1, <4>2 DEF OwedOK
      <3> QED
        BY <3>1, <3>2
    <2>6. ASSUME NEW d \in docs', d.by \notin misled', NEW p \in owed'[d.by]
          PROVE  d.content[p] # Nobody
      <3>1. CASE d \in docs
        BY <1>1, <2>1, <2>6, <3>1 DEF OwedOK, DocumentIsWhole
      <3>2. CASE d = new
        BY <1>1, <2>1, <2>2, <2>6, <3>2 DEF OwedOK, Owes
      <3> QED
        BY <1>1, <3>1, <3>2
    <2>7. DocumentIsWhole'
      BY <2>6 DEF DocumentIsWhole
    <2> QED
      BY <2>3, <2>4, <2>5, <2>7 DEF OwedOK
  <1> QED
    BY <1>3, <1>4, <1>5, <1>6 DEF PagesInv

\* The roll-back writes row 0.
LEMMA RollbackPages ==
    ASSUME IInv, PagesInv, NEW r \in Submitters, Rollback(r) PROVE PagesInv'
  <1>1. /\ TypeOK /\ r \in Requests /\ Goto(r, "failed") /\ "failed" \in PCs
        /\ UNCHANGED hist /\ RowsOK
    BY DEF IInv, Requests, Rollback, PCs, Ended, PagesInv
  <1>2. /\ \A q \in Requests \ {r} : req'[q] = req[q]
        /\ req'[r].pc = "failed"
    BY <1>1, GotoKeeps
  <1>3. RowsOK' /\ Held' = Held
    <2>1. PICK w : rows' = [rows EXCEPT ![0] = w]
      BY DEF Rollback
    <2> QED
      BY <1>1, <2>1, RowOfBuild
  <1>4. Owes(r)'
    BY <1>2, Over DEF Ended
  <1> QED
    BY <1>1, <1>2, <1>3, <1>4, ConstantsAssumption, PagesBeside DEF hist

\* The checks and the lists of the deletions.
LEMMA CheckPages ==
    ASSUME IInv, PagesInv, NEW r \in PageDeleters \cup Deleters, Check(r) PROVE PagesInv'
  <1>1. TypeOK /\ r \in Requests /\ r \notin Submitters /\ r \notin Uploaders /\ req[r] \in Req
    BY ConstantsAssumption DEF IInv, Requests, TypeOK
  <1>2. /\ \A q \in Requests \ {r} : req'[q] = req[q]
        /\ req'[r].pc \in {"refused", "drop"}
    <2>1. CASE Goto(r, "refused") \/ Goto(r, "drop")
      BY <1>1, <2>1, GotoKeeps DEF PCs, Ended, Active
    <2>2. ASSUME NEW p \in Numbers, req' = [req EXCEPT ![r].pc = "drop", ![r].page = p]
          PROVE  /\ \A q \in Requests \ {r} : req'[q] = req[q]
                 /\ req'[r].pc \in {"refused", "drop"}
      <3> DEFINE w == [req[r] EXCEPT !.pc = "drop", !.page = p]
      <3>1. req' = [req EXCEPT ![r] = w] /\ req \in [Requests -> Req] /\ w.pc = "drop"
        BY <1>1, <2>2 DEF Req, TypeOK
      <3> HIDE DEF w
      <3> QED
        BY <1>1, <3>1
    <2> QED
      BY <2>1, <2>2 DEF Check
  <1>3. /\ misled' = misled /\ docs' = docs /\ owed' = owed /\ overlap' = overlap
        /\ RowsOK' /\ Held' = Held
    BY <1>1, SameRows DEF Check, Misled, PagesInv
  <1> QED
    BY <1>1, <1>2, <1>3, PagesBeside

\* A deletion lists pages and removes none yet.
LEMMA ListAllPages ==
    ASSUME IInv, PagesInv, NEW r \in Deleters, ListAll(r) PROVE PagesInv'
  <1>1. TypeOK /\ r \in Requests /\ r \notin Submitters /\ r \notin Uploaders
    BY ConstantsAssumption DEF IInv, Requests
  <1>2. /\ \A q \in Requests \ {r} : req'[q] = req[q]
        /\ req'[r].pc \in {"refused", "loop"}
    <2>1. CASE Goto(r, "refused")
      BY <1>1, <2>1, GotoKeeps DEF PCs, Ended
    <2>2. CASE Goto2(r, "loop", PagesIn(replica))
      <3>1. PagesIn(replica) \in SUBSET Numbers
        BY DEF PagesIn
      <3> QED
        BY <1>1, <2>2, <3>1, GotoType DEF PCs, Active
    <2> QED
      BY <2>1, <2>2 DEF ListAll
  <1>3. /\ misled' = misled /\ docs' = docs /\ owed' = owed /\ overlap' = overlap
        /\ RowsOK' /\ Held' = Held
    BY <1>1, SameRows DEF ListAll, Misled, PagesInv
  <1> QED
    BY <1>1, <1>2, <1>3, PagesBeside

\* Row 0 is removed, or the next page taken in hand.
LEMMA DeleteNextPages ==
    ASSUME IInv, PagesInv, NEW r \in Deleters, DeleteNext(r) PROVE PagesInv'
  <1>1. /\ TypeOK /\ r \in Requests /\ r \notin Submitters /\ r \notin Uploaders
        /\ req[r] \in Req /\ RowsOK
    BY ConstantsAssumption DEF IInv, Requests, TypeOK, PagesInv
  <1>2. /\ \A q \in Requests \ {r} : req'[q] = req[q]
        /\ req'[r].pc \in {"ok", "check"}
    <2>1. CASE Goto(r, "ok")
      BY <1>1, <2>1, GotoKeeps DEF PCs, Ended
    <2>2. ASSUME NEW p \in req[r].todo,
                 req' = [req EXCEPT ![r].pc = "check", ![r].page = p, ![r].todo = @ \ {p}]
          PROVE  /\ \A q \in Requests \ {r} : req'[q] = req[q]
                 /\ req'[r].pc \in {"ok", "check"}
      <3> DEFINE w == [req[r] EXCEPT !.pc = "check", !.page = p, !.todo = @ \ {p}]
      <3>1. req' = [req EXCEPT ![r] = w] /\ req \in [Requests -> Req] /\ w.pc = "check"
        BY <1>1, <2>2 DEF Req, TypeOK
      <3> HIDE DEF w
      <3> QED
        BY <1>1, <3>1
    <2> QED
      BY <2>1, <2>2 DEF DeleteNext
  <1>3. RowsOK' /\ Held' = Held
    <2>1. CASE req[r].todo = {}
      <3>1. PICK w : rows' = [rows EXCEPT ![0] = w]
        BY <2>1 DEF DeleteNext
      <3> QED
        BY <1>1, <3>1, RowOfBuild
    <2>2. CASE req[r].todo # {}
      BY <1>1, <2>2, SameRows DEF DeleteNext
    <2> QED
      BY <2>1, <2>2
  <1>4. misled' = misled /\ docs' = docs /\ owed' = owed /\ overlap' = overlap
    BY DEF DeleteNext
  <1> QED
    BY <1>1, <1>2, <1>3, <1>4, PagesBeside

\* Once its object is gone, nobody owes a page.
LEMMA DropPages ==
    ASSUME IInv, PagesInv, NEW r \in PageDeleters \cup Deleters, Drop(r) PROVE PagesInv'
  <1>1. TypeOK /\ r \in Requests /\ r \notin Submitters /\ r \notin Uploaders /\ req[r] \in Req
    BY ConstantsAssumption DEF IInv, Requests, TypeOK
  <1> DEFINE p == req[r].page
  <1>2. PICK pc \in {"dropRow", "loop", "refused"} :
           Goto(r, pc) /\ (pc = "dropRow" => owed' = [s \in Submitters |-> owed[s] \ {p}])
    BY DEF Drop
  <1>3. /\ \A q \in Requests \ {r} : req'[q] = req[q]
        /\ req'[r].pc = pc /\ (pc = "dropRow" => req'[r].page = p)
    BY <1>1, <1>2, GotoKeeps DEF PCs, Ended, Active
  <1>4. /\ misled' = misled /\ docs' = docs /\ overlap' = overlap /\ RowsOK' /\ Held' = Held
    BY SameRows DEF Drop, PagesInv
  <1>5. \A s \in Submitters : owed'[s] \subseteq owed[s]
    BY DEF Drop
  <1>6. pc = "dropRow" => \A s \in Submitters : p \notin owed'[s]
    BY <1>2
  <1> HIDE DEF p
  <1> QED
    BY <1>1, <1>3, <1>4, <1>5, <1>6, PagesBeside

\* The row goes too, of a page that nobody owes.
LEMMA DropRowPages ==
    ASSUME IInv, PagesInv, NEW r \in PageDeleters \cup Deleters, DropRow(r) PROVE PagesInv'
  <1>1. /\ TypeOK /\ r \in Requests /\ r \notin Submitters /\ r \notin Uploaders /\ req[r] \in Req
        /\ RowsOK /\ req[r].page \in Numbers /\ req[r].pc = "dropRow"
    BY ConstantsAssumption DEF IInv, Requests, TypeOK, PagesInv, DropRow, At, Req
  <1>2. PICK pc \in {"loop", "ok"} : Goto(r, pc)
    BY DEF DropRow
  <1>3. /\ \A q \in Requests \ {r} : req'[q] = req[q]
        /\ req'[r].pc = pc
    BY <1>1, <1>2, GotoKeeps DEF PCs, Ended, Active
  <1>4. misled' = misled /\ docs' = docs /\ owed' = owed /\ overlap' = overlap
    BY DEF DropRow
  <1>5. RowsOK' /\ Held' = Held \ {req[r].page}
    BY <1>1, RowRemoved DEF DropRow
  <1>6. \A s \in Submitters : req[r].page \notin owed[s]
    BY <1>1 DEF PagesInv, OwedOK
  <1> QED
    BY <1>1, <1>3, <1>4, <1>5, <1>6, PagesBeside

-----------------------------------------------------------------------------
(* The theorems about the pages *)

\* Every step keeps the invariant of the pages.
LEMMA NextPages ==
    ASSUME IInv, PagesInv, [Next]_vars PROVE PagesInv'
  <1>1. ASSUME UNCHANGED <<rows, req, docs, owed, misled, overlap>> PROVE PagesInv'
    <2>1. RowsOK' /\ Held' = Held
      BY <1>1, SameRows DEF PagesInv
    <2>2. InHandOK'
      BY <1>1 DEF InHandOK, PagesInv
    <2>3. LimitOK'
      BY <1>1, <2>1 DEF LimitOK, PagesInv, Uploading
    <2>4. OwedOK'
      BY <1>1, <2>1 DEF OwedOK, PagesInv, Owes, DocumentIsWhole
    <2> QED
      BY <2>1, <2>2, <2>3, <2>4 DEF PagesInv
  <1>2. CASE UNCHANGED vars
    BY <1>1, <1>2 DEF vars
  <1>3. /\ \A r \in Submitters : r \in Requests /\ r \notin Uploaders
        /\ \A r \in Uploaders \cup PageDeleters \cup Deleters : r \in Requests /\ r \notin Submitters
    BY ConstantsAssumption DEF Requests
  <1>4. ASSUME NEW r \in Uploaders,
               Begin(r, "list") \/ List(r) \/ Put(r) \/ PutRow(r)
        PROVE  PagesInv'
    BY <1>3, <1>4, BeginPages, ListPages, PutPages, PutRowPages
  <1>5. ASSUME NEW r \in Submitters,
               \/ Begin(r, "consent") \/ Consent(r) \/ Collect(r) \/ Lock(r) \/ Find(r)
               \/ Stamp(r) \/ Merge(r) \/ Insert(r) \/ Upload(r) \/ Rollback(r)
        PROVE  PagesInv'
    BY <1>3, <1>5, BeginPages, ConsentPages, CollectPages, LockPages, FindPages, StampPages,
       MergePages, InsertPages, UploadPages, RollbackPages
  <1>6. ASSUME NEW r \in Submitters, Broken(r) PROVE PagesInv'
    BY <1>3, <1>6, StopPages DEF Broken
  <1>7. ASSUME NEW r \in PageDeleters \cup Deleters,
               \/ Begin(r, "check") \/ Check(r) \/ Drop(r) \/ DropRow(r)
        PROVE  PagesInv'
    BY <1>3, <1>7, BeginPages, CheckPages, DropPages, DropRowPages
  <1>8. ASSUME NEW r \in Deleters, Begin(r, "dropAll") \/ ListAll(r) \/ DeleteNext(r)
        PROVE  PagesInv'
    BY <1>3, <1>8, BeginPages, ListAllPages, DeleteNextPages
  <1>9. ASSUME NEW r \in Requests \ Submitters, Stop(r, "failed") PROVE PagesInv'
    BY <1>9, StopPages
  <1>10. CASE Replicate
    BY <1>1, <1>10 DEF Replicate, hist
  <1> QED
    BY <1>2, <1>4, <1>5, <1>6, <1>7, <1>8, <1>9, <1>10 DEF Next

\* A build begins without pages.
LEMMA InitPages == Init => PagesInv
  <1> SUFFICES ASSUME Init PROVE PagesInv
    OBVIOUS
  <1>1. \A p \in Pages : rows[p] = NoRow
    BY PagesFinite DEF Init
  <1>2. ~NoRow.there /\ ~NoRow.meta /\ NoRow.by = Nobody
    BY DEF NoRow
  <1>3. RowsOK /\ Held = {}
    BY <1>1, <1>2 DEF RowsOK, Held
  <1>4. \A r \in Requests : req[r].pc = "start"
    <2>1. Fresh.pc = "start"
      BY DEF Fresh
    <2> HIDE DEF Fresh
    <2> QED
      BY <2>1 DEF Init
  <1>5. InHandOK
    BY <1>4 DEF InHandOK, Requests
  <1>6. \A r \in Uploaders : ~Uploading(r)
    BY <1>4 DEF Uploading, Requests
  <1>7. LimitOK
    BY <1>3, <1>6, FS_EmptySet, ConstantsAssumption DEF LimitOK
  <1>8. OwedOK
    BY <1>4 DEF OwedOK, Owes, DocumentIsWhole, Requests, Init
  <1> QED
    BY <1>3, <1>5, <1>7, <1>8 DEF PagesInv

\* The pages and the uploads under way are always within the limit.
LEMMA PagesInvariance == Spec => [](IInv /\ PagesInv)
  <1>1. Init => IInv /\ PagesInv
    BY InitIInv, InitPages
  <1>2. IInv /\ PagesInv /\ [Next]_vars => IInv' /\ PagesInv'
    BY NextKeeps, NextPages
  <1> QED
    BY <1>1, <1>2, PTL DEF Spec

\* MAX_PAGES_PER_BUILD: unless uploads overlap, no batch, hole, deletion,
\* submission or failure takes a build over the limit.
THEOREM PagesWithinLimit == Spec => []PageLimit
  <1>1. PagesInv => PageLimit
    BY DEF PagesInv, LimitOK, Held, PageLimit
  <1> QED
    BY <1>1, PagesInvariance, PTL

\* submit: the document of a build holds every page acknowledged before its
\* submission and not deleted since, unless its query missed one.
THEOREM DocumentsAreWhole == Spec => []DocumentIsWhole
  <1>1. PagesInv => DocumentIsWhole
    BY DEF PagesInv, OwedOK
  <1> QED
    BY <1>1, PagesInvariance, PTL
=============================================================================
