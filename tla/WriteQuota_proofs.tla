-------------------------- MODULE WriteQuota_proofs --------------------------
(***************************************************************************)
(* Proofs about WriteQuota, for any requests, limits, days and failures:   *)
(* type correctness, the daily and the monthly limit, and that the counts  *)
(* come out right.                                                         *)
(*                                                                         *)
(* DailyLimit is not inductive: a request is let through by the count it   *)
(* got when it was added, long before others are taken back.  The          *)
(* invariant adds that the item of a day, with what was refunded, covers   *)
(* every request that is counted (Covered), and that those below the limit *)
(* when they were added fit into it together (Fits).  CountSettles needs   *)
(* the exact count, in the middle of the requests too (ExactOK).           *)
(*                                                                         *)
(* MonthlyLimit is about totals of several moments, and which of them is   *)
(* the last to see a request depends on the order of the increments, which *)
(* no variable records: that there is an order in which everything fits is *)
(* what is invariant (MonthOK).                                            *)
(***************************************************************************)
EXTENDS WriteQuota, FiniteSetTheorems, TLAPS

-----------------------------------------------------------------------------
(* The inductive invariant *)

\* The requests that have been added to a day and not taken back.
Held(d) ==
    {r \in Requests \ Free : day[r] = d
       /\ pc[r] \in {"query", "rollback", "create", "accepted", "excluded"}}

\* Those that were within the daily limit.
Cleared(d) ==
    {r \in Requests \ Free : day[r] = d
       /\ pc[r] \in {"query", "create", "accepted", "excluded"}}

Covered(d) == Cardinality(Held(d)) <= item[d].n + refunds[d]

Fits(d) == Cardinality(Cleared(d)) <= MaxPerDay + refunds[d]

\* A request that is not counted takes nothing back.
FreeOK == \A r \in Free : pc[r] \notin {"add", "query", "rollback"}

IInv == TypeOK /\ FreeOK /\ \A d \in Days : Covered(d) /\ Fits(d)

-----------------------------------------------------------------------------
(* Type correctness *)

\* One goes from each action of increment_and_check and of the document to
\* the next.
LEMMA TypeStep ==
    ASSUME TypeOK, [Next]_vars
    PROVE  TypeOK'
  <1>1. CASE UNCHANGED vars
    BY <1>1 DEF vars, TypeOK
  <1>2. ASSUME NEW r \in Requests, Start(r) PROVE TypeOK'
    BY <1>2 DEF Start, Goto, TypeOK
  <1>3. ASSUME NEW r \in Requests, Add(r) PROVE TypeOK'
    <2> DEFINE n == item[day[r]].n + 1
    <2>1. day[r] \in Days /\ n \in Nat
      BY DEF TypeOK, Item
    <2>2. item' \in [Days -> Item]
      <3>1. [there |-> TRUE, n |-> n] \in Item
        BY <2>1 DEF Item
      <3> QED
        BY <1>3, <2>1, <3>1 DEF Add, TypeOK
    <2>3. got' \in [Requests -> Nat]
      BY <1>3, <2>1 DEF Add, TypeOK
    <2> QED
      BY <1>3, <2>2, <2>3 DEF Add, Goto, TypeOK
  <1>4. ASSUME NEW r \in Requests, Query(r) PROVE TypeOK'
    BY <1>4 DEF Query, Goto, TypeOK
  <1>5. ASSUME NEW d \in Days, Decrement(d) PROVE item' \in [Days -> Item]
    <2>1. CASE item[d].n > 0
      <3> DEFINE e == [item[d] EXCEPT !.n = @ - 1]
      <3>1. item \in [Days -> Item] /\ item[d] \in Item
        BY DEF TypeOK
      <3>2. item[d].n - 1 \in Nat
        BY <2>1, <3>1 DEF Item
      <3>3. e \in Item
        BY <3>1, <3>2 DEF Item
      <3>4. item' = [item EXCEPT ![d] = e]
        BY <1>5, <2>1 DEF Decrement
      <3> HIDE DEF e
      <3> QED
        BY <3>1, <3>3, <3>4
    <2>2. CASE ~(item[d].n > 0)
      BY <1>5, <2>2 DEF Decrement, TypeOK
    <2> QED
      BY <2>1, <2>2
  <1>6. ASSUME NEW r \in Requests, Rollback(r) PROVE TypeOK'
    <2>1. item' \in [Days -> Item]
      BY <1>5, <1>6 DEF Rollback, TypeOK
    <2> QED
      BY <1>6, <2>1 DEF Rollback, Goto, TypeOK
  <1>7. ASSUME NEW r \in Requests, Create(r) PROVE TypeOK'
    BY <1>7 DEF Create, Goto, TypeOK
  <1>8. ASSUME NEW r \in Requests, Exclude(r) PROVE TypeOK'
    <2>1. item' \in [Days -> Item]
      BY <1>5, <1>8 DEF Exclude, TypeOK
    <2>2. refunds' \in [Days -> Nat]
      BY <1>8 DEF Exclude, TypeOK
    <2>3. pc' \in [Requests -> {"start", "add", "query", "rollback", "create",
                               "accepted", "excluded", "refused", "failed"}]
      BY <1>8 DEF Exclude, Goto, TypeOK
    <2>4. faults' \in 0..MaxFaults
      BY <1>8, ConstantsAssumption DEF Exclude, TypeOK
    <2> QED
      BY <1>8, <2>1, <2>2, <2>3, <2>4 DEF Exclude, TypeOK
  <1>9. ASSUME NEW r \in Requests, Fail(r) PROVE TypeOK'
    BY <1>9, ConstantsAssumption DEF Fail, Goto, TypeOK
  <1>10. CASE Midnight
    BY <1>10, ConstantsAssumption DEF Midnight, TypeOK, Days
  <1>11. ASSUME NEW d \in Days, Replicate(d) PROVE TypeOK'
    BY <1>11 DEF Replicate, TypeOK
  <1> QED
    BY <1>1, <1>2, <1>3, <1>4, <1>6, <1>7, <1>8, <1>9, <1>10, <1>11 DEF Next

-----------------------------------------------------------------------------
(* The daily limit *)

\* The sets of requests are finite.
LEMMA Finite ==
    ASSUME NEW S \in SUBSET Requests
    PROVE  IsFiniteSet(S) /\ Cardinality(S) \in Nat
  BY ConstantsAssumption, FS_Subset, FS_CardinalityType

\* Sets that do not grow, under counts that do not shrink.
LEMMA Kept ==
    ASSUME TypeOK, TypeOK', NEW d \in Days, Covered(d), Fits(d),
           Held(d)' \subseteq Held(d), Cleared(d)' \subseteq Cleared(d),
           item'[d].n + refunds'[d] >= item[d].n + refunds[d],
           refunds'[d] >= refunds[d]
    PROVE  Covered(d)' /\ Fits(d)'
  <1>1. /\ Held(d) \in SUBSET Requests /\ Cleared(d) \in SUBSET Requests
    BY DEF Held, Cleared
  <1>2. /\ Cardinality(Held(d)') <= Cardinality(Held(d))
        /\ Cardinality(Cleared(d)') <= Cardinality(Cleared(d))
    BY <1>1, Finite, FS_Subset
  <1>3. /\ Held(d)' \in SUBSET Requests /\ Cleared(d)' \in SUBSET Requests
    BY <1>1
  <1>4. /\ Cardinality(Held(d)) \in Nat /\ Cardinality(Cleared(d)) \in Nat
        /\ Cardinality(Held(d)') \in Nat /\ Cardinality(Cleared(d)') \in Nat
    BY <1>1, <1>3, Finite
  <1>5. /\ item[d].n \in Nat /\ item'[d].n \in Nat
        /\ refunds[d] \in Nat /\ refunds'[d] \in Nat /\ MaxPerDay \in Nat
    BY ConstantsAssumption DEF TypeOK, Item
  <1> QED
    BY <1>2, <1>4, <1>5 DEF Covered, Fits

\* The increment: its day holds one request more, which fits if it is cleared.
LEMMA AddKeeps ==
    ASSUME IInv, TypeOK', NEW r \in Requests, Add(r), NEW d \in Days
    PROVE  Covered(d)' /\ Fits(d)'
  <1>1. CASE d # day[r] \/ r \in Free
    <2>1. Held(d)' = Held(d) /\ Cleared(d)' = Cleared(d)
      BY <1>1 DEF Add, Goto, IInv, TypeOK, Held, Cleared
    <2>2. item'[d].n >= item[d].n
      BY DEF Add, IInv, TypeOK, Item
    <2>3. /\ item[d].n \in Nat /\ item'[d].n \in Nat
          /\ refunds[d] \in Nat /\ refunds' = refunds
      BY DEF Add, IInv, TypeOK, Item
    <2> QED
      BY <2>1, <2>2, <2>3, Kept DEF IInv
  <1>2. CASE d = day[r] /\ r \notin Free
    <2> DEFINE n == item[d].n + 1
    <2>1. Held(d)' = Held(d) \cup {r} /\ r \notin Held(d)
      BY <1>2 DEF Add, Goto, IInv, TypeOK, Held
    <2>2. Cardinality(Held(d)') = Cardinality(Held(d)) + 1
      BY <2>1, Finite, FS_AddElement DEF Held
    <2>3. item'[d].n = n /\ refunds' = refunds
      BY <1>2 DEF Add, IInv, TypeOK
    <2>4. /\ item[d].n \in Nat /\ refunds[d] \in Nat /\ MaxPerDay \in Nat
          /\ Cardinality(Held(d)) \in Nat /\ Cardinality(Held(d)') \in Nat
      BY ConstantsAssumption, Finite DEF IInv, TypeOK, Item, Held
    <2>5. Covered(d)'
      BY <2>2, <2>3, <2>4 DEF IInv, Covered
    <2>6. CASE Exceeds(n)
      <3>1. Cleared(d)' = Cleared(d)
        BY <1>2, <2>6 DEF Add, Goto, IInv, TypeOK, Cleared
      <3> QED
        BY <2>3, <2>5, <3>1 DEF IInv, Fits
    <2>7. CASE ~Exceeds(n)
      <3>1. Cleared(d)' \subseteq Held(d)'
        BY DEF Cleared, Held
      <3>2. Held(d)' \in SUBSET Requests
        BY <2>1 DEF Held
      <3>3. /\ Cardinality(Cleared(d)') <= Cardinality(Held(d)')
            /\ Cardinality(Cleared(d)') \in Nat
        BY <3>1, <3>2, Finite, FS_Subset
      <3>4. Cardinality(Held(d)') <= n + refunds[d] /\ n <= MaxPerDay
        BY <2>2, <2>4, <2>7 DEF IInv, Covered, Exceeds
      <3> QED
        BY <2>3, <2>4, <2>5, <3>3, <3>4 DEF Fits
    <2> QED
      BY <2>6, <2>7
  <1> QED
    BY <1>1, <1>2

\* The rollback takes its own request back, or finds nothing to take back.
LEMMA RollbackKeeps ==
    ASSUME IInv, TypeOK', NEW r \in Requests, Rollback(r), NEW d \in Days
    PROVE  Covered(d)' /\ Fits(d)'
  <1>1. /\ Cleared(d)' = Cleared(d) /\ Held(d)' = Held(d) \ {r}
        /\ refunds' = refunds
    BY DEF Rollback, Goto, IInv, TypeOK, Cleared, Held
  <1>2. CASE item'[d].n >= item[d].n
    <2>1. /\ item[d].n \in Nat /\ item'[d].n \in Nat /\ refunds[d] \in Nat
      BY DEF IInv, TypeOK, Item
    <2> QED
      BY <1>1, <1>2, <2>1, Kept DEF IInv
  <1>3. CASE item'[d].n < item[d].n
    <2>1. d = day[r] /\ item'[d].n = item[d].n - 1 /\ item[d].n > 0
      BY <1>3 DEF Rollback, Decrement, IInv, TypeOK, Item
    <2>2. pc[r] = "rollback"
      BY DEF Rollback
    <2>3. r \in Held(d)
      <3>1. r \notin Free
        BY <2>2 DEF IInv, FreeOK
      <3> QED
        BY <2>1, <2>2, <3>1 DEF Held
    <2> DEFINE H == Held(d)
    <2>4. Cardinality(Held(d)') = Cardinality(H) - 1
      <3>1. H \in SUBSET Requests
        BY DEF Held
      <3>2. IsFiniteSet(H) /\ r \in H
        BY <2>3, <3>1, Finite
      <3>3. Cardinality(H \ {r}) = Cardinality(H) - 1
        <4> HIDE DEF H
        <4> QED
          BY <3>2, FS_RemoveElement
      <3> QED
        BY <1>1, <3>3
    <2>5. /\ item[d].n \in Nat /\ refunds[d] \in Nat
          /\ Cardinality(H) \in Nat
      BY Finite DEF IInv, TypeOK, Item, Held
    <2> QED
      BY <1>1, <2>1, <2>4, <2>5 DEF IInv, Covered, Fits
  <1> QED
    BY <1>2, <1>3 DEF IInv, TypeOK, Item

\* A refund takes a write off the item and remembers it.
LEMMA ExcludeKeeps ==
    ASSUME IInv, TypeOK', NEW r \in Requests, Exclude(r), NEW d \in Days
    PROVE  Covered(d)' /\ Fits(d)'
  <1>1. Cleared(d)' = Cleared(d) /\ Held(d)' = Held(d)
    BY DEF Exclude, Goto, IInv, TypeOK, Cleared, Held
  <1>2. /\ item[d].n \in Nat /\ refunds[d] \in Nat
    BY DEF IInv, TypeOK, Item
  <1>3. CASE d # created[r] \/ item[d].n = 0
    <2>1. item'[d] = item[d] /\ refunds'[d] = refunds[d]
      BY <1>3 DEF Exclude, Decrement, IInv, TypeOK, Item
    <2> QED
      BY <1>1, <1>2, <2>1, Kept DEF IInv
  <1>4. CASE d = created[r] /\ item[d].n > 0
    <2>1. item'[d].n = item[d].n - 1 /\ refunds'[d] = refunds[d] + 1
      BY <1>4 DEF Exclude, Decrement, IInv, TypeOK, Item
    <2> QED
      BY <1>1, <1>2, <2>1, Kept DEF IInv
  <1> QED
    BY <1>2, <1>3, <1>4

\* Steps that leave the counters alone only move a request on, or drop it.
LEMMA OthersKeep ==
    ASSUME IInv, TypeOK', UNCHANGED <<item, refunds>>,
           \/ UNCHANGED <<pc, day>>
           \/ \E r \in Requests : Start(r) \/ Query(r) \/ Create(r) \/ Fail(r),
           NEW d \in Days
    PROVE  Covered(d)' /\ Fits(d)'
  <1>1. Held(d)' \subseteq Held(d) /\ Cleared(d)' \subseteq Cleared(d)
    <2>1. CASE UNCHANGED <<pc, day>>
      BY <2>1 DEF Held, Cleared
    <2>2. ASSUME NEW r \in Requests, Start(r)
          PROVE  Held(d)' \subseteq Held(d) /\ Cleared(d)' \subseteq Cleared(d)
      BY <2>2 DEF Start, Goto, IInv, TypeOK, Held, Cleared
    <2>3. ASSUME NEW r \in Requests, Query(r) \/ Create(r) \/ Fail(r)
          PROVE  Held(d)' \subseteq Held(d) /\ Cleared(d)' \subseteq Cleared(d)
      BY <2>3 DEF Query, Create, Fail, Goto, IInv, TypeOK, Held, Cleared
    <2> QED
      BY <2>1, <2>2, <2>3
  <1>2. item[d].n \in Nat /\ refunds[d] \in Nat
    BY DEF IInv, TypeOK, Item
  <1> QED
    BY <1>1, <1>2, Kept DEF IInv

\* documents.py sends a demonstration or a test run past increment_and_check.
LEMMA FreeStep ==
    ASSUME TypeOK, FreeOK, [Next]_vars
    PROVE  FreeOK'
  <1>1. CASE UNCHANGED pc
    BY <1>1 DEF FreeOK
  <1>2. ASSUME NEW r \in Requests, Start(r) PROVE FreeOK'
    BY <1>2 DEF Start, Goto, TypeOK, FreeOK
  <1>3. ASSUME NEW r \in Requests, Add(r) PROVE FreeOK'
    BY <1>3, ConstantsAssumption DEF Add, Goto, TypeOK, FreeOK
  <1>4. ASSUME NEW r \in Requests, Query(r) PROVE FreeOK'
    BY <1>4, ConstantsAssumption DEF Query, Goto, TypeOK, FreeOK
  <1>5. ASSUME NEW r \in Requests, Rollback(r) \/ Create(r) \/ Fail(r) PROVE FreeOK'
    BY <1>5, ConstantsAssumption DEF Rollback, Create, Fail, Goto, TypeOK, FreeOK
  <1>6. ASSUME NEW r \in Requests, Exclude(r) PROVE FreeOK'
    BY <1>6, ConstantsAssumption DEF Exclude, Goto, TypeOK, FreeOK
  <1> QED
    BY <1>1, <1>2, <1>3, <1>4, <1>5, <1>6 DEF Next, vars, Midnight, Replicate

-----------------------------------------------------------------------------
(* Theorems *)

\* Nothing is counted before the first upload.
LEMMA InitInv == Init => IInv
  <1> SUFFICES ASSUME Init PROVE IInv
    OBVIOUS
  <1>1. 1 \in Days
    BY ConstantsAssumption DEF Days
  <1>2. [there |-> FALSE, n |-> 0] \in Item
    BY DEF Item
  <1>3. TypeOK
    BY <1>1, <1>2, ConstantsAssumption DEF Init, TypeOK
  <1>4. FreeOK
    BY ConstantsAssumption DEF Init, FreeOK
  <1>5. ASSUME NEW d \in Days PROVE Covered(d) /\ Fits(d)
    <2>1. Held(d) = {} /\ Cleared(d) = {}
      BY DEF Init, Held, Cleared
    <2>2. item[d].n = 0 /\ refunds[d] = 0
      BY DEF Init
    <2> QED
      BY <2>1, <2>2, FS_EmptySet, ConstantsAssumption DEF Covered, Fits
  <1> QED
    BY <1>3, <1>4, <1>5 DEF IInv

\* increment_and_check and _rollback keep the invariant in any interleaving.
THEOREM Invariance == Spec => []IInv
  <1>1. ASSUME IInv, [Next]_vars PROVE IInv'
    <2>1. TypeOK' /\ FreeOK'
      BY <1>1, TypeStep, FreeStep DEF IInv
    <2>2. ASSUME NEW d \in Days PROVE Covered(d)' /\ Fits(d)'
      <3>1. CASE \E r \in Requests : Add(r) \/ Rollback(r) \/ Exclude(r)
        BY <1>1, <2>1, <3>1, AddKeeps, RollbackKeeps, ExcludeKeeps
      <3>2. CASE \E r \in Requests : Start(r) \/ Query(r) \/ Create(r) \/ Fail(r)
        <4>1. UNCHANGED <<item, refunds>>
          BY <3>2 DEF Start, Query, Create, Fail
        <4> QED
          BY <1>1, <2>1, <3>2, <4>1, OthersKeep
      <3>3. CASE UNCHANGED <<item, refunds, pc, day>>
        BY <1>1, <2>1, <3>3, OthersKeep
      <3> QED
        BY <1>1, <3>1, <3>2, <3>3 DEF Next, vars, Midnight, Replicate
    <2> QED
      BY <2>1, <2>2 DEF IInv
  <1> QED
    BY InitInv, <1>1, PTL DEF Spec

\* Type correctness: no rollback or refund of _rollback takes a count below
\* zero.
THEOREM TypeCorrect == Spec => []TypeOK
  <1>1. IInv => TypeOK
    BY DEF IInv
  <1> QED
    BY Invariance, <1>1, PTL

\* increment_and_check: on each day, the uploads let through exceed the daily
\* limit by no more than what was refunded, for any number of requests,
\* refunds, midnights and failures.
THEOREM DailyLimitKept == Spec => []DailyLimit
  <1>1. ASSUME IInv, NEW d \in Days
        PROVE  Cardinality(Passed(d)) <= MaxPerDay + refunds[d]
    <2>1. Passed(d) \subseteq Cleared(d) /\ Cleared(d) \in SUBSET Requests
      BY DEF Passed, Cleared
    <2>2. /\ Cardinality(Passed(d)) <= Cardinality(Cleared(d))
          /\ Cardinality(Passed(d)) \in Nat /\ Cardinality(Cleared(d)) \in Nat
      BY <2>1, Finite, FS_Subset
    <2>3. refunds[d] \in Nat /\ MaxPerDay \in Nat
      BY <1>1, ConstantsAssumption DEF IInv, TypeOK
    <2> QED
      BY <1>1, <2>2, <2>3 DEF IInv, Fits
  <1>2. IInv => DailyLimit
    BY <1>1 DEF DailyLimit
  <1> QED
    BY Invariance, <1>2, PTL

-----------------------------------------------------------------------------
(* What the counts come to *)

\* The requests whose write is in the item of their day.
Writing(d) ==
    {r \in Requests \ Free : day[r] = d
       /\ pc[r] \in {"query", "rollback", "create", "accepted"}}

\* Every refund so far was for a counted upload, on the day of its count.
RefundedOwnDay ==
    \A r \in Requests : pc[r] = "excluded" => r \notin Free /\ created[r] = day[r]

\* While nothing has failed or was refunded elsewhere, the items hold these
\* writes and no others.
ExactOK ==
    faults = 0 /\ RefundedOwnDay => \A d \in Days : item[d].n = Cardinality(Writing(d))

\* Finitely many requests are at work on a day.
LEMMA WritingFinite ==
    ASSUME NEW d \in Days
    PROVE  IsFiniteSet(Writing(d)) /\ Cardinality(Writing(d)) \in Nat
  BY Finite DEF Writing

\* What was refunded stays so, and so do the failures.
LEMMA ExactBefore ==
    ASSUME TypeOK, [Next]_vars, faults' = 0, RefundedOwnDay'
    PROVE  faults = 0 /\ RefundedOwnDay
  <1>1. faults \in Nat
    BY ConstantsAssumption DEF TypeOK
  <1>2. CASE UNCHANGED <<pc, day, created, faults>>
    BY <1>2 DEF RefundedOwnDay
  <1>3. ASSUME NEW r \in Requests, Start(r) \/ Add(r) \/ Query(r) \/ Rollback(r) \/ Create(r)
        PROVE  faults = 0 /\ RefundedOwnDay
    <2>1. pc[r] # "excluded" /\ faults' = faults
      BY <1>3 DEF Start, Add, Query, Rollback, Create
    <2>2. \A q \in Requests \ {r} :
             pc'[q] = pc[q] /\ day'[q] = day[q] /\ created'[q] = created[q]
      BY <1>3 DEF Start, Add, Query, Rollback, Create, Goto, TypeOK
    <2> QED
      BY <2>1, <2>2 DEF RefundedOwnDay
  <1>4. ASSUME NEW r \in Requests, Exclude(r) PROVE faults = 0 /\ RefundedOwnDay
    <2>1. pc[r] # "excluded" /\ UNCHANGED <<day, created>>
      BY <1>4 DEF Exclude
    <2>2. faults' = faults \/ faults' = faults + 1
      BY <1>4 DEF Exclude
    <2>3. \A q \in Requests \ {r} : pc'[q] = pc[q]
      BY <1>4 DEF Exclude, Goto, TypeOK
    <2> QED
      BY <1>1, <2>1, <2>2, <2>3 DEF RefundedOwnDay
  <1>5. ASSUME NEW r \in Requests, Fail(r) PROVE FALSE
    BY <1>1, <1>5 DEF Fail
  <1> QED
    BY <1>2, <1>3, <1>4, <1>5 DEF Next, vars, Midnight, Replicate

\* A decrement of a day with a write takes one off.
LEMMA TakesOne ==
    ASSUME TypeOK, NEW d \in Days, Decrement(d), item[d].n # 0, NEW e \in Days
    PROVE  item'[e].n = IF e = d THEN item[d].n - 1 ELSE item[e].n
  BY DEF Decrement, TypeOK, Item

\* Taking the write of a request back, in the item and among the requests.
LEMMA TakenBack ==
    ASSUME IInv, NEW r \in Requests \ Free, pc[r] \in {"rollback", "accepted"},
           Goto(r, "refused") \/ Goto(r, "excluded"), day' = day, Decrement(day[r]),
           \A d \in Days : item[d].n = Cardinality(Writing(d)), NEW d \in Days
    PROVE  item'[d].n = Cardinality(Writing(d)')
  <1>1. TypeOK /\ day[r] \in Days
    BY DEF IInv, TypeOK
  <1>2. r \in Writing(day[r])
    BY DEF Writing
  <1>3. item[day[r]].n # 0
    BY <1>1, <1>2, WritingFinite, FS_EmptySet
  <1>4. item'[d].n = IF d = day[r] THEN item[d].n - 1 ELSE item[d].n
    BY <1>1, <1>3, TakesOne
  <1>5. CASE d = day[r]
    <2>1. Writing(d)' = Writing(d) \ {r}
      BY <1>1 DEF Goto, TypeOK, Writing
    <2>2. Cardinality(Writing(d) \ {r}) = Cardinality(Writing(d)) - 1
      BY <1>2, <1>5, WritingFinite, FS_RemoveElement
    <2> QED
      BY <1>4, <1>5, <2>1, <2>2
  <1>6. CASE d # day[r]
    <2>1. Writing(d)' = Writing(d)
      BY <1>1, <1>6 DEF Goto, TypeOK, Writing
    <2> QED
      BY <1>4, <1>6, <2>1
  <1> QED
    BY <1>5, <1>6

\* Every step keeps the count of a day exact.
LEMMA ExactStep ==
    ASSUME IInv, ExactOK, [Next]_vars PROVE ExactOK'
  <1> SUFFICES ASSUME faults' = 0, RefundedOwnDay', NEW d \in Days
               PROVE  item'[d].n = Cardinality(Writing(d)')
    BY DEF ExactOK
  <1>1. TypeOK /\ FreeOK /\ faults = 0 /\ RefundedOwnDay
    BY ExactBefore DEF IInv
  <1>2. \A e \in Days : item[e].n = Cardinality(Writing(e))
    BY <1>1 DEF ExactOK
  <1>3. ASSUME item' = item, Writing(d)' = Writing(d)
        PROVE  item'[d].n = Cardinality(Writing(d)')
    BY <1>2, <1>3
  <1>4. CASE UNCHANGED <<pc, day, item>>
    BY <1>3, <1>4 DEF Writing
  <1>5. ASSUME NEW r \in Requests, Start(r) PROVE item'[d].n = Cardinality(Writing(d)')
    <2>1. item' = item /\ Writing(d)' = Writing(d)
      BY <1>1, <1>5 DEF Start, Goto, TypeOK, Writing
    <2> QED
      BY <1>3, <2>1
  <1>6. ASSUME NEW r \in Requests, Query(r) \/ Create(r)
        PROVE  item'[d].n = Cardinality(Writing(d)')
    <2>1. item' = item /\ Writing(d)' = Writing(d)
      BY <1>1, <1>6 DEF Query, Create, Goto, TypeOK, Writing
    <2> QED
      BY <1>3, <2>1
  <1>7. ASSUME NEW r \in Requests, Add(r) PROVE item'[d].n = Cardinality(Writing(d)')
    <2>1. r \notin Free /\ pc[r] = "add"
      BY <1>1, <1>7 DEF Add, FreeOK
    <2>2. item'[d].n = IF d = day[r] THEN item[d].n + 1 ELSE item[d].n
      BY <1>1, <1>7 DEF Add, TypeOK
    <2>3. CASE d = day[r]
      <3>1. Writing(d)' = Writing(d) \cup {r} /\ r \notin Writing(d)
        BY <1>1, <1>7, <2>1, <2>3 DEF Add, Goto, TypeOK, Writing
      <3>2. Cardinality(Writing(d) \cup {r}) = Cardinality(Writing(d)) + 1
        BY <3>1, WritingFinite, FS_AddElement
      <3> QED
        BY <1>2, <2>2, <2>3, <3>1, <3>2
    <2>4. CASE d # day[r]
      <3>1. Writing(d)' = Writing(d)
        BY <1>1, <1>7, <2>4 DEF Add, Goto, TypeOK, Writing
      <3> QED
        BY <1>2, <2>2, <2>4, <3>1
    <2> QED
      BY <2>3, <2>4
  <1>8. ASSUME NEW r \in Requests, Rollback(r) PROVE item'[d].n = Cardinality(Writing(d)')
    <2>1. r \notin Free
      BY <1>1, <1>8 DEF Rollback, FreeOK
    <2> QED
      BY <1>2, <1>8, <2>1, TakenBack DEF Rollback
  <1>9. ASSUME NEW r \in Requests, Exclude(r) PROVE item'[d].n = Cardinality(Writing(d)')
    <2>1. faults' # faults + 1
      BY <1>1
    <2>2. Goto(r, "excluded") /\ UNCHANGED <<day, created>>
      BY <1>9, <2>1 DEF Exclude
    <2>3. pc'[r] = "excluded"
      BY <1>1, <2>2 DEF Goto, TypeOK
    <2>4. r \notin Free /\ created[r] = day[r]
      BY <2>2, <2>3 DEF RefundedOwnDay
    <2> QED
      BY <1>2, <1>9, <2>2, <2>4, TakenBack DEF Exclude
  <1>10. ASSUME NEW r \in Requests, Fail(r) PROVE FALSE
    BY <1>1, <1>10 DEF Fail
  <1> QED
    BY <1>4, <1>5, <1>6, <1>7, <1>8, <1>9, <1>10 DEF Next, vars, Midnight, Replicate

\* increment_and_check, _rollback and decrement: when the requests of a day are
\* over, and nothing failed or was refunded on another day, the item of the day
\* counts the documents that were let through and not excluded.
THEOREM CountsSettle == Spec => []CountSettles
  <1>1. Init => ExactOK
    <2> SUFFICES ASSUME Init, NEW d \in Days PROVE item[d].n = Cardinality(Writing(d))
      BY DEF ExactOK
    <2>1. Writing(d) = {} /\ item[d].n = 0
      BY DEF Init, Writing
    <2> QED
      BY <2>1, FS_EmptySet
  <1>2. ASSUME ExactOK PROVE CountSettles
    <2> SUFFICES ASSUME faults = 0, RefundedOwnDay,
                        \A r \in Requests : pc[r] \in {"start", "accepted", "excluded", "refused"},
                        NEW d \in Days
                 PROVE  item[d].n = Cardinality(Live(d))
      BY DEF CountSettles, RefundedOwnDay
    <2>1. Live(d) = Writing(d)
      BY DEF Live, Passed, Writing
    <2> QED
      BY <1>2, <2>1 DEF ExactOK
  <1>3. IInv /\ ExactOK /\ [Next]_vars => ExactOK'
    BY ExactStep
  <1> QED
    BY <1>1, <1>2, <1>3, Invariance, PTL DEF Spec
-----------------------------------------------------------------------------
(* Sums *)

\* The units that Total counts.
Units(f) == UNION {{d} \X (1..f[d]) : d \in DOMAIN f}

\* One of them is a day with a number up to its count.
LEMMA UnitsAre ==
    ASSUME NEW D \in SUBSET Days, NEW f \in [D -> Nat], NEW u
    PROVE  u \in Units(f) <=> \E d \in D : \E n \in 1..f[d] : u = <<d, n>>
  BY DEF Units

\* They are finitely many.
LEMMA UnitsFinite ==
    ASSUME NEW D \in SUBSET Days, NEW f \in [D -> Nat]
    PROVE  /\ IsFiniteSet(Units(f))
           /\ Total(f) = Cardinality(Units(f)) /\ Total(f) \in Nat
  <1> DEFINE g == [d \in D |-> {d} \X (1..f[d])]
             T == {{d} \X (1..f[d]) : d \in D}
  <1>1. IsFiniteSet(D)
    <2>1. IsFiniteSet(Days)
      BY ConstantsAssumption, FS_Interval DEF Days
    <2> QED
      BY <2>1, FS_Subset
  <1>2. IsFiniteSet(T)
    <2>1. g \in Surjection(D, T)
      BY DEF Surjection
    <2> QED
      BY <1>1, <2>1, FS_Surjection
  <1>3. ASSUME NEW S \in T PROVE IsFiniteSet(S)
    <2>1. PICK d \in D : S = {d} \X (1..f[d])
      BY <1>3
    <2>2. f[d] \in Int /\ 1 \in Int
      OBVIOUS
    <2>3. IsFiniteSet(1..f[d])
      BY <2>2, FS_Interval
    <2>4. IsFiniteSet({d})
      BY FS_Singleton
    <2> QED
      BY <2>1, <2>3, <2>4, FS_Product
  <1>4. Units(f) = UNION T
    BY DEF Units
  <1>5. IsFiniteSet(Units(f))
    <2> HIDE DEF T
    <2> QED
      BY <1>2, <1>3, <1>4, FS_UNION
  <1>6. Total(f) = Cardinality(Units(f))
    BY DEF Total, Units
  <1> QED
    BY <1>5, <1>6, FS_CardinalityType

\* Sums of counts that are no less, over days that are no fewer.
LEMMA TotalGrows ==
    ASSUME NEW D \in SUBSET Days, NEW E \in SUBSET Days, D \subseteq E,
           NEW f \in [D -> Nat], NEW g \in [E -> Nat], \A d \in D : f[d] <= g[d]
    PROVE  Total(f) <= Total(g)
  <1>1. ASSUME NEW d \in D, NEW n \in 1..f[d] PROVE n \in 1..g[d]
    <2>1. f[d] \in Nat /\ g[d] \in Nat /\ f[d] <= g[d]
      OBVIOUS
    <2> QED
      BY <2>1
  <1>2. Units(f) \subseteq Units(g)
    BY <1>1, UnitsAre
  <1> QED
    BY <1>2, UnitsFinite, FS_Subset

\* The sum of two sums.
LEMMA TotalAdds ==
    ASSUME NEW f \in [Days -> Nat], NEW g \in [Days -> Nat], NEW h \in [Days -> Nat],
           \A d \in Days : f[d] <= g[d] + h[d]
    PROVE  Total(f) <= Total(g) + Total(h)
  <1> DEFINE up == [u \in Units(h) |-> <<u[1], g[u[1]] + u[2]>>]
             Upper == {up[u] : u \in Units(h)}
  <1>1. /\ IsFiniteSet(Upper) /\ Cardinality(Upper) <= Total(h)
    <2>1. up \in Surjection(Units(h), Upper)
      BY DEF Surjection
    <2>2. IsFiniteSet(Units(h)) /\ Total(h) = Cardinality(Units(h))
      BY UnitsFinite
    <2> HIDE DEF up, Upper
    <2> QED
      BY <2>1, <2>2, FS_Surjection
  <1>2. Units(f) \subseteq Units(g) \cup Upper
    <2> SUFFICES ASSUME NEW d \in Days, NEW n \in 1..f[d], <<d, n>> \notin Units(g)
                 PROVE  <<d, n>> \in Upper
      BY UnitsAre
    <2>1. f[d] \in Nat /\ g[d] \in Nat /\ h[d] \in Nat /\ f[d] <= g[d] + h[d]
      OBVIOUS
    <2>2. n \notin 1..g[d]
      BY UnitsAre
    <2>3. n - g[d] \in 1..h[d] /\ g[d] + (n - g[d]) = n
      BY <2>1, <2>2
    <2>4. <<d, n - g[d]>> \in Units(h)
      BY <2>3, UnitsAre
    <2>5. up[<<d, n - g[d]>>] = <<d, n>>
      BY <2>3, <2>4
    <2> HIDE DEF up
    <2> QED
      BY <2>4, <2>5
  <1>3. Total(f) <= Cardinality(Units(g) \cup Upper)
    <2> HIDE DEF Upper
    <2>1. IsFiniteSet(Units(g) \cup Upper)
      BY <1>1, UnitsFinite, FS_Union
    <2> QED
      BY <1>2, <2>1, UnitsFinite, FS_Subset
  <1>4. Cardinality(Units(g) \cup Upper) <= Total(g) + Cardinality(Upper)
    <2> HIDE DEF Upper
    <2>1. IsFiniteSet(Units(g)) /\ Total(g) = Cardinality(Units(g)) /\ Total(g) \in Nat
      BY UnitsFinite
    <2>2. Cardinality(Units(g) \cup Upper)
            = Cardinality(Units(g)) + Cardinality(Upper) - Cardinality(Units(g) \cap Upper)
      BY <1>1, <2>1, FS_Union
    <2>3. Cardinality(Units(g) \cap Upper) \in Nat /\ Cardinality(Upper) \in Nat
      BY <1>1, <2>1, FS_Intersection, FS_CardinalityType
    <2> QED
      BY <2>1, <2>2, <2>3
  <1>5. /\ Total(f) \in Nat /\ Total(g) \in Nat /\ Total(h) \in Nat
        /\ Cardinality(Upper) \in Nat /\ Cardinality(Units(g) \cup Upper) \in Nat
    <2> HIDE DEF Upper
    <2> QED
      BY <1>1, UnitsFinite, FS_CardinalityType, FS_Union
  <1> HIDE DEF Upper
  <1> QED
    BY <1>1, <1>3, <1>4, <1>5

\* The requests of a set, day by day, are no more than the set.
LEMMA TotalOfParts ==
    ASSUME TypeOK, NEW S \in SUBSET Requests
    PROVE  Total([d \in Days |-> Cardinality({r \in S : day[r] = d})]) <= Cardinality(S)
  <1> DEFINE Part(d) == {r \in S : day[r] = d}
             f == [d \in Days |-> Cardinality(Part(d))]
  <1>1. f \in [Days -> Nat]
    BY Finite
  <1>2. ASSUME NEW d \in Days PROVE \E g \in [1..f[d] -> Part(d)] : g \in Injection(1..f[d], Part(d))
    <2>1. Part(d) \in SUBSET Requests
      OBVIOUS
    <2>2. IsFiniteSet(Part(d)) /\ f[d] = Cardinality(Part(d)) /\ f[d] \in Nat
      BY <2>1, Finite
    <2>3. IsFiniteSet(1..f[d]) /\ Cardinality(1..f[d]) = f[d]
      <3> HIDE DEF f
      <3> QED BY <2>2, FS_Interval
    <2> HIDE DEF Part, f
    <2>4. ExistsBijection(1..f[d], Part(d))
      BY <2>2, <2>3, FS_SameCardinalityBij
    <2> QED
      BY <2>4 DEF ExistsBijection, Bijection, Injection
  <1> DEFINE pick == [d \in Days |->
                        CHOOSE g \in [1..f[d] -> Part(d)] : g \in Injection(1..f[d], Part(d))]
             into == [u \in Units(f) |-> pick[u[1]][u[2]]]
  <1>3. ASSUME NEW d \in Days, NEW n \in 1..f[d]
        PROVE  /\ pick[d][n] \in Part(d)
               /\ \A m \in 1..f[d] : pick[d][m] = pick[d][n] => m = n
    <2>1. pick[d] \in [1..f[d] -> Part(d)] /\ pick[d] \in Injection(1..f[d], Part(d))
      BY <1>2
    <2> HIDE DEF pick, f, Part
    <2> QED
      BY <2>1 DEF Injection, IsInjective
  <1>4. into \in Injection(Units(f), S)
    <2>1. ASSUME NEW u \in Units(f) PROVE into[u] \in S
      <3>1. PICK d \in Days : \E n \in 1..f[d] : u = <<d, n>>
        <4> HIDE DEF f
        <4> QED BY <1>1, UnitsAre
      <3>n. PICK n \in 1..f[d] : u = <<d, n>>
        BY <3>1
      <3>2. into[u] = pick[d][n]
        BY <3>n
      <3> HIDE DEF into, pick, f
      <3> QED
        BY <1>3, <3>2
    <2>2. ASSUME NEW u \in Units(f), NEW v \in Units(f), into[u] = into[v] PROVE u = v
      <3>1. PICK d \in Days : \E n \in 1..f[d] : u = <<d, n>>
        <4> HIDE DEF f
        <4> QED BY <1>1, UnitsAre
      <3>2. PICK e \in Days : \E m \in 1..f[e] : v = <<e, m>>
        <4> HIDE DEF f
        <4> QED BY <1>1, UnitsAre
      <3>n. PICK n \in 1..f[d] : u = <<d, n>>
        BY <3>1
      <3>m. PICK m \in 1..f[e] : v = <<e, m>>
        BY <3>2
      <3>3. into[u] = pick[d][n] /\ into[v] = pick[e][m]
        BY <3>n, <3>m
      <3>4. pick[d][n] \in Part(d) /\ pick[e][m] \in Part(e)
        <4> HIDE DEF pick, f, Part
        <4> QED BY <1>3
      <3>5. d = e
        <4> HIDE DEF pick, f, into
        <4> QED BY <2>2, <3>3, <3>4
      <3>6. m = n
        <4> HIDE DEF pick, f, into, Part
        <4> QED BY <1>3, <2>2, <3>3, <3>5
      <3> QED
        BY <3>n, <3>m, <3>5, <3>6
    <2>3. into \in [Units(f) -> S]
      <3> DEFINE U == Units(f)
      <3>1. into = [u \in U |-> into[u]]
        OBVIOUS
      <3> HIDE DEF into, U
      <3> QED BY <2>1, <3>1 DEF U
    <2> HIDE DEF into, f
    <2> QED
      BY <2>2, <2>3 DEF Injection, IsInjective
  <1>5. Total(f) = Cardinality(Units(f))
    <2> HIDE DEF f
    <2> QED
      BY <1>1, UnitsFinite
  <1>6. IsFiniteSet(S)
    BY Finite
  <1> HIDE DEF into, pick
  <1>7. Cardinality(Units(f)) <= Cardinality(S)
    <2> HIDE DEF f
    <2> QED
      BY <1>4, <1>6, FS_Injection
  <1> QED
    BY <1>5, <1>7

-----------------------------------------------------------------------------
(* The monthly limit *)

\* The requests of the day of r that hold a write and were added no later than
\* r; age[q] >= age[r] says that q was.
Upto(age, r) == {q \in Held(day[r]) : age[q] >= age[r]}

\* They were in what the increment of r returned, or have been refunded.
RankOK(age) ==
    \A r \in Requests : pc[r] = "query" =>
        Cardinality(Upto(age, r)) <= got[r] + refunds[day[r]]

\* Let through by a query that saw all the writes.
Sure(d) == Passed(d) \ misled

\* With those at their query that one of them has counted already.
Bound(age, d) ==
    Sure(d) \cup {r \in Requests \ Free :
                     day[r] = d /\ pc[r] = "query" /\ \E q \in Sure(d) : age[r] > age[q]}

Bounds(age) == [d \in Days |-> Cardinality(Bound(age, d))]

MonthFits(age) == Total(Bounds(age)) <= MaxPerMonth + Total(refunds)

ThereOK ==
    /\ \A d \in Days : ~item[d].there => item[d].n = 0
    /\ \A r \in Requests : pc[r] = "query" => item[day[r]].there

MonthOK == \E age \in [Requests -> Nat] : RankOK(age) /\ MonthFits(age)

\* What these sets are made of.
LEMMA MonthTypes ==
    ASSUME TypeOK, NEW age \in [Requests -> Nat]
    PROVE  /\ \A r \in Requests : /\ Upto(age, r) \in SUBSET Requests
                                  /\ Cardinality(Upto(age, r)) \in Nat
           /\ \A d \in Days : /\ Bound(age, d) \in SUBSET Requests
                              /\ Cardinality(Bound(age, d)) \in Nat
           /\ Bounds(age) \in [Days -> Nat]
           /\ Total(Bounds(age)) \in Nat /\ Total(refunds) \in Nat
  <1>1. \A r \in Requests : Upto(age, r) \in SUBSET Requests
    BY DEF Upto, Held
  <1>2. \A d \in Days : Bound(age, d) \in SUBSET Requests
    BY DEF Bound, Sure, Passed
  <1>3. Bounds(age) \in [Days -> Nat]
    BY <1>2, Finite DEF Bounds
  <1>4. refunds \in [Days -> Nat]
    BY DEF TypeOK
  <1> QED
    BY <1>1, <1>2, <1>3, <1>4, Finite, UnitsFinite

\* An item that is not there has no count, and increments leave one behind.
LEMMA ThereStep ==
    ASSUME TypeOK, FreeOK, ThereOK, [Next]_vars PROVE ThereOK'
  <1>1. CASE UNCHANGED <<pc, day, item>>
    BY <1>1 DEF ThereOK
  <1>2. ASSUME NEW r \in Requests, Start(r) PROVE ThereOK'
    BY <1>2 DEF Start, Goto, TypeOK, ThereOK
  <1>3. ASSUME NEW r \in Requests, Add(r) PROVE ThereOK'
    <2>1. \A d \in Days : d # day[r] => item'[d] = item[d]
      BY <1>3 DEF Add, TypeOK
    <2>2. item'[day[r]].there
      BY <1>3 DEF Add, TypeOK
    <2>3. \A q \in Requests : q # r => pc'[q] = pc[q]
      BY <1>3 DEF Add, Goto, TypeOK
    <2>4. day' = day
      BY <1>3 DEF Add
    <2> QED
      BY <2>1, <2>2, <2>3, <2>4 DEF ThereOK, TypeOK
  <1>4. ASSUME NEW r \in Requests, Query(r) \/ Create(r) \/ Fail(r) PROVE ThereOK'
    BY <1>4 DEF Query, Create, Fail, Goto, TypeOK, ThereOK
  <1>5. ASSUME NEW d \in Days, Decrement(d), day' = day,
               \A q \in Requests : pc'[q] = "query" => pc[q] = "query"
        PROVE  ThereOK'
    <2>1. ASSUME NEW e \in Days PROVE item'[e].there = item[e].there
      <3>1. CASE e = d
        BY <1>5, <3>1 DEF Decrement, TypeOK, Item
      <3>2. CASE e # d
        BY <1>5, <3>2 DEF Decrement, TypeOK
      <3> QED
        BY <3>1, <3>2
    <2>2. \A e \in Days : item[e].n = 0 => item'[e].n = 0
      BY <1>5 DEF Decrement, TypeOK, Item
    <2> QED
      BY <1>5, <2>1, <2>2 DEF ThereOK, TypeOK
  <1>6. ASSUME NEW r \in Requests, Rollback(r) PROVE ThereOK'
    BY <1>5, <1>6 DEF Rollback, Goto, TypeOK
  <1>7. ASSUME NEW r \in Requests, Exclude(r) PROVE ThereOK'
    BY <1>5, <1>7 DEF Exclude, Goto, TypeOK
  <1> QED
    BY <1>1, <1>2, <1>3, <1>4, <1>6, <1>7 DEF Next, vars, Midnight, Replicate

\* The bounds of the month, where no more is let through or waits.
LEMMA MonthKept ==
    ASSUME TypeOK, TypeOK', NEW age \in [Requests -> Nat], NEW after \in [Requests -> Nat],
           MonthFits(age), \A d \in Days : Bound(after, d)' \subseteq Bound(age, d),
           \A d \in Days : refunds[d] <= refunds'[d]
    PROVE  MonthFits(after)'
  <1>0. \A d \in Days : Bound(after, d)' \in SUBSET Requests
    BY DEF Bound, Sure, Passed
  <1>1. Bounds(age) \in [Days -> Nat] /\ Bounds(after)' \in [Days -> Nat]
    BY <1>0, MonthTypes, Finite DEF Bounds
  <1>2. ASSUME NEW d \in Days PROVE Bounds(after)'[d] <= Bounds(age)[d]
    <2>1. Bound(age, d) \in SUBSET Requests
      BY MonthTypes
    <2>2. Cardinality(Bound(after, d)') <= Cardinality(Bound(age, d))
      BY <2>1, Finite, FS_Subset
    <2> QED
      BY <2>2 DEF Bounds
  <1>3. Total(Bounds(after)') <= Total(Bounds(age))
    BY <1>1, <1>2, TotalGrows
  <1>4. Total(refunds) <= Total(refunds')
    BY TotalGrows DEF TypeOK
  <1>5. /\ Total(Bounds(age)) \in Nat /\ Total(Bounds(after)') \in Nat
        /\ Total(refunds) \in Nat /\ Total(refunds') \in Nat /\ MaxPerMonth \in Nat
    <2>1. refunds \in [Days -> Nat] /\ refunds' \in [Days -> Nat]
      BY DEF TypeOK
    <2> QED
      BY <1>1, <2>1, UnitsFinite, ConstantsAssumption
  <1>6. Total(Bounds(after)') <= MaxPerMonth + Total(refunds')
    BY <1>3, <1>4, <1>5 DEF MonthFits
  <1>7. (Total(Bounds(after)))' = Total(Bounds(after)')
    BY DEF Total
  <1> QED
    BY <1>6, <1>7 DEF MonthFits, Total

\* The ranks, where no request has been added.
LEMMA RankKept ==
    ASSUME IInv, TypeOK', NEW age \in [Requests -> Nat], RankOK(age),
           \A r \in Requests : pc'[r] = "query" =>
              /\ pc[r] = "query" /\ got'[r] = got[r] /\ day'[r] = day[r]
              /\ Held(day[r])' \subseteq Held(day[r])
              /\ refunds[day[r]] <= refunds'[day[r]]
    PROVE  RankOK(age)'
  <1> SUFFICES ASSUME NEW r \in Requests, pc'[r] = "query"
               PROVE  Cardinality(Upto(age, r)') <= got'[r] + refunds'[day'[r]]
    BY DEF RankOK
  <1>1. pc[r] = "query" /\ day'[r] = day[r] /\ got'[r] = got[r]
    OBVIOUS
  <1>2. Upto(age, r)' \subseteq Upto(age, r)
    BY <1>1 DEF Upto
  <1>3. Upto(age, r) \in SUBSET Requests
    BY DEF Upto, Held
  <1>4. /\ Cardinality(Upto(age, r)') <= Cardinality(Upto(age, r))
        /\ Cardinality(Upto(age, r)) \in Nat /\ Cardinality(Upto(age, r)') \in Nat
    BY <1>2, <1>3, Finite, FS_Subset
  <1>5. Cardinality(Upto(age, r)) <= got[r] + refunds[day[r]]
    BY <1>1 DEF RankOK
  <1>6. got[r] \in Nat /\ refunds[day[r]] \in Nat /\ refunds'[day[r]] \in Nat
    BY DEF IInv, TypeOK
  <1> QED
    BY <1>1, <1>4, <1>5, <1>6

\* Steps that add no request and ask for no total: whoever holds a write or
\* waits did so before.
LEMMA MonthAside ==
    ASSUME IInv, TypeOK', MonthOK,
           \A r \in Requests : pc'[r] = "query" =>
              pc[r] = "query" /\ got'[r] = got[r] /\ day'[r] = day[r],
           \A d \in Days : /\ Held(d)' \subseteq Held(d)
                           /\ Sure(d)' \subseteq Sure(d)
                           /\ refunds[d] <= refunds'[d]
    PROVE  MonthOK'
  <1>1. PICK age \in [Requests -> Nat] : RankOK(age) /\ MonthFits(age)
    BY DEF MonthOK
  <1>2. RankOK(age)'
    <2>1. \A r \in Requests : day[r] \in Days
      BY DEF IInv, TypeOK
    <2> QED
      BY <1>1, <2>1, RankKept
  <1>3. \A d \in Days : Bound(age, d)' \subseteq Bound(age, d)
    BY DEF Bound
  <1>4. MonthFits(age)'
    BY <1>1, <1>3, MonthKept DEF IInv
  <1> QED
    BY <1>2, <1>4 DEF MonthOK

\* An increment: the new request is the youngest, which nobody has counted,
\* and finds itself with all who hold a write of its day in the count it got.
LEMMA AddMonth ==
    ASSUME IInv, TypeOK', MonthOK, NEW r \in Requests, Add(r)
    PROVE  MonthOK'
  <1>1. PICK age \in [Requests -> Nat] : RankOK(age) /\ MonthFits(age)
    BY DEF MonthOK
  <1> DEFINE after == [q \in Requests |-> IF q = r THEN 0 ELSE age[q] + 1]
  <1>2. /\ after \in [Requests -> Nat] /\ after[r] = 0
        /\ \A q \in Requests : q # r => after[q] = age[q] + 1
    OBVIOUS
  <1> HIDE DEF after
  <1>3. /\ r \notin Free /\ pc[r] = "add" /\ pc'[r] \in {"query", "rollback"}
        /\ \A q \in Requests : q # r => pc'[q] = pc[q] /\ got'[q] = got[q]
        /\ UNCHANGED <<day, refunds, misled>>
    BY DEF Add, Goto, IInv, TypeOK, FreeOK
  <1>4. ASSUME NEW q \in Requests, pc'[q] = "query"
        PROVE  Cardinality(Upto(after, q)') <= got'[q] + refunds'[day'[q]]
    <2>1. day[q] \in Days /\ got'[q] \in Nat /\ refunds[day[q]] \in Nat
      BY DEF IInv, TypeOK
    <2>2. CASE q = r
      <3>0. \A d \in Days : Covered(d)'
        BY AddKeeps
      <3>1. Cardinality(Held(day[r])') <= item'[day[r]].n + refunds'[day[r]]
        BY <1>3, <2>1, <2>2, <3>0 DEF Covered
      <3>2. got'[r] = item'[day[r]].n
        BY DEF Add, IInv, TypeOK
      <3>3. Upto(after, r)' \subseteq Held(day[r])' /\ Held(day[r])' \in SUBSET Requests
        BY <1>3 DEF Upto, Held
      <3>4. /\ Cardinality(Upto(after, r)') <= Cardinality(Held(day[r])')
            /\ Cardinality(Upto(after, r)') \in Nat /\ Cardinality(Held(day[r])') \in Nat
        BY <3>3, Finite, FS_Subset
      <3>5. Cardinality(Held(day[r])') <= got'[r] + refunds'[day[r]]
        BY <3>1, <3>2
      <3>6. got'[r] \in Nat /\ refunds'[day[r]] \in Nat
        BY <1>3, <2>1, <2>2
      <3> QED
        BY <1>3, <2>2, <3>4, <3>5, <3>6
    <2>3. CASE q # r
      <3>1. pc[q] = "query"
        BY <1>3, <2>3, <1>4
      <3>2. Upto(after, q)' \subseteq Upto(age, q)
        <4> SUFFICES ASSUME NEW p \in Upto(after, q)' PROVE p \in Upto(age, q)
          OBVIOUS
        <4>1. p \in Requests /\ after[p] >= after[q]
          BY DEF Upto, Held
        <4>2. p # r /\ age[p] >= age[q]
          BY <1>2, <2>3, <4>1
        <4> QED
          BY <1>3, <4>1, <4>2 DEF Upto, Held
      <3>3. Upto(age, q) \in SUBSET Requests
        BY DEF Upto, Held
      <3>4. /\ Cardinality(Upto(after, q)') <= Cardinality(Upto(age, q))
            /\ Cardinality(Upto(age, q)) \in Nat /\ Cardinality(Upto(after, q)') \in Nat
        BY <3>2, <3>3, Finite, FS_Subset
      <3>5. Cardinality(Upto(age, q)) <= got[q] + refunds[day[q]]
        BY <1>1, <3>1 DEF RankOK
      <3>6. got'[q] = got[q] /\ day'[q] = day[q] /\ refunds' = refunds
        BY <1>3, <2>3
      <3> QED
        BY <2>1, <3>4, <3>5, <3>6
    <2> QED
      BY <2>2, <2>3
  <1>5. ASSUME NEW d \in Days PROVE Bound(after, d)' \subseteq Bound(age, d)
    <2>1. Sure(d)' = Sure(d) /\ r \notin Sure(d)
      BY <1>3 DEF Sure, Passed
    <2>2. Sure(d) \subseteq Requests
      BY DEF Sure, Passed
    <2> SUFFICES ASSUME NEW p \in Requests \ Free, day'[p] = d, pc'[p] = "query",
                        NEW q \in Sure(d), after[p] > after[q]
                 PROVE  p \in Bound(age, d)
      BY <2>1 DEF Bound
    <2>3. after[q] = age[q] + 1 /\ age[q] \in Nat
      BY <1>2, <2>1, <2>2
    <2>4. p # r
      BY <1>2, <2>3
    <2>5. age[p] > age[q]
      BY <1>2, <2>3, <2>4
    <2> QED
      BY <1>3, <2>4, <2>5 DEF Bound
  <1>6. MonthFits(after)'
    <2>1. \A d \in Days : refunds[d] <= refunds'[d]
      BY <1>3 DEF IInv, TypeOK
    <2> QED
      BY <1>1, <1>2, <1>5, <2>1, MonthKept DEF IInv
  <1> QED
    BY <1>2, <1>4, <1>6 DEF MonthOK, RankOK

\* The total that a query finds has a day without an item for nothing.
LEMMA MonthTotalIs ==
    ASSUME IInv, ThereOK, NEW r \in Requests, pc[r] = "query",
           NEW V, V = [d \in Days |-> IF d = day[r] THEN got[r] ELSE item[d].n]
    PROVE  V \in [Days -> Nat] /\ Total(V) <= MonthTotal(item, r)
  <1> DEFINE D == {e \in Days : item[e].there}
             f == [d \in D |-> IF d = day[r] THEN got[r] ELSE item[d].n]
  <1>1. V \in [Days -> Nat]
    BY DEF IInv, TypeOK, Item
  <1>2. f \in [D -> Nat] /\ D \in SUBSET Days
    BY DEF IInv, TypeOK, Item
  <1>3. MonthTotal(item, r) = Total(f)
    BY DEF MonthTotal
  <1>4. ASSUME NEW d \in Days, NEW n \in 1..V[d] PROVE d \in D /\ n \in 1..f[d]
    <2>1. V[d] # 0
      BY <1>1
    <2>2. d \in D
      BY <2>1 DEF ThereOK
    <2> QED
      BY <2>2
  <1>5. Units(V) \subseteq Units(f)
    <2> HIDE DEF D, f
    <2> SUFFICES ASSUME NEW u \in Units(V) PROVE u \in Units(f)
      OBVIOUS
    <2>1. PICK d \in Days : \E n \in 1..V[d] : u = <<d, n>>
      BY <1>1, UnitsAre
    <2> QED
      BY <1>2, <1>4, <2>1, UnitsAre
  <1> HIDE DEF D, f
  <1> QED
    BY <1>1, <1>2, <1>3, <1>5, UnitsFinite, FS_Subset

\* A request that its query lets through, and that nobody has counted: those
\* let through on its day, and those they have counted, were there when it got
\* its count; those of another day are in the item its query has seen.
LEMMA AllowedFits ==
    ASSUME IInv, TypeOK', ThereOK, NEW r \in Requests, Query(r), pc'[r] = "create",
           MonthTotal(item, r) <= MaxPerMonth,
           NEW age \in [Requests -> Nat], RankOK(age), r \notin Bound(age, day[r])
    PROVE  MonthFits(age)'
  <1> DEFINE V == [d \in Days |-> IF d = day[r] THEN got[r] ELSE item[d].n]
  <1>1. /\ r \notin Free /\ pc[r] = "query"
        /\ \A q \in Requests : q # r => pc'[q] = pc[q]
        /\ UNCHANGED <<day, refunds, got, item>>
        /\ misled \subseteq misled'
    BY DEF Query, Goto, IInv, TypeOK, FreeOK
  <1>2. \A q \in Sure(day[r]) : age[q] >= age[r]
    <2>1. \A q \in Sure(day[r]) : ~(age[r] > age[q]) /\ q \in Requests
      BY <1>1 DEF Bound, Sure, Passed
    <2> QED
      BY <2>1
  <1>3. ASSUME NEW d \in Days
        PROVE  /\ Bound(age, d)' \in SUBSET Requests
               /\ Cardinality(Bound(age, d)') <= V[d] + refunds[d]
    <2>0. Bound(age, d)' \in SUBSET Requests
      BY DEF Bound, Sure, Passed
    <2>1. Sure(d)' \subseteq Sure(d) \cup {r}
      BY <1>1 DEF Sure, Passed
    <2>2. CASE d = day[r]
      <3>1. Bound(age, d)' \subseteq Upto(age, r)
        <4>1. ASSUME NEW q \in Sure(d)' PROVE q \in Upto(age, r)
          <5>1. CASE q = r
            <6>1. r \in Held(d)
              BY <1>1, <2>2 DEF Held
            <6> QED
              BY <2>2, <5>1, <6>1 DEF Upto
          <5>2. CASE q # r
            <6>1. q \in Sure(d)
              BY <2>1, <5>2
            <6>2. q \in Held(d)
              BY <6>1 DEF Sure, Passed, Held
            <6> QED
              BY <1>2, <2>2, <6>1, <6>2 DEF Upto
          <5> QED
            BY <5>1, <5>2
        <4>2. ASSUME NEW p \in Requests \ Free, day'[p] = d, pc'[p] = "query",
                     NEW q \in Sure(d)', age[p] > age[q]
              PROVE  p \in Upto(age, r)
          <5>1. p # r /\ pc[p] = "query" /\ day[p] = d
            BY <1>1, <4>2
          <5>2. q \in Requests /\ age[q] >= age[r]
            BY <4>1 DEF Upto, Held
          <5>3. age[p] >= age[r]
            BY <4>2, <5>2
          <5> QED
            BY <2>2, <5>1, <5>3 DEF Upto, Held
        <4> QED
          BY <4>1, <4>2 DEF Bound
      <3>2. Upto(age, r) \in SUBSET Requests
        BY DEF Upto, Held
      <3>3. /\ Cardinality(Bound(age, d)') <= Cardinality(Upto(age, r))
            /\ Cardinality(Upto(age, r)) \in Nat /\ Cardinality(Bound(age, d)') \in Nat
        BY <3>1, <3>2, Finite, FS_Subset
      <3>4. Cardinality(Upto(age, r)) <= got[r] + refunds[d]
        BY <1>1, <2>2 DEF RankOK
      <3>5. got[r] \in Nat /\ refunds[d] \in Nat /\ V[d] = got[r]
        BY <2>2 DEF IInv, TypeOK
      <3> QED
        BY <2>0, <3>3, <3>4, <3>5
    <2>3. CASE d # day[r]
      <3>1. Bound(age, d)' \subseteq Held(d)
        BY <1>1, <2>3 DEF Bound, Sure, Passed, Held
      <3>2. Held(d) \in SUBSET Requests
        BY DEF Held
      <3>3. /\ Cardinality(Bound(age, d)') <= Cardinality(Held(d))
            /\ Cardinality(Held(d)) \in Nat /\ Cardinality(Bound(age, d)') \in Nat
        BY <3>1, <3>2, Finite, FS_Subset
      <3>4. Cardinality(Held(d)) <= item[d].n + refunds[d]
        BY DEF IInv, Covered
      <3>5. item[d].n \in Nat /\ refunds[d] \in Nat /\ V[d] = item[d].n
        BY <2>3 DEF IInv, TypeOK, Item
      <3> QED
        BY <2>0, <3>3, <3>4, <3>5
    <2> QED
      BY <2>2, <2>3
  <1>4. V \in [Days -> Nat] /\ Total(V) <= MonthTotal(item, r)
    BY <1>1, MonthTotalIs
  <1> HIDE DEF V
  <1>5. Bounds(age)' \in [Days -> Nat] /\ refunds \in [Days -> Nat]
    BY <1>3, Finite DEF Bounds, IInv, TypeOK
  <1>6. \A d \in Days : Bounds(age)'[d] <= V[d] + refunds[d]
    BY <1>3 DEF Bounds
  <1>7. Total(Bounds(age)') <= Total(V) + Total(refunds)
    BY <1>4, <1>5, <1>6, TotalAdds
  <1>8. MonthTotal(item, r) \in Nat
    <2> DEFINE D == {e \in Days : item[e].there}
               f == [d \in D |-> IF d = day[r] THEN got[r] ELSE item[d].n]
    <2>1. f \in [D -> Nat] /\ D \in SUBSET Days
      BY DEF IInv, TypeOK, Item
    <2>2. MonthTotal(item, r) = Total(f)
      BY DEF MonthTotal
    <2> HIDE DEF f, D
    <2> QED
      BY <2>1, <2>2, UnitsFinite
  <1>9. /\ Total(Bounds(age)') \in Nat /\ Total(V) \in Nat /\ Total(refunds) \in Nat
        /\ MaxPerMonth \in Nat
    BY <1>4, <1>5, UnitsFinite, ConstantsAssumption
  <1>10. Total(Bounds(age)') <= MaxPerMonth + Total(refunds)
    BY <1>4, <1>7, <1>8, <1>9
  <1> QED
    BY <1>1, <1>10 DEF MonthFits, Total

\* The query of a request decides whether it is let through; those it counts
\* that have still to ask are bounded with it.
LEMMA QueryMonth ==
    ASSUME IInv, TypeOK', ThereOK, MonthOK, NEW r \in Requests, Query(r)
    PROVE  MonthOK'
  <1>1. /\ r \notin Free /\ pc[r] = "query" /\ pc'[r] \in {"create", "rollback"}
        /\ \A q \in Requests : q # r => pc'[q] = pc[q]
        /\ UNCHANGED <<day, refunds, got, item>>
        /\ misled \subseteq misled' /\ misled' \subseteq misled \cup {r}
    BY DEF Query, Goto, IInv, TypeOK, FreeOK
  <1>2. \A d \in Days : refunds[d] <= refunds'[d]
    BY <1>1 DEF IInv, TypeOK
  <1>3. ASSUME \A d \in Days : Sure(d)' \subseteq Sure(d) PROVE MonthOK'
    <2>1. \A d \in Days : Held(d)' \subseteq Held(d)
      BY <1>1 DEF Held
    <2>2. \A q \in Requests : pc'[q] = "query" => pc[q] = "query"
      BY <1>1
    <2> QED
      BY <1>1, <1>2, <1>3, <2>1, <2>2, MonthAside
  <1>4. CASE pc'[r] = "rollback" \/ r \in misled'
    <2>1. \A d \in Days : Sure(d)' \subseteq Sure(d)
      BY <1>1, <1>4 DEF Sure, Passed
    <2> QED
      BY <1>3, <2>1
  <1>5. CASE pc'[r] = "create" /\ r \notin misled'
    <2>1. PICK age \in [Requests -> Nat] : RankOK(age) /\ MonthFits(age)
      BY DEF MonthOK
    <2>2. RankOK(age)'
      <3>1. ASSUME NEW q \in Requests, pc'[q] = "query"
            PROVE  /\ pc[q] = "query" /\ got'[q] = got[q] /\ day'[q] = day[q]
                   /\ Held(day[q])' \subseteq Held(day[q])
                   /\ refunds[day[q]] <= refunds'[day[q]]
        <4>1. pc[q] = "query" /\ got'[q] = got[q] /\ day'[q] = day[q] /\ day[q] \in Days
          BY <1>1, <3>1 DEF IInv, TypeOK
        <4>2. Held(day[q])' \subseteq Held(day[q])
          BY <1>1 DEF Held
        <4> QED
          BY <1>2, <4>1, <4>2
      <3> QED
        BY <2>1, <3>1, RankKept
    <2>3. CASE r \in Bound(age, day[r])
      <3>1. ASSUME NEW d \in Days PROVE Bound(age, d)' \subseteq Bound(age, d)
        <4>1. Sure(d)' \subseteq Sure(d) \cup {r}
          BY <1>1 DEF Sure, Passed
        <4>2. r \notin Sure(d)
          BY <1>1 DEF Sure, Passed
        <4>3. ASSUME d = day[r] PROVE \E z \in Sure(d) : age[r] > age[z]
          BY <1>1, <2>3, <4>2, <4>3 DEF Bound
        <4>4. \A q \in Requests : q \in Sure(d)' => day[q] = d
          BY <1>1 DEF Sure, Passed
        <4>5. ASSUME NEW q \in Sure(d)' PROVE q \in Bound(age, d)
          <5>1. CASE q = r
            BY <1>1, <2>3, <4>4, <5>1
          <5>2. CASE q # r
            BY <4>1, <5>2 DEF Bound
          <5> QED
            BY <5>1, <5>2
        <4>6. ASSUME NEW p \in Requests \ Free, day'[p] = d, pc'[p] = "query",
                     NEW q \in Sure(d)', age[p] > age[q]
              PROVE  p \in Bound(age, d)
          <5>1. p # r /\ pc[p] = "query" /\ day[p] = d
            BY <1>1, <4>6
          <5>2. \E z \in Sure(d) : age[p] > age[z]
            <6>1. CASE q # r
              BY <4>1, <4>6, <6>1
            <6>2. CASE q = r
              <7>1. PICK z \in Sure(d) : age[r] > age[z]
                BY <1>1, <4>3, <4>4, <6>2
              <7>2. z \in Requests
                BY DEF Sure, Passed
              <7>3. age[p] \in Nat /\ age[r] \in Nat /\ age[z] \in Nat
                BY <7>2
              <7> QED
                BY <4>6, <6>2, <7>1, <7>3
            <6> QED
              BY <6>1, <6>2
          <5> QED
            BY <5>1, <5>2 DEF Bound
        <4> QED
          BY <4>5, <4>6 DEF Bound
      <3>2. MonthFits(age)'
        BY <1>2, <2>1, <3>1, MonthKept DEF IInv
      <3> QED
        BY <2>2, <3>2 DEF MonthOK
    <2>4. CASE r \notin Bound(age, day[r])
      <3>1. MonthTotal(item, r) <= MaxPerMonth
        <4>1. ~(MonthTotal(replica, r) > MaxPerMonth)
          BY <1>5, <1>1 DEF Query, Goto, IInv, TypeOK
        <4>2. ~(MonthTotal(replica, r) < MonthTotal(item, r))
          BY <1>5 DEF Query
        <4>3. ASSUME NEW items \in [Days -> Item] PROVE MonthTotal(items, r) \in Nat
          <5> DEFINE D == {e \in Days : items[e].there}
                     f == [d \in D |-> IF d = day[r] THEN got[r] ELSE items[d].n]
          <5>1. f \in [D -> Nat] /\ D \in SUBSET Days
            BY DEF IInv, TypeOK, Item
          <5>2. MonthTotal(items, r) = Total(f)
            BY DEF MonthTotal
          <5> HIDE DEF f, D
          <5> QED
            BY <5>1, <5>2, UnitsFinite
        <4>4. MonthTotal(item, r) \in Nat /\ MonthTotal(replica, r) \in Nat
          BY <4>3 DEF IInv, TypeOK
        <4> QED
          BY <4>1, <4>2, <4>4, ConstantsAssumption
      <3>2. MonthFits(age)'
        BY <1>5, <2>1, <2>4, <3>1, AllowedFits
      <3> QED
        BY <2>2, <3>2 DEF MonthOK
    <2> QED
      BY <2>3, <2>4
  <1> QED
    BY <1>1, <1>4, <1>5

\* The other steps add no request and let none through.
LEMMA MonthStep ==
    ASSUME IInv, IInv', ThereOK, MonthOK, [Next]_vars PROVE MonthOK'
  <1>1. ASSUME NEW r \in Requests, Add(r) \/ Query(r) PROVE MonthOK'
    BY <1>1, AddMonth, QueryMonth DEF IInv
  <1>2. CASE UNCHANGED <<pc, day, got, refunds, misled>>
    <2>1. \A d \in Days : /\ Held(d)' = Held(d) /\ Sure(d)' = Sure(d)
                          /\ refunds[d] <= refunds'[d]
      BY <1>2 DEF Held, Sure, Passed, IInv, TypeOK
    <2> QED
      BY <1>2, <2>1, MonthAside DEF IInv
  <1>3. ASSUME NEW r \in Requests, Start(r) PROVE MonthOK'
    <2>1. /\ \A q \in Requests : q # r => pc'[q] = pc[q] /\ day'[q] = day[q]
          /\ pc[r] = "start" /\ pc'[r] = (IF r \in Free THEN "create" ELSE "add")
          /\ UNCHANGED <<got, refunds, misled>>
      BY <1>3 DEF Start, Goto, IInv, TypeOK
    <2>2. \A d \in Days : /\ Held(d)' = Held(d) /\ Sure(d)' = Sure(d)
                          /\ refunds[d] <= refunds'[d]
      BY <2>1 DEF Held, Sure, Passed, IInv, TypeOK
    <2>3. \A q \in Requests : pc'[q] = "query" => q # r
      BY <2>1
    <2> QED
      BY <2>1, <2>2, <2>3, MonthAside DEF IInv
  <1>4. ASSUME NEW r \in Requests, Rollback(r) \/ Create(r) \/ Fail(r) PROVE MonthOK'
    <2>1. /\ \A q \in Requests : q # r => pc'[q] = pc[q]
          /\ pc'[r] \in {"refused", "accepted", "failed"}
          /\ pc'[r] = "accepted" => pc[r] = "create"
          /\ UNCHANGED <<day, got, refunds, misled>>
      BY <1>4 DEF Rollback, Create, Fail, Goto, IInv, TypeOK
    <2>2. \A d \in Days : /\ Held(d)' \subseteq Held(d) /\ Sure(d)' \subseteq Sure(d)
                          /\ refunds[d] <= refunds'[d]
      BY <2>1 DEF Held, Sure, Passed, IInv, TypeOK
    <2>3. \A q \in Requests : pc'[q] = "query" => pc[q] = "query"
      BY <2>1
    <2> QED
      BY <2>1, <2>2, <2>3, MonthAside DEF IInv
  <1>5. ASSUME NEW r \in Requests, Exclude(r) PROVE MonthOK'
    <2>1. /\ \A q \in Requests : q # r => pc'[q] = pc[q]
          /\ pc[r] = "accepted" /\ pc'[r] \in {"excluded", "accepted"}
          /\ UNCHANGED <<day, got, misled>>
      BY <1>5 DEF Exclude, Goto, IInv, TypeOK
    <2>2. \A d \in Days : refunds[d] <= refunds'[d]
      BY <1>5 DEF Exclude, IInv, TypeOK
    <2>3. \A d \in Days : Held(d)' \subseteq Held(d) /\ Sure(d)' \subseteq Sure(d)
      BY <2>1 DEF Held, Sure, Passed
    <2>4. \A q \in Requests : pc'[q] = "query" => pc[q] = "query"
      BY <2>1
    <2> QED
      BY <2>1, <2>2, <2>3, <2>4, MonthAside DEF IInv
  <1> QED
    BY <1>1, <1>2, <1>3, <1>4, <1>5 DEF Next, vars, Midnight, Replicate

\* increment_and_check and _get_monthly_total: the uploads let through in a
\* month exceed the monthly limit by no more than what was refunded and the
\* queries that missed writes, though each adds up the days at a moment of its
\* own, for any number of requests, refunds, midnights and failures.
THEOREM MonthlyLimitKept == Spec => []MonthlyLimit
  <1>1. Init => ThereOK /\ MonthOK
    <2> SUFFICES ASSUME Init PROVE ThereOK /\ MonthOK
      OBVIOUS
    <2>1. ThereOK
      BY DEF Init, ThereOK
    <2> DEFINE age == [r \in Requests |-> 0]
    <2>2. age \in [Requests -> Nat] /\ RankOK(age)
      BY DEF Init, RankOK
    <2> HIDE DEF age
    <2>3. Bounds(age) = refunds /\ refunds \in [Days -> Nat]
      <3>1. \A d \in Days : Bound(age, d) = {}
        BY DEF Init, Bound, Sure, Passed
      <3> QED
        BY <3>1, FS_EmptySet DEF Init, Bounds
    <2>4. Total(refunds) \in Nat /\ MaxPerMonth \in Nat
      BY <2>3, UnitsFinite, ConstantsAssumption
    <2>5. MonthFits(age)
      BY <2>3, <2>4 DEF MonthFits
    <2> QED
      BY <2>1, <2>2, <2>5 DEF MonthOK
  <1>2. IInv /\ IInv' /\ ThereOK /\ MonthOK /\ [Next]_vars => ThereOK' /\ MonthOK'
    BY ThereStep, MonthStep DEF IInv
  <1>3. IInv /\ MonthOK => MonthlyLimit
    <2> SUFFICES ASSUME IInv, MonthOK PROVE MonthlyLimit
      OBVIOUS
    <2>1. PICK age \in [Requests -> Nat] : MonthFits(age)
      BY DEF MonthOK
    <2> DEFINE f == [d \in Days |-> Cardinality(Passed(d))]
               h == [d \in Days |-> Cardinality({r \in misled : day[r] = d})]
    <2>2. ASSUME NEW d \in Days
          PROVE  /\ Cardinality(Passed(d)) \in Nat
                 /\ Cardinality({r \in misled : day[r] = d}) \in Nat
                 /\ Cardinality(Bound(age, d)) \in Nat
                 /\ Cardinality(Passed(d))
                       <= Cardinality(Bound(age, d)) + Cardinality({r \in misled : day[r] = d})
      <3> DEFINE B == Bound(age, d)
                 M == {r \in misled : day[r] = d}
      <3>1. B \in SUBSET Requests /\ M \in SUBSET Requests /\ Passed(d) \in SUBSET Requests
        BY DEF Bound, Sure, Passed, IInv, TypeOK
      <3>2. Passed(d) \subseteq B \cup M
        BY DEF Bound, Sure, Passed
      <3> HIDE DEF B, M
      <3>3. IsFiniteSet(B) /\ IsFiniteSet(M) /\ IsFiniteSet(B \cup M) /\ IsFiniteSet(B \cap M)
        BY <3>1, Finite
      <3>4. Cardinality(B \cup M) = Cardinality(B) + Cardinality(M) - Cardinality(B \cap M)
        BY <3>3, FS_Union
      <3>5. Cardinality(Passed(d)) <= Cardinality(B \cup M)
        BY <3>2, <3>3, FS_Subset
      <3>6. /\ Cardinality(B) \in Nat /\ Cardinality(M) \in Nat
            /\ Cardinality(B \cap M) \in Nat /\ Cardinality(B \cup M) \in Nat
            /\ Cardinality(Passed(d)) \in Nat
        BY <3>1, <3>3, Finite, FS_CardinalityType
      <3>7. Cardinality(Passed(d)) <= Cardinality(B) + Cardinality(M)
        BY <3>4, <3>5, <3>6
      <3> QED
        BY <3>6, <3>7 DEF B, M
    <2>3. f \in [Days -> Nat] /\ h \in [Days -> Nat] /\ Bounds(age) \in [Days -> Nat]
      BY <2>2 DEF Bounds
    <2>4. \A d \in Days : f[d] <= Bounds(age)[d] + h[d]
      BY <2>2 DEF Bounds
    <2>5. Total(h) <= Cardinality(misled) /\ misled \in SUBSET Requests
      BY TotalOfParts DEF IInv, TypeOK
    <2>6. Total(refunds) \in Nat /\ Cardinality(misled) \in Nat /\ MaxPerMonth \in Nat
      BY <2>5, Finite, UnitsFinite, ConstantsAssumption DEF IInv, TypeOK
    <2>7. Total(f) <= MaxPerMonth + Total(refunds) + Cardinality(misled)
      <3> HIDE DEF f, h
      <3>1. Total(f) <= Total(Bounds(age)) + Total(h)
        BY <2>3, <2>4, TotalAdds
      <3>2. Total(f) \in Nat /\ Total(h) \in Nat /\ Total(Bounds(age)) \in Nat
        BY <2>3, UnitsFinite
      <3> QED
        BY <2>1, <2>5, <2>6, <3>1, <3>2 DEF MonthFits
    <2> QED
      BY <2>7 DEF MonthlyLimit
  <1> QED
    BY <1>1, <1>2, <1>3, Invariance, PTL DEF Spec
=============================================================================
