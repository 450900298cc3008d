----------------------------- MODULE WriteQuota -----------------------------
(***************************************************************************)
(* The daily and monthly write limits of one tenant (utils/write_limit.py).*)
(*                                                                         *)
(* An upload adds one to the item of the day and looks at the sum          *)
(* afterwards: what exceeds a limit is taken back and refused.  A document *)
(* that sampling excludes is refunded by the processor, by the date of its *)
(* record.  Demonstrations and test runs (documents.py) are not counted.   *)
(*                                                                         *)
(* The days are those of one month.  A limit that is not set is one that   *)
(* the requests cannot reach; a change of a limit is not modelled.         *)
(***************************************************************************)
EXTENDS Naturals, FiniteSets

CONSTANTS
    Requests,     \* uploads of the tenant
    Free,         \* those that are demonstrations or test runs
    LastDay,      \* bound: the days that pass
    MaxPerDay,    \* maxWritesPerDay
    MaxPerMonth,  \* maxWritesPerMonth
    MaxFaults     \* bound: crashes and failed remote calls, in all

ASSUME ConstantsAssumption ==
    /\ IsFiniteSet(Requests) /\ Free \subseteq Requests
    /\ LastDay \in Nat \ {0}
    /\ MaxPerDay \in Nat /\ MaxPerMonth \in Nat
    /\ MaxFaults \in Nat

Days == 1..LastDay

VARIABLES
    today,    \* the date
    pc,       \* where each request, and then its document, is
    day,      \* the day that each request is counted on
    got,      \* new_count: what its increment returned
    created,  \* the date of its record
    item,     \* the item of each day: is it there, and its count
    replica,  \* the items as the query of a month may see them
    refunds,  \* history: refunds taken off each day
    misled,   \* history: requests whose query missed writes
    faults    \* crashes and failed calls so far

vars == <<today, pc, day, got, created, item, replica, refunds,
          misled, faults>>

Item == [there : BOOLEAN, n : Nat]

TypeOK ==
    /\ today \in Days
    /\ pc \in [Requests -> {"start", "add", "query", "rollback", "create",
                            "accepted", "excluded", "refused", "failed"}]
    /\ day \in [Requests -> Days]
    /\ got \in [Requests -> Nat]
    /\ created \in [Requests -> Days]
    /\ item \in [Days -> Item]
    /\ replica \in [Days -> Item]
    /\ refunds \in [Days -> Nat]
    /\ misled \subseteq Requests
    /\ faults \in 0..MaxFaults

Init ==
    /\ today = 1
    /\ pc = [r \in Requests |-> "start"]
    /\ day = [r \in Requests |-> 1]
    /\ got = [r \in Requests |-> 0]
    /\ created = [r \in Requests |-> 1]
    /\ item = [d \in Days |-> [there |-> FALSE, n |-> 0]]
    /\ replica = item
    /\ refunds = [d \in Days |-> 0]
    /\ misled = {}
    /\ faults = 0

Goto(r, where) == pc' = [pc EXCEPT ![r] = where]

-----------------------------------------------------------------------------
(* increment_and_check *)

\* get_tenant and get_today_iso; a free upload skips the quota.
Start(r) ==
    /\ pc[r] = "start"
    /\ Goto(r, IF r \in Free THEN "create" ELSE "add")
    /\ day' = [day EXCEPT ![r] = today]
    /\ UNCHANGED <<today, got, created, item, replica, refunds, misled, faults>>

ExceedsByTwo(n) == n > MaxPerDay + 1

Exceeds(n) == n > MaxPerDay

\* ADD #count :one, and the daily limit.
Add(r) ==
    /\ pc[r] = "add"
    /\ LET n == item[day[r]].n + 1 IN
       /\ item' = [item EXCEPT ![day[r]] = [there |-> TRUE, n |-> n]]
       /\ got' = [got EXCEPT ![r] = n]
       /\ Goto(r, IF Exceeds(n) THEN "rollback" ELSE "query")
    /\ UNCHANGED <<today, day, created, replica, refunds, misled, faults>>

\* sum(...): the units that the counts of the days consist of.
Total(counts) ==
    Cardinality(UNION {{d} \X (1..counts[d]) : d \in DOMAIN counts})

MonthTotalBeforeToday(items, r) == Total([d \in Days \ {day[r]} |-> items[d].n])

\* _get_monthly_total: the sum of the items found, with today_count for today.
MonthTotal(items, r) ==
    Total([d \in {e \in Days : items[e].there} |->
              IF d = day[r] THEN got[r] ELSE items[d].n])

\* The monthly limit, over what _query_month_items returns.
Query(r) ==
    /\ pc[r] = "query"
    /\ Goto(r, IF MonthTotal(replica, r) > MaxPerMonth THEN "rollback" ELSE "create")
    /\ misled' = IF MonthTotal(replica, r) < MonthTotal(item, r)
                 THEN misled \cup {r} ELSE misled
    /\ UNCHANGED <<today, day, got, created, item, replica, refunds, faults>>

DecrementAnyway(d) ==
    item' = [item EXCEPT ![d] = [there |-> TRUE, n |-> IF @.there THEN @.n - 1 ELSE 0]]

\* _rollback of a day: ADD #count :neg_one if #count > :zero.
Decrement(d) ==
    IF item[d].n > 0 THEN item' = [item EXCEPT ![d].n = @ - 1] ELSE UNCHANGED item

RefuseOnly(r) ==
    /\ pc[r] = "rollback"
    /\ Goto(r, "refused")
    /\ UNCHANGED <<today, day, got, created, item, replica, refunds, misled, faults>>

\* _rollback, and 429.
Rollback(r) ==
    /\ pc[r] = "rollback"
    /\ Decrement(day[r])
    /\ Goto(r, "refused")
    /\ UNCHANGED <<today, day, got, created, replica, refunds, misled, faults>>

-----------------------------------------------------------------------------
(* The document *)

\* insert_minimal_ddb_record
Create(r) ==
    /\ pc[r] = "create"
    /\ created' = [created EXCEPT ![r] = today]
    /\ Goto(r, "accepted")
    /\ UNCHANGED <<today, day, got, item, replica, refunds, misled, faults>>

\* The processor finds the document excluded and refunds it; if the lambda
\* dies before the record says so, it does it again.
Exclude(r) ==
    /\ pc[r] = "accepted"
    /\ Decrement(created[r])
    /\ refunds' = IF item[created[r]].n > 0
                  THEN [refunds EXCEPT ![created[r]] = @ + 1] ELSE refunds
    /\ \/ Goto(r, "excluded") /\ UNCHANGED faults
       \/ faults < MaxFaults /\ faults' = faults + 1 /\ UNCHANGED pc
    /\ UNCHANGED <<today, day, got, created, replica, misled>>

\* The request dies, or a call fails with anything but a refusal.
Fail(r) ==
    /\ pc[r] \in {"add", "query", "rollback", "create"}
    /\ faults < MaxFaults /\ faults' = faults + 1
    /\ Goto(r, "failed")
    /\ UNCHANGED <<today, day, got, created, item, replica, refunds, misled>>

-----------------------------------------------------------------------------
(* The environment *)

Midnight ==
    /\ today < LastDay
    /\ today' = today + 1
    /\ UNCHANGED <<pc, day, got, created, item, replica, refunds, misled, faults>>

Replicate(d) ==
    /\ replica[d] # item[d]
    /\ replica' = [replica EXCEPT ![d] = item[d]]
    /\ UNCHANGED <<today, pc, day, got, created, item, refunds, misled, faults>>

Next ==
    \/ \E r \in Requests :
          \/ Start(r) \/ Add(r) \/ Query(r) \/ Rollback(r)
          \/ Create(r) \/ Exclude(r) \/ Fail(r)
    \/ Midnight
    \/ \E d \in Days : Replicate(d)

Spec == Init /\ [][Next]_vars

-----------------------------------------------------------------------------
(* Properties *)

\* The requests counted on a day that increment_and_check let through.
Passed(d) ==
    {r \in Requests \ Free : day[r] = d /\ pc[r] \in {"create", "accepted", "excluded"}}

\* Those of them that hold a write of the day.
Live(d) == {r \in Passed(d) : pc[r] # "excluded"}

\* However the increments and the checks of increment_and_check interleave
\* with rollbacks, refunds and failures, the uploads let through on a day
\* exceed the limit by no more than what was refunded on that day.
DailyLimit == \A d \in Days : Cardinality(Passed(d)) <= MaxPerDay + refunds[d]

\* _get_monthly_total: likewise for the month, though each request adds up
\* the other days at a moment of its own, around midnight too; but each query
\* that misses writes may let one more through.
MonthlyLimit ==
    Total([d \in Days |-> Cardinality(Passed(d))])
        <= MaxPerMonth + Total(refunds) + Cardinality(misled)

\* _rollback and decrement: when the requests are over, and neither a failure
\* nor the refund of a free upload, or of one that midnight separated from its
\* record, interfered, what they added and took back leaves the writes that
\* still count.
CountSettles ==
    (/\ faults = 0
     /\ \A r \in Requests : pc[r] \in {"start", "accepted", "excluded", "refused"}
     /\ \A r \in Requests : pc[r] = "excluded" => r \notin Free /\ created[r] = day[r])
        => \A d \in Days : item[d].n = Cardinality(Live(d))

-----------------------------------------------------------------------------
(* What the docstrings say, and the runs refute *)

\* "raise 429 if a limit is exceeded": a tenant never has more live writes
\* of a day than its limit.
LimitKept == \A d \in Days : Cardinality(Live(d)) <= MaxPerDay
=============================================================================
