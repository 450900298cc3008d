------------------------------ MODULE Metrics ------------------------------
(***************************************************************************)
(* From the records of classified documents to the figures of a month:     *)
(*                                                                         *)
(*   - a write of a final status sends a copy of the record to a queue     *)
(*     (utils/ddb.py), from which a lambda makes an object of its own in   *)
(*     the partition of the day the document was created                   *)
(*     (jobs/metrics_processor);                                           *)
(*   - the aggregator (jobs/metrics_aggregator) counts the objects of a    *)
(*     day once per document, writes a file per tenant and a global one,   *)
(*     and sums up the month from the files of its days;                   *)
(*   - the usage report (jobs/usage_report) counts the objects of a month  *)
(*     anew, by day and by tenant, and get_usage adds today's figures of   *)
(*     the aggregator to it.                                               *)
(*                                                                         *)
(* Figures are sums over objects, so a file is the set of the objects that *)
(* it counts.  Documents of extraction comparisons send nothing and are    *)
(* left out, and so are the Athena polls.                                  *)
(***************************************************************************)
EXTENDS Naturals, FiniteSets

CONSTANTS
    Docs,
    Tenants,
    Unknown,       \* __unknown__, one of them
    TenantOf,      \* of each document
    CreatedOn,     \* bound: days that a document may be created on
    Global,        \* the file of all tenants
    Days,          \* bound: days, from the first of a month on
    DaysPerMonth,
    MaxVersions,   \* bound: final statuses that each document is given
    MaxCopies,     \* bound: objects made from the same copy, of each document
    MaxFaults,     \* bound: calls that fail and messages that come twice
    MaxReports     \* bound: runs of the usage report

ASSUME ConstantsAssumption ==
    /\ IsFiniteSet(Docs)
    /\ TenantOf \in [Docs -> Tenants] /\ Unknown \in Tenants
    /\ Global \notin Tenants
    /\ CreatedOn \in [Docs -> SUBSET (1..Days)]
    /\ {MaxVersions, MaxCopies} \subseteq [Docs -> Nat \ {0}]
    /\ {Days, DaysPerMonth} \subseteq Nat \ {0}
    /\ {MaxFaults, MaxReports} \subseteq Nat

VARIABLES
    today,
    created,   \* the day a document is created
    version,   \* updatedAt of its record
    queue,     \* copies in the queue
    raw,       \* objects made of each copy
    daily,     \* the aggregator's files of a day
    monthly,   \* ... and of a month
    run,       \* runs of the aggregator
    usage,     \* the usage report's figures of a day
    report,    \* ... and of a month
    reporter,  \* the run of the usage report
    reports,   \* runs of it so far
    faults,
    mixed,     \* history: days that two runs wrote at a time
    blurred    \* history: months that two runs summed up at a time

docVars == <<created, version, queue, raw>>
usageVars == <<usage, report, reporter, reports>>
vars == <<today, docVars, daily, monthly, run, usageVars, faults, mixed, blurred>>

-----------------------------------------------------------------------------
(* State *)

\* Runs of the aggregator: every five minutes for today, at two o'clock for
\* yesterday, or by hand for any day before.
Runs == {"today", "before"}

Calendar == 1..Days
Month(d) == (d - 1) \div DaysPerMonth + 1
FirstOfMonth(d) == (d - 1) % DaysPerMonth = 0
Months == 1..Month(Days)
DaysOf(m) == {d \in Calendar : Month(d) = m}

Copies == UNION {{d} \X (1..MaxVersions[d]) : d \in Docs}
Objects == UNION {{c[1]} \X {c[2]} \X (1..MaxCopies[c[1]]) : c \in Copies}
Files == Tenants \cup {Global}
Empty == [w \in Files |-> {}]

Of(objects, w) == {o \in objects : w \in {Global, TenantOf[o[1]]}}
DocsIn(objects) == {o[1] : o \in objects}

Run == [pc : {"idle", "daily", "read", "monthly"},
        date : Calendar,
        month : Months,
        found : SUBSET Objects,              \* the answer of the query
        files : [Files -> SUBSET Objects],   \* sums over the days of the month
        todo : SUBSET Files]                 \* files yet to be written

NoRun == [pc |-> "idle", date |-> 1, month |-> 1, found |-> {}, files |-> Empty,
          todo |-> {}]

Reporter == [pc : {"idle", "write"},
             month : Months,
             found : SUBSET Objects,
             todo : SUBSET Calendar]

NoReporter == [pc |-> "idle", month |-> 1, found |-> {}, todo |-> {}]

TypeOK ==
    /\ today \in Calendar
    /\ created \in [Docs -> Calendar]
    /\ version \in [Docs -> Nat] /\ \A d \in Docs : version[d] <= MaxVersions[d]
    /\ queue \in [Copies -> 0..1]
    /\ raw \in [Copies -> Nat] /\ \A c \in Copies : raw[c] <= MaxCopies[c[1]]
    /\ daily \in [Calendar -> [Files -> SUBSET Objects]]
    /\ monthly \in [Months -> [Files -> SUBSET Objects]]
    /\ run \in [Runs -> Run]
    /\ usage \in [Calendar -> SUBSET Objects]
    /\ report \in [Months -> SUBSET Objects]
    /\ reporter \in Reporter /\ reports \in 0..MaxReports
    /\ faults \in 0..MaxFaults
    /\ mixed \subseteq Calendar
    /\ blurred \subseteq Months

Init ==
    /\ today = 1
    /\ created \in [Docs -> Calendar] /\ \A d \in Docs : created[d] \in CreatedOn[d]
    /\ version = [d \in Docs |-> 0]
    /\ queue = [c \in Copies |-> 0]
    /\ raw = [c \in Copies |-> 0]
    /\ daily = [d \in Calendar |-> Empty]
    /\ monthly = [m \in Months |-> Empty]
    /\ run = [r \in Runs |-> NoRun]
    /\ usage = [d \in Calendar |-> {}]
    /\ report = [m \in Months |-> {}]
    /\ reporter = NoReporter /\ reports = 0
    /\ faults = 0 /\ mixed = {} /\ blurred = {}

Fault == faults < MaxFaults /\ faults' = faults + 1

-----------------------------------------------------------------------------
(* Documents and their copies *)

NextDay ==
    /\ today < Days
    /\ today' = today + 1
    /\ UNCHANGED <<docVars, daily, monthly, run, usageVars, faults, mixed, blurred>>

\* A write of a final status, and _send_record_to_metrics_queue, which reads
\* the record back and logs a failure: then the copy is never sent.
Finish(d) ==
    /\ created[d] <= today /\ version[d] < MaxVersions[d]
    /\ version' = [version EXCEPT ![d] = @ + 1]
    /\ \/ queue' = [queue EXCEPT ![<<d, version[d] + 1>>] = @ + 1] /\ UNCHANGED faults
       \/ Fault /\ UNCHANGED queue
    /\ UNCHANGED <<today, created, raw, daily, monthly, run, usageVars, mixed, blurred>>

\* write_to_s3, under a new name each time.
Stored(c) == raw[c] < MaxCopies[c[1]] /\ raw' = [raw EXCEPT ![c] = @ + 1]

\* The handler of the metrics processor: an object, or a line in the log; in
\* either case the message is done with.
Process(c) ==
    /\ queue[c] > 0
    /\ queue' = [queue EXCEPT ![c] = @ - 1]
    /\ \/ Stored(c) /\ UNCHANGED faults
       \/ Fault /\ UNCHANGED raw
    /\ UNCHANGED <<today, created, version, daily, monthly, run, usageVars,
                   mixed, blurred>>

\* The object is written and the message comes again.
ProcessTwice(c) ==
    /\ queue[c] > 0
    /\ Stored(c) /\ Fault
    /\ UNCHANGED <<today, created, version, queue, daily, monthly, run,
                   usageVars, mixed, blurred>>

-----------------------------------------------------------------------------
(* The queries: of the objects of some days, one per document, the latest *)

Among(days) ==
    {o \in Objects : o[3] <= raw[o[1], o[2]] /\ created[o[1]] \in days}

\* RANK() for ROW_NUMBER().
LatestWithTies(days) ==
    {o \in Among(days) : \A p \in Among(days) : p[1] = o[1] => p[2] <= o[2]}

Latest(days) == {o \in LatestWithTies(days) : o[3] = 1}

-----------------------------------------------------------------------------
(* The aggregator *)

\* Another run works on the same day, or on the same month.
SameDay(r, date) == \E s \in Runs \ {r} : run[s].pc = "daily" /\ run[s].date = date
SameMonth(r, m) == \E s \in Runs \ {r} : run[s].pc = "monthly" /\ run[s].month = m

\* Documents without a tenant forgotten.
KnownTenantsIn(objects) == {t \in Tenants : t # Unknown /\ Of(objects, t) # {}}

TenantsIn(objects) == {t \in Tenants : Of(objects, t) # {}}

\* main: a day that has its global file is left as it is, unless it is to be
\* overwritten; a day without objects ends the run.
Aggregate(r, date, overwrite) ==
    /\ run[r].pc = "idle"
    /\ IF r = "today" THEN date = today /\ overwrite ELSE date < today
    /\ LET month == Month(date) IN
       IF ~overwrite /\ daily[date][Global] # {}
       THEN /\ run' = [run EXCEPT ![r] = [NoRun EXCEPT !.pc = "read", !.date = date,
                                                       !.month = month]]
            /\ UNCHANGED mixed
       ELSE /\ Latest({date}) # {}
            /\ run' = [run EXCEPT ![r] =
                 [NoRun EXCEPT !.pc = "daily", !.date = date, !.month = month,
                               !.found = Latest({date}),
                               !.todo = TenantsIn(Latest({date})) \cup {Global}]]
            /\ mixed' = IF SameDay(r, date) THEN mixed \cup {date} ELSE mixed
    /\ UNCHANGED <<today, docVars, daily, monthly, usageVars, faults, blurred>>

\* _write_aggregated_stats: the global file is the last.
WriteDay(r, w) ==
    /\ run[r].pc = "daily" /\ w \in run[r].todo
    /\ w = Global => run[r].todo = {Global}
    /\ daily' = [daily EXCEPT ![run[r].date][w] = Of(run[r].found, w)]
    /\ run' = [run EXCEPT ![r].todo = @ \ {w},
                          ![r].found = IF w = Global THEN {} ELSE @,
                          ![r].pc = IF w = Global THEN "read" ELSE @]
    /\ UNCHANGED <<today, docVars, monthly, usageVars, faults, mixed, blurred>>

\* The days up to the one that was just aggregated.
MonthToDate(r) == {d \in DaysOf(run[r].month) : d <= run[r].date}

MonthOf(r) == DaysOf(run[r].month)

\* A run on the first of a month sums up the month before as well.
NextMonth(r) ==
    IF run[r].month = Month(run[r].date) /\ FirstOfMonth(run[r].date) /\ run[r].month > 1
    THEN [NoRun EXCEPT !.pc = "read", !.date = run[r].date, !.month = run[r].month - 1]
    ELSE NoRun

\* build_summary: what the files of some days add up to.
Summary(days) == [w \in Files |-> UNION {daily[d][w] : d \in days}]

\* _get_daily_stats_for_month.
ReadMonth(r) ==
    /\ run[r].pc = "read"
    /\ LET sums == Summary(MonthOf(r))
           todo == {w \in Files : sums[w] # {}}
       IN  run' = [run EXCEPT ![r] =
             IF todo = {} THEN NextMonth(r)
             ELSE [@ EXCEPT !.pc = "monthly", !.files = sums, !.todo = todo]]
    /\ blurred' = IF SameMonth(r, run[r].month)
                  THEN blurred \cup {run[r].month} ELSE blurred
    /\ UNCHANGED <<today, docVars, daily, monthly, usageVars, faults, mixed>>

\* _aggregate_monthly: S3 lists the global files before the tenants'.
WriteMonth(r, w) ==
    /\ run[r].pc = "monthly" /\ w \in run[r].todo
    /\ Global \in run[r].todo => w = Global
    /\ monthly' = [monthly EXCEPT ![run[r].month][w] = run[r].files[w]]
    /\ run' = [run EXCEPT ![r] =
         IF run[r].todo = {w} THEN NextMonth(r) ELSE [run[r] EXCEPT !.todo = @ \ {w}]]
    /\ UNCHANGED <<today, docVars, daily, usageVars, faults, mixed, blurred>>

\* A call fails, or the lambda times out.
Abort(r) ==
    /\ run[r].pc # "idle"
    /\ Fault
    /\ run' = [run EXCEPT ![r] = NoRun]
    /\ UNCHANGED <<today, docVars, daily, monthly, usageVars, mixed, blurred>>

-----------------------------------------------------------------------------
(* The usage report *)

\* The schedule: this month every day, the month before in its first days.
ThisMonth == {Month(today)}
MonthsDue == {m \in Months : m \in {Month(today), Month(today) - 1}}

LastOfMonth(m) == m * DaysPerMonth

\* Today included.
EndsToday(m) == IF m = Month(today) THEN today ELSE LastOfMonth(m)

\* _build_daily_usage_query: yesterday, in the current month; but the last
\* of the month, on its first day.
EndDate(m) ==
    IF m = Month(today) /\ ~FirstOfMonth(today) THEN today - 1 ELSE LastOfMonth(m)

Report(m) ==
    /\ reporter.pc = "idle" /\ m \in MonthsDue
    /\ reports < MaxReports /\ reports' = reports + 1
    /\ LET found == Latest({d \in DaysOf(m) : d <= EndDate(m)}) IN
       reporter' = [pc |-> "write", month |-> m, found |-> found,
                    todo |-> {created[o[1]] : o \in found}]
    /\ UNCHANGED <<today, docVars, daily, monthly, run, usage, report, faults, mixed, blurred>>

\* _write_daily_files, day by day: the tenants' files and the global one.
WriteUsage(d) ==
    /\ d \in reporter.todo /\ \A e \in reporter.todo : d <= e
    /\ usage' = [usage EXCEPT ![d] = {o \in reporter.found : created[o[1]] = d}]
    /\ reporter' = [reporter EXCEPT !.todo = @ \ {d}]
    /\ UNCHANGED <<today, docVars, daily, monthly, run, report, reports, faults, mixed, blurred>>

WriteReport ==
    /\ reporter.pc = "write" /\ reporter.todo = {}
    /\ report' = [report EXCEPT ![reporter.month] = reporter.found]
    /\ reporter' = NoReporter
    /\ UNCHANGED <<today, docVars, daily, monthly, run, usage, reports, faults, mixed, blurred>>

AbortReport ==
    /\ reporter.pc # "idle"
    /\ Fault
    /\ reporter' = NoReporter
    /\ UNCHANGED <<today, docVars, daily, monthly, run, usage, report, reports, mixed, blurred>>

\* get_usage, of the current month: the report and today's figures.
Live(t) == daily[today][t]
Reported(t) == Of(report[Month(today)], t)

-----------------------------------------------------------------------------
(* Specification *)

Aggregator(r) ==
    \/ \E date \in Calendar, overwrite \in BOOLEAN : Aggregate(r, date, overwrite)
    \/ \E w \in Files : WriteDay(r, w) \/ WriteMonth(r, w)
    \/ ReadMonth(r) \/ Abort(r)

Writing == (\E d \in Calendar : WriteUsage(d)) \/ WriteReport

Next ==
    \/ NextDay
    \/ \E d \in Docs : Finish(d)
    \/ \E c \in Copies : Process(c) \/ ProcessTwice(c)
    \/ \E r \in Runs : Aggregator(r)
    \/ \E m \in Months : Report(m)
    \/ Writing \/ AbortReport

Spec == Init /\ [][Next]_vars

-----------------------------------------------------------------------------
(* Properties *)

Once(objects) == Cardinality(objects) = Cardinality(DocsIn(objects))

\* "A safeguard to ensure we don't double count records": however often a
\* document is classified and its messages are delivered, no file, of a day
\* or of a month, counts it twice.
CountedOnce ==
    /\ \A d \in Calendar : Once(usage[d]) /\ \A w \in Files : Once(daily[d][w])
    /\ \A m \in Months : Once(report[m]) /\ \A w \in Files : Once(monthly[m][w])

\* What the tenants see of a day adds up to what the super-admin sees, unless
\* a run is writing, has been cut off, or met another one.
TenantsAddUp ==
    \A d \in Calendar \ mixed :
        faults = 0 /\ (\A r \in Runs : run[r].pc = "daily" => run[r].date # d)
          => daily[d][Global] = UNION {daily[d][t] : t \in Tenants}

\* What a file shows of its documents is never withdrawn, nor replaced by
\* what was known of them before.
Keeps(old, new) == \A o \in old : \E p \in new : p[1] = o[1] /\ p[2] >= o[2]

\* Runs that follow one another, in whatever order of dates, and runs that
\* are cut off, only ever bring the figures forward.
NeverBackwards ==
    [][/\ \A d \in Calendar \ mixed', w \in Files : Keeps(daily[d][w], daily'[d][w])
       /\ \A m \in Months \ blurred' : DaysOf(m) \cap mixed' = {} =>
             \A w \in Files : Keeps(monthly[m][w], monthly'[m][w])]_vars

\* get_usage never adds a document that the report has counted, except on the
\* first of a month.
UsageOnce ==
    FirstOfMonth(today) \/
        \A t \in Tenants : DocsIn(Reported(t)) \cap DocsIn(Live(t)) = {}

-----------------------------------------------------------------------------
(* What the code says, and a run refutes *)

\* _build_daily_usage_query: "For the current month, excludes today (today's
\* data comes from the metrics aggregator at read time to avoid
\* double-counting)."
UsageNeverTwice ==
    \A t \in Tenants : DocsIn(Reported(t)) \cap DocsIn(Live(t)) = {}
=============================================================================
