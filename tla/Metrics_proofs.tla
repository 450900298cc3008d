--------------------------- MODULE Metrics_proofs ---------------------------
(***************************************************************************)
(* Proofs about Metrics, for any documents, tenants and lengths of months, *)
(* and any failures and redeliveries: that no file counts a document       *)
(* twice, that the tenants' figures of a day add up to the global ones,    *)
(* that get_usage adds no document that the report has counted, and that   *)
(* figures only ever go forward.                                           *)
(*                                                                         *)
(* The first invariant (FilesInv) says what is in a file: objects that     *)
(* exist, one per document, of its day and of its tenant.  The second      *)
(* (DaysOK) follows a run through the files of its day: what it has found  *)
(* carries forward what is there, and without failures the files that it   *)
(* need not write any more show what it has found.  The third (MonthsOK)   *)
(* is the same of a month: its file is never ahead of a run that is going  *)
(* to write it, nor that run of the files of the days.                     *)
(***************************************************************************)
EXTENDS Metrics, FiniteSetTheorems, FunctionTheorems, TLAPS

-----------------------------------------------------------------------------
(* The inductive invariants *)

\* One object per document.
Single(objects) == \A o, p \in objects : o[1] = p[1] => o = p

\* The object has been made.
Made(o) == o[3] <= raw[o[1], o[2]]

Daily(r, d) == run[r].pc = "daily" /\ run[r].date = d

Monthly(r, m) == run[r].pc = "monthly" /\ run[r].month = m

\* A copy is sent, and stored, once its version is there.
CopiesOK ==
    \A c \in Copies :
        /\ queue[c] > 0 \/ raw[c] > 0 => created[c[1]] <= today
        /\ queue[c] > 0 => c[2] <= version[c[1]]

\* The objects of a day, each once.
OfDay(objects, d) == Single(objects) /\ \A o \in objects : created[o[1]] = d /\ Made(o)

DailyOK ==
    /\ \A d \in Calendar, w \in Files :
          OfDay(daily[d][w], d) /\ Of(daily[d][w], w) = daily[d][w]
    /\ \A r \in Runs : run[r].pc = "daily" =>
          OfDay(run[r].found, run[r].date) /\ Global \in run[r].todo

MonthlyOK ==
    /\ \A m \in Months, w \in Files : Single(monthly[m][w])
    /\ \A r \in Runs, w \in Files : Single(run[r].files[w])

\* Created before today, or on this first of a month.
Reportable(objects) ==
    \A o \in objects : created[o[1]] <= today /\ (created[o[1]] = today => FirstOfMonth(today))

ReportOK ==
    /\ \A d \in Calendar : Single(usage[d])
    /\ \A m \in Months : Single(report[m]) /\ Reportable(report[m])
    /\ Single(reporter.found) /\ Reportable(reporter.found)

FilesInv == TypeOK /\ CopiesOK /\ DailyOK /\ MonthlyOK /\ ReportOK

\* The files of a day that one run writes at a time.
DaysOK ==
    \A d \in Calendar \ mixed :
        /\ \A r, s \in Runs : Daily(r, d) /\ Daily(s, d) => r = s
        /\ \A r \in Runs, w \in Files : Daily(r, d) =>
              Keeps(daily[d][w], Of(run[r].found, w))
        /\ faults = 0 => \A r \in Runs, w \in Files : Daily(r, d) /\ w \notin run[r].todo =>
              daily[d][w] = Of(run[r].found, w)
        /\ faults = 0 /\ (\A r \in Runs : ~Daily(r, d)) =>
              \A w \in Files : daily[d][w] = Of(daily[d][Global], w)

\* The file of a month that one run sums up at a time.
Clear(m) == m \notin blurred /\ DaysOf(m) \cap mixed = {}

MonthsOK ==
    \A m \in Months : Clear(m) =>
        /\ \A r, s \in Runs : Monthly(r, m) /\ Monthly(s, m) => r = s
        /\ \A w \in Files : Keeps(monthly[m][w], Summary(DaysOf(m))[w])
        /\ \A r \in Runs, w \in Files : Monthly(r, m) =>
              /\ Keeps(monthly[m][w], run[r].files[w])
              /\ Keeps(run[r].files[w], Summary(DaysOf(m))[w])

IInv == FilesInv /\ DaysOK /\ MonthsOK
-----------------------------------------------------------------------------
(* Numbers and months *)

\* A set of numbers with a bound has a greatest one.
LEMMA Greatest ==
    ASSUME NEW T \in SUBSET Nat, NEW n \in Nat, T # {}, \A t \in T : t <= n
    PROVE  \E t \in T : \A u \in T : u <= t
  <1> SUFFICES ASSUME \A t \in T : \E u \in T : t < u
               PROVE  FALSE
    OBVIOUS
  <1> DEFINE D == {k \in 0..n : \E t \in T : k <= t}
             Up == {k + 1 : k \in D}
             f == [k \in D |-> k + 1]
  <1>1. IsFiniteSet(D)
    <2>1. IsFiniteSet(0..n)
      BY FS_Interval
    <2>2. D \in SUBSET (0..n)
      OBVIOUS
    <2> HIDE DEF D
    <2> QED BY <2>1, <2>2, FS_Subset
  <1>2. Up \subseteq D
    OBVIOUS
  <1>3. f \in Bijection(D, Up)
    <2>1. f \in [D -> Up]
      OBVIOUS
    <2>2. \A k \in D : f[k] = k + 1
      OBVIOUS
    <2>3. D \subseteq Nat /\ Up = {k + 1 : k \in D}
      OBVIOUS
    <2> HIDE DEF D, f, Up
    <2> QED
      BY <2>1, <2>2, <2>3 DEF Surjection, Injection, Bijection, IsInjective
  <1>4. Cardinality(Up) = Cardinality(D)
    <2>1. ExistsBijection(D, Up)
      BY <1>3 DEF ExistsBijection
    <2> HIDE DEF D, Up
    <2> QED BY <1>1, <2>1, FS_Bijection
  <1>5. Up = D
    <2> HIDE DEF D, Up
    <2> QED BY <1>1, <1>2, <1>4, FS_Subset, SMTT(20)
  <1>6. 0 \in D /\ 0 \notin Up
    <2>1. PICK t \in T : TRUE
      OBVIOUS
    <2>2. t \in Nat /\ 0 <= t /\ 0 \in 0..n
      BY <2>1
    <2> QED
      BY <2>2
  <1> QED
    BY <1>5, <1>6

\* The month of a day is one of the months.
LEMMA MonthOfDay ==
    ASSUME NEW d \in Calendar
    PROVE  Month(d) \in Months
  <1>1. d - 1 \in Nat /\ Days - 1 \in Nat /\ d - 1 <= Days - 1 /\ DaysPerMonth \in Nat \ {0}
    BY ConstantsAssumption DEF Calendar
  <1> DEFINE a == (d - 1) \div DaysPerMonth
             b == (Days - 1) \div DaysPerMonth
  <1>2. a \in Nat /\ b \in Nat /\ DaysPerMonth * a <= d - 1 /\ Days - 1 < DaysPerMonth * (b + 1)
    BY <1>1
  <1>3. a <= b
    BY <1>1, <1>2
  <1> QED
    BY <1>2, <1>3 DEF Month, Months

\* The first day and the first month.
LEMMA FirstDay == 1 \in Calendar /\ 1 \in Months
  <1>1. 1 \in Calendar
    BY ConstantsAssumption DEF Calendar
  <1>2. Month(1) = 1
    BY ConstantsAssumption DEF Month
  <1> QED
    BY <1>1, <1>2, MonthOfDay

-----------------------------------------------------------------------------
(* Copies, objects and queries *)

\* What a copy is.
LEMMA CopyShape ==
    ASSUME NEW c \in Copies
    PROVE  /\ c[1] \in Docs /\ c[2] \in 1..MaxVersions[c[1]] /\ c = <<c[1], c[2]>>
           /\ MaxVersions[c[1]] \in Nat /\ MaxCopies[c[1]] \in Nat \ {0}
  <1>1. PICK d \in Docs : c \in {d} \X (1..MaxVersions[d])
    BY DEF Copies
  <1> QED
    BY <1>1, ConstantsAssumption

\* Every version of a document has a copy.
LEMMA CopyMade ==
    ASSUME NEW d \in Docs, NEW v \in 1..MaxVersions[d]
    PROVE  <<d, v>> \in Copies
  BY DEF Copies

\* What an object is.
LEMMA ObjectShape ==
    ASSUME NEW o \in Objects
    PROVE  /\ o = <<o[1], o[2], o[3]>> /\ <<o[1], o[2]>> \in Copies
           /\ o[1] \in Docs /\ o[2] \in 1..MaxVersions[o[1]] /\ o[3] \in 1..MaxCopies[o[1]]
           /\ o[2] \in Nat /\ o[3] \in Nat \ {0}
  <1>1. PICK c \in Copies : o \in {c[1]} \X {c[2]} \X (1..MaxCopies[c[1]])
    BY DEF Objects
  <1>2. o = <<o[1], o[2], o[3]>> /\ o[1] = c[1] /\ o[2] = c[2] /\ o[3] \in 1..MaxCopies[c[1]]
    BY <1>1
  <1>3. c[1] \in Docs /\ c[2] \in 1..MaxVersions[c[1]] /\ c = <<c[1], c[2]>>
    BY CopyShape
  <1>4. MaxVersions[c[1]] \in Nat /\ MaxCopies[c[1]] \in Nat
    BY CopyShape
  <1>5. o[2] \in Nat /\ o[3] \in Nat \ {0}
    BY <1>2, <1>3, <1>4
  <1> QED
    BY <1>2, <1>3, <1>5

\* The first object of every copy.
LEMMA FirstObject ==
    ASSUME NEW c \in Copies
    PROVE  <<c[1], c[2], 1>> \in Objects
  <1>1. 1 \in 1..MaxCopies[c[1]]
    BY CopyShape
  <1>2. <<c[1], c[2], 1>> \in {c[1]} \X {c[2]} \X (1..MaxCopies[c[1]])
    BY <1>1
  <1> QED
    BY <1>2 DEF Objects

\* A query finds one object per document, of the days it asks for.
LEMMA LatestFound ==
    ASSUME NEW days
    PROVE  /\ Latest(days) \subseteq Objects /\ Single(Latest(days))
           /\ \A o \in Latest(days) : created[o[1]] \in days /\ Made(o)
  <1>1. \A o \in Latest(days) : /\ o \in Objects /\ o[3] = 1 /\ o \in Among(days)
                                /\ \A p \in Among(days) : p[1] = o[1] => p[2] <= o[2]
    BY DEF Latest, LatestWithTies, Among
  <1>2. \A o \in Among(days) : o \in Objects /\ created[o[1]] \in days /\ Made(o)
    BY DEF Among, Made
  <1>3. ASSUME NEW o \in Latest(days), NEW p \in Latest(days), o[1] = p[1]
        PROVE  o = p
    <2>1. o[2] <= p[2] /\ p[2] <= o[2] /\ o[3] = p[3]
      BY <1>1, <1>3
    <2>2. o \in Objects /\ p \in Objects
      BY <1>1
    <2>3. o[2] \in Nat /\ p[2] \in Nat
      BY <2>2, ObjectShape
    <2>4. o[2] = p[2]
      BY <2>1, <2>3
    <2> QED
      BY <1>3, <2>1, <2>2, <2>4, ObjectShape
  <1> QED
    BY <1>1, <1>2, <1>3 DEF Single

\* Whatever there is of a document, a query finds that or a later version.
LEMMA LatestForward ==
    ASSUME NEW days, NEW o \in Among(days), raw \in [Copies -> Nat]
    PROVE  \E p \in Latest(days) : p[1] = o[1] /\ p[2] >= o[2]
  <1> DEFINE mine == {p \in Among(days) : p[1] = o[1]}
             versions == {p[2] : p \in mine}
  <1>1. \A p \in Among(days) : /\ p \in Objects /\ created[p[1]] \in days
                               /\ p[3] <= raw[<<p[1], p[2]>>]
    BY DEF Among
  <1>2. MaxVersions[o[1]] \in Nat /\ versions \in SUBSET Nat /\ versions # {}
        /\ \A v \in versions : v <= MaxVersions[o[1]]
    <2>1. o[1] \in Docs
      BY <1>1, ObjectShape
    <2>2. MaxVersions[o[1]] \in Nat
      BY <2>1, ConstantsAssumption
    <2>3. ASSUME NEW p \in mine
          PROVE  p[2] \in Nat /\ p[2] <= MaxVersions[o[1]]
      <3>1. p \in Objects /\ p[1] = o[1]
        BY <1>1
      <3>2. p[2] \in 1..MaxVersions[p[1]] /\ p[2] \in Nat
        BY <3>1, ObjectShape
      <3> QED
        BY <2>2, <3>1, <3>2
    <2> QED
      BY <2>2, <2>3
  <1>3. PICK v \in versions : \A u \in versions : u <= v
    <2> HIDE DEF versions
    <2> QED
      BY <1>2, Greatest
  <1>4. PICK q \in mine : v = q[2]
    OBVIOUS
  <1> DEFINE first == <<q[1], q[2], 1>>
  <1>5. q \in Objects /\ <<q[1], q[2]>> \in Copies /\ q[3] \in Nat \ {0}
    BY <1>1, ObjectShape
  <1>6. first \in Objects
    BY <1>5, FirstObject
  <1>7. raw[<<q[1], q[2]>>] \in Nat /\ q[3] <= raw[<<q[1], q[2]>>]
    BY <1>1, <1>5
  <1>8. first[1] = q[1] /\ first[2] = q[2] /\ first[3] = 1 /\ q[1] = o[1]
    OBVIOUS
  <1>9. 1 <= raw[<<q[1], q[2]>>]
    BY <1>5, <1>7
  <1>10. first \in Among(days)
    BY <1>1, <1>6, <1>8, <1>9 DEF Among
  <1>11. \A p \in Among(days) : p[1] = first[1] => p[2] <= first[2]
    BY <1>3, <1>4, <1>8
  <1>12. first \in Latest(days)
    BY <1>8, <1>10, <1>11 DEF Latest, LatestWithTies
  <1>13. o[2] <= v /\ o[2] \in Nat /\ v \in Nat
    BY <1>1, <1>2, <1>3
  <1> QED
    BY <1>4, <1>8, <1>12, <1>13

\* A file with one object per document counts each once.
LEMMA SingleIsOnce ==
    ASSUME NEW S, S \subseteq Objects, Single(S)
    PROVE  Once(S)
  <1> DEFINE f == [o \in S |-> o[1]]
  <1>1. DocsIn(S) \in SUBSET Docs
    BY ObjectShape DEF DocsIn
  <1>2. IsFiniteSet(DocsIn(S))
    BY <1>1, FS_Subset, ConstantsAssumption
  <1>3. f \in [S -> DocsIn(S)] /\ (\A o \in S : f[o] = o[1])
    BY DEF DocsIn
  <1>4. f \in Bijection(S, DocsIn(S))
    <2> HIDE DEF f
    <2>1. IsInjective(f)
      BY <1>3 DEF Single, IsInjective
    <2>2. \A d \in DocsIn(S) : \E o \in S : f[o] = d
      BY <1>3 DEF DocsIn
    <2> QED
      BY <1>3, <2>1, <2>2 DEF Surjection, Injection, Bijection
  <1>5. ExistsBijection(DocsIn(S), S)
    BY <1>4, Fun_ExistsBijSymmetric DEF ExistsBijection
  <1>6. Cardinality(S) = Cardinality(DocsIn(S))
    BY <1>2, <1>5, FS_Bijection
  <1> QED
    BY <1>6 DEF Once

-----------------------------------------------------------------------------
(* Type correctness *)

\* A run that has not started, of the aggregator and of the report.
LEMMA NoRunType == NoRun \in Run /\ NoReporter \in Reporter
  <1>1. Empty \in [Files -> SUBSET Objects]
    BY DEF Empty
  <1> QED
    BY <1>1, FirstDay DEF NoRun, Run, NoReporter, Reporter

\* The run that follows a month is a run.
LEMMA NextMonthType ==
    ASSUME TypeOK, NEW r \in Runs
    PROVE  NextMonth(r) \in Run
  <1>1. run[r].month \in Months /\ run[r].date \in Calendar
    BY DEF TypeOK, Run
  <1>2. CASE run[r].month > 1
    <2>1. run[r].month - 1 \in Months
      <3>1. Month(Days) \in Nat
        BY ConstantsAssumption, MonthOfDay DEF Calendar, Months
      <3> QED
        BY <1>1, <1>2, <3>1 DEF Months
    <2> QED
      BY <1>1, <2>1, NoRunType DEF NextMonth, NoRun, Run
  <1>3. CASE ~(run[r].month > 1)
    BY <1>3, NoRunType DEF NextMonth
  <1> QED
    BY <1>2, <1>3

\* The initial state has the type.
LEMMA InitType == Init => TypeOK
  <1> SUFFICES ASSUME Init
               PROVE  TypeOK
    OBVIOUS
  <1>1. today \in Calendar /\ created \in [Docs -> Calendar]
    BY FirstDay DEF Init
  <1>2. version \in [Docs -> Nat] /\ (\A d \in Docs : version[d] <= MaxVersions[d])
    BY ConstantsAssumption DEF Init
  <1>3. queue \in [Copies -> 0..1] /\ raw \in [Copies -> Nat]
        /\ (\A c \in Copies : raw[c] <= MaxCopies[c[1]])
    BY CopyShape DEF Init
  <1>4. daily \in [Calendar -> [Files -> SUBSET Objects]]
        /\ monthly \in [Months -> [Files -> SUBSET Objects]]
    BY DEF Init, Empty
  <1>5. run \in [Runs -> Run] /\ reporter \in Reporter
    BY NoRunType DEF Init
  <1>6. usage \in [Calendar -> SUBSET Objects] /\ report \in [Months -> SUBSET Objects]
    BY DEF Init
  <1>7. reports \in 0..MaxReports /\ faults \in 0..MaxFaults
        /\ mixed \subseteq Calendar /\ blurred \subseteq Months
    BY ConstantsAssumption DEF Init
  <1> QED
    BY <1>1, <1>2, <1>3, <1>4, <1>5, <1>6, <1>7 DEF TypeOK

\* The variables of documents keep their types.
DocsType ==
    /\ today \in Calendar /\ created \in [Docs -> Calendar]
    /\ version \in [Docs -> Nat] /\ \A d \in Docs : version[d] <= MaxVersions[d]
    /\ queue \in [Copies -> 0..1]
    /\ raw \in [Copies -> Nat] /\ \A c \in Copies : raw[c] <= MaxCopies[c[1]]

\* ... those of the aggregator ...
FilesType ==
    /\ daily \in [Calendar -> [Files -> SUBSET Objects]]
    /\ monthly \in [Months -> [Files -> SUBSET Objects]]
    /\ run \in [Runs -> Run]
    /\ mixed \subseteq Calendar /\ blurred \subseteq Months

\* ... and those of the report.
UsageType ==
    /\ usage \in [Calendar -> SUBSET Objects]
    /\ report \in [Months -> SUBSET Objects]
    /\ reporter \in Reporter /\ reports \in 0..MaxReports

\* The three parts, and the failures.
LEMMA TypeParts ==
    TypeOK <=> DocsType /\ FilesType /\ UsageType /\ faults \in 0..MaxFaults
  BY DEF TypeOK, DocsType, FilesType, UsageType

\* A failure stays within their bound.
LEMMA FaultType ==
    ASSUME faults \in 0..MaxFaults, Fault
    PROVE  faults' \in 0..MaxFaults /\ faults' # 0
  BY ConstantsAssumption DEF Fault

-----------------------------------------------------------------------------
(* Documents and their copies *)

DocStep ==
    \/ NextDay
    \/ \E d \in Docs : Finish(d)
    \/ \E c \in Copies : Process(c) \/ ProcessTwice(c)

\* Objects are only ever added, and days pass.
Grows ==
    /\ created' = created
    /\ today' \in {today, today + 1}
    /\ \A c \in Copies : raw[c] <= raw'[c]

\* What follows a step of a document's.
DocStepEffect ==
    /\ DocsType' /\ CopiesOK' /\ Grows
    /\ UNCHANGED <<daily, monthly, run, usageVars, mixed, blurred>>
    /\ faults' \in 0..MaxFaults /\ (faults' = 0 => faults = 0)

\* The next day.
LEMMA NextDayEffect ==
    ASSUME TypeOK, CopiesOK, NextDay
    PROVE  DocStepEffect
  <1>1. today \in Calendar /\ today' \in Calendar /\ today' = today + 1
    BY ConstantsAssumption DEF NextDay, TypeOK, Calendar
  <1>2. UNCHANGED <<created, version, queue, raw, faults>>
        /\ UNCHANGED <<daily, monthly, run, usageVars, mixed, blurred>>
    BY DEF NextDay, docVars
  <1>3. DocsType'
    BY <1>1, <1>2 DEF DocsType, TypeOK
  <1>4. Grows
    BY <1>1, <1>2 DEF Grows, TypeOK
  <1>5. ASSUME NEW c \in Copies
        PROVE  /\ queue'[c] > 0 \/ raw'[c] > 0 => created'[c[1]] <= today'
               /\ queue'[c] > 0 => c[2] <= version'[c[1]]
    <2>1. created[c[1]] \in Calendar
      BY CopyShape DEF TypeOK
    <2>2. created[c[1]] <= today => created[c[1]] <= today'
      BY <1>1, <2>1 DEF Calendar
    <2> QED
      BY <1>2, <2>2 DEF CopiesOK
  <1>6. CopiesOK'
    BY <1>2, <1>5 DEF CopiesOK
  <1> QED
    BY <1>2, <1>3, <1>4, <1>6 DEF DocStepEffect, TypeOK

\* A final status, and the copy that is sent or lost.
LEMMA FinishEffect ==
    ASSUME TypeOK, CopiesOK, NEW d \in Docs, Finish(d)
    PROVE  DocStepEffect
  <1> DEFINE c == <<d, version[d] + 1>>
  <1>1. UNCHANGED <<today, created, raw>>
        /\ UNCHANGED <<daily, monthly, run, usageVars, mixed, blurred>>
    BY DEF Finish
  <1>2. /\ created[d] <= today /\ version[d] < MaxVersions[d]
        /\ version' = [version EXCEPT ![d] = @ + 1]
        /\ \/ queue' = [queue EXCEPT ![c] = @ + 1] /\ UNCHANGED faults
           \/ Fault /\ UNCHANGED queue
    BY DEF Finish
  <1>3. version[d] \in Nat /\ MaxVersions[d] \in Nat
    BY ConstantsAssumption DEF TypeOK
  <1>4. c \in Copies /\ c[1] = d /\ c[2] = version[d] + 1
    BY <1>2, <1>3, CopyMade
  <1>5. queue[c] = 0
    <2>1. queue[c] \in 0..1 /\ ~(queue[c] > 0)
      BY <1>3, <1>4 DEF CopiesOK, TypeOK
    <2> QED
      BY <2>1
  <1>6. version' \in [Docs -> Nat] /\ (\A e \in Docs : version'[e] <= MaxVersions[e])
        /\ \A e \in Docs : version[e] <= version'[e]
    BY <1>2, <1>3 DEF TypeOK
  <1>7. queue' \in [Copies -> 0..1] /\ \A b \in Copies : b # c => queue'[b] = queue[b]
    <2>1. queue \in [Copies -> 0..1]
      BY DEF TypeOK
    <2>2. queue' = queue \/ queue' = [queue EXCEPT ![c] = 1]
      BY <1>2, <1>4, <1>5, <2>1
    <2> HIDE DEF c
    <2> QED
      BY <1>4, <2>1, <2>2
  <1>8. faults' \in 0..MaxFaults /\ (faults' = 0 => faults = 0)
    BY <1>2, FaultType DEF TypeOK
  <1>9. ASSUME NEW b \in Copies
        PROVE  /\ queue'[b] > 0 \/ raw'[b] > 0 => created'[b[1]] <= today'
               /\ queue'[b] > 0 => b[2] <= version'[b[1]]
    <2>1. CASE b = c
      <3>1. version'[d] = version[d] + 1
        BY <1>2 DEF TypeOK
      <3> QED
        BY <1>1, <1>2, <1>3, <1>4, <2>1, <3>1
    <2>2. CASE b # c
      <3>1. version[b[1]] <= version'[b[1]] /\ version[b[1]] \in Nat /\ version'[b[1]] \in Nat
            /\ b[2] \in Nat
        BY <1>6, CopyShape DEF TypeOK
      <3>2. queue'[b] = queue[b]
        BY <1>7, <2>2
      <3> QED
        BY <1>1, <3>1, <3>2 DEF CopiesOK
    <2> QED
      BY <2>1, <2>2
  <1>10. CopiesOK'
    BY <1>9 DEF CopiesOK
  <1>11. DocsType'
    BY <1>1, <1>6, <1>7 DEF DocsType, TypeOK
  <1>12. Grows
    BY <1>1 DEF Grows, TypeOK
  <1> QED
    BY <1>1, <1>8, <1>10, <1>11, <1>12 DEF DocStepEffect

\* A message, however often it comes.
LEMMA ProcessEffect ==
    ASSUME TypeOK, CopiesOK, NEW c \in Copies, Process(c) \/ ProcessTwice(c)
    PROVE  DocStepEffect
  <1>1. UNCHANGED <<today, created, version>>
        /\ UNCHANGED <<daily, monthly, run, usageVars, mixed, blurred>>
    BY DEF Process, ProcessTwice
  <1>2. queue[c] > 0 /\ queue' \in {queue, [queue EXCEPT ![c] = @ - 1]}
    BY DEF Process, ProcessTwice
  <1>3. Stored(c) \/ UNCHANGED raw
    BY DEF Process, ProcessTwice
  <1>4. Fault \/ UNCHANGED faults
    BY DEF Process, ProcessTwice
  <1>5. queue' \in [Copies -> 0..1] /\ \A b \in Copies : queue'[b] <= queue[b]
    <2>1. queue \in [Copies -> 0..1]
      BY DEF TypeOK
    <2>2. queue[c] \in 0..1
      BY <2>1
    <2>3. queue[c] = 1
      BY <1>2, <2>2
    <2>4. queue' = queue \/ queue' = [queue EXCEPT ![c] = 0]
      BY <1>2, <2>1, <2>3
    <2>5. queue' \in [Copies -> 0..1]
      BY <2>1, <2>4
    <2>6. ASSUME NEW b \in Copies
          PROVE  queue'[b] <= queue[b]
      <3>1. queue[b] \in 0..1 /\ queue'[b] \in {queue[b], 0}
        BY <2>1, <2>4
      <3> QED
        BY <3>1
    <2> QED
      BY <2>5, <2>6
  <1>6. raw[c] \in Nat /\ MaxCopies[c[1]] \in Nat
    BY CopyShape DEF TypeOK
  <1>7. /\ raw' \in [Copies -> Nat] /\ \A b \in Copies : raw'[b] <= MaxCopies[b[1]]
        /\ \A b \in Copies : raw[b] <= raw'[b] /\ (b # c => raw'[b] = raw[b])
    <2>1. raw \in [Copies -> Nat] /\ \A b \in Copies : raw[b] <= MaxCopies[b[1]]
      BY DEF TypeOK
    <2>2. \/ raw' = raw
          \/ raw[c] < MaxCopies[c[1]] /\ raw' = [raw EXCEPT ![c] = raw[c] + 1]
      BY <1>3 DEF Stored
    <2>3. raw' \in [Copies -> Nat]
      BY <1>6, <2>1, <2>2
    <2>4. ASSUME NEW b \in Copies
          PROVE  /\ raw'[b] <= MaxCopies[b[1]]
                 /\ raw[b] <= raw'[b] /\ (b # c => raw'[b] = raw[b])
      BY <1>6, <2>1, <2>2
    <2> QED
      BY <2>3, <2>4
  <1>8. faults' \in 0..MaxFaults /\ (faults' = 0 => faults = 0)
    BY <1>4, FaultType DEF TypeOK
  <1>9. ASSUME NEW b \in Copies
        PROVE  /\ queue'[b] > 0 \/ raw'[b] > 0 => created'[b[1]] <= today'
               /\ queue'[b] > 0 => b[2] <= version'[b[1]]
    <2>1. queue[b] \in 0..1 /\ queue'[b] \in 0..1 /\ queue'[b] <= queue[b]
      BY <1>5 DEF TypeOK
    <2>2. CASE b = c
      BY <1>1, <1>2, <2>1, <2>2 DEF CopiesOK
    <2>3. CASE b # c
      BY <1>1, <1>7, <2>1, <2>3 DEF CopiesOK
    <2> QED
      BY <2>2, <2>3
  <1>10. CopiesOK'
    BY <1>9 DEF CopiesOK
  <1>11. DocsType'
    BY <1>1, <1>5, <1>7 DEF DocsType, TypeOK
  <1>12. Grows
    BY <1>1, <1>7 DEF Grows, TypeOK
  <1> QED
    BY <1>1, <1>8, <1>10, <1>11, <1>12 DEF DocStepEffect

\* Any of them.
LEMMA DocsMove ==
    ASSUME TypeOK, CopiesOK, DocStep
    PROVE  DocStepEffect
  BY NextDayEffect, FinishEffect, ProcessEffect DEF DocStep

-----------------------------------------------------------------------------
(* Runs of the aggregator *)

\* One run moves, and nothing of the documents nor of the report does.
RunMoves(r) ==
    /\ run' = [run EXCEPT ![r] = run'[r]]
    /\ UNCHANGED <<today, docVars, usageVars>>

\* What the files of a run show of its objects is among them.
LEMMA OfSubset ==
    ASSUME NEW S, NEW w
    PROVE  /\ Of(S, w) \subseteq S
           /\ \A o \in S : o \in Of(S, w) <=> w \in {Global, TenantOf[o[1]]}
  BY DEF Of

\* Main starts a run, or goes on to the month at once.
LEMMA AggregateEffect ==
    ASSUME TypeOK, NEW r \in Runs, NEW date \in Calendar,
           \E overwrite \in BOOLEAN : Aggregate(r, date, overwrite)
    PROVE  /\ RunMoves(r) /\ UNCHANGED <<daily, monthly, faults, blurred>>
           /\ run[r].pc = "idle" /\ run'[r] \in Run /\ run'[r].files = Empty
           /\ \/ run'[r].pc = "read" /\ UNCHANGED mixed
              \/ /\ run'[r].pc = "daily" /\ run'[r].date = date
                 /\ run'[r].found = Latest({date})
                 /\ run'[r].todo = TenantsIn(Latest({date})) \cup {Global}
                 /\ mixed' = IF SameDay(r, date) THEN mixed \cup {date} ELSE mixed
  <1> DEFINE month == Month(date)
             Skips == [NoRun EXCEPT !.pc = "read", !.date = date, !.month = month]
             Starts == [NoRun EXCEPT !.pc = "daily", !.date = date, !.month = month,
                                     !.found = Latest({date}),
                                     !.todo = TenantsIn(Latest({date})) \cup {Global}]
  <1>1. run \in [Runs -> Run]
    BY DEF TypeOK
  <1>2. month \in Months
    BY MonthOfDay
  <1>3. /\ Skips \in Run /\ Skips.pc = "read" /\ Skips.files = Empty
    BY <1>2, NoRunType DEF NoRun, Run
  <1>4. Latest({date}) \subseteq Objects
    BY LatestFound
  <1>5. TenantsIn(Latest({date})) \cup {Global} \subseteq Files
    BY DEF TenantsIn, Files
  <1>6. /\ Starts \in Run /\ Starts.pc = "daily" /\ Starts.date = date /\ Starts.files = Empty
        /\ Starts.found = Latest({date})
        /\ Starts.todo = TenantsIn(Latest({date})) \cup {Global}
    BY <1>2, <1>4, <1>5, NoRunType DEF NoRun, Run
  <1>7. \/ run' = [run EXCEPT ![r] = Skips] /\ UNCHANGED mixed
        \/ /\ run' = [run EXCEPT ![r] = Starts]
           /\ mixed' = IF SameDay(r, date) THEN mixed \cup {date} ELSE mixed
    BY DEF Aggregate
  <1>8. /\ run[r].pc = "idle"
        /\ UNCHANGED <<today, docVars, daily, monthly, usageVars, faults, blurred>>
    BY DEF Aggregate
  <1> HIDE DEF Skips, Starts, month
  <1>9. run'[r] \in {Skips, Starts} /\ run' = [run EXCEPT ![r] = run'[r]]
    BY <1>1, <1>7
  <1>10. CASE run' = [run EXCEPT ![r] = Skips] /\ UNCHANGED mixed
    <2>1. run'[r] = Skips
      BY <1>1, <1>10
    <2> QED
      BY <1>3, <1>8, <1>9, <1>10, <2>1 DEF RunMoves
  <1>11. CASE /\ run' = [run EXCEPT ![r] = Starts]
              /\ mixed' = IF SameDay(r, date) THEN mixed \cup {date} ELSE mixed
    <2>1. run'[r] = Starts
      BY <1>1, <1>11
    <2> QED
      BY <1>6, <1>8, <1>9, <1>11, <2>1 DEF RunMoves
  <1> QED
    BY <1>7, <1>10, <1>11

\* A file of the day is written.
LEMMA WriteDayEffect ==
    ASSUME TypeOK, NEW r \in Runs, NEW w \in Files, WriteDay(r, w)
    PROVE  /\ RunMoves(r) /\ UNCHANGED <<monthly, faults, mixed, blurred>>
           /\ run[r].pc = "daily" /\ w \in run[r].todo
           /\ daily' = [daily EXCEPT ![run[r].date][w] = Of(run[r].found, w)]
           /\ run'[r] \in Run /\ run'[r].date = run[r].date /\ run'[r].files = run[r].files
           /\ \/ /\ w = Global /\ run[r].todo = {Global} /\ run'[r].pc = "read"
              \/ /\ w # Global /\ run'[r].pc = "daily"
                 /\ run'[r].found = run[r].found /\ run'[r].todo = run[r].todo \ {w}
  <1> DEFINE Next1 == [run[r] EXCEPT !.todo = @ \ {w},
                                     !.found = IF w = Global THEN {} ELSE @,
                                     !.pc = IF w = Global THEN "read" ELSE @]
  <1>1. run \in [Runs -> Run] /\ run[r] \in Run
    BY DEF TypeOK
  <1>2. run' = [run EXCEPT ![r] = Next1]
    BY <1>1 DEF WriteDay
  <1>3. run'[r] = Next1
    BY <1>1, <1>2
  <1>4. Next1 \in Run
    BY <1>1 DEF Run
  <1>5. /\ run[r].pc = "daily" /\ w \in run[r].todo
        /\ w = Global => run[r].todo = {Global}
        /\ daily' = [daily EXCEPT ![run[r].date][w] = Of(run[r].found, w)]
        /\ UNCHANGED <<today, docVars, monthly, usageVars, faults, mixed, blurred>>
    BY DEF WriteDay
  <1>6. /\ Next1.date = run[r].date /\ Next1.files = run[r].files
        /\ Next1.todo = run[r].todo \ {w}
        /\ w = Global => Next1.pc = "read"
        /\ w # Global => Next1.pc = run[r].pc /\ Next1.found = run[r].found
    BY <1>1 DEF Run
  <1> HIDE DEF Next1
  <1>7. RunMoves(r)
    BY <1>2, <1>3, <1>5 DEF RunMoves
  <1> QED
    BY <1>3, <1>4, <1>5, <1>6, <1>7

\* The run that follows a month has no file to write.
LEMMA NextMonthEmpty ==
    ASSUME NEW r
    PROVE  NextMonth(r).pc \in {"idle", "read"} /\ NextMonth(r).files = Empty
  BY DEF NextMonth, NoRun

\* The days of a month are read.
LEMMA ReadMonthEffect ==
    ASSUME TypeOK, NEW r \in Runs, ReadMonth(r)
    PROVE  /\ RunMoves(r) /\ UNCHANGED <<daily, monthly, faults, mixed>>
           /\ run[r].pc = "read" /\ run'[r] \in Run
           /\ \/ run'[r].pc \in {"idle", "read"} /\ run'[r].files = Empty
              \/ /\ run'[r].pc = "monthly" /\ run'[r].month = run[r].month
                 /\ run'[r].files = Summary(DaysOf(run[r].month))
           /\ blurred' = IF SameMonth(r, run[r].month)
                         THEN blurred \cup {run[r].month} ELSE blurred
  <1> DEFINE sums == Summary(MonthOf(r))
             todo == {w \in Files : sums[w] # {}}
             Sums == [run[r] EXCEPT !.pc = "monthly", !.files = sums, !.todo = todo]
  <1>1. run \in [Runs -> Run] /\ run[r] \in Run
    BY DEF TypeOK
  <1>2. run' = [run EXCEPT ![r] = IF todo = {} THEN NextMonth(r) ELSE Sums]
    BY <1>1 DEF ReadMonth
  <1>3. /\ run[r].pc = "read"
        /\ blurred' = IF SameMonth(r, run[r].month)
                      THEN blurred \cup {run[r].month} ELSE blurred
        /\ UNCHANGED <<today, docVars, daily, monthly, usageVars, faults, mixed>>
    BY DEF ReadMonth
  <1>4. sums \in [Files -> SUBSET Objects] /\ todo \subseteq Files
    BY DEF Summary, TypeOK, MonthOf, DaysOf
  <1>5. Sums \in Run /\ Sums.pc = "monthly" /\ Sums.month = run[r].month /\ Sums.files = sums
    BY <1>1, <1>4 DEF Run
  <1>6. sums = Summary(DaysOf(run[r].month))
    BY DEF MonthOf
  <1>7. NextMonth(r) \in Run /\ NextMonth(r).pc \in {"idle", "read"}
        /\ NextMonth(r).files = Empty
    BY NextMonthType, NextMonthEmpty
  <1> HIDE DEF Sums, todo, sums
  <1>8. run'[r] \in {NextMonth(r), Sums} /\ run' = [run EXCEPT ![r] = run'[r]]
    BY <1>1, <1>2
  <1>9. RunMoves(r)
    BY <1>3, <1>8 DEF RunMoves
  <1> QED
    BY <1>3, <1>5, <1>6, <1>7, <1>8, <1>9

\* A file of the month is written.
LEMMA WriteMonthEffect ==
    ASSUME TypeOK, NEW r \in Runs, NEW w \in Files, WriteMonth(r, w)
    PROVE  /\ RunMoves(r) /\ UNCHANGED <<daily, faults, mixed, blurred>>
           /\ run[r].pc = "monthly" /\ run'[r] \in Run
           /\ monthly' = [monthly EXCEPT ![run[r].month][w] = run[r].files[w]]
           /\ \/ run'[r].pc \in {"idle", "read"} /\ run'[r].files = Empty
              \/ /\ run'[r].pc = "monthly" /\ run'[r].month = run[r].month
                 /\ run'[r].files = run[r].files
  <1> DEFINE Goes == [run[r] EXCEPT !.todo = @ \ {w}]
  <1>1. run \in [Runs -> Run] /\ run[r] \in Run
    BY DEF TypeOK
  <1>2. run' = [run EXCEPT ![r] = IF run[r].todo = {w} THEN NextMonth(r) ELSE Goes]
    BY <1>1 DEF WriteMonth
  <1>3. /\ run[r].pc = "monthly"
        /\ monthly' = [monthly EXCEPT ![run[r].month][w] = run[r].files[w]]
        /\ UNCHANGED <<today, docVars, daily, usageVars, faults, mixed, blurred>>
    BY DEF WriteMonth
  <1>4. Goes \in Run /\ Goes.pc = run[r].pc /\ Goes.month = run[r].month
        /\ Goes.files = run[r].files
    BY <1>1 DEF Run
  <1>5. NextMonth(r) \in Run /\ NextMonth(r).pc \in {"idle", "read"}
        /\ NextMonth(r).files = Empty
    BY NextMonthType, NextMonthEmpty
  <1> HIDE DEF Goes
  <1>6. run'[r] \in {NextMonth(r), Goes} /\ run' = [run EXCEPT ![r] = run'[r]]
    BY <1>1, <1>2
  <1>7. RunMoves(r)
    BY <1>3, <1>6 DEF RunMoves
  <1> QED
    BY <1>3, <1>4, <1>5, <1>6, <1>7

\* A run is cut off.
LEMMA AbortEffect ==
    ASSUME TypeOK, NEW r \in Runs, Abort(r)
    PROVE  /\ RunMoves(r) /\ UNCHANGED <<daily, monthly, mixed, blurred>>
           /\ run'[r] \in Run /\ run'[r].pc = "idle" /\ run'[r].files = Empty
           /\ faults' \in 0..MaxFaults /\ faults' # 0
  <1>1. run \in [Runs -> Run]
    BY DEF TypeOK
  <1>2. run' = [run EXCEPT ![r] = NoRun] /\ run'[r] = NoRun
    BY <1>1 DEF Abort
  <1>3. UNCHANGED <<today, docVars, daily, monthly, usageVars, mixed, blurred>>
    BY DEF Abort
  <1>4. NoRun \in Run /\ NoRun.pc = "idle" /\ NoRun.files = Empty
    BY NoRunType DEF NoRun
  <1>5. faults' \in 0..MaxFaults /\ faults' # 0
    BY FaultType DEF Abort, TypeOK
  <1> QED
    BY <1>2, <1>3, <1>4, <1>5 DEF RunMoves

-----------------------------------------------------------------------------
(* The usage report *)

ReportStep == (\E m \in Months : Report(m)) \/ Writing \/ AbortReport

\* What follows a step of the report's.
ReportStepEffect ==
    /\ UsageType' /\ ReportOK'
    /\ UNCHANGED <<today, docVars, daily, monthly, run, mixed, blurred>>
    /\ faults' \in 0..MaxFaults /\ (faults' = 0 => faults = 0)

\* The objects of a month until its end date are fit to be reported.
LEMMA ReportFinds ==
    ASSUME TypeOK, CopiesOK, NEW m \in MonthsDue,
           NEW o \in Latest({d \in DaysOf(m) : d <= EndDate(m)})
    PROVE  created[o[1]] <= today /\ (created[o[1]] = today => FirstOfMonth(today))
  <1> DEFINE day == created[o[1]]
  <1>1. o \in Objects /\ day \in DaysOf(m) /\ day <= EndDate(m) /\ Made(o)
    BY LatestFound
  <1>2. day \in Calendar /\ Month(day) = m /\ today \in Calendar
    BY <1>1 DEF DaysOf, TypeOK
  <1>3. day <= today
    <2> DEFINE c == <<o[1], o[2]>>
    <2>1. c \in Copies /\ c[1] = o[1] /\ o[3] \in Nat \ {0} /\ o[3] <= raw[c]
      BY <1>1, ObjectShape DEF Made
    <2>2. raw[c] \in Nat
      BY <2>1 DEF TypeOK
    <2>3. raw[c] > 0
      BY <2>1, <2>2
    <2> QED
      BY <2>1, <2>3 DEF CopiesOK
  <1>4. ASSUME day = today, ~FirstOfMonth(today)
        PROVE  FALSE
    <2>1. m = Month(today)
      BY <1>2, <1>4
    <2>2. EndDate(m) = today - 1
      BY <1>4, <2>1 DEF EndDate
    <2> HIDE DEF day
    <2> QED
      BY <1>1, <1>2, <1>4, <2>2 DEF Calendar
  <1> QED
    BY <1>3, <1>4

\* A run of the report starts.
LEMMA ReportEffect ==
    ASSUME TypeOK, CopiesOK, ReportOK, NEW m \in Months, Report(m)
    PROVE  ReportStepEffect
  <1> DEFINE found == Latest({d \in DaysOf(m) : d <= EndDate(m)})
  <1>1. /\ m \in MonthsDue /\ reports < MaxReports /\ reports' = reports + 1
        /\ reporter' = [pc |-> "write", month |-> m, found |-> found,
                        todo |-> {created[o[1]] : o \in found}]
        /\ UNCHANGED <<today, docVars, daily, monthly, run, usage, report, faults, mixed, blurred>>
    BY DEF Report
  <1>2. found \subseteq Objects /\ Single(found)
    BY LatestFound
  <1>3. \A o \in found : created[o[1]] <= today /\ (created[o[1]] = today => FirstOfMonth(today))
    BY <1>1, ReportFinds
  <1>4. {created[o[1]] : o \in found} \subseteq Calendar
    BY <1>2, ObjectShape DEF TypeOK
  <1> HIDE DEF found
  <1>5. reporter' \in Reporter /\ reporter'.found = found
    BY <1>1, <1>2, <1>4 DEF Reporter
  <1>6. reports' \in 0..MaxReports
    BY <1>1, ConstantsAssumption DEF TypeOK
  <1>7. UsageType'
    BY <1>1, <1>5, <1>6 DEF UsageType, TypeOK
  <1>8. today' = today /\ created' = created
    BY <1>1 DEF docVars
  <1>9. ReportOK'
    BY <1>1, <1>2, <1>3, <1>5, <1>8 DEF ReportOK, Reportable, FirstOfMonth
  <1> QED
    BY <1>1, <1>7, <1>9 DEF ReportStepEffect, TypeOK

\* The figures of a day are written, of the report's month, or none.
LEMMA WritingEffect ==
    ASSUME TypeOK, ReportOK, Writing \/ AbortReport
    PROVE  ReportStepEffect
  <1>1. /\ UNCHANGED <<today, docVars, daily, monthly, run, reports, mixed, blurred>>
        /\ Fault \/ UNCHANGED faults
    BY DEF Writing, AbortReport, WriteUsage, WriteReport
  <1>2. today' = today /\ created' = created
    BY <1>1 DEF docVars
  <1>3. faults' \in 0..MaxFaults /\ (faults' = 0 => faults = 0)
    BY <1>1, FaultType DEF TypeOK
  <1>4. reporter \in Reporter /\ reporter.found \subseteq Objects /\ reporter.month \in Months
    BY DEF TypeOK, Reporter
  <1>5. CASE \E d \in Calendar : WriteUsage(d)
    <2> PICK d \in Calendar : WriteUsage(d)
      BY <1>5
    <2> DEFINE day == {o \in reporter.found : created[o[1]] = d}
    <2>1. /\ usage' = [usage EXCEPT ![d] = day] /\ report' = report
          /\ reporter' = [reporter EXCEPT !.todo = @ \ {d}]
      BY DEF WriteUsage
    <2>2. day \subseteq Objects /\ Single(day)
      BY <1>4 DEF ReportOK, Single
    <2>3. reporter' \in Reporter /\ reporter'.found = reporter.found
      BY <1>4, <2>1 DEF Reporter
    <2> HIDE DEF day
    <2>4. usage' \in [Calendar -> SUBSET Objects] /\ \A e \in Calendar : Single(usage'[e])
      BY <2>1, <2>2 DEF TypeOK, ReportOK
    <2>5. UsageType'
      BY <1>1, <2>1, <2>3, <2>4 DEF UsageType, TypeOK
    <2>6. ReportOK'
      BY <1>2, <2>1, <2>3, <2>4 DEF ReportOK, Reportable, FirstOfMonth
    <2> QED
      BY <1>1, <1>3, <2>5, <2>6 DEF ReportStepEffect
  <1>6. CASE WriteReport
    <2>1. /\ report' = [report EXCEPT ![reporter.month] = reporter.found]
          /\ reporter' = NoReporter /\ usage' = usage
      BY <1>6 DEF WriteReport
    <2>2. reporter' \in Reporter /\ reporter'.found = {}
      BY <2>1, NoRunType DEF NoReporter
    <2>3. report' \in [Months -> SUBSET Objects]
          /\ \A m \in Months : report'[m] \in {report[m], reporter.found}
      BY <1>4, <2>1 DEF TypeOK
    <2>4. \A m \in Months : Single(report'[m]) /\ Reportable(report'[m])
      BY <2>3 DEF ReportOK
    <2>5. UsageType'
      BY <1>1, <2>1, <2>2, <2>3 DEF UsageType, TypeOK
    <2>6. ReportOK'
      BY <1>2, <2>1, <2>2, <2>4 DEF ReportOK, Reportable, FirstOfMonth, Single
    <2> QED
      BY <1>1, <1>3, <2>5, <2>6 DEF ReportStepEffect
  <1>7. CASE AbortReport
    <2>1. reporter' = NoReporter /\ UNCHANGED <<usage, report>>
      BY <1>7 DEF AbortReport
    <2>2. reporter' \in Reporter /\ reporter'.found = {}
      BY <2>1, NoRunType DEF NoReporter
    <2>3. UsageType'
      BY <1>1, <2>1, <2>2 DEF UsageType, TypeOK
    <2>4. ReportOK'
      BY <1>2, <2>1, <2>2 DEF ReportOK, Reportable, FirstOfMonth, Single
    <2> QED
      BY <1>1, <1>3, <2>3, <2>4 DEF ReportStepEffect
  <1> QED
    BY <1>5, <1>6, <1>7 DEF Writing

\* Any of them.
LEMMA ReportMoves ==
    ASSUME TypeOK, CopiesOK, ReportOK, ReportStep
    PROVE  ReportStepEffect
  BY ReportEffect, WritingEffect DEF ReportStep

-----------------------------------------------------------------------------
(* What the files hold *)

\* Objects stay, whatever is added.
LEMMA MadeKept ==
    ASSUME TypeOK, TypeOK', Grows, NEW o \in Objects, Made(o)
    PROVE  Made(o)'
  <1> DEFINE c == <<o[1], o[2]>>
  <1>1. c \in Copies /\ o[3] \in Nat
    BY ObjectShape
  <1>2. raw[c] \in Nat /\ raw'[c] \in Nat /\ raw[c] <= raw'[c] /\ o[3] <= raw[c]
    BY <1>1 DEF TypeOK, Grows, Made
  <1> HIDE DEF c
  <1>3. o[3] <= raw'[c]
    BY <1>1, <1>2
  <1> QED
    BY <1>3 DEF Made, c

\* ... and so do those of a day.
LEMMA OfDayKept ==
    ASSUME TypeOK, TypeOK', Grows, NEW S \in SUBSET Objects, NEW d, OfDay(S, d)
    PROVE  Single(S) /\ \A o \in S : created'[o[1]] = d /\ o[3] <= raw'[<<o[1], o[2]>>]
  <1>1. \A o \in S : Made(o) /\ created'[o[1]] = d
    BY DEF OfDay, Grows
  <1>2. \A o \in S : o[3] <= raw'[<<o[1], o[2]>>]
    BY <1>1, MadeKept DEF Made
  <1> QED
    BY <1>1, <1>2 DEF OfDay

\* A file of a day is written by a run of that day, from what it has found;
\* and that stays, while the run writes, as the query answered it.
DailyMoves ==
    /\ \A d \in Calendar, w \in Files :
          \/ daily'[d][w] = daily[d][w]
          \/ \E r \in Runs : Daily(r, d) /\ daily'[d][w] = Of(run[r].found, w)
    /\ \A r \in Runs : run'[r].pc = "daily" =>
          /\ Global \in run'[r].todo
          /\ \/ run[r].pc = "daily" /\ run'[r].date = run[r].date /\ run'[r].found = run[r].found
             \/ run'[r].found = Latest({run'[r].date}) /\ UNCHANGED <<created, raw>>

\* Thus the files hold what they should.
LEMMA DailyKept ==
    ASSUME TypeOK, TypeOK', Grows, DailyOK, DailyMoves
    PROVE  DailyOK'
  <1>1. ASSUME NEW r \in Runs, run[r].pc = "daily"
        PROVE  run[r].found \subseteq Objects /\ OfDay(run[r].found, run[r].date)
    BY <1>1 DEF DailyOK, TypeOK, Run
  <1>2. ASSUME NEW d \in Calendar, NEW w \in Files
        PROVE  (OfDay(daily[d][w], d) /\ Of(daily[d][w], w) = daily[d][w])'
    <2>1. CASE daily'[d][w] = daily[d][w]
      <3>1. daily[d][w] \in SUBSET Objects /\ OfDay(daily[d][w], d)
            /\ Of(daily[d][w], w) = daily[d][w]
        BY DEF DailyOK, TypeOK
      <3>2. Single(daily[d][w]) /\ \A o \in daily[d][w] :
               created'[o[1]] = d /\ o[3] <= raw'[<<o[1], o[2]>>]
        BY <3>1, OfDayKept
      <3>3. Single(daily'[d][w]) /\ (\A o \in daily'[d][w] :
               created'[o[1]] = d /\ o[3] <= raw'[<<o[1], o[2]>>])
            /\ Of(daily'[d][w], w) = daily'[d][w]
        BY <2>1, <3>1, <3>2
      <3> QED
        BY <3>3 DEF OfDay, Made, Single, Of
    <2>2. CASE \E r \in Runs : Daily(r, d) /\ daily'[d][w] = Of(run[r].found, w)
      <3>1. PICK r \in Runs : Daily(r, d) /\ daily'[d][w] = Of(run[r].found, w)
        BY <2>2
      <3> DEFINE S == run[r].found
      <3>2. S \in SUBSET Objects /\ OfDay(S, d)
        BY <1>1, <3>1 DEF Daily
      <3>3. Single(S) /\ \A o \in S : created'[o[1]] = d /\ o[3] <= raw'[<<o[1], o[2]>>]
        BY <3>2, OfDayKept
      <3>4. Single(Of(S, w)) /\ (\A o \in Of(S, w) :
               created'[o[1]] = d /\ o[3] <= raw'[<<o[1], o[2]>>])
            /\ Of(Of(S, w), w) = Of(S, w)
        BY <3>3 DEF Single, Of
      <3> HIDE DEF S
      <3>5. daily'[d][w] = Of(S, w)
        BY <3>1 DEF S
      <3>6. Single(daily'[d][w]) /\ (\A o \in daily'[d][w] :
               created'[o[1]] = d /\ o[3] <= raw'[<<o[1], o[2]>>])
            /\ Of(daily'[d][w], w) = daily'[d][w]
        BY <3>4, <3>5
      <3> QED
        BY <3>6 DEF OfDay, Made, Single, Of
    <2> QED
      BY <2>1, <2>2 DEF DailyMoves
  <1>3. ASSUME NEW r \in Runs, run'[r].pc = "daily"
        PROVE  (OfDay(run[r].found, run[r].date) /\ Global \in run[r].todo)'
    <2> DEFINE S == run'[r].found
               d == run'[r].date
    <2>1. Single(S) /\ \A o \in S : created'[o[1]] = d /\ o[3] <= raw'[<<o[1], o[2]>>]
      <3>1. CASE run[r].pc = "daily" /\ d = run[r].date /\ S = run[r].found
        BY <1>1, <3>1, OfDayKept
      <3>2. CASE S = Latest({d}) /\ UNCHANGED <<created, raw>>
        <4>1. Single(Latest({d})) /\ \A o \in Latest({d}) : created[o[1]] \in {d} /\ Made(o)
          BY LatestFound
        <4> HIDE DEF S, d
        <4> QED
          BY <3>2, <4>1 DEF Made
      <3> QED
        BY <1>3, <3>1, <3>2 DEF DailyMoves
    <2> QED
      BY <1>3, <2>1 DEF OfDay, Made, Single, DailyMoves
  <1> QED
    BY <1>2, <1>3 DEF DailyOK

\* What the days of a month add up to counts a document once.
LEMMA SummaryOnce ==
    ASSUME TypeOK, DailyOK, NEW m \in Months, NEW w \in Files
    PROVE  Single(Summary(DaysOf(m))[w])
  <1> DEFINE S == UNION {daily[d][w] : d \in DaysOf(m)}
  <1>1. Summary(DaysOf(m))[w] = S
    BY DEF Summary
  <1>2. ASSUME NEW o \in S, NEW p \in S, o[1] = p[1]
        PROVE  o = p
    <2>1. PICK d \in DaysOf(m) : o \in daily[d][w]
      OBVIOUS
    <2>2. PICK e \in DaysOf(m) : p \in daily[e][w]
      OBVIOUS
    <2>3. d \in Calendar /\ e \in Calendar
      BY DEF DaysOf
    <2>4. created[o[1]] = d /\ created[p[1]] = e /\ Single(daily[d][w])
      BY <2>1, <2>2, <2>3 DEF DailyOK, OfDay
    <2> QED
      BY <1>2, <2>1, <2>2, <2>4 DEF Single
  <1>3. Single(S)
    BY <1>2 DEF Single
  <1> QED
    BY <1>1, <1>3

\* A file of a month is written from the sums of a run, and those are read
\* from the files of the days.
MonthlyMoves ==
    /\ \A m \in Months, w \in Files :
          \/ monthly'[m][w] = monthly[m][w]
          \/ \E r \in Runs : Monthly(r, m) /\ monthly'[m][w] = run[r].files[w]
    /\ \A r \in Runs : \/ run'[r].files \in {run[r].files, Empty}
                       \/ \E m \in Months : run'[r].files = Summary(DaysOf(m))

\* Thus they count a document once, too.
LEMMA MonthlyKept ==
    ASSUME TypeOK, DailyOK, MonthlyOK, MonthlyMoves
    PROVE  MonthlyOK'
  <1>1. ASSUME NEW m \in Months, NEW w \in Files
        PROVE  Single(monthly'[m][w])
    BY DEF MonthlyMoves, MonthlyOK
  <1>2. ASSUME NEW r \in Runs, NEW w \in Files
        PROVE  Single(run'[r].files[w])
    <2>1. CASE run'[r].files = run[r].files
      BY <2>1 DEF MonthlyOK
    <2>2. CASE run'[r].files = Empty
      BY <2>2 DEF Empty, Single
    <2>3. CASE \E m \in Months : run'[r].files = Summary(DaysOf(m))
      BY <2>3, SummaryOnce
    <2> QED
      BY <2>1, <2>2, <2>3 DEF MonthlyMoves
  <1> QED
    BY <1>1, <1>2 DEF MonthlyOK, Single

\* The other runs stay as they are.
LEMMA OthersStay ==
    ASSUME TypeOK, NEW r \in Runs, RunMoves(r), run'[r] \in Run
    PROVE  /\ run' \in [Runs -> Run]
           /\ \A s \in Runs : s # r => run'[s] = run[s]
           /\ UNCHANGED <<today, created, version, queue, raw>>
           /\ Grows /\ DocsType' /\ UsageType' /\ (CopiesOK => CopiesOK')
           /\ (ReportOK => ReportOK')
  <1>1. run \in [Runs -> Run]
    BY DEF TypeOK
  <1>2. run' \in [Runs -> Run] /\ \A s \in Runs : s # r => run'[s] = run[s]
    BY <1>1 DEF RunMoves
  <1>3. UNCHANGED <<today, created, version, queue, raw>>
        /\ UNCHANGED <<usage, report, reporter, reports>>
    BY DEF RunMoves, docVars, usageVars
  <1>4. Grows
    BY <1>3 DEF Grows, TypeOK
  <1>5. DocsType' /\ UsageType'
    BY <1>3 DEF DocsType, UsageType, TypeOK
  <1>6. CopiesOK => CopiesOK'
    BY <1>3 DEF CopiesOK
  <1>7. ReportOK => ReportOK'
    BY <1>3 DEF ReportOK, Reportable, FirstOfMonth
  <1> QED
    BY <1>2, <1>3, <1>4, <1>5, <1>6, <1>7

\* What follows a step of a run.
AggregatorEffect(r) ==
    /\ RunMoves(r) /\ run'[r] \in Run
    /\ FilesType' /\ DailyMoves /\ MonthlyMoves
    /\ mixed \subseteq mixed' /\ blurred \subseteq blurred'
    /\ faults' \in 0..MaxFaults /\ (faults' = 0 => faults = 0)

\* A step that writes no file.
LEMMA NothingWritten ==
    ASSUME TypeOK, DailyOK, NEW r \in Runs, RunMoves(r), run'[r] \in Run,
           UNCHANGED <<daily, monthly>>, mixed' \subseteq Calendar, blurred' \subseteq Months,
           mixed \subseteq mixed', blurred \subseteq blurred',
           \/ run'[r].pc # "daily"
           \/ run'[r].found = Latest({run'[r].date}) /\ Global \in run'[r].todo,
           \/ run'[r].files = Empty
           \/ \E m \in Months : run'[r].files = Summary(DaysOf(m)),
           faults' \in 0..MaxFaults, faults' = 0 => faults = 0
    PROVE  AggregatorEffect(r)
  <1>1. run' \in [Runs -> Run] /\ (\A s \in Runs : s # r => run'[s] = run[s])
        /\ UNCHANGED <<created, raw>>
    BY OthersStay
  <1>2. FilesType'
    BY <1>1 DEF FilesType, TypeOK
  <1>3. DailyMoves
    <2>1. ASSUME NEW s \in Runs, run'[s].pc = "daily"
          PROVE  /\ Global \in run'[s].todo
                 /\ \/ run[s].pc = "daily" /\ run'[s].date = run[s].date
                       /\ run'[s].found = run[s].found
                    \/ run'[s].found = Latest({run'[s].date}) /\ UNCHANGED <<created, raw>>
      <3>1. CASE s = r
        BY <1>1, <2>1, <3>1
      <3>2. CASE s # r
        BY <1>1, <2>1, <3>2 DEF DailyOK
      <3> QED
        BY <3>1, <3>2
    <2> QED
      BY <2>1 DEF DailyMoves
  <1>4. MonthlyMoves
    <2>1. ASSUME NEW s \in Runs
          PROVE  \/ run'[s].files \in {run[s].files, Empty}
                 \/ \E m \in Months : run'[s].files = Summary(DaysOf(m))
      BY <1>1
    <2> QED
      BY <2>1 DEF MonthlyMoves
  <1> QED
    BY <1>2, <1>3, <1>4 DEF AggregatorEffect

\* A file of a day.
LEMMA WriteDayMoves ==
    ASSUME TypeOK, DailyOK, NEW r \in Runs, NEW w \in Files, WriteDay(r, w)
    PROVE  AggregatorEffect(r)
  <1>1. /\ RunMoves(r) /\ UNCHANGED <<monthly, faults, mixed, blurred>>
        /\ run[r].pc = "daily"
        /\ daily' = [daily EXCEPT ![run[r].date][w] = Of(run[r].found, w)]
        /\ run'[r] \in Run /\ run'[r].date = run[r].date /\ run'[r].files = run[r].files
        /\ \/ run'[r].pc = "read"
           \/ /\ w # Global /\ run'[r].pc = "daily"
              /\ run'[r].found = run[r].found /\ run'[r].todo = run[r].todo \ {w}
    BY WriteDayEffect
  <1>2. run' \in [Runs -> Run] /\ \A s \in Runs : s # r => run'[s] = run[s]
    BY <1>1, OthersStay
  <1>3. run[r].date \in Calendar /\ run[r].found \subseteq Objects
    BY DEF TypeOK, Run
  <1>4. Of(run[r].found, w) \subseteq Objects
    BY <1>3, OfSubset
  <1>5. daily' \in [Calendar -> [Files -> SUBSET Objects]]
    BY <1>1, <1>4 DEF TypeOK
  <1>6. FilesType'
    BY <1>1, <1>2, <1>5 DEF FilesType, TypeOK
  <1>7. ASSUME NEW d \in Calendar, NEW v \in Files, daily'[d][v] # daily[d][v]
        PROVE  Daily(r, d) /\ daily'[d][v] = Of(run[r].found, v)
    BY <1>1, <1>3, <1>7 DEF TypeOK, Daily
  <1>8. ASSUME NEW s \in Runs, run'[s].pc = "daily"
        PROVE  /\ Global \in run'[s].todo /\ run[s].pc = "daily"
               /\ run'[s].date = run[s].date /\ run'[s].found = run[s].found
    <2>1. CASE s = r
      BY <1>1, <1>8, <2>1 DEF DailyOK
    <2>2. CASE s # r
      BY <1>2, <1>8, <2>2 DEF DailyOK
    <2> QED
      BY <2>1, <2>2
  <1>9. DailyMoves
    BY <1>7, <1>8 DEF DailyMoves
  <1>10. \A s \in Runs : run'[s].files = run[s].files
    BY <1>1, <1>2
  <1>11. MonthlyMoves
    BY <1>1, <1>10 DEF MonthlyMoves
  <1>12. faults \in 0..MaxFaults
    BY DEF TypeOK
  <1> QED
    BY <1>1, <1>6, <1>9, <1>11, <1>12 DEF AggregatorEffect

\* A file of a month.
LEMMA WriteMonthMoves ==
    ASSUME TypeOK, DailyOK, NEW r \in Runs, NEW w \in Files, WriteMonth(r, w)
    PROVE  AggregatorEffect(r)
  <1>1. /\ RunMoves(r) /\ UNCHANGED <<daily, faults, mixed, blurred>>
        /\ run[r].pc = "monthly" /\ run'[r] \in Run
        /\ monthly' = [monthly EXCEPT ![run[r].month][w] = run[r].files[w]]
        /\ run'[r].pc # "daily" /\ run'[r].files \in {Empty, run[r].files}
    BY WriteMonthEffect
  <1>2. run' \in [Runs -> Run] /\ \A s \in Runs : s # r => run'[s] = run[s]
    BY <1>1, OthersStay
  <1>3. run[r].month \in Months /\ run[r].files[w] \subseteq Objects
    BY DEF TypeOK, Run
  <1>4. monthly' \in [Months -> [Files -> SUBSET Objects]]
    BY <1>1, <1>3 DEF TypeOK
  <1>5. FilesType'
    BY <1>1, <1>2, <1>4 DEF FilesType, TypeOK
  <1>6. ASSUME NEW m \in Months, NEW v \in Files, monthly'[m][v] # monthly[m][v]
        PROVE  Monthly(r, m) /\ monthly'[m][v] = run[r].files[v]
    BY <1>1, <1>3, <1>6 DEF TypeOK, Monthly
  <1>7. \A s \in Runs : run'[s].files \in {run[s].files, Empty}
    BY <1>1, <1>2
  <1>8. MonthlyMoves
    BY <1>6, <1>7 DEF MonthlyMoves
  <1>9. ASSUME NEW s \in Runs, run'[s].pc = "daily"
        PROVE  run'[s] = run[s] /\ Global \in run[s].todo
    BY <1>1, <1>2, <1>9 DEF DailyOK
  <1>10. DailyMoves
    BY <1>1, <1>9 DEF DailyMoves
  <1>11. faults \in 0..MaxFaults
    BY DEF TypeOK
  <1> QED
    BY <1>1, <1>5, <1>8, <1>10, <1>11 DEF AggregatorEffect

\* Any step of a run.
LEMMA AggregatorMoves ==
    ASSUME TypeOK, DailyOK, NEW r \in Runs, Aggregator(r)
    PROVE  AggregatorEffect(r)
  <1>1. faults \in 0..MaxFaults /\ mixed \subseteq Calendar /\ blurred \subseteq Months
        /\ run[r].month \in Months
    BY DEF TypeOK, Run
  <1>2. CASE \E date \in Calendar, overwrite \in BOOLEAN : Aggregate(r, date, overwrite)
    <2> PICK date \in Calendar : \E overwrite \in BOOLEAN : Aggregate(r, date, overwrite)
      BY <1>2
    <2>1. /\ RunMoves(r) /\ UNCHANGED <<daily, monthly, faults, blurred>>
          /\ run'[r] \in Run /\ run'[r].files = Empty
          /\ \/ run'[r].pc # "daily"
             \/ run'[r].found = Latest({run'[r].date}) /\ Global \in run'[r].todo
          /\ mixed' \in {mixed, mixed \cup {date}}
      <3>1. /\ RunMoves(r) /\ UNCHANGED <<daily, monthly, faults, blurred>>
            /\ run[r].pc = "idle" /\ run'[r] \in Run /\ run'[r].files = Empty
            /\ \/ run'[r].pc = "read" /\ UNCHANGED mixed
               \/ /\ run'[r].pc = "daily" /\ run'[r].date = date
                  /\ run'[r].found = Latest({date})
                  /\ run'[r].todo = TenantsIn(Latest({date})) \cup {Global}
                  /\ mixed' = IF SameDay(r, date) THEN mixed \cup {date} ELSE mixed
        BY AggregateEffect
      <3>2. run'[r].pc = "daily" => Latest({run'[r].date}) = Latest({date})
        BY <3>1
      <3>3. run'[r].pc = "daily" => run'[r].found = Latest({run'[r].date})
        BY <3>1, <3>2
      <3>4. run'[r].pc = "daily" => Global \in run'[r].todo
        BY <3>1
      <3>5. mixed' \in {mixed, mixed \cup {date}}
        BY <3>1
      <3> QED
        BY <3>1, <3>3, <3>4, <3>5
    <2> QED
      BY <1>1, <2>1, NothingWritten
  <1>3. CASE ReadMonth(r)
    <2>1. /\ RunMoves(r) /\ UNCHANGED <<daily, monthly, faults, mixed>>
          /\ run'[r] \in Run /\ run'[r].pc # "daily"
          /\ \/ run'[r].files = Empty
             \/ run'[r].files = Summary(DaysOf(run[r].month))
          /\ blurred' \in {blurred, blurred \cup {run[r].month}}
      BY <1>1, <1>3, ReadMonthEffect
    <2> QED
      BY <1>1, <2>1, NothingWritten
  <1>4. CASE Abort(r)
    <2>1. /\ RunMoves(r) /\ UNCHANGED <<daily, monthly, mixed, blurred>>
          /\ run'[r] \in Run /\ run'[r].pc # "daily" /\ run'[r].files = Empty
          /\ faults' \in 0..MaxFaults /\ faults' # 0
      BY <1>4, AbortEffect
    <2> QED
      BY <1>1, <2>1, NothingWritten
  <1> QED
    BY <1>2, <1>3, <1>4, WriteDayMoves, WriteMonthMoves DEF Aggregator

\* A step is one of a document's, of a run's or of the report's, or none.
LEMMA Steps ==
    ASSUME [Next]_vars
    PROVE  DocStep \/ (\E r \in Runs : Aggregator(r)) \/ ReportStep \/ UNCHANGED vars
  BY DEF Next, DocStep, ReportStep

\* The first invariant holds at the start.
LEMMA InitFiles == Init => FilesInv
  <1> SUFFICES ASSUME Init
               PROVE  FilesInv
    OBVIOUS
  <1>1. TypeOK
    BY InitType
  <1>2. CopiesOK
    BY DEF Init, CopiesOK
  <1>3. DailyOK
    BY DEF Init, DailyOK, OfDay, Single, Of, Empty, NoRun
  <1>4. MonthlyOK
    BY DEF Init, MonthlyOK, Single, Empty, NoRun
  <1>5. ReportOK
    BY DEF Init, ReportOK, Reportable, Single, NoReporter
  <1> QED
    BY <1>1, <1>2, <1>3, <1>4, <1>5 DEF FilesInv

\* A step that leaves the files and the runs alone.
LEMMA FilesStay ==
    ASSUME FilesInv, TypeOK', Grows, UNCHANGED <<daily, monthly, run>>
    PROVE  DailyOK' /\ MonthlyOK'
  <1>1. DailyMoves
    BY DEF DailyMoves, FilesInv, DailyOK
  <1>2. DailyOK'
    BY <1>1, DailyKept DEF FilesInv
  <1>3. MonthlyOK'
    BY DEF MonthlyOK, FilesInv, Single
  <1> QED
    BY <1>2, <1>3

\* Every step keeps it.
LEMMA FilesStep ==
    ASSUME FilesInv, [Next]_vars
    PROVE  FilesInv'
  <1>0. TypeOK /\ CopiesOK /\ DailyOK /\ MonthlyOK /\ ReportOK
    BY DEF FilesInv
  <1>1. CASE DocStep
    <2>1. DocsType' /\ CopiesOK' /\ Grows /\ faults' \in 0..MaxFaults
          /\ UNCHANGED <<daily, monthly, run, usageVars, mixed, blurred>>
      BY <1>0, <1>1, DocsMove DEF DocStepEffect
    <2>2. FilesType' /\ UsageType'
      BY <1>0, <2>1 DEF FilesType, UsageType, TypeOK, usageVars
    <2>3. TypeOK'
      BY <2>1, <2>2 DEF TypeOK, DocsType, FilesType, UsageType
    <2>4. DailyOK' /\ MonthlyOK'
      BY <2>1, <2>3, FilesStay
    <2>5. ASSUME NEW S \in SUBSET Objects, Reportable(S)
          PROVE  \A o \in S : /\ created'[o[1]] <= today'
                              /\ created'[o[1]] = today' => FirstOfMonth(today')
      <3>1. ASSUME NEW o \in S
            PROVE  /\ created'[o[1]] <= today'
                   /\ created'[o[1]] = today' => FirstOfMonth(today')
        <4>1. created'[o[1]] = created[o[1]] /\ today' \in {today, today + 1}
          BY <2>1 DEF Grows
        <4>2. created[o[1]] \in Calendar /\ today \in Calendar
          BY <1>0, ObjectShape DEF TypeOK
        <4>3. created[o[1]] <= today /\ (created[o[1]] = today => FirstOfMonth(today))
          BY <2>5 DEF Reportable
        <4> QED
          BY <4>1, <4>2, <4>3 DEF Calendar
      <3> QED
        BY <3>1
    <2>6. ReportOK'
      <3>1. UNCHANGED <<usage, report, reporter>>
        BY <2>1 DEF usageVars
      <3>2. reporter.found \in SUBSET Objects /\ \A m \in Months : report[m] \in SUBSET Objects
        BY <1>0 DEF TypeOK, Reporter
      <3>3. (Reportable(reporter.found) /\ \A m \in Months : Reportable(report[m]))'
        BY <1>0, <2>5, <3>1, <3>2 DEF ReportOK, Reportable, FirstOfMonth
      <3> QED
        BY <1>0, <3>1, <3>3 DEF ReportOK, Single
    <2> QED
      BY <2>1, <2>3, <2>4, <2>6 DEF FilesInv
  <1>2. CASE \E r \in Runs : Aggregator(r)
    <2> PICK r \in Runs : Aggregator(r)
      BY <1>2
    <2>1. /\ RunMoves(r) /\ run'[r] \in Run /\ FilesType' /\ DailyMoves /\ MonthlyMoves
          /\ faults' \in 0..MaxFaults
      BY <1>0, AggregatorMoves DEF AggregatorEffect
    <2>2. DocsType' /\ UsageType' /\ CopiesOK' /\ ReportOK' /\ Grows
      BY <1>0, <2>1, OthersStay
    <2>3. TypeOK'
      BY <2>1, <2>2 DEF TypeOK, DocsType, FilesType, UsageType
    <2>4. DailyOK' /\ MonthlyOK'
      BY <1>0, <2>1, <2>2, <2>3, DailyKept, MonthlyKept
    <2> QED
      BY <2>2, <2>3, <2>4 DEF FilesInv
  <1>3. CASE ReportStep
    <2>1. /\ UsageType' /\ ReportOK' /\ faults' \in 0..MaxFaults
          /\ UNCHANGED <<today, docVars, daily, monthly, run, mixed, blurred>>
      BY <1>0, <1>3, ReportMoves DEF ReportStepEffect
    <2>2. UNCHANGED <<today, created, version, queue, raw>>
      BY <2>1 DEF docVars
    <2>3. DocsType' /\ FilesType'
      BY <1>0, <2>1, <2>2 DEF DocsType, FilesType, TypeOK
    <2>4. TypeOK'
      BY <2>1, <2>3 DEF TypeOK, DocsType, FilesType, UsageType
    <2>5. CopiesOK' /\ Grows
      BY <1>0, <2>2 DEF CopiesOK, Grows, TypeOK
    <2>6. DailyOK' /\ MonthlyOK'
      BY <2>1, <2>4, <2>5, FilesStay
    <2> QED
      BY <2>1, <2>4, <2>5, <2>6 DEF FilesInv
  <1>4. CASE UNCHANGED vars
    <2>1. UNCHANGED <<today, created, version, queue, raw>>
          /\ UNCHANGED <<usage, report, reporter, reports>>
          /\ UNCHANGED <<daily, monthly, run, faults, mixed, blurred>>
      BY <1>4 DEF vars, docVars, usageVars
    <2>2. TypeOK'
      BY <1>0, <2>1 DEF TypeOK
    <2>3. CopiesOK' /\ Grows
      BY <1>0, <2>1 DEF CopiesOK, Grows, TypeOK
    <2>4. DailyOK' /\ MonthlyOK'
      BY <2>1, <2>2, <2>3, FilesStay
    <2>5. ReportOK'
      BY <1>0, <2>1 DEF ReportOK, Reportable, FirstOfMonth, Single
    <2> QED
      BY <2>2, <2>3, <2>4, <2>5 DEF FilesInv
  <1> QED
    BY <1>1, <1>2, <1>3, <1>4, Steps

\* What the files hold, always.
LEMMA FilesAlways == Spec => []FilesInv
  <1>1. Init => FilesInv
    BY InitFiles
  <1>2. FilesInv /\ [Next]_vars => FilesInv'
    BY FilesStep
  <1> QED
    BY <1>1, <1>2, PTL DEF Spec

\* CountedOnce: however often a document is classified and however often its
\* messages come, RANK() with the first of a copy's objects leaves one row of
\* it, so that no file of a day, of a month or of the report counts it twice.
THEOREM CountsOnce == Spec => []CountedOnce
  <1>1. FilesInv => CountedOnce
    <2> SUFFICES ASSUME FilesInv
                 PROVE  CountedOnce
      OBVIOUS
    <2>1. ASSUME NEW d \in Calendar
          PROVE  Once(usage[d]) /\ \A w \in Files : Once(daily[d][w])
      <3>1. usage[d] \subseteq Objects /\ Single(usage[d])
        BY DEF FilesInv, TypeOK, ReportOK
      <3>2. \A w \in Files : daily[d][w] \subseteq Objects /\ Single(daily[d][w])
        BY DEF FilesInv, TypeOK, DailyOK, OfDay
      <3> QED
        BY <3>1, <3>2, SingleIsOnce
    <2>2. ASSUME NEW m \in Months
          PROVE  Once(report[m]) /\ \A w \in Files : Once(monthly[m][w])
      <3>1. report[m] \subseteq Objects /\ Single(report[m])
        BY DEF FilesInv, TypeOK, ReportOK
      <3>2. \A w \in Files : monthly[m][w] \subseteq Objects /\ Single(monthly[m][w])
        BY DEF FilesInv, TypeOK, MonthlyOK
      <3> QED
        BY <3>1, <3>2, SingleIsOnce
    <2> QED
      BY <2>1, <2>2 DEF CountedOnce
  <1> QED
    BY <1>1, FilesAlways, PTL

\* UsageOnce: the report of this month ends with yesterday, except on the first
\* of a month, and the live figures are of documents created today.
THEOREM UsageCountsOnce == Spec => []UsageOnce
  <1>1. FilesInv => UsageOnce
    <2> SUFFICES ASSUME FilesInv, ~FirstOfMonth(today), NEW t \in Tenants,
                        NEW d \in DocsIn(Reported(t)), d \in DocsIn(Live(t))
                 PROVE  FALSE
      BY DEF UsageOnce
    <2>1. PICK o \in report[Month(today)] : d = o[1]
      BY DEF DocsIn, Reported, Of
    <2>2. PICK p \in daily[today][t] : d = p[1]
      BY DEF DocsIn, Live
    <2>3. today \in Calendar /\ Month(today) \in Months /\ t \in Files
      BY MonthOfDay DEF FilesInv, TypeOK, Files
    <2>4. created[d] # today
      BY <2>1, <2>3 DEF FilesInv, ReportOK, Reportable
    <2>5. created[d] = today
      BY <2>2, <2>3 DEF FilesInv, DailyOK, OfDay
    <2> QED
      BY <2>4, <2>5
  <1> QED
    BY <1>1, FilesAlways, PTL

-----------------------------------------------------------------------------
(* Going forward *)

\* A file goes forward to itself ...
LEMMA KeepsItself ==
    ASSUME NEW S \in SUBSET Objects
    PROVE  Keeps(S, S)
  <1>1. \A o \in S : o[2] >= o[2]
    <2>1. \A o \in S : o[2] \in Nat
      BY ObjectShape
    <2> QED
      BY <2>1
  <1> QED
    BY <1>1 DEF Keeps

\* ... and what goes forward twice goes forward.
LEMMA KeepsOn ==
    ASSUME NEW S \in SUBSET Objects, NEW T \in SUBSET Objects, NEW U \in SUBSET Objects,
           Keeps(S, T), Keeps(T, U)
    PROVE  Keeps(S, U)
  <1> SUFFICES ASSUME NEW o \in S
               PROVE  \E q \in U : q[1] = o[1] /\ q[2] >= o[2]
    BY DEF Keeps
  <1>1. PICK p \in T : p[1] = o[1] /\ p[2] >= o[2]
    BY DEF Keeps
  <1>2. PICK q \in U : q[1] = p[1] /\ q[2] >= p[2]
    BY DEF Keeps
  <1>3. o[2] \in Nat /\ p[2] \in Nat /\ q[2] \in Nat
    BY ObjectShape
  <1>4. q[1] = o[1] /\ q[2] >= o[2]
    BY <1>1, <1>2, <1>3
  <1> QED
    BY <1>4

\* A query of a day carries each of its files forward.
LEMMA QueryKeeps ==
    ASSUME FilesInv, NEW d \in Calendar, NEW w \in Files
    PROVE  Keeps(daily[d][w], Of(Latest({d}), w))
  <1> SUFFICES ASSUME NEW o \in daily[d][w]
               PROVE  \E p \in Of(Latest({d}), w) : p[1] = o[1] /\ p[2] >= o[2]
    BY DEF Keeps
  <1>1. o \in Objects /\ created[o[1]] = d /\ Made(o) /\ w \in {Global, TenantOf[o[1]]}
    <2>1. daily[d][w] \subseteq Objects /\ OfDay(daily[d][w], d)
          /\ Of(daily[d][w], w) = daily[d][w]
      BY DEF FilesInv, TypeOK, DailyOK
    <2>2. o \in Of(daily[d][w], w)
      BY <2>1
    <2> QED
      BY <2>1, <2>2 DEF OfDay, Of
  <1>2. o \in Among({d})
    BY <1>1 DEF Among, Made
  <1>3. raw \in [Copies -> Nat]
    BY DEF FilesInv, TypeOK
  <1>4. PICK p \in Latest({d}) : p[1] = o[1] /\ p[2] >= o[2]
    BY <1>2, <1>3, LatestForward
  <1>5. p \in Of(Latest({d}), w)
    BY <1>1, <1>4 DEF Of
  <1> QED
    BY <1>4, <1>5

-----------------------------------------------------------------------------
(* One run of a day *)

\* The files of a day and who writes them, as DaysOK has it.
DayOK(d) ==
    /\ \A r, s \in Runs : Daily(r, d) /\ Daily(s, d) => r = s
    /\ \A r \in Runs, w \in Files : Daily(r, d) =>
          Keeps(daily[d][w], Of(run[r].found, w))
    /\ faults = 0 => \A r \in Runs, w \in Files : Daily(r, d) /\ w \notin run[r].todo =>
          daily[d][w] = Of(run[r].found, w)
    /\ faults = 0 /\ (\A r \in Runs : ~Daily(r, d)) =>
          \A w \in Files : daily[d][w] = Of(daily[d][Global], w)

\* The second invariant, day by day.
LEMMA DaysAreDays == DaysOK <=> \A d \in Calendar \ mixed : DayOK(d)
  BY DEF DaysOK, DayOK

\* A step that leaves a day and its runs alone.
LEMMA DayStays ==
    ASSUME NEW d, DayOK(d), daily'[d] = daily[d], faults' = 0 => faults = 0,
           \A s \in Runs : Daily(s, d)' <=> Daily(s, d),
           \A s \in Runs : Daily(s, d) => run'[s] = run[s]
    PROVE  DayOK(d)'
  <1>1. \A r, s \in Runs : Daily(r, d)' /\ Daily(s, d)' => r = s
    BY DEF DayOK
  <1>2. \A r \in Runs, w \in Files : Daily(r, d)' =>
           Keeps(daily'[d][w], Of(run'[r].found, w))
    BY DEF DayOK
  <1>3. faults' = 0 => \A r \in Runs, w \in Files : Daily(r, d)' /\ w \notin run'[r].todo =>
           daily'[d][w] = Of(run'[r].found, w)
    BY DEF DayOK
  <1>4. faults' = 0 /\ (\A r \in Runs : ~Daily(r, d)') =>
           \A w \in Files : daily'[d][w] = Of(daily'[d][Global], w)
    BY DEF DayOK
  <1> QED
    BY <1>1, <1>2, <1>3, <1>4 DEF DayOK, Keeps, Of

\* A run that is not about a day, before or after.
LEMMA NotOfADay ==
    ASSUME FilesInv, DaysOK, NEW r \in Runs, RunMoves(r), run'[r] \in Run,
           run[r].pc # "daily", run'[r].pc # "daily",
           UNCHANGED daily, mixed \subseteq mixed', faults' = 0 => faults = 0
    PROVE  DaysOK'
  <1>1. \A s \in Runs : s # r => run'[s] = run[s]
    BY OthersStay DEF FilesInv
  <1>2. ASSUME NEW d \in Calendar, d \notin mixed'
        PROVE  DayOK(d)'
    <2>1. DayOK(d)
      BY <1>2, DaysAreDays
    <2>2. \A s \in Runs : Daily(s, d)' <=> Daily(s, d)
      BY <1>1 DEF Daily
    <2>3. \A s \in Runs : Daily(s, d) => run'[s] = run[s]
      BY <1>1 DEF Daily
    <2> QED
      BY <2>1, <2>2, <2>3, DayStays
  <1> QED
    BY <1>2 DEF DaysOK, DayOK

\* A run starts: what it has found carries the day forward.
LEMMA AggregateDays ==
    ASSUME FilesInv, DaysOK, NEW r \in Runs, NEW date \in Calendar,
           \E overwrite \in BOOLEAN : Aggregate(r, date, overwrite)
    PROVE  DaysOK'
  <1>0. TypeOK
    BY DEF FilesInv
  <1>1. /\ RunMoves(r) /\ UNCHANGED <<daily, monthly, faults, blurred>>
        /\ run[r].pc = "idle" /\ run'[r] \in Run
        /\ \/ run'[r].pc = "read" /\ UNCHANGED mixed
           \/ /\ run'[r].pc = "daily" /\ run'[r].date = date
              /\ run'[r].found = Latest({date})
              /\ run'[r].todo = TenantsIn(Latest({date})) \cup {Global}
              /\ mixed' = IF SameDay(r, date) THEN mixed \cup {date} ELSE mixed
    BY <1>0, AggregateEffect
  <1>2. CASE run'[r].pc = "read" /\ UNCHANGED mixed
    BY <1>1, <1>2, NotOfADay
  <1>3. CASE /\ run'[r].pc = "daily" /\ run'[r].date = date
             /\ run'[r].found = Latest({date})
             /\ run'[r].todo = TenantsIn(Latest({date})) \cup {Global}
             /\ mixed' = IF SameDay(r, date) THEN mixed \cup {date} ELSE mixed
    <2>1. \A s \in Runs : s # r => run'[s] = run[s]
      BY <1>0, <1>1, OthersStay
    <2>2. mixed \subseteq mixed'
      BY <1>3
    <2>3. ASSUME NEW d \in Calendar, d \notin mixed', d # date
          PROVE  DayOK(d)'
      <3>1. DayOK(d)
        BY <2>2, <2>3, DaysAreDays
      <3>2. \A s \in Runs : Daily(s, d)' <=> Daily(s, d)
        BY <1>1, <1>3, <2>1, <2>3 DEF Daily
      <3>3. \A s \in Runs : Daily(s, d) => run'[s] = run[s]
        BY <1>1, <2>1 DEF Daily
      <3> QED
        BY <1>1, <3>1, <3>2, <3>3, DayStays
    <2>4. ASSUME date \notin mixed'
          PROVE  DayOK(date)'
      <3> DEFINE found == Latest({date})
      <3>1. mixed' = mixed /\ \A s \in Runs \ {r} : ~Daily(s, date)
        BY <1>3, <2>4 DEF SameDay, Daily
      <3>2. Daily(r, date)' /\ \A s \in Runs : Daily(s, date)' => s = r
        BY <1>3, <2>1, <3>1 DEF Daily
      <3>3. ASSUME NEW w \in Files
            PROVE  Keeps(daily'[date][w], Of(found, w))
        BY <1>1, QueryKeeps
      <3>4. ASSUME NEW w \in Files, w \notin run'[r].todo
            PROVE  daily'[date][w] = Of(found, w)
        <4>1. w \in Tenants /\ Of(found, w) = {}
          BY <1>3, <3>4 DEF TenantsIn, Files
        <4>2. daily'[date][w] = {}
          BY <3>3, <4>1 DEF Keeps
        <4> QED
          BY <4>1, <4>2
      <3>5. run'[r].found = found
        BY <1>3
      <3> HIDE DEF found
      <3>6. \A s \in Runs, w \in Files : Daily(s, date)' =>
               Keeps(daily'[date][w], Of(run'[s].found, w))
        BY <3>2, <3>3, <3>5
      <3>7. \A s \in Runs, w \in Files : Daily(s, date)' /\ w \notin run'[s].todo =>
               daily'[date][w] = Of(run'[s].found, w)
        BY <3>2, <3>4, <3>5
      <3> QED
        BY <3>2, <3>6, <3>7 DEF DayOK, Keeps, Of
    <2> QED
      BY <2>3, <2>4 DEF DaysOK, DayOK
  <1> QED
    BY <1>1, <1>2, <1>3

\* A file is written: with the global one, which is the last, the day is whole.
LEMMA WriteDayDays ==
    ASSUME FilesInv, DaysOK, NEW r \in Runs, NEW w \in Files, WriteDay(r, w),
           NEW date \in Calendar, run[r].date = date
    PROVE  DaysOK'
  <1> DEFINE found == run[r].found
  <1>0. TypeOK /\ found \subseteq Objects
    BY DEF FilesInv, TypeOK, Run
  <1>1. /\ RunMoves(r) /\ UNCHANGED <<monthly, faults, mixed, blurred>>
        /\ run[r].pc = "daily" /\ w \in run[r].todo
        /\ daily' = [daily EXCEPT ![date][w] = Of(found, w)]
        /\ run'[r] \in Run /\ run'[r].date = date
        /\ \/ /\ w = Global /\ run[r].todo = {Global} /\ run'[r].pc = "read"
           \/ /\ w # Global /\ run'[r].pc = "daily"
              /\ run'[r].found = found /\ run'[r].todo = run[r].todo \ {w}
    BY <1>0, WriteDayEffect
  <1>2. \A s \in Runs : s # r => run'[s] = run[s]
    BY <1>0, <1>1, OthersStay
  <1>3. Daily(r, date)
    BY <1>1 DEF Daily
  <1>4. daily'[date][w] = Of(found, w)
        /\ \A v \in Files : v # w => daily'[date][v] = daily[date][v]
    BY <1>0, <1>1 DEF TypeOK
  <1>5. ASSUME NEW d \in Calendar, d \notin mixed', d # date
        PROVE  DayOK(d)'
    <2>1. DayOK(d)
      BY <1>1, <1>5, DaysAreDays
    <2>2. daily'[d] = daily[d]
      BY <1>1, <1>5 DEF TypeOK
    <2>3. ~Daily(r, d) /\ ~Daily(r, d)'
      BY <1>1, <1>5 DEF Daily
    <2>4. \A s \in Runs : Daily(s, d)' <=> Daily(s, d)
      BY <1>2, <2>3 DEF Daily
    <2>5. \A s \in Runs : Daily(s, d) => run'[s] = run[s]
      BY <1>2, <2>3
    <2> QED
      BY <1>1, <2>1, <2>2, <2>4, <2>5, DayStays
  <1>6. ASSUME date \notin mixed'
        PROVE  DayOK(date)'
    <2>1. DayOK(date)
      BY <1>0, <1>1, <1>6, DaysAreDays
    <2>2. \A s \in Runs : s # r => ~Daily(s, date) /\ ~Daily(s, date)'
      BY <1>2, <1>3, <2>1 DEF DayOK, Daily
    <2>3. CASE w = Global /\ run[r].todo = {Global} /\ run'[r].pc = "read"
      <3>1. \A s \in Runs : ~Daily(s, date)'
        BY <2>2, <2>3 DEF Daily
      <3>2. ASSUME faults' = 0, NEW v \in Files
            PROVE  daily'[date][v] = Of(daily'[date][Global], v)
        <4>1. daily'[date][Global] = found
          <5>1. Of(found, Global) = found
            BY DEF Of
          <5> QED
            BY <1>4, <2>3, <5>1
        <4>2. CASE v = Global
          BY <4>1, <4>2 DEF Of
        <4>3. CASE v # Global
          <5>1. daily[date][v] = Of(found, v)
            BY <1>1, <1>3, <2>1, <2>3, <3>2, <4>3 DEF DayOK
          <5> QED
            BY <1>4, <2>3, <4>1, <4>3, <5>1
        <4> QED
          BY <4>2, <4>3
      <3> QED
        BY <3>1, <3>2 DEF DayOK, Keeps, Of
    <2>4. CASE /\ w # Global /\ run'[r].pc = "daily"
               /\ run'[r].found = found /\ run'[r].todo = run[r].todo \ {w}
      <3>1. Daily(r, date)' /\ \A s \in Runs : Daily(s, date)' => s = r
        BY <1>1, <2>2, <2>4 DEF Daily
      <3>2. ASSUME NEW v \in Files
            PROVE  Keeps(daily'[date][v], Of(found, v))
        <4>1. CASE v = w
          <5>1. Of(found, w) \in SUBSET Objects
            BY <1>0, OfSubset
          <5> QED
            BY <1>4, <4>1, <5>1, KeepsItself
        <4>2. CASE v # w
          BY <1>3, <1>4, <2>1, <4>2 DEF DayOK
        <4> QED
          BY <4>1, <4>2
      <3>3. ASSUME faults' = 0, NEW v \in Files, v \notin run'[r].todo
            PROVE  daily'[date][v] = Of(found, v)
        <4>1. CASE v = w
          BY <1>4, <4>1
        <4>2. CASE v # w
          BY <1>1, <1>3, <1>4, <2>1, <2>4, <3>3, <4>2 DEF DayOK
        <4> QED
          BY <4>1, <4>2
      <3>4. \A s \in Runs, v \in Files : Daily(s, date)' =>
               Keeps(daily'[date][v], Of(run'[s].found, v))
        BY <2>4, <3>1, <3>2
      <3>5. faults' = 0 => \A s \in Runs, v \in Files : Daily(s, date)' /\ v \notin run'[s].todo =>
               daily'[date][v] = Of(run'[s].found, v)
        BY <2>4, <3>1, <3>3
      <3> HIDE DEF found
      <3> QED
        BY <1>1, <3>1, <3>4, <3>5 DEF DayOK, Keeps, Of
    <2> QED
      BY <1>1, <2>3, <2>4
  <1> QED
    BY <1>5, <1>6 DEF DaysOK, DayOK

\* A run is cut off: from here on a day may be left with some of its files.
LEMMA AbortDays ==
    ASSUME FilesInv, DaysOK, NEW r \in Runs, Abort(r)
    PROVE  DaysOK'
  <1>0. TypeOK
    BY DEF FilesInv
  <1>1. /\ RunMoves(r) /\ UNCHANGED <<daily, monthly, mixed, blurred>>
        /\ run'[r] \in Run /\ run'[r].pc = "idle" /\ faults' # 0
    BY <1>0, AbortEffect
  <1>2. \A s \in Runs : s # r => run'[s] = run[s]
    BY <1>0, <1>1, OthersStay
  <1>3. ASSUME NEW d \in Calendar, d \notin mixed'
        PROVE  DayOK(d)'
    <2>1. DayOK(d)
      BY <1>1, <1>3, DaysAreDays
    <2>2. \A s \in Runs : Daily(s, d)' => Daily(s, d) /\ run'[s] = run[s]
      BY <1>1, <1>2 DEF Daily
    <2>3. \A s, t \in Runs : Daily(s, d)' /\ Daily(t, d)' => s = t
      BY <2>1, <2>2 DEF DayOK
    <2>4. \A s \in Runs, w \in Files : Daily(s, d)' =>
             Keeps(daily'[d][w], Of(run'[s].found, w))
      BY <1>1, <2>1, <2>2 DEF DayOK
    <2> QED
      BY <1>1, <2>3, <2>4 DEF DayOK, Keeps, Of
  <1> QED
    BY <1>3 DEF DaysOK, DayOK

\* No step takes a file of a day back.
LEMMA DaysStep ==
    ASSUME FilesInv, DaysOK, [Next]_vars
    PROVE  DaysOK'
  <1>0. TypeOK /\ CopiesOK /\ DailyOK /\ ReportOK
    BY DEF FilesInv
  <1>1. ASSUME UNCHANGED <<daily, run, mixed>>, faults' = 0 => faults = 0
        PROVE  DaysOK'
    <2>1. ASSUME NEW d \in Calendar, d \notin mixed'
          PROVE  DayOK(d)'
      <3>1. DayOK(d) /\ \A s \in Runs : Daily(s, d)' <=> Daily(s, d)
        BY <1>1, <2>1, DaysAreDays DEF Daily
      <3> QED
        BY <1>1, <3>1, DayStays
    <2> QED
      BY <2>1 DEF DaysOK, DayOK
  <1>2. CASE DocStep
    BY <1>0, <1>1, <1>2, DocsMove DEF DocStepEffect
  <1>3. CASE ReportStep
    BY <1>0, <1>1, <1>3, ReportMoves DEF ReportStepEffect
  <1>4. CASE UNCHANGED vars
    BY <1>1, <1>4 DEF vars
  <1>5. CASE \E r \in Runs : Aggregator(r)
    <2> PICK r \in Runs : Aggregator(r)
      BY <1>5
    <2>1. CASE \E date \in Calendar, overwrite \in BOOLEAN : Aggregate(r, date, overwrite)
      BY <2>1, AggregateDays
    <2>2. CASE \E w \in Files : WriteDay(r, w)
      <3>1. run[r].date \in Calendar
        BY <1>0 DEF TypeOK, Run
      <3> QED
        BY <2>2, <3>1, WriteDayDays
    <2>3. CASE \E w \in Files : WriteMonth(r, w)
      <3> PICK w \in Files : WriteMonth(r, w)
        BY <2>3
      <3>1. /\ RunMoves(r) /\ UNCHANGED <<daily, faults, mixed>> /\ run'[r] \in Run
            /\ run[r].pc = "monthly" /\ run'[r].pc # "daily"
        BY <1>0, WriteMonthEffect
      <3> QED
        BY <3>1, NotOfADay
    <2>4. CASE ReadMonth(r)
      <3>1. /\ RunMoves(r) /\ UNCHANGED <<daily, faults, mixed>> /\ run'[r] \in Run
            /\ run[r].pc = "read" /\ run'[r].pc # "daily"
        BY <1>0, <2>4, ReadMonthEffect
      <3> QED
        BY <3>1, NotOfADay
    <2>5. CASE Abort(r)
      BY <2>5, AbortDays
    <2> QED
      BY <2>1, <2>2, <2>3, <2>4, <2>5 DEF Aggregator
  <1> QED
    BY <1>2, <1>3, <1>4, <1>5, Steps

\* The files of the days, always.
LEMMA DaysAlways == Spec => [](FilesInv /\ DaysOK)
  <1>1. Init => DaysOK
    <2> SUFFICES ASSUME Init, NEW d \in Calendar
                 PROVE  DayOK(d)
      BY DEF DaysOK, DayOK
    <2>1. \A r \in Runs : ~Daily(r, d)
      BY DEF Init, Daily, NoRun
    <2>2. \A w \in Files : daily[d][w] = {}
      BY DEF Init, Empty
    <2>3. \A w \in Files : Of(daily[d][Global], w) = {}
      BY <2>2 DEF Of, Files
    <2> QED
      BY <2>1, <2>2, <2>3 DEF DayOK
  <1>2. FilesInv /\ DaysOK /\ [Next]_vars => DaysOK'
    BY DaysStep
  <1> QED
    BY <1>1, <1>2, FilesAlways, PTL DEF Spec

\* TenantsAddUp: a run writes every file whose figures it changes, the global
\* one last; so that a day nobody is writing, and nobody was cut off or met
\* another run in writing, is shown alike to its tenants and to the super-admin.
THEOREM TenantsAgree == Spec => []TenantsAddUp
  <1>1. FilesInv /\ DaysOK => TenantsAddUp
    <2> SUFFICES ASSUME FilesInv, DaysOK, NEW d \in Calendar \ mixed, faults = 0,
                        \A r \in Runs : run[r].pc = "daily" => run[r].date # d
                 PROVE  daily[d][Global] = UNION {daily[d][t] : t \in Tenants}
      BY DEF TenantsAddUp
    <2>1. \A r \in Runs : ~Daily(r, d)
      BY DEF Daily
    <2>2. \A w \in Files : daily[d][w] = Of(daily[d][Global], w)
      BY <2>1 DEF DaysOK
    <2>3. \A o \in daily[d][Global] : TenantOf[o[1]] \in Tenants
      <3>1. daily[d][Global] \subseteq Objects
        BY DEF FilesInv, TypeOK, Files
      <3> QED
        BY <3>1, ObjectShape, ConstantsAssumption
    <2>4. \A t \in Tenants : daily[d][t] = Of(daily[d][Global], t)
      BY <2>2 DEF Files
    <2>5. \A t \in Tenants : daily[d][t] \subseteq daily[d][Global]
      BY <2>4, OfSubset
    <2>6. ASSUME NEW o \in daily[d][Global]
          PROVE  o \in daily[d][TenantOf[o[1]]]
      BY <2>3, <2>4, OfSubset
    <2> QED
      BY <2>3, <2>5, <2>6
  <1> QED
    BY <1>1, DaysAlways, PTL

-----------------------------------------------------------------------------
(* One run of a month *)

\* No step takes a file of a day back that one run writes at a time.
LEMMA DaysForward ==
    ASSUME FilesInv, DaysOK, [Next]_vars
    PROVE  /\ mixed \subseteq mixed' /\ blurred \subseteq blurred'
           /\ \A d \in Calendar \ mixed', w \in Files : Keeps(daily[d][w], daily'[d][w])
  <1>0. TypeOK /\ CopiesOK /\ DailyOK /\ ReportOK
    BY DEF FilesInv
  <1>1. /\ mixed \subseteq mixed' /\ blurred \subseteq blurred'
        /\ \A d \in Calendar, w \in Files :
              \/ daily'[d][w] = daily[d][w]
              \/ \E r \in Runs : Daily(r, d) /\ daily'[d][w] = Of(run[r].found, w)
    <2>1. CASE DocStep
      BY <1>0, <2>1, DocsMove DEF DocStepEffect
    <2>2. CASE ReportStep
      BY <1>0, <2>2, ReportMoves DEF ReportStepEffect
    <2>3. CASE UNCHANGED vars
      BY <2>3 DEF vars
    <2>4. CASE \E r \in Runs : Aggregator(r)
      BY <1>0, <2>4, AggregatorMoves DEF AggregatorEffect, DailyMoves
    <2> QED
      BY <2>1, <2>2, <2>3, <2>4, Steps
  <1>2. ASSUME NEW d \in Calendar \ mixed', NEW w \in Files
        PROVE  Keeps(daily[d][w], daily'[d][w])
    <2>1. CASE daily'[d][w] = daily[d][w]
      <3>1. daily[d][w] \in SUBSET Objects
        BY <1>0 DEF TypeOK
      <3> QED
        BY <2>1, <3>1, KeepsItself
    <2>2. CASE \E r \in Runs : Daily(r, d) /\ daily'[d][w] = Of(run[r].found, w)
      BY <1>1, <2>2 DEF DaysOK
    <2> QED
      BY <1>1, <2>1, <2>2
  <1> QED
    BY <1>1, <1>2

\* What the days of a month add up to is made of objects ...
LEMMA SummaryType ==
    ASSUME FilesInv, NEW m, NEW w \in Files
    PROVE  Summary(DaysOf(m))[w] \in SUBSET Objects
  BY DEF Summary, DaysOf, FilesInv, TypeOK

\* ... and goes forward with the days.
LEMMA SummaryForward ==
    ASSUME FilesInv, DaysOK, [Next]_vars, NEW m \in Months, NEW w \in Files, Clear(m)'
    PROVE  Keeps(Summary(DaysOf(m))[w], Summary(DaysOf(m))'[w])
  <1>1. Summary(DaysOf(m))[w] = UNION {daily[d][w] : d \in DaysOf(m)}
    BY DEF Summary
  <1>2. Summary(DaysOf(m))'[w] = UNION {daily'[d][w] : d \in DaysOf(m)}
    BY DEF Summary, DaysOf, Month
  <1>3. ASSUME NEW d \in DaysOf(m)
        PROVE  Keeps(daily[d][w], daily'[d][w])
    <2>1. d \in Calendar \ mixed'
      BY DEF Clear, DaysOf, Month
    <2> QED
      BY <2>1, DaysForward
  <1>4. ASSUME NEW o \in UNION {daily[d][w] : d \in DaysOf(m)}
        PROVE  \E p \in UNION {daily'[d][w] : d \in DaysOf(m)} : p[1] = o[1] /\ p[2] >= o[2]
    <2>1. PICK d \in DaysOf(m) : o \in daily[d][w]
      OBVIOUS
    <2>2. PICK p \in daily'[d][w] : p[1] = o[1] /\ p[2] >= o[2]
      BY <1>3, <2>1 DEF Keeps
    <2> QED
      BY <2>2
  <1> QED
    BY <1>1, <1>2, <1>4 DEF Keeps

\* The file of a month and who writes it, as MonthsOK has it.
MonthOK(m) ==
    /\ \A r, s \in Runs : Monthly(r, m) /\ Monthly(s, m) => r = s
    /\ \A w \in Files : Keeps(monthly[m][w], Summary(DaysOf(m))[w])
    /\ \A r \in Runs, w \in Files : Monthly(r, m) =>
          /\ Keeps(monthly[m][w], run[r].files[w])
          /\ Keeps(run[r].files[w], Summary(DaysOf(m))[w])

\* The third invariant, month by month.
LEMMA MonthsAreMonths == MonthsOK <=> \A m \in Months : Clear(m) => MonthOK(m)
  BY DEF MonthsOK, MonthOK

\* A month is clear of overlapping runs only if it was.
LEMMA WasClear ==
    ASSUME FilesInv, DaysOK, MonthsOK, [Next]_vars, NEW m \in Months, Clear(m)'
    PROVE  Clear(m) /\ MonthOK(m)
  <1>1. Clear(m)
    BY DaysForward DEF Clear, DaysOf, Month
  <1> QED
    BY <1>1, MonthsAreMonths

\* What a month is shown to be, from a file and the runs that may write it.
LEMMA MonthShown ==
    ASSUME FilesInv, FilesInv', DaysOK, [Next]_vars, NEW m \in Months, Clear(m)',
           \A r, s \in Runs : Monthly(r, m)' /\ Monthly(s, m)' => r = s,
           \A w \in Files : Keeps(monthly'[m][w], Summary(DaysOf(m))[w]),
           \A r \in Runs, w \in Files : Monthly(r, m)' =>
              /\ Keeps(monthly'[m][w], run'[r].files[w])
              /\ Keeps(run'[r].files[w], Summary(DaysOf(m))[w])
    PROVE  MonthOK(m)'
  <1>1. ASSUME NEW w \in Files, NEW S \in SUBSET Objects, Keeps(S, Summary(DaysOf(m))[w])
        PROVE  Keeps(S, Summary(DaysOf(m))'[w])
    <2>1. Summary(DaysOf(m))[w] \in SUBSET Objects
      BY SummaryType
    <2>2. Summary(DaysOf(m))'[w] \in SUBSET Objects
      BY DEF Summary, DaysOf, Month, Calendar, FilesInv, TypeOK
    <2>3. Keeps(Summary(DaysOf(m))[w], Summary(DaysOf(m))'[w])
      BY SummaryForward
    <2> QED
      BY <1>1, <2>1, <2>2, <2>3, KeepsOn
  <1>2. ASSUME NEW w \in Files
        PROVE  Keeps(monthly'[m][w], Summary(DaysOf(m))'[w])
    <2>1. monthly'[m][w] \in SUBSET Objects
      BY DEF FilesInv, TypeOK
    <2> QED
      BY <1>1, <2>1
  <1>3. ASSUME NEW r \in Runs, NEW w \in Files, Monthly(r, m)'
        PROVE  Keeps(run'[r].files[w], Summary(DaysOf(m))'[w])
    <2>1. run'[r].files[w] \in SUBSET Objects
      BY DEF FilesInv, TypeOK, Run
    <2> QED
      BY <1>1, <1>3, <2>1
  <1>4. \A r \in Runs, w \in Files : Monthly(r, m)' => Keeps(monthly'[m][w], run'[r].files[w])
    OBVIOUS
  <1>5. \A w \in Files : Keeps(monthly[m][w], Summary(DaysOf(m))[w])'
    BY <1>2 DEF Keeps
  <1>6. \A r \in Runs, w \in Files : Monthly(r, m)' =>
           /\ Keeps(monthly[m][w], run[r].files[w])'
           /\ Keeps(run[r].files[w], Summary(DaysOf(m))[w])'
    BY <1>3, <1>4 DEF Keeps
  <1> QED
    BY <1>5, <1>6 DEF MonthOK

\* A step that leaves the file of a month alone, and starts no run of it.
LEMMA MonthStays ==
    ASSUME FilesInv, FilesInv', DaysOK, [Next]_vars, NEW m \in Months, Clear(m)', MonthOK(m),
           monthly'[m] = monthly[m],
           \A s \in Runs : Monthly(s, m)' => Monthly(s, m) /\ run'[s].files = run[s].files
    PROVE  MonthOK(m)'
  <1>1. \A r, s \in Runs : Monthly(r, m)' /\ Monthly(s, m)' => r = s
    BY DEF MonthOK
  <1>2. \A w \in Files : Keeps(monthly'[m][w], Summary(DaysOf(m))[w])
    BY DEF MonthOK
  <1>3. \A r \in Runs, w \in Files : Monthly(r, m)' =>
           /\ Keeps(monthly'[m][w], run'[r].files[w])
           /\ Keeps(run'[r].files[w], Summary(DaysOf(m))[w])
    BY DEF MonthOK
  <1> QED
    BY <1>1, <1>2, <1>3, MonthShown

\* The days of a month are read: its file is not ahead of them.
LEMMA ReadMonthMonths ==
    ASSUME FilesInv, FilesInv', DaysOK, MonthsOK, [Next]_vars, NEW r \in Runs, ReadMonth(r),
           NEW m \in Months, Clear(m)'
    PROVE  MonthOK(m)'
  <1>0. TypeOK /\ Clear(m) /\ MonthOK(m)
    BY WasClear DEF FilesInv
  <1>1. /\ RunMoves(r) /\ UNCHANGED <<daily, monthly>> /\ run[r].pc = "read"
        /\ run'[r] \in Run
        /\ \/ run'[r].pc \in {"idle", "read"}
           \/ /\ run'[r].pc = "monthly" /\ run'[r].month = run[r].month
              /\ run'[r].files = Summary(DaysOf(run[r].month))
        /\ blurred' = IF SameMonth(r, run[r].month)
                      THEN blurred \cup {run[r].month} ELSE blurred
    BY <1>0, ReadMonthEffect
  <1>2. \A s \in Runs : s # r => run'[s] = run[s]
    BY <1>0, <1>1, OthersStay
  <1>3. CASE ~Monthly(r, m)'
    <2>1. \A s \in Runs : Monthly(s, m)' => Monthly(s, m) /\ run'[s].files = run[s].files
      BY <1>2, <1>3 DEF Monthly
    <2> QED
      BY <1>0, <1>1, <2>1, MonthStays
  <1>4. CASE Monthly(r, m)'
    <2>1. run[r].month = m /\ run'[r].files = Summary(DaysOf(m))
      BY <1>1, <1>4 DEF Monthly
    <2>2. ~SameMonth(r, m)
      BY <1>1, <2>1 DEF Clear
    <2>3. \A s \in Runs : Monthly(s, m)' => s = r
      BY <1>2, <2>2 DEF SameMonth, Monthly
    <2>4. \A w \in Files : Keeps(monthly'[m][w], Summary(DaysOf(m))[w])
      BY <1>0, <1>1 DEF MonthOK
    <2>5. \A w \in Files : Keeps(Summary(DaysOf(m))[w], Summary(DaysOf(m))[w])
      BY SummaryType, KeepsItself
    <2>6. \A s \in Runs, w \in Files : Monthly(s, m)' =>
             /\ Keeps(monthly'[m][w], run'[s].files[w])
             /\ Keeps(run'[s].files[w], Summary(DaysOf(m))[w])
      BY <2>1, <2>3, <2>4, <2>5
    <2> QED
      BY <2>3, <2>4, <2>6, MonthShown
  <1> QED
    BY <1>3, <1>4

\* A file of the month is written: no other run has read its days.
LEMMA WriteMonthMonths ==
    ASSUME FilesInv, FilesInv', DaysOK, MonthsOK, [Next]_vars, NEW r \in Runs,
           NEW w \in Files, WriteMonth(r, w), NEW m \in Months, Clear(m)'
    PROVE  MonthOK(m)'
  <1>0. TypeOK /\ Clear(m) /\ MonthOK(m)
    BY WasClear DEF FilesInv
  <1>1. /\ RunMoves(r) /\ run[r].pc = "monthly" /\ run'[r] \in Run
        /\ monthly' = [monthly EXCEPT ![run[r].month][w] = run[r].files[w]]
        /\ \/ run'[r].pc \in {"idle", "read"}
           \/ /\ run'[r].pc = "monthly" /\ run'[r].month = run[r].month
              /\ run'[r].files = run[r].files
    BY <1>0, WriteMonthEffect
  <1>2. \A s \in Runs : s # r => run'[s] = run[s]
    BY <1>0, <1>1, OthersStay
  <1>3. \A s \in Runs : Monthly(s, m)' => Monthly(s, m) /\ run'[s].files = run[s].files
    BY <1>1, <1>2 DEF Monthly
  <1>4. CASE run[r].month # m
    <2>1. monthly'[m] = monthly[m]
      BY <1>0, <1>1, <1>4 DEF TypeOK
    <2> QED
      BY <1>0, <1>3, <2>1, MonthStays
  <1>5. CASE run[r].month = m
    <2>1. Monthly(r, m)
      BY <1>1, <1>5 DEF Monthly
    <2>2. monthly'[m][w] = run[r].files[w]
          /\ \A v \in Files : v # w => monthly'[m][v] = monthly[m][v]
      BY <1>0, <1>1, <1>5 DEF TypeOK
    <2>3. \A s \in Runs : Monthly(s, m) => s = r
      BY <1>0, <2>1 DEF MonthOK
    <2>4. ASSUME NEW v \in Files
          PROVE  /\ Keeps(monthly'[m][v], Summary(DaysOf(m))[v])
                 /\ Keeps(monthly'[m][v], run[r].files[v])
                 /\ Keeps(run[r].files[v], Summary(DaysOf(m))[v])
      <3>1. Keeps(run[r].files[v], Summary(DaysOf(m))[v])
        BY <1>0, <2>1 DEF MonthOK
      <3>2. CASE v = w
        <4>1. run[r].files[w] \in SUBSET Objects
          BY <1>0 DEF TypeOK, Run
        <4> QED
          BY <2>2, <3>1, <3>2, <4>1, KeepsItself
      <3>3. CASE v # w
        BY <1>0, <2>1, <2>2, <3>1, <3>3 DEF MonthOK
      <3> QED
        BY <3>2, <3>3
    <2>5. \A s, t \in Runs : Monthly(s, m)' /\ Monthly(t, m)' => s = t
      BY <1>3, <2>3
    <2>6. \A s \in Runs, v \in Files : Monthly(s, m)' =>
             /\ Keeps(monthly'[m][v], run'[s].files[v])
             /\ Keeps(run'[s].files[v], Summary(DaysOf(m))[v])
      BY <1>3, <2>3, <2>4
    <2> QED
      BY <2>4, <2>5, <2>6, MonthShown
  <1> QED
    BY <1>4, <1>5

\* No step takes the file of a month back, nor lets a run fall behind it.
LEMMA MonthsStep ==
    ASSUME FilesInv, FilesInv', DaysOK, MonthsOK, [Next]_vars
    PROVE  MonthsOK'
  <1>0. TypeOK /\ CopiesOK /\ DailyOK /\ ReportOK
    BY DEF FilesInv
  <1>1. ASSUME NEW m \in Months, Clear(m)'
        PROVE  MonthOK(m)'
    <2>0. MonthOK(m)
      BY <1>1, WasClear
    <2>1. ASSUME UNCHANGED <<monthly, run>>
          PROVE  MonthOK(m)'
      <3>1. \A s \in Runs : Monthly(s, m)' => Monthly(s, m) /\ run'[s].files = run[s].files
        BY <2>1 DEF Monthly
      <3> QED
        BY <1>1, <2>0, <2>1, <3>1, MonthStays
    <2>2. CASE DocStep
      BY <1>0, <2>1, <2>2, DocsMove DEF DocStepEffect
    <2>3. CASE ReportStep
      BY <1>0, <2>1, <2>3, ReportMoves DEF ReportStepEffect
    <2>4. CASE UNCHANGED vars
      BY <2>1, <2>4 DEF vars
    <2>5. ASSUME NEW r \in Runs, RunMoves(r), run'[r] \in Run, UNCHANGED monthly,
                 run'[r].pc # "monthly"
          PROVE  MonthOK(m)'
      <3>1. \A s \in Runs : s # r => run'[s] = run[s]
        BY <1>0, <2>5, OthersStay
      <3>2. \A s \in Runs : Monthly(s, m)' => Monthly(s, m) /\ run'[s].files = run[s].files
        BY <2>5, <3>1 DEF Monthly
      <3> QED
        BY <1>1, <2>0, <2>5, <3>2, MonthStays
    <2>6. CASE \E r \in Runs : Aggregator(r)
      <3> PICK r \in Runs : Aggregator(r)
        BY <2>6
      <3>1. CASE \E date \in Calendar, overwrite \in BOOLEAN : Aggregate(r, date, overwrite)
        <4>1. PICK date \in Calendar : \E overwrite \in BOOLEAN : Aggregate(r, date, overwrite)
          BY <3>1
        <4>2. RunMoves(r) /\ run'[r] \in Run /\ UNCHANGED <<daily, monthly, faults, blurred>>
              /\ (run'[r].pc = "read" \/ run'[r].pc = "daily")
          BY <1>0, <4>1, AggregateEffect
        <4> QED
          BY <2>5, <4>2
      <3>2. CASE \E w \in Files : WriteDay(r, w)
        <4>1. PICK w \in Files : WriteDay(r, w)
          BY <3>2
        <4>2. RunMoves(r) /\ run'[r] \in Run /\ UNCHANGED monthly
              /\ (run'[r].pc = "read" \/ run'[r].pc = "daily")
          BY <1>0, <4>1, WriteDayEffect
        <4> QED
          BY <2>5, <4>2
      <3>3. CASE ReadMonth(r)
        BY <1>1, <3>3, ReadMonthMonths
      <3>4. CASE \E w \in Files : WriteMonth(r, w)
        BY <1>1, <3>4, WriteMonthMonths
      <3>5. CASE Abort(r)
        <4>1. RunMoves(r) /\ run'[r] \in Run /\ UNCHANGED monthly /\ run'[r].pc = "idle"
          BY <1>0, <3>5, AbortEffect
        <4> QED
          BY <2>5, <4>1
      <3> QED
        BY <3>1, <3>2, <3>3, <3>4, <3>5 DEF Aggregator
    <2> QED
      BY <2>2, <2>3, <2>4, <2>6, Steps
  <1> QED
    BY <1>1 DEF MonthsOK, MonthOK

\* The whole invariant, always.
LEMMA Invariance == Spec => []IInv
  <1>1. Init => MonthsOK
    <2> SUFFICES ASSUME Init, NEW m \in Months
                 PROVE  MonthOK(m)
      BY DEF MonthsOK, MonthOK
    <2>1. \A r \in Runs : ~Monthly(r, m)
      BY DEF Init, Monthly, NoRun
    <2>2. \A w \in Files : monthly[m][w] = {}
      BY DEF Init, Empty
    <2> QED
      BY <2>1, <2>2 DEF MonthOK, Keeps
  <1>2. FilesInv /\ FilesInv' /\ DaysOK /\ MonthsOK /\ [Next]_vars => MonthsOK'
    BY MonthsStep
  <1>3. FilesInv /\ DaysOK /\ MonthsOK => IInv
    BY DEF IInv
  <1> QED
    BY <1>1, <1>2, <1>3, DaysAlways, PTL DEF Spec

\* TypeOK: every variable keeps its type, whatever fails and comes twice.
THEOREM TypeCorrect == Spec => []TypeOK
  <1>1. IInv => TypeOK
    BY DEF IInv, FilesInv
  <1> QED
    BY <1>1, Invariance, PTL

\* NeverBackwards: a run that follows another carries forward what that one
\* has written, of a day because its query sees all that the other's saw, and
\* of a month because the days have only gone forward since.
THEOREM FiguresGoForward == Spec => NeverBackwards
  <1> DEFINE Forward ==
        /\ \A d \in Calendar \ mixed', w \in Files : Keeps(daily[d][w], daily'[d][w])
        /\ \A m \in Months \ blurred' : DaysOf(m) \cap mixed' = {} =>
              \A w \in Files : Keeps(monthly[m][w], monthly'[m][w])
  <1>1. ASSUME IInv, [Next]_vars
        PROVE  Forward
    <2>0. FilesInv /\ DaysOK /\ MonthsOK /\ TypeOK /\ CopiesOK /\ DailyOK /\ ReportOK
      BY <1>1 DEF IInv, FilesInv
    <2>1. \A d \in Calendar \ mixed', w \in Files : Keeps(daily[d][w], daily'[d][w])
      BY <1>1, <2>0, DaysForward
    <2>2. \A m \in Months, w \in Files :
             \/ monthly'[m][w] = monthly[m][w]
             \/ \E r \in Runs : Monthly(r, m) /\ monthly'[m][w] = run[r].files[w]
      <3>1. CASE DocStep
        BY <2>0, <3>1, DocsMove DEF DocStepEffect
      <3>2. CASE ReportStep
        BY <2>0, <3>2, ReportMoves DEF ReportStepEffect
      <3>3. CASE UNCHANGED vars
        BY <3>3 DEF vars
      <3>4. CASE \E r \in Runs : Aggregator(r)
        BY <2>0, <3>4, AggregatorMoves DEF AggregatorEffect, MonthlyMoves
      <3> QED
        BY <1>1, <3>1, <3>2, <3>3, <3>4, Steps
    <2>3. ASSUME NEW m \in Months \ blurred', DaysOf(m) \cap mixed' = {}, NEW w \in Files
          PROVE  Keeps(monthly[m][w], monthly'[m][w])
      <3>1. Clear(m)'
        BY <2>3 DEF Clear, DaysOf, Month
      <3>2. MonthOK(m)
        BY <1>1, <2>0, <3>1, WasClear
      <3>3. monthly[m][w] \in SUBSET Objects
        BY <2>0 DEF TypeOK
      <3>4. CASE monthly'[m][w] = monthly[m][w]
        BY <3>3, <3>4, KeepsItself
      <3>5. CASE \E r \in Runs : Monthly(r, m) /\ monthly'[m][w] = run[r].files[w]
        BY <3>2, <3>5 DEF MonthOK
      <3> QED
        BY <2>2, <3>4, <3>5
    <2> QED
      BY <2>1, <2>3
  <1>2. IInv /\ [Next]_vars => Forward
    BY <1>1
  <1>3. NeverBackwards <=> [][Forward]_vars
    BY DEF NeverBackwards
  <1> HIDE DEF Forward
  <1>4. IInv /\ [Next]_vars => [Forward]_vars
    BY <1>2
  <1> QED
    BY <1>3, <1>4, Invariance, PTL DEF Spec

=============================================================================
