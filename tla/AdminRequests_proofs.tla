------------------------- MODULE AdminRequests_proofs -------------------------
(***************************************************************************)
(* Proofs about AdminRequests, for any users, tenants, requests, limits    *)
(* and failures: when the audit trail tells the pool, and when the limits  *)
(* of a tenant are in order.                                               *)
(*                                                                         *)
(* Both are about a subject for which nothing overlapped.  The invariant   *)
(* adds that a request on its way is alone with its subject unless an      *)
(* overlap is recorded (RequestsOK, AloneOK), what such a request has done *)
(* at each of its calls and nobody undid (Alone), and that in the middle   *)
(* of it, too, the user is as told but for what it wrote (UserOK).  Each   *)
(* step touches one subject: OthersKeep has the others, once, and the      *)
(* lemmas of the actions speak of that one.                                *)
(***************************************************************************)
EXTENDS AdminRequests, FiniteSetTheorems, TLAPS

-----------------------------------------------------------------------------
(***************************************************************************)
(* What a request keeps, and what the tables and Cognito keep.             *)
(***************************************************************************)
MaybeRole == Roles \cup {None}
Rows == [there : BOOLEAN, day : MaybeLimit, month : MaybeLimit]
Events == [role : MaybeRole \cup {Keep}, scope : MaybeTenant \cup {Keep}]
Pcs == {"idle", "list", "remove", "scope", "delete", "log",
        "put", "update", "done", "failed"}
RequestRecords ==
    [pc : Pcs, subject : Users \cup Tenants \cup {None}, alone : BOOLEAN,
     role : MaybeRole, scope : MaybeTenant, left : SUBSET Roles,
     event : Events, row : Rows, body : Bodies]

TypeOK ==
    /\ pool \subseteq Users
    /\ groups \in [Users -> SUBSET Roles]
    /\ scope \in [Users -> MaybeTenant]
    /\ tenant \in [Tenants -> Rows]
    /\ req \in [Requests -> RequestRecords]
    /\ told \in [Users -> [role : MaybeRole, scope : MaybeTenant]]
    /\ excuses \in [Users \cup Tenants -> SUBSET {"overlap", "failure"}]

(***************************************************************************)
(* A request on its way agrees with its event: the role and the tenant it  *)
(* is about to write are those the event will tell.                        *)
(***************************************************************************)
OfUsers == {"list", "remove", "scope", "delete", "log"}
NamesRole(r) == req[r].event.role # Keep

Agrees(r) ==
    /\ req[r].subject \in Users \cup Tenants
    /\ req[r].pc \in OfUsers =>
         req[r].subject \in Users /\ req[r].event.scope \in MaybeTenant
    /\ req[r].pc \in {"put", "update"} => req[r].subject \in Tenants
    /\ req[r].pc \in {"list", "remove"} => req[r].event.role = req[r].role
    /\ req[r].pc \in {"list", "remove", "scope"} =>
         req[r].event.scope = req[r].scope
    /\ req[r].pc = "delete" => req[r].event = [role |-> None, scope |-> None]
    /\ req[r].pc = "put" => Ordered(req[r].row.day, req[r].row.month)

(***************************************************************************)
(* What a request that is alone has done so far: nobody undoes it.         *)
(***************************************************************************)
HasRole(u, role) == groups[u] = {role} \ {None}

Alone(r) ==
    LET u == req[r].subject IN
    /\ req[r].pc = "remove" => u \in pool /\ groups[u] \subseteq req[r].left
    /\ req[r].pc = "scope" /\ NamesRole(r) => u \in pool
    /\ req[r].pc \in {"scope", "log"} /\ NamesRole(r)
         => HasRole(u, req[r].event.role)
    /\ req[r].pc = "log" => scope[u] = req[r].event.scope
    /\ req[r].pc = "update" =>
         Ordered(Written(req[r].body.day, tenant[u].day),
                 Written(req[r].body.month, tenant[u].month))

RequestOK(r) ==
    InFlight(r) =>
        /\ Agrees(r)
        /\ req[r].alone => Alone(r)
        /\ ~req[r].alone => "overlap" \in excuses[req[r].subject]
RequestsOK == \A r \in Requests : RequestOK(r)

\* A request that is alone shares its subject with no other.
AloneOK ==
    \A r, q \in Requests :
        /\ InFlight(r) /\ req[r].alone /\ InFlight(q)
        /\ req[q].subject = req[r].subject
        => q = r

(***************************************************************************)
(* The user a request is about: in one group, and as told but for what the *)
(* request on its way has written.                                         *)
(***************************************************************************)
WritesRole(r) ==
    req[r].pc = "remove" \/ (req[r].pc \in {"scope", "log"} /\ NamesRole(r))

OneRole(u) == \A a, b \in groups[u] : a = b
UserOK(u) ==
    /\ "overlap" \notin excuses[u] => OneRole(u)
    /\ excuses[u] = {} =>
         /\ (\A r \in On(u) : ~WritesRole(r)) => HasRole(u, told[u].role)
         /\ (\A r \in On(u) : req[r].pc # "log") => scope[u] = told[u].scope

UsersOK == \A u \in Users : UserOK(u)

TenantOK(t) ==
    "overlap" \notin excuses[t] => Ordered(tenant[t].day, tenant[t].month)

AdminInv == TypeOK /\ RequestsOK /\ AloneOK /\ UsersOK /\ LimitsOrdered

-----------------------------------------------------------------------------
(***************************************************************************)
(* Steps for one user or tenant leave what is known of the others.         *)
(***************************************************************************)

\* Of users and tenants, this step changes nothing but of s.
OnlyOf(s) ==
    /\ \A u \in Users \ {s} :
         /\ u \in pool <=> u \in pool'
         /\ groups'[u] = groups[u] /\ scope'[u] = scope[u] /\ told'[u] = told[u]
    /\ \A t \in Tenants \ {s} : tenant'[t] = tenant[t]

\* The only subject of which this step changes anything is s.
Touches(s) ==
    /\ \A q \in Requests : InFlight(q) /\ req[q].subject # s => req'[q] = req[q]
    /\ \A q \in Requests :
         InFlight(q)' /\ req'[q].subject # s => InFlight(q) /\ req'[q] = req[q]
    /\ OnlyOf(s)
    /\ \A v \in (Users \cup Tenants) \ {s} : excuses'[v] = excuses[v]

\* A step that touches one subject keeps what is known of the requests for
\* the other users and tenants, and of these users and tenants.
LEMMA OthersKeep ==
    ASSUME NEW s \in Users \cup Tenants, AdminInv, Touches(s)
    PROVE  /\ \A q \in Requests :
                InFlight(q)' /\ req'[q].subject # s => RequestOK(q)'
           /\ \A q, p \in Requests :
                /\ InFlight(q)' /\ req'[q].alone /\ InFlight(p)'
                /\ req'[p].subject = req'[q].subject
                /\ req'[q].subject # s
                => p = q
           /\ \A u \in Users \ {s} : UserOK(u)'
           /\ \A t \in Tenants \ {s} : TenantOK(t)'
<1>1. ASSUME NEW q \in Requests, InFlight(q)', req'[q].subject # s
      PROVE  RequestOK(q)'
  <2>1. InFlight(q) /\ req'[q] = req[q]
    BY <1>1 DEF Touches, OnlyOf
  <2>2. RequestOK(q) /\ Agrees(q)
    BY <2>1 DEF AdminInv, RequestsOK, RequestOK
  <2>3. Agrees(q)'
    BY <2>1, <2>2 DEF Agrees
  <2>4. excuses'[req'[q].subject] = excuses[req[q].subject]
    BY <1>1, <2>1, <2>2 DEF Touches, OnlyOf, Agrees
  <2>5. Alone(q) => Alone(q)'
    <3>1. CASE req[q].subject \in Users
      <4>1. /\ req[q].subject \in pool <=> req[q].subject \in pool'
            /\ groups'[req[q].subject] = groups[req[q].subject]
            /\ scope'[req[q].subject] = scope[req[q].subject]
        BY <3>1, <1>1, <2>1 DEF Touches, OnlyOf
      <4>2. req[q].pc # "update"
        BY <3>1, <2>2, AdminAssumption DEF Agrees
      <4> QED BY <4>1, <4>2, <2>1 DEF Alone, NamesRole, HasRole
    <3>2. CASE req[q].subject \notin Users
      <4>1. req[q].subject \in Tenants
            /\ req[q].pc \notin {"list", "remove", "scope", "delete", "log"}
        BY <3>2, <2>2 DEF Agrees, OfUsers
      <4>2. tenant'[req[q].subject] = tenant[req[q].subject]
        BY <4>1, <1>1, <2>1 DEF Touches, OnlyOf
      <4> QED BY <4>1, <4>2, <2>1 DEF Alone
    <3> QED BY <3>1, <3>2
  <2> QED BY <2>1, <2>2, <2>3, <2>4, <2>5 DEF RequestOK
<1>2. ASSUME NEW q \in Requests, NEW p \in Requests,
             InFlight(q)', req'[q].alone, InFlight(p)',
             req'[p].subject = req'[q].subject, req'[q].subject # s
      PROVE  p = q
  BY <1>2 DEF Touches, OnlyOf, AdminInv, AloneOK
<1>3. ASSUME NEW u \in Users \ {s}
      PROVE  UserOK(u)'
  <2>1. /\ groups'[u] = groups[u] /\ scope'[u] = scope[u]
        /\ told'[u] = told[u] /\ excuses'[u] = excuses[u]
    BY <1>3 DEF Touches, OnlyOf
  <2>2. \A q \in Requests : q \in On(u)' <=> q \in On(u)
    BY <1>3 DEF Touches, OnlyOf, On, InFlight
  <2>3. \A q \in On(u) : q \in Requests /\ req'[q] = req[q]
    BY <1>3 DEF Touches, OnlyOf, On
  <2>4. On(u)' = On(u)
    BY <2>2 DEF On
  <2>5. \A q \in On(u) : WritesRole(q)' = WritesRole(q)
    BY <2>3 DEF WritesRole, NamesRole
  <2>6. UserOK(u)
    BY DEF AdminInv, UsersOK
  <2> QED BY <2>1, <2>3, <2>4, <2>5, <2>6 DEF UserOK, HasRole, OneRole
<1>4. ASSUME NEW t \in Tenants \ {s}
      PROVE  TenantOK(t)'
  BY <1>4 DEF Touches, OnlyOf, AdminInv, LimitsOrdered, TenantOK
<1> QED BY <1>1, <1>2, <1>3, <1>4

\* A request that is alone is the only one on its way for its subject.
LEMMA AloneOn ==
    ASSUME NEW r \in Requests, AdminInv, InFlight(r), req[r].alone
    PROVE  On(req[r].subject) = {r}
BY DEF On, AdminInv, AloneOK

\* A request that makes its own next step.
OwnStep(r) ==
    /\ InFlight(r)
    /\ \A q \in Requests \ {r} : req'[q] = req[q]
    /\ req'[r].subject = req[r].subject
    /\ req'[r].alone = req[r].alone
    /\ OnlyOf(req[r].subject)
    /\ \A v \in (Users \cup Tenants) \ {req[r].subject} : excuses'[v] = excuses[v]
    /\ ~req[r].alone => "overlap" \in excuses'[req[r].subject]

\* A request's own step keeps the invariant when, were it alone, it leaves
\* its own user or tenant as the invariant says.
LEMMA OwnStepKeeps ==
    ASSUME NEW r \in Requests, NEW s, s = req[r].subject,
           AdminInv, TypeOK', OwnStep(r),
           InFlight(r)' => Agrees(r)' /\ (req[r].alone => Alone(r)'),
           req[r].alone /\ s \in Users => UserOK(s)',
           req[r].alone /\ s \in Tenants => TenantOK(s)'
    PROVE  AdminInv'
<1>1. s \in Users \cup Tenants /\ s = req[r].subject
  BY DEF OwnStep, AdminInv, RequestsOK, RequestOK, Agrees
<1>2. Touches(s)
  BY <1>1 DEF OwnStep, Touches, OnlyOf, InFlight
<1>3. ASSUME NEW q \in Requests, q # r, InFlight(q)', req'[q].subject = s
      PROVE  /\ InFlight(q) /\ req'[q] = req[q] /\ ~req[q].alone /\ ~req[r].alone
             /\ "overlap" \in excuses'[s]
  <2>1. InFlight(q) /\ req'[q] = req[q] /\ req[q].subject = s
    BY <1>1, <1>3 DEF OwnStep, InFlight
  <2>2. ~req[q].alone /\ ~req[r].alone
    BY <1>1, <1>3, <2>1 DEF OwnStep, AdminInv, AloneOK
  <2> QED BY <1>1, <2>1, <2>2 DEF OwnStep
<1>4. RequestsOK'
  <2> SUFFICES ASSUME NEW q \in Requests, InFlight(q)'
               PROVE  RequestOK(q)'
    BY DEF RequestsOK, RequestOK
  <2>1. CASE req'[q].subject # s
    BY <2>1, <1>1, <1>2, OthersKeep
  <2>2. CASE req'[q].subject = s /\ q # r
    <3>1. /\ InFlight(q) /\ req'[q] = req[q] /\ ~req[q].alone
          /\ "overlap" \in excuses'[s]
      BY <2>2, <1>3
    <3>2. Agrees(q)
      BY <3>1 DEF AdminInv, RequestsOK, RequestOK
    <3>3. Agrees(q)'
      BY <3>1, <3>2 DEF Agrees
    <3> QED BY <3>1, <3>3, <2>2 DEF RequestOK
  <2>3. CASE q = r
    BY <2>3 DEF RequestOK, OwnStep
  <2> QED BY <2>1, <2>2, <2>3
<1>5. AloneOK'
  <2> SUFFICES ASSUME NEW q \in Requests, NEW p \in Requests,
                      InFlight(q)', req'[q].alone, InFlight(p)',
                      req'[p].subject = req'[q].subject
               PROVE  p = q
    BY DEF AloneOK
  <2>1. CASE req'[q].subject # s
    BY <2>1, <1>1, <1>2, OthersKeep
  <2>2. CASE req'[q].subject = s
    BY <1>1, <2>2, <1>3 DEF OwnStep
  <2> QED BY <2>1, <2>2
<1>6. UsersOK'
  <2> SUFFICES ASSUME NEW u \in Users
               PROVE  UserOK(u)'
    BY DEF UsersOK
  <2>1. CASE u # s
    BY <2>1, <1>1, <1>2, OthersKeep
  <2>2. CASE u = s /\ req[r].alone
    BY <1>1, <2>2
  <2>3. CASE u = s /\ ~req[r].alone
    BY <1>1, <2>3 DEF UserOK, OwnStep
  <2> QED BY <2>1, <2>2, <2>3
<1>7. LimitsOrdered'
  <2> SUFFICES ASSUME NEW t \in Tenants
               PROVE  TenantOK(t)'
    BY DEF LimitsOrdered, TenantOK
  <2>1. CASE t # s
    BY <2>1, <1>1, <1>2, OthersKeep
  <2>2. CASE t = s /\ req[r].alone
    BY <1>1, <2>2
  <2>3. CASE t = s /\ ~req[r].alone
    BY <1>1, <2>3 DEF TenantOK, OwnStep
  <2> QED BY <2>1, <2>2, <2>3
<1> QED BY <1>4, <1>5, <1>6, <1>7 DEF AdminInv

-----------------------------------------------------------------------------
(***************************************************************************)
(* A request is received.                                                  *)
(***************************************************************************)

\* Being alone no longer changes nothing else of a request.
LEMMA NoLongerAlone ==
    \A w \in RequestRecords, b \in BOOLEAN :
      LET x == [w EXCEPT !.alone = b] IN
           /\ x \in RequestRecords /\ x.subject = w.subject /\ x.pc = w.pc
           /\ x.alone = b /\ x.event = w.event /\ x.role = w.role
           /\ x.scope = w.scope /\ x.row = w.row /\ x.body = w.body
BY DEF RequestRecords

\* A request received with what it is to write leaves the invariant true:
\* that two overlap is recorded for their subject.
LEMMA ReceiveKeeps ==
    ASSUME NEW r \in Requests, NEW w \in RequestRecords, AdminInv,
           At(r, "idle"), Receive(r, w),
           UNCHANGED <<pool, groups, scope, tenant, told>>,
           w.subject \in Users \cup Tenants,
           w.pc \in {"list", "scope", "delete", "put", "update"},
           w.pc \in {"list", "scope", "delete"} => w.subject \in Users,
           w.pc \in OfUsers => w.event.scope \in MaybeTenant,
           w.pc \in {"put", "update"} => w.subject \in Tenants,
           w.pc = "list" => w.event.role = w.role,
           w.pc \in {"list", "scope"} => w.event.scope = w.scope,
           w.pc = "scope" => w.event.role = Keep,
           w.pc = "delete" => w.event = [role |-> None, scope |-> None],
           w.pc = "put" => Ordered(w.row.day, w.row.month),
           w.pc = "update" =>
               Ordered(Written(w.body.day, tenant[w.subject].day),
                       Written(w.body.month, tenant[w.subject].month))
    PROVE  AdminInv'
<1> DEFINE s == w.subject
           W == [w EXCEPT !.alone = (On(s) = {})]
<1>1. /\ W \in RequestRecords /\ W.subject = s /\ W.pc = w.pc
      /\ W.alone = (On(s) = {}) /\ W.event = w.event /\ W.role = w.role
      /\ W.scope = w.scope /\ W.row = w.row /\ W.body = w.body
  <2>1. (On(s) = {}) \in BOOLEAN
    OBVIOUS
  <2> HIDE DEF s
  <2> QED BY <2>1, NoLongerAlone DEF s
<1> HIDE DEF W
<1>2. /\ req'[r] = W
      /\ \A q \in Requests \ {r} :
           IF q \in On(s) THEN req'[q] = [req[q] EXCEPT !.alone = FALSE]
                          ELSE req'[q] = req[q]
  <2>1. req' = [q \in Requests |->
                  CASE q = r        -> W
                    [] q \in On(s) -> [req[q] EXCEPT !.alone = FALSE]
                    [] OTHER        -> req[q]]
    BY DEF Receive, W
  <2>2. r \notin On(s)
    BY DEF On, At, InFlight
  <2> QED BY <2>1, <2>2
<1>3. r \notin On(s) /\ ~InFlight(r)
  BY DEF On, At, InFlight
<1>4. \A q \in On(s) : /\ q \in Requests /\ q # r /\ InFlight(q)
                       /\ req[q] \in RequestRecords
                       /\ req[q].subject = s
  BY <1>3 DEF On, AdminInv, TypeOK
<1>5. \A q \in On(s) :
        /\ req'[q].pc = req[q].pc /\ req'[q].subject = s /\ ~req'[q].alone
        /\ req'[q].event = req[q].event /\ req'[q].role = req[q].role
        /\ req'[q].scope = req[q].scope /\ req'[q].row = req[q].row
        /\ req'[q] \in RequestRecords
  <2> SUFFICES ASSUME NEW q \in On(s)
               PROVE  /\ req'[q].pc = req[q].pc /\ req'[q].subject = s
                      /\ ~req'[q].alone
                      /\ req'[q].event = req[q].event /\ req'[q].role = req[q].role
                      /\ req'[q].scope = req[q].scope /\ req'[q].row = req[q].row
                      /\ req'[q] \in RequestRecords
    OBVIOUS
  <2>1. req'[q] = [req[q] EXCEPT !.alone = FALSE] /\ req[q] \in RequestRecords
    BY <1>2, <1>4
  <2>2. req[q].subject = s
    BY <1>4
  <2> HIDE DEF s
  <2>3. PICK y \in RequestRecords : y = req[q]
    BY <2>1
  <2>4. req'[q] = [y EXCEPT !.alone = FALSE]
    BY <2>1, <2>3
  <2> QED BY <2>2, <2>3, <2>4 DEF RequestRecords
<1>6. excuses' = [excuses EXCEPT ![s] = IF On(s) = {} THEN @ ELSE @ \cup {"overlap"}]
  BY DEF Receive
<1>7. /\ excuses'[s] = IF On(s) = {} THEN excuses[s] ELSE excuses[s] \cup {"overlap"}
      /\ \A v \in (Users \cup Tenants) \ {s} : excuses'[v] = excuses[v]
      /\ excuses' \in [Users \cup Tenants -> SUBSET {"overlap", "failure"}]
  BY <1>6 DEF AdminInv, TypeOK
<1>8. TypeOK'
  <2>1. req' \in [Requests -> RequestRecords]
    <3>1. \A q \in Requests : req'[q] \in RequestRecords
      BY <1>1, <1>2, <1>5 DEF AdminInv, TypeOK
    <3>2. req' = [q \in Requests |-> req'[q]]
      BY DEF Receive
    <3> QED BY <3>1, <3>2
  <2> QED BY <2>1, <1>7 DEF AdminInv, TypeOK
<1>9. Touches(s)
  BY <1>1, <1>2, <1>3, <1>4, <1>5, <1>7 DEF Touches, OnlyOf, On, InFlight
<1>10. InFlight(r)'
  BY <1>1, <1>2 DEF InFlight
<1>11. ASSUME NEW q \in Requests, InFlight(q)', req'[q].subject = s, q # r
       PROVE  /\ q \in On(s) /\ ~req'[q].alone /\ "overlap" \in excuses'[s]
              /\ Agrees(q)'
  <2>1. q \in On(s)
    BY <1>2, <1>11 DEF On, InFlight
  <2>2. Agrees(q)
    BY <2>1, <1>4 DEF AdminInv, RequestsOK, RequestOK
  <2>3. Agrees(q)'
    BY <2>1, <2>2, <1>4, <1>5 DEF Agrees
  <2> QED BY <2>1, <2>3, <1>5, <1>7
<1>12. PICK v \in Users \cup Tenants : v = s
  OBVIOUS
<1>13. RequestsOK'
  <2> SUFFICES ASSUME NEW q \in Requests, InFlight(q)'
               PROVE  RequestOK(q)'
    BY DEF RequestsOK, RequestOK
  <2> HIDE DEF s
  <2>1. CASE req'[q].subject # s
    BY <2>1, <1>12, <1>9, OthersKeep
  <2>2. CASE req'[q].subject = s /\ q # r
    BY <2>2, <1>11 DEF RequestOK
  <2>3. CASE q = r
    <3>1. Agrees(r)'
      BY <1>1, <1>2 DEF Agrees, OfUsers, s
    <3>2. req'[r].alone => Alone(r)'
      BY <1>1, <1>2 DEF Alone, NamesRole, s
    <3>3. ~req'[r].alone => "overlap" \in excuses'[s]
      BY <1>1, <1>2, <1>7
    <3> QED BY <2>3, <3>1, <3>2, <3>3, <1>1, <1>2 DEF RequestOK
  <2> QED BY <2>1, <2>2, <2>3
<1>14. AloneOK'
  <2> SUFFICES ASSUME NEW q \in Requests, NEW p \in Requests,
                      InFlight(q)', req'[q].alone, InFlight(p)',
                      req'[p].subject = req'[q].subject
               PROVE  p = q
    BY DEF AloneOK
  <2> HIDE DEF s
  <2>1. CASE req'[q].subject # s
    BY <2>1, <1>12, <1>9, OthersKeep
  <2>2. CASE req'[q].subject = s
    <3>1. q = r
      BY <2>2, <1>11
    <3>2. On(s) = {}
      BY <3>1, <1>1, <1>2
    <3> QED BY <2>2, <3>1, <3>2, <1>11
  <2> QED BY <2>1, <2>2
<1>15. UsersOK'
  <2> SUFFICES ASSUME NEW u \in Users
               PROVE  UserOK(u)'
    BY DEF UsersOK
  <2> HIDE DEF s
  <2>1. CASE u # s
    BY <2>1, <1>12, <1>9, OthersKeep
  <2>2. CASE u = s
    <3>1. UserOK(u)
      BY DEF AdminInv, UsersOK
    <3>2. "overlap" \notin excuses'[u] => OneRole(u)'
      BY <2>2, <3>1, <1>7 DEF UserOK, OneRole
    <3>3. excuses'[u] = {} => /\ groups'[u] = {told'[u].role} \ {None}
                              /\ scope'[u] = told'[u].scope
      BY <2>2, <3>1, <1>7 DEF UserOK, HasRole
    <3> QED BY <3>2, <3>3 DEF UserOK, HasRole
  <2> QED BY <2>1, <2>2
<1>16. LimitsOrdered'
  BY <1>7, <1>12 DEF LimitsOrdered, AdminInv
<1> QED BY <1>8, <1>13, <1>14, <1>15, <1>16 DEF AdminInv

-----------------------------------------------------------------------------
(***************************************************************************)
(* One step per action.                                                    *)
(***************************************************************************)

\* At first no user has a role, and no request is at work.
LEMMA Initially ==
    ASSUME Init
    PROVE  AdminInv
<1>1. Idle \in RequestRecords
  BY DEF Idle, RequestRecords, Pcs, MaybeRole, MaybeTenant, Events, Rows, NoRow,
         MaybeLimit, Bodies
<1>2. TypeOK
  <2>1. {NoRow, Row(None, None)} \subseteq Rows
    BY DEF NoRow, Row, Rows, MaybeLimit
  <2>2. tenant \in [Tenants -> Rows]
    BY <2>1 DEF Init
  <2> QED BY <1>1, <2>2 DEF Init, TypeOK, MaybeRole, MaybeTenant
<1>3. \A r \in Requests : ~InFlight(r)
  BY DEF Init, InFlight, Idle
<1>4. RequestsOK /\ AloneOK
  BY <1>3 DEF RequestsOK, RequestOK, AloneOK
<1>5. UsersOK
  BY DEF Init, UsersOK, UserOK, OneRole, HasRole
<1>6. LimitsOrdered
  BY DEF Init, LimitsOrdered, NoRow, Row, Ordered
<1> QED BY <1>2, <1>4, <1>5, <1>6 DEF AdminInv

\* The six requests, as they are received.
LEMMA ReceivedKeeps ==
    ASSUME NEW r \in Requests, AdminInv,
           \/ \E u \in Users, role \in Roles, t \in MaybeTenant :
                Approve(r, u, role, t) \/ ChangeRole(r, u, role, t)
           \/ \E u \in Users, t \in MaybeTenant :
                ChangeRole(r, u, None, t) \/ ChangeTenant(r, u, t)
           \/ \E u \in Users : DeleteUser(r, u)
           \/ \E t \in Tenants, day, month \in MaybeLimit :
                CreateTenant(r, t, day, month)
           \/ \E t \in Tenants, b \in Bodies : UpdateTenant(r, t, b)
    PROVE  AdminInv'
<1>1. /\ Idle \in RequestRecords
      /\ Idle.event = [role |-> Keep, scope |-> Keep]
      /\ Idle.role = None /\ Idle.scope = None
  BY DEF Idle, RequestRecords, Pcs, MaybeRole, MaybeTenant, Events, Rows, NoRow,
         MaybeLimit, Bodies
<1>2. None \in MaybeTenant /\ None \in MaybeRole /\ Roles \subseteq MaybeRole
  BY DEF MaybeTenant, MaybeRole
<1>3. ASSUME NEW u \in Users, NEW role \in Roles, NEW t \in MaybeTenant,
             Approve(r, u, role, t)
      PROVE  AdminInv'
  <2>1. ApprovedScope(role, t) = t
    BY DEF ApprovedScope, SUPER_ADMIN, Roles
  <2> DEFINE w == [Idle EXCEPT !.pc = "list", !.subject = u, !.role = role,
                               !.scope = t,
                               !.event = [role |-> role, scope |-> t]]
  <2>2. /\ w \in RequestRecords /\ w.pc = "list" /\ w.subject = u
        /\ w.role = role /\ w.scope = t /\ w.event = [role |-> role, scope |-> t]
    BY <1>1, <1>2 DEF RequestRecords, Pcs, Events
  <2>3. /\ At(r, "idle") /\ Receive(r, w)
        /\ UNCHANGED <<pool, groups, scope, tenant, told>>
    BY <1>3, <2>1 DEF Approve
  <2> HIDE DEF w
  <2> QED BY <2>2, <2>3, ReceiveKeeps DEF OfUsers
<1>4. ASSUME NEW u \in Users, NEW role \in MaybeRole, NEW t \in MaybeTenant,
             ChangeRole(r, u, role, t)
      PROVE  AdminInv'
  <2> DEFINE kept == IF role = "tenant-admin" THEN t ELSE None
             w == [Idle EXCEPT !.pc = "list", !.subject = u, !.role = role,
                               !.scope = kept,
                               !.event = [role |-> role, scope |-> kept]]
  <2>1. kept \in MaybeTenant
    BY <1>2
  <2>2. /\ At(r, "idle") /\ Receive(r, w)
        /\ UNCHANGED <<pool, groups, scope, tenant, told>>
    BY <1>4 DEF ChangeRole
  <2> HIDE DEF kept
  <2>3. /\ w \in RequestRecords /\ w.pc = "list" /\ w.subject = u
        /\ w.role = role /\ w.scope = kept
        /\ w.event = [role |-> role, scope |-> kept]
    BY <1>1, <2>1 DEF RequestRecords, Pcs, Events
  <2> HIDE DEF w
  <2> QED BY <2>1, <2>2, <2>3, ReceiveKeeps DEF OfUsers
<1>5. ASSUME NEW u \in Users, NEW t \in MaybeTenant, ChangeTenant(r, u, t)
      PROVE  AdminInv'
  <2> DEFINE w == [Idle EXCEPT !.pc = "scope", !.subject = u, !.scope = t,
                               !.event.scope = t]
  <2>1. /\ w \in RequestRecords /\ w.pc = "scope" /\ w.subject = u
        /\ w.scope = t /\ w.event.role = Keep /\ w.event.scope = t
    <3>1. [[role |-> Keep, scope |-> Keep] EXCEPT !.scope = t]
            = [role |-> Keep, scope |-> t]
      OBVIOUS
    <3>2. [role |-> Keep, scope |-> t] \in Events
      BY DEF Events
    <3>3. w = [Idle EXCEPT !.pc = "scope", !.subject = u, !.scope = t,
                           !.event = [role |-> Keep, scope |-> t]]
      BY <1>1, <3>1 DEF RequestRecords
    <3> HIDE DEF w
    <3> QED BY <1>1, <3>2, <3>3 DEF RequestRecords, Pcs
  <2>2. /\ At(r, "idle") /\ Receive(r, w)
        /\ UNCHANGED <<pool, groups, scope, tenant, told>>
    BY <1>5 DEF ChangeTenant
  <2> HIDE DEF w
  <2> QED BY <2>1, <2>2, ReceiveKeeps DEF OfUsers
<1>6. ASSUME NEW u \in Users, DeleteUser(r, u)
      PROVE  AdminInv'
  <2> DEFINE w == [Idle EXCEPT !.pc = "delete", !.subject = u,
                               !.event = [role |-> None, scope |-> None]]
  <2>1. /\ w \in RequestRecords /\ w.pc = "delete" /\ w.subject = u
        /\ w.event = [role |-> None, scope |-> None]
    BY <1>1, <1>2 DEF RequestRecords, Pcs, Events
  <2>2. /\ At(r, "idle") /\ Receive(r, w)
        /\ UNCHANGED <<pool, groups, scope, tenant, told>>
    BY <1>6 DEF DeleteUser
  <2> HIDE DEF w
  <2> QED BY <2>1, <2>2, <1>2, ReceiveKeeps DEF OfUsers
<1>7. ASSUME NEW t \in Tenants, NEW day \in MaybeLimit, NEW month \in MaybeLimit,
             CreateTenant(r, t, day, month)
      PROVE  AdminInv'
  <2> DEFINE w == [Idle EXCEPT !.pc = "put", !.subject = t,
                               !.row = Row(day, month)]
  <2>1. /\ w \in RequestRecords /\ w.pc = "put" /\ w.subject = t
        /\ w.row.day = day /\ w.row.month = month
    BY <1>1 DEF RequestRecords, Pcs, Rows, Row
  <2>2. /\ At(r, "idle") /\ Receive(r, w) /\ Ordered(day, month)
        /\ UNCHANGED <<pool, groups, scope, tenant, told>>
    BY <1>7 DEF CreateTenant
  <2> HIDE DEF w
  <2> QED BY <2>1, <2>2, ReceiveKeeps DEF OfUsers
<1>8. ASSUME NEW t \in Tenants, NEW b \in Bodies, UpdateTenant(r, t, b)
      PROVE  AdminInv'
  <2> DEFINE w == [Idle EXCEPT !.pc = "update", !.subject = t, !.body = b]
  <2>1. /\ w \in RequestRecords /\ w.pc = "update" /\ w.subject = t
        /\ w.body = b
    BY <1>1 DEF RequestRecords, Pcs
  <2>2. /\ At(r, "idle") /\ Receive(r, w)
        /\ Ordered(Written(b.day, tenant[t].day),
                   Written(b.month, tenant[t].month))
        /\ UNCHANGED <<pool, groups, scope, tenant, told>>
    BY <1>8 DEF UpdateTenant, Effective, Written
  <2> HIDE DEF w
  <2> QED BY <2>1, <2>2, ReceiveKeeps DEF OfUsers
<1> QED BY <1>2, <1>3, <1>4, <1>5, <1>6, <1>7, <1>8

(***************************************************************************)
(* The steps of a request on its way.                                      *)
(***************************************************************************)

\* What the invariant says of a request on its way and of its subject.
LEMMA OnItsWay ==
    ASSUME NEW r \in Requests, NEW s, s = req[r].subject, AdminInv, InFlight(r)
    PROVE  /\ req[r] \in RequestRecords /\ Agrees(r) /\ s \in Users \cup Tenants
           /\ req[r].alone => Alone(r) /\ On(s) = {r}
           /\ ~req[r].alone => "overlap" \in excuses[s]
           /\ s \in Users => UserOK(s)
           /\ s \in Tenants => TenantOK(s)
<1>1. req[r].alone => On(s) = {r}
  BY AloneOn
<1>2. RequestOK(r) /\ Agrees(r)
  BY DEF AdminInv, RequestsOK, RequestOK
<1> QED BY <1>1, <1>2 DEF AdminInv, TypeOK, RequestOK, Agrees, UsersOK,
                          LimitsOrdered, TenantOK

\* The tables after a step.
TablesOK ==
    /\ pool \subseteq Users
    /\ groups \in [Users -> SUBSET Roles]
    /\ scope \in [Users -> MaybeTenant]
    /\ tenant \in [Tenants -> Rows]
    /\ told \in [Users -> [role : MaybeRole, scope : MaybeTenant]]

\* A request that goes on: no excuse is made, and its user or tenant is, were
\* it alone, as the invariant says.
LEMMA GoesOn ==
    ASSUME NEW r \in Requests, NEW s, s = req[r].subject, AdminInv, InFlight(r),
           NEW w \in RequestRecords, req' = [req EXCEPT ![r] = w],
           w.subject = s, w.alone = req[r].alone,
           UNCHANGED excuses, TablesOK', OnlyOf(s),
           w.pc \notin {"idle", "done", "failed"}
             => Agrees(r)' /\ (req[r].alone => Alone(r)'),
           req[r].alone /\ s \in Users => UserOK(s)',
           req[r].alone /\ s \in Tenants => TenantOK(s)'
    PROVE  AdminInv'
<1>1. req \in [Requests -> RequestRecords]
  BY DEF AdminInv, TypeOK
<1>2. req'[r] = w /\ \A q \in Requests \ {r} : req'[q] = req[q]
  BY <1>1
<1>3. TypeOK'
  BY <1>1 DEF AdminInv, TypeOK, TablesOK
<1>4. OwnStep(r)
  BY <1>2, OnItsWay DEF OwnStep
<1>5. InFlight(r)' => w.pc \notin {"idle", "done", "failed"}
  BY <1>2 DEF InFlight
<1> QED BY <1>3, <1>4, <1>5, OwnStepKeeps

\* A request that fails: its failure is an excuse for its subject, and leaves
\* a user whom no other request is about with one role, a tenant in order.
LEMMA Fails ==
    ASSUME NEW r \in Requests, NEW s, s = req[r].subject, AdminInv, InFlight(r),
           NEW pc \in {"failed", "done"},
           Goto(r, pc), Excuse(r), TablesOK', OnlyOf(s),
           req[r].alone /\ s \in Users /\ "overlap" \notin excuses[s]
             => OneRole(s)',
           req[r].alone /\ s \in Tenants => TenantOK(s)'
    PROVE  AdminInv'
<1>1. req \in [Requests -> RequestRecords] /\ req[r] \in RequestRecords
  BY DEF AdminInv, TypeOK
<1> DEFINE w == [req[r] EXCEPT !.pc = pc]
<1>2. /\ w \in RequestRecords /\ w.pc = pc /\ w.subject = s
      /\ w.alone = req[r].alone
  BY <1>1 DEF RequestRecords, Pcs
<1>3. req' = [req EXCEPT ![r] = w]
  BY <1>1 DEF Goto
<1> HIDE DEF w
<1>4. req'[r] = w /\ \A q \in Requests \ {r} : req'[q] = req[q]
  BY <1>1, <1>3
<1>5. s \in Users \cup Tenants
  BY OnItsWay
<1>6. /\ excuses'[s] = excuses[s] \cup {"failure"}
      /\ \A v \in (Users \cup Tenants) \ {s} : excuses'[v] = excuses[v]
      /\ excuses' \in [Users \cup Tenants -> SUBSET {"overlap", "failure"}]
  BY <1>5 DEF Excuse, AdminInv, TypeOK
<1>7. TypeOK'
  BY <1>1, <1>2, <1>3, <1>6 DEF TypeOK, TablesOK
<1>8. OwnStep(r)
  BY <1>2, <1>4, <1>6, OnItsWay DEF OwnStep
<1>9. ~InFlight(r)'
  BY <1>2, <1>4 DEF InFlight
<1>10. req[r].alone /\ s \in Users => UserOK(s)'
  BY <1>6 DEF UserOK
<1> QED BY <1>7, <1>8, <1>9, <1>10, OwnStepKeeps

\* A call that raises and changes nothing.
LEMMA RaiseKeeps ==
    ASSUME NEW r \in Requests, AdminInv, Raise(r)
    PROVE  AdminInv'
<1>1. PICK s : s = req[r].subject
  OBVIOUS
<1>2. /\ InFlight(r) /\ Goto(r, "failed") /\ Excuse(r)
      /\ UNCHANGED <<pool, groups, scope, tenant, told>>
  BY DEF Raise
<1>3. TablesOK' /\ OnlyOf(s)
  BY <1>2 DEF AdminInv, TypeOK, TablesOK, OnlyOf
<1>4. s \in Users /\ "overlap" \notin excuses[s] => OneRole(s)'
  BY <1>1, <1>2, OnItsWay DEF UserOK, OneRole
<1>5. s \in Tenants => TenantOK(s)'
  <2>1. s \in Tenants /\ "overlap" \notin excuses'[s] => TenantOK(s)
    BY <1>1, <1>2, OnItsWay
  <2>2. s \in Tenants => excuses'[s] = excuses[s] \cup {"failure"}
    BY <1>1, <1>2 DEF Excuse, AdminInv, TypeOK
  <2> QED BY <1>2, <2>1, <2>2 DEF TenantOK
<1> QED BY <1>1, <1>2, <1>3, <1>4, <1>5, Fails

\* A request about a user who is gone: alone, it had written nothing yet.
LEMMA UserNotFoundKeeps ==
    ASSUME NEW r \in Requests, AdminInv, UserNotFound(r)
    PROVE  AdminInv'
<1>1. PICK s : s = req[r].subject
  OBVIOUS
<1>2. /\ req[r].pc \in {"list", "remove", "scope", "delete"} /\ s \notin pool
      /\ Goto(r, "failed") /\ InFlight(r)
      /\ UNCHANGED <<pool, groups, scope, tenant, told, excuses>>
  BY <1>1 DEF UserNotFound, InFlight
<1>3. TablesOK' /\ OnlyOf(s)
  BY <1>2 DEF AdminInv, TypeOK, TablesOK, OnlyOf
<1> DEFINE w == [req[r] EXCEPT !.pc = "failed"]
<1>4. /\ w \in RequestRecords /\ w.pc = "failed" /\ w.subject = s
      /\ w.alone = req[r].alone /\ req' = [req EXCEPT ![r] = w]
  <2>1. req[r] \in RequestRecords
    BY <1>1, <1>2, OnItsWay
  <2>2. req' = [req EXCEPT ![r] = w]
    BY <1>2 DEF Goto, AdminInv, TypeOK
  <2> QED BY <1>1, <2>1, <2>2 DEF RequestRecords, Pcs
<1> HIDE DEF w
<1>5. ASSUME req[r].alone, s \in Users
      PROVE  UserOK(s)'
  <2>1. UserOK(s) /\ On(s) = {r} /\ Alone(r)
    BY <1>1, <1>2, <1>5, OnItsWay
  <2>2. ~WritesRole(r) /\ req[r].pc # "log"
    BY <1>1, <1>2, <2>1 DEF Alone, WritesRole
  <2>3. excuses[s] = {} => HasRole(s, told[s].role) /\ scope[s] = told[s].scope
    BY <2>1, <2>2 DEF UserOK
  <2> QED BY <1>2, <2>1, <2>3 DEF UserOK, HasRole, OneRole
<1>6. ASSUME req[r].alone, s \in Tenants
      PROVE  TenantOK(s)'
  BY <1>1, <1>2, <1>6, OnItsWay DEF TenantOK
<1> QED BY <1>1, <1>2, <1>3, <1>4, <1>5, <1>6, GoesOn

\* The groups of a user are listed: alone, none is left out.
LEMMA ListGroupsKeeps ==
    ASSUME NEW r \in Requests, AdminInv, ListGroups(r)
    PROVE  AdminInv'
<1>1. PICK s : s = req[r].subject
  OBVIOUS
<1> DEFINE w == [req[r] EXCEPT !.pc = "remove", !.left = ToRemove(groups[s])]
<1>2. /\ req[r].pc = "list" /\ InFlight(r) /\ s \in pool
      /\ req' = [req EXCEPT ![r] = w]
      /\ UNCHANGED <<pool, groups, scope, tenant, told, excuses>>
  BY <1>1 DEF ListGroups, At, InFlight, AdminInv, TypeOK
<1>3. TablesOK' /\ OnlyOf(s)
  BY <1>2 DEF AdminInv, TypeOK, TablesOK, OnlyOf
<1>4. req[r] \in RequestRecords /\ Agrees(r) /\ s \in Users
      /\ groups[s] \subseteq Roles /\ ToRemove(groups[s]) = groups[s]
  BY <1>1, <1>2, OnItsWay DEF Agrees, OfUsers, AdminInv, TypeOK, ToRemove
<1>5. /\ w \in RequestRecords /\ w.pc = "remove" /\ w.subject = s
      /\ w.alone = req[r].alone /\ w.left = groups[s] /\ w.event = req[r].event
      /\ w.role = req[r].role /\ w.scope = req[r].scope
  BY <1>1, <1>4 DEF RequestRecords, Pcs
<1> HIDE DEF w
<1>6. req'[r] = w
  BY <1>2 DEF AdminInv, TypeOK
<1>7. Agrees(r)' /\ Alone(r)'
  BY <1>1, <1>2, <1>4, <1>5, <1>6 DEF Agrees, Alone, OfUsers
<1>8. ASSUME req[r].alone
      PROVE  UserOK(s)'
  <2>1. UserOK(s) /\ On(s) = {r}
    BY <1>1, <1>2, <1>4, <1>8, OnItsWay
  <2>2. ~WritesRole(r)
    BY <1>2 DEF WritesRole
  <2>3. excuses[s] = {} => scope[s] = told[s].scope
    BY <2>1, <1>2 DEF UserOK
  <2>4. r \in On(s)' /\ WritesRole(r)'
    BY <1>1, <1>5, <1>6 DEF On, InFlight, WritesRole
  <2> QED BY <1>2, <2>1, <2>3, <2>4 DEF UserOK, OneRole
<1>9. s \notin Tenants
  BY <1>4, AdminAssumption
<1> QED BY <1>1, <1>2, <1>3, <1>5, <1>7, <1>8, <1>9, GoesOn

\* A group is removed: alone, the request still has those that are left.
LEMMA RemoveGroupKeeps ==
    ASSUME NEW r \in Requests, AdminInv, RemoveGroup(r)
    PROVE  AdminInv'
<1>1. PICK s : s = req[r].subject
  OBVIOUS
<1>2. PICK g \in req[r].left :
        /\ groups' = [groups EXCEPT ![s] = @ \ {g}]
        /\ Then(r, [req[r] EXCEPT !.left = @ \ {g}])
  BY <1>1 DEF RemoveGroup
<1>3. /\ req[r].pc = "remove" /\ InFlight(r) /\ s \in pool
      /\ UNCHANGED <<pool, scope, tenant, told>>
  BY <1>1 DEF RemoveGroup, At, InFlight
<1>4. /\ req[r] \in RequestRecords /\ Agrees(r) /\ s \in Users
      /\ groups[s] \subseteq Roles
      /\ groups'[s] = groups[s] \ {g}
      /\ \A u \in Users \ {s} : groups'[u] = groups[u]
      /\ groups' \in [Users -> SUBSET Roles]
  BY <1>1, <1>2, <1>3, OnItsWay DEF Agrees, OfUsers, AdminInv, TypeOK
<1>5. TablesOK' /\ OnlyOf(s)
  BY <1>3, <1>4 DEF AdminInv, TypeOK, TablesOK, OnlyOf
<1>6. s \notin Tenants
  BY <1>4, AdminAssumption
<1>7. req[r].alone => UserOK(s) /\ On(s) = {r} /\ Alone(r)
  BY <1>1, <1>3, <1>4, OnItsWay
<1>8. CASE Goto(r, "failed") /\ Excuse(r)
  BY <1>1, <1>3, <1>4, <1>5, <1>6, <1>7, <1>8, Fails DEF UserOK, OneRole
<1>9. CASE req' = [req EXCEPT ![r] = [req[r] EXCEPT !.left = @ \ {g}]]
           /\ UNCHANGED excuses
  <2> DEFINE w == [req[r] EXCEPT !.left = @ \ {g}]
  <2>1. /\ w \in RequestRecords /\ w.pc = "remove" /\ w.subject = s
        /\ w.alone = req[r].alone /\ w.left = req[r].left \ {g}
        /\ w.event = req[r].event
        /\ w.role = req[r].role /\ w.scope = req[r].scope
    BY <1>1, <1>3, <1>4 DEF RequestRecords, Pcs
  <2>2. req' = [req EXCEPT ![r] = w]
    BY <1>9
  <2> HIDE DEF w
  <2>3. req'[r] = w
    BY <2>2 DEF AdminInv, TypeOK
  <2>4. Agrees(r)' /\ (req[r].alone => Alone(r)')
    BY <1>1, <1>3, <1>4, <1>7, <2>1, <2>3 DEF Agrees, Alone, OfUsers
  <2>5. r \in On(s)' /\ WritesRole(r)'
    BY <1>1, <2>1, <2>3 DEF On, InFlight, WritesRole
  <2>6. ASSUME req[r].alone
        PROVE  UserOK(s)'
    <3>1. excuses[s] = {} => scope[s] = told[s].scope
      BY <1>3, <1>7, <2>6 DEF UserOK
    <3> QED BY <1>3, <1>4, <1>7, <1>9, <2>5, <2>6, <3>1 DEF UserOK, OneRole
  <2> QED BY <1>1, <1>3, <1>5, <1>6, <1>9, <2>1, <2>2, <2>4, <2>6, GoesOn
<1> QED BY <1>2, <1>8, <1>9 DEF Then

\* The group is added, or there is none to add: alone, the user then has the
\* role of the event.
LEMMA AddGroupKeeps ==
    ASSUME NEW r \in Requests, AdminInv, AddGroup(r) \/ NoGroup(r)
    PROVE  AdminInv'
<1>1. PICK s : s = req[r].subject
  OBVIOUS
<1>2. /\ req[r].pc = "remove" /\ InFlight(r) /\ req[r].left = {}
      /\ UNCHANGED <<pool, scope, tenant, told>>
  BY <1>1 DEF AddGroup, NoGroup, At, InFlight
<1>3. /\ req[r] \in RequestRecords /\ Agrees(r) /\ s \in Users
      /\ groups[s] \subseteq Roles
  BY <1>1, <1>2, OnItsWay DEF Agrees, OfUsers, AdminInv, TypeOK
<1>4. groups' = [groups EXCEPT ![s] = @ \cup ({req[r].role} \ {None})]
  BY <1>1, <1>3 DEF AddGroup, NoGroup, AdminInv, TypeOK
<1>5. req[r].role \in MaybeRole /\ req[r].event.role = req[r].role
      /\ req[r].event.role # Keep
  BY <1>2, <1>3, AdminAssumption DEF RequestRecords, MaybeRole, Agrees
<1>6. /\ groups'[s] = groups[s] \cup ({req[r].role} \ {None})
      /\ \A u \in Users \ {s} : groups'[u] = groups[u]
      /\ groups' \in [Users -> SUBSET Roles]
  BY <1>3, <1>4, <1>5 DEF AdminInv, TypeOK, MaybeRole
<1>7. TablesOK' /\ OnlyOf(s)
  BY <1>2, <1>6 DEF AdminInv, TypeOK, TablesOK, OnlyOf
<1>8. s \notin Tenants
  BY <1>3, AdminAssumption
<1>9. req[r].alone => /\ UserOK(s) /\ On(s) = {r} /\ Alone(r)
                      /\ groups'[s] = {req[r].role} \ {None} /\ s \in pool
  BY <1>1, <1>2, <1>3, <1>6, OnItsWay DEF Alone
<1>10. CASE Goto(r, "failed") /\ Excuse(r)
  BY <1>1, <1>2, <1>7, <1>8, <1>9, <1>10, Fails DEF OneRole
<1>11. CASE req' = [req EXCEPT ![r] = [req[r] EXCEPT !.pc = "scope"]]
            /\ UNCHANGED excuses
  <2> DEFINE w == [req[r] EXCEPT !.pc = "scope"]
  <2>1. /\ w \in RequestRecords /\ w.pc = "scope" /\ w.subject = s
        /\ w.alone = req[r].alone /\ w.event = req[r].event
        /\ w.role = req[r].role /\ w.scope = req[r].scope
    BY <1>1, <1>3 DEF RequestRecords, Pcs
  <2>2. req' = [req EXCEPT ![r] = w]
    BY <1>11
  <2> HIDE DEF w
  <2>3. req'[r] = w
    BY <2>2 DEF AdminInv, TypeOK
  <2>4. Agrees(r)'
    BY <1>1, <1>2, <1>3, <2>1, <2>3 DEF Agrees, OfUsers
  <2>5. req[r].alone => Alone(r)'
    BY <1>1, <1>2, <1>5, <1>9, <2>1, <2>3 DEF Alone, HasRole
  <2>6. r \in On(s)' /\ WritesRole(r)'
    BY <1>1, <1>5, <2>1, <2>3 DEF On, InFlight, WritesRole, NamesRole
  <2>7. ASSUME req[r].alone
        PROVE  UserOK(s)'
    <3>1. excuses[s] = {} => scope[s] = told[s].scope
      BY <1>2, <1>9, <2>7 DEF UserOK
    <3> QED BY <1>2, <1>9, <1>11, <2>6, <2>7, <3>1 DEF UserOK, OneRole
  <2> QED BY <1>1, <1>2, <1>7, <1>8, <1>11, <2>1, <2>2, <2>4, <2>5, <2>7, GoesOn
<1> QED BY <1>2, <1>10, <1>11 DEF AddGroup, NoGroup, Then, Goto

\* The tenant is set: alone, the user then has the tenant of the event.
LEMMA SetTenantKeeps ==
    ASSUME NEW r \in Requests, AdminInv, SetTenant(r)
    PROVE  AdminInv'
<1>1. PICK s : s = req[r].subject
  OBVIOUS
<1>2. /\ req[r].pc = "scope" /\ InFlight(r) /\ s \in pool
      /\ scope' = [scope EXCEPT ![s] = req[r].scope]
      /\ Then(r, [req[r] EXCEPT !.pc = "log"])
      /\ UNCHANGED <<pool, groups, tenant, told>>
  BY <1>1 DEF SetTenant, At, InFlight
<1>3. /\ req[r] \in RequestRecords /\ Agrees(r) /\ s \in Users
      /\ req[r].scope \in MaybeTenant
  BY <1>1, <1>2, OnItsWay DEF Agrees, OfUsers, RequestRecords
<1>4. /\ scope'[s] = req[r].scope
      /\ \A u \in Users \ {s} : scope'[u] = scope[u]
      /\ scope' \in [Users -> MaybeTenant]
  BY <1>2, <1>3 DEF AdminInv, TypeOK
<1>5. TablesOK' /\ OnlyOf(s)
  BY <1>2, <1>4 DEF AdminInv, TypeOK, TablesOK, OnlyOf
<1>6. s \notin Tenants
  BY <1>3, AdminAssumption
<1>7. req[r].alone => UserOK(s) /\ On(s) = {r} /\ Alone(r)
  BY <1>1, <1>2, <1>3, OnItsWay
<1>8. CASE Goto(r, "failed") /\ Excuse(r)
  BY <1>1, <1>2, <1>3, <1>5, <1>6, <1>7, <1>8, Fails DEF UserOK, OneRole
<1>9. CASE req' = [req EXCEPT ![r] = [req[r] EXCEPT !.pc = "log"]]
           /\ UNCHANGED excuses
  <2> DEFINE w == [req[r] EXCEPT !.pc = "log"]
  <2>1. /\ w \in RequestRecords /\ w.pc = "log" /\ w.subject = s
        /\ w.alone = req[r].alone /\ w.event = req[r].event
        /\ w.role = req[r].role /\ w.scope = req[r].scope
    BY <1>1, <1>3 DEF RequestRecords, Pcs
  <2>2. req' = [req EXCEPT ![r] = w]
    BY <1>9
  <2> HIDE DEF w
  <2>3. req'[r] = w
    BY <2>2 DEF AdminInv, TypeOK
  <2>4. Agrees(r)'
    BY <1>1, <1>2, <1>3, <2>1, <2>3 DEF Agrees, OfUsers
  <2>5. req[r].alone => Alone(r)'
    BY <1>1, <1>2, <1>3, <1>4, <1>7, <2>1, <2>3
       DEF Alone, Agrees, HasRole, NamesRole
  <2>6. r \in On(s)' /\ req'[r].pc = "log" /\ WritesRole(r)' = WritesRole(r)
    BY <1>1, <1>2, <2>1, <2>3 DEF On, InFlight, WritesRole, NamesRole
  <2>7. ASSUME req[r].alone
        PROVE  UserOK(s)'
    <3>1. excuses[s] = {} /\ ~WritesRole(r) => HasRole(s, told[s].role)
      BY <1>7, <2>7 DEF UserOK
    <3> QED BY <1>2, <1>7, <1>9, <2>6, <2>7, <3>1 DEF UserOK, OneRole, HasRole
  <2> QED BY <1>1, <1>2, <1>5, <1>6, <1>9, <2>1, <2>2, <2>4, <2>5, <2>7, GoesOn
<1> QED BY <1>2, <1>8, <1>9 DEF Then

\* The user is deleted: no group and no tenant, as the event will tell.
LEMMA DeleteKeeps ==
    ASSUME NEW r \in Requests, AdminInv, Delete(r)
    PROVE  AdminInv'
<1>1. PICK s : s = req[r].subject
  OBVIOUS
<1>2. /\ req[r].pc = "delete" /\ InFlight(r)
      /\ pool' = pool \ {s}
      /\ groups' = [groups EXCEPT ![s] = {}]
      /\ scope' = [scope EXCEPT ![s] = None]
      /\ Then(r, [req[r] EXCEPT !.pc = "log"])
      /\ UNCHANGED <<tenant, told>>
  BY <1>1 DEF Delete, At, InFlight
<1>3. /\ req[r] \in RequestRecords /\ Agrees(r) /\ s \in Users
      /\ req[r].event = [role |-> None, scope |-> None]
  BY <1>1, <1>2, OnItsWay DEF Agrees, OfUsers
<1>4. /\ groups'[s] = {} /\ scope'[s] = None
      /\ \A u \in Users \ {s} : groups'[u] = groups[u] /\ scope'[u] = scope[u]
      /\ groups' \in [Users -> SUBSET Roles]
      /\ scope' \in [Users -> MaybeTenant]
  BY <1>2, <1>3 DEF AdminInv, TypeOK, MaybeTenant
<1>5. TablesOK' /\ OnlyOf(s)
  BY <1>2, <1>4 DEF AdminInv, TypeOK, TablesOK, OnlyOf
<1>6. s \notin Tenants
  BY <1>3, AdminAssumption
<1>7. OneRole(s)'
  BY <1>4 DEF OneRole
<1>8. CASE Goto(r, "failed") /\ Excuse(r)
  BY <1>1, <1>2, <1>3, <1>5, <1>6, <1>7, <1>8, Fails
<1>9. CASE req' = [req EXCEPT ![r] = [req[r] EXCEPT !.pc = "log"]]
           /\ UNCHANGED excuses
  <2> DEFINE w == [req[r] EXCEPT !.pc = "log"]
  <2>1. /\ w \in RequestRecords /\ w.pc = "log" /\ w.subject = s
        /\ w.alone = req[r].alone /\ w.event = req[r].event
        /\ w.role = req[r].role /\ w.scope = req[r].scope
    BY <1>1, <1>3 DEF RequestRecords, Pcs
  <2>2. req' = [req EXCEPT ![r] = w]
    BY <1>9
  <2> HIDE DEF w
  <2>3. req'[r] = w
    BY <2>2 DEF AdminInv, TypeOK
  <2>4. Agrees(r)'
    BY <1>1, <1>2, <1>3, <2>1, <2>3 DEF Agrees, OfUsers, MaybeTenant
  <2>5. Alone(r)'
    BY <1>1, <1>3, <1>4, <2>1, <2>3 DEF Alone, HasRole
  <2>6. r \in On(s)' /\ req'[r].pc = "log" /\ WritesRole(r)'
    BY <1>1, <1>3, <2>1, <2>3, AdminAssumption
       DEF On, InFlight, WritesRole, NamesRole
  <2>7. UserOK(s)'
    BY <1>7, <2>6 DEF UserOK
  <2> QED BY <1>1, <1>2, <1>5, <1>6, <1>9, <2>1, <2>2, <2>4, <2>5, <2>7, GoesOn
<1> QED BY <1>2, <1>8, <1>9 DEF Then

\* A request that ends well: one that ran alone may clear the excuses.
LEMMA Ends ==
    ASSUME NEW r \in Requests, NEW s, s = req[r].subject, AdminInv, InFlight(r),
           NEW clears \in BOOLEAN, clears => req[r].alone, Goto(r, "done"),
           excuses' = [excuses EXCEPT ![s] = IF clears THEN {} ELSE @],
           TablesOK', OnlyOf(s),
           req[r].alone /\ s \in Users => UserOK(s)',
           req[r].alone /\ s \in Tenants => TenantOK(s)'
    PROVE  AdminInv'
<1>1. req \in [Requests -> RequestRecords] /\ req[r] \in RequestRecords
  BY DEF AdminInv, TypeOK
<1> DEFINE w == [req[r] EXCEPT !.pc = "done"]
<1>2. /\ w \in RequestRecords /\ w.pc = "done" /\ w.subject = s
      /\ w.alone = req[r].alone
  BY <1>1 DEF RequestRecords, Pcs
<1>3. req' = [req EXCEPT ![r] = w]
  BY <1>1 DEF Goto
<1> HIDE DEF w
<1>4. req'[r] = w /\ \A q \in Requests \ {r} : req'[q] = req[q]
  BY <1>1, <1>3
<1>5. s \in Users \cup Tenants
  BY OnItsWay
<1>6. /\ ~req[r].alone => excuses'[s] = excuses[s]
      /\ \A v \in (Users \cup Tenants) \ {s} : excuses'[v] = excuses[v]
      /\ excuses' \in [Users \cup Tenants -> SUBSET {"overlap", "failure"}]
  BY <1>5 DEF AdminInv, TypeOK
<1>7. TypeOK'
  BY <1>1, <1>2, <1>3, <1>6 DEF TypeOK, TablesOK
<1>8. OwnStep(r)
  BY <1>2, <1>4, <1>6, OnItsWay DEF OwnStep
<1>9. ~InFlight(r)'
  BY <1>2, <1>4 DEF InFlight
<1> QED BY <1>7, <1>8, <1>9, OwnStepKeeps

\* The event is put, or lost: put, it tells of a user whose request was alone
\* the groups and the tenant the pool has.
LEMMA LogEventKeeps ==
    ASSUME NEW r \in Requests, AdminInv, LogEvent(r)
    PROVE  AdminInv'
<1>1. PICK s : s = req[r].subject
  OBVIOUS
<1> DEFINE told1 == [role  |-> Written(req[r].event.role, told[s].role),
                     scope |-> req[r].event.scope]
           clears == NamesRole(r) /\ req[r].alone
<1>2. /\ req[r].pc = "log" /\ InFlight(r) /\ Goto(r, "done")
      /\ \/ /\ told' = [told EXCEPT ![s] = told1]
            /\ excuses' = [excuses EXCEPT ![s] = IF clears THEN {} ELSE @]
         \/ Excuse(r) /\ UNCHANGED told
      /\ UNCHANGED <<pool, groups, scope, tenant>>
  BY <1>1 DEF LogEvent, At, InFlight, NamesRole
<1>3. /\ req[r] \in RequestRecords /\ Agrees(r) /\ s \in Users
      /\ req[r].event.scope \in MaybeTenant
      /\ req[r].event.role \in MaybeRole \cup {Keep}
      /\ told \in [Users -> [role : MaybeRole, scope : MaybeTenant]]
      /\ req[r].alone \in BOOLEAN
  BY <1>1, <1>2, OnItsWay DEF Agrees, OfUsers, RequestRecords, Events, AdminInv, TypeOK
<1>4. s \notin Tenants
  BY <1>3, AdminAssumption
<1>5. req[r].alone => /\ UserOK(s) /\ On(s) = {r}
                      /\ NamesRole(r) => HasRole(s, req[r].event.role)
                      /\ scope[s] = req[r].event.scope
  BY <1>1, <1>2, <1>3, OnItsWay DEF Alone
<1>6. CASE /\ told' = [told EXCEPT ![s] = told1]
           /\ excuses' = [excuses EXCEPT ![s] = IF clears THEN {} ELSE @]
  <2>1. told1 \in [role : MaybeRole, scope : MaybeTenant]
    BY <1>3 DEF Written
  <2>2. /\ told1.role = IF NamesRole(r) THEN req[r].event.role ELSE told[s].role
        /\ told1.scope = req[r].event.scope
    BY DEF Written, NamesRole
  <2> HIDE DEF told1
  <2>3. /\ told'[s] = told1
        /\ \A u \in Users \ {s} : told'[u] = told[u]
        /\ told' \in [Users -> [role : MaybeRole, scope : MaybeTenant]]
    BY <1>3, <1>6, <2>1
  <2>4. TablesOK' /\ OnlyOf(s)
    BY <1>2, <2>3 DEF AdminInv, TypeOK, TablesOK, OnlyOf
  <2>5. excuses'[s] = IF clears THEN {} ELSE excuses[s]
    BY <1>3, <1>6 DEF AdminInv, TypeOK
  <2>6. ASSUME req[r].alone
        PROVE  UserOK(s)'
    <3>1. UserOK(s) /\ On(s) = {r} /\ scope'[s] = told'[s].scope
      BY <1>2, <1>5, <2>2, <2>3, <2>6
    <3>2. CASE NamesRole(r)
      <4>1. groups'[s] = {told'[s].role} \ {None}
        BY <1>2, <1>5, <2>2, <2>3, <2>6, <3>2 DEF HasRole
      <4>2. OneRole(s)'
        BY <4>1 DEF OneRole
      <4> QED BY <3>1, <4>1, <4>2 DEF UserOK, HasRole
    <3>3. CASE ~NamesRole(r)
      <4>1. excuses'[s] = excuses[s]
        BY <2>5, <3>3
      <4>2. ~WritesRole(r)
        BY <1>2, <3>3 DEF WritesRole
      <4>3. excuses[s] = {} => groups'[s] = {told'[s].role} \ {None}
        BY <1>2, <2>2, <2>3, <3>1, <3>3, <4>2 DEF UserOK, HasRole
      <4> QED BY <1>2, <3>1, <4>1, <4>3 DEF UserOK, OneRole, HasRole
    <3> QED BY <3>2, <3>3
  <2>7. clears \in BOOLEAN /\ (clears => req[r].alone)
    BY <1>3 DEF NamesRole
  <2> HIDE DEF clears
  <2> QED BY <1>1, <1>2, <1>4, <1>6, <2>4, <2>6, <2>7, Ends
<1>7. CASE Excuse(r) /\ UNCHANGED told
  <2>1. TablesOK' /\ OnlyOf(s)
    BY <1>2, <1>7 DEF AdminInv, TypeOK, TablesOK, OnlyOf
  <2>2. req[r].alone /\ "overlap" \notin excuses[s] => OneRole(s)'
    BY <1>2, <1>5 DEF UserOK, OneRole
  <2> QED BY <1>1, <1>2, <1>4, <1>7, <2>1, <2>2, Fails
<1> QED BY <1>2, <1>6, <1>7

\* The put of a new tenant: its limits were checked.
LEMMA PutTenantKeeps ==
    ASSUME NEW r \in Requests, AdminInv, PutTenant(r)
    PROVE  AdminInv'
<1>1. PICK s : s = req[r].subject
  OBVIOUS
<1>2. /\ req[r].pc = "put" /\ InFlight(r)
      /\ tenant' = [tenant EXCEPT ![s] = req[r].row]
      /\ Then(r, [req[r] EXCEPT !.pc = "done"])
      /\ UNCHANGED <<pool, groups, scope, told>>
  BY <1>1 DEF PutTenant, At, InFlight
<1>3. /\ req[r] \in RequestRecords /\ s \in Tenants /\ req[r].row \in Rows
      /\ Ordered(req[r].row.day, req[r].row.month)
  BY <1>1, <1>2, OnItsWay DEF Agrees, RequestRecords
<1>4. /\ tenant'[s] = req[r].row
      /\ \A t \in Tenants \ {s} : tenant'[t] = tenant[t]
      /\ tenant' \in [Tenants -> Rows]
  BY <1>2, <1>3 DEF AdminInv, TypeOK
<1>5. TablesOK' /\ OnlyOf(s) /\ TenantOK(s)'
  BY <1>2, <1>3, <1>4 DEF AdminInv, TypeOK, TablesOK, OnlyOf, TenantOK
<1>6. s \notin Users
  BY <1>3, AdminAssumption
<1>7. CASE Goto(r, "failed") /\ Excuse(r)
  BY <1>1, <1>2, <1>5, <1>6, <1>7, Fails
<1>8. CASE req' = [req EXCEPT ![r] = [req[r] EXCEPT !.pc = "done"]]
           /\ UNCHANGED excuses
  <2> DEFINE w == [req[r] EXCEPT !.pc = "done"]
  <2>1. /\ w \in RequestRecords /\ w.pc = "done" /\ w.subject = s
        /\ w.alone = req[r].alone /\ req' = [req EXCEPT ![r] = w]
    BY <1>1, <1>3, <1>8 DEF RequestRecords, Pcs
  <2> HIDE DEF w
  <2> QED BY <1>1, <1>2, <1>5, <1>6, <1>8, <2>1, GoesOn
<1> QED BY <1>2, <1>7, <1>8 DEF Then

\* The update of a tenant: alone, it writes over the row it was checked with.
LEMMA WriteTenantKeeps ==
    ASSUME NEW r \in Requests, AdminInv, WriteTenant(r)
    PROVE  AdminInv'
<1>1. PICK s : s = req[r].subject
  OBVIOUS
<1> DEFINE b == req[r].body
           day1 == Written(b.day, tenant[s].day)
           month1 == Written(b.month, tenant[s].month)
<1>2. /\ req[r].pc = "update" /\ InFlight(r)
      /\ tenant' = [tenant EXCEPT ![s].day = Written(b.day, @),
                                  ![s].month = Written(b.month, @)]
      /\ \/ /\ Goto(r, "done")
            /\ excuses' = [excuses EXCEPT ![s] = IF req[r].alone THEN {} ELSE @]
         \/ Goto(r, "failed") /\ Excuse(r)
      /\ UNCHANGED <<pool, groups, scope, told>>
  BY <1>1 DEF WriteTenant, At, InFlight
<1>3. /\ req[r] \in RequestRecords /\ s \in Tenants /\ b \in Bodies
      /\ tenant \in [Tenants -> Rows] /\ tenant[s] \in Rows
      /\ req[r].alone \in BOOLEAN
  BY <1>1, <1>2, OnItsWay DEF Agrees, RequestRecords, AdminInv, TypeOK
<1>4. day1 \in MaybeLimit /\ month1 \in MaybeLimit
  BY <1>3 DEF Bodies, Rows, Written
<1>5. req[r].alone => Ordered(day1, month1)
  BY <1>1, <1>2, OnItsWay DEF Alone
<1>6. tenant'[s] = [tenant[s] EXCEPT !.day = day1, !.month = month1]
  BY <1>2, <1>3 DEF Rows
<1> HIDE DEF day1, month1
<1>7. tenant'[s] \in Rows /\ tenant'[s].day = day1 /\ tenant'[s].month = month1
  BY <1>3, <1>4, <1>6 DEF Rows
<1>8. /\ \A t \in Tenants \ {s} : tenant'[t] = tenant[t]
      /\ tenant' \in [Tenants -> Rows]
  <2>1. DOMAIN tenant' = Tenants /\ tenant' = [t \in Tenants |-> tenant'[t]]
        /\ \A t \in Tenants \ {s} : tenant'[t] = tenant[t]
    BY <1>2, <1>3
  <2> QED BY <1>3, <1>7, <2>1
<1>9. TablesOK' /\ OnlyOf(s)
  BY <1>2, <1>8 DEF AdminInv, TypeOK, TablesOK, OnlyOf
<1>10. req[r].alone => TenantOK(s)'
  BY <1>5, <1>7 DEF TenantOK
<1>11. s \notin Users
  BY <1>3, AdminAssumption
<1>12. CASE Goto(r, "failed") /\ Excuse(r)
  BY <1>1, <1>2, <1>9, <1>10, <1>11, <1>12, Fails
<1>13. CASE /\ Goto(r, "done")
            /\ excuses' = [excuses EXCEPT ![s] = IF req[r].alone THEN {} ELSE @]
  BY <1>1, <1>2, <1>3, <1>9, <1>10, <1>11, <1>13, Ends
<1> QED BY <1>2, <1>12, <1>13

-----------------------------------------------------------------------------
(***************************************************************************)
(* Theorems                                                                *)
(***************************************************************************)

\* Every step of every request keeps the invariant.
LEMMA StepKeeps ==
    ASSUME AdminInv, [Next]_vars
    PROVE  AdminInv'
<1>1. CASE Next
  <2>1. PICK r \in Requests : OfUser(r) \/ OfTenant(r) \/ Raise(r)
    BY <1>1 DEF Next
  <2>2. CASE OfUser(r)
    BY <2>2, ReceivedKeeps, UserNotFoundKeeps, ListGroupsKeeps, RemoveGroupKeeps,
       AddGroupKeeps, SetTenantKeeps, DeleteKeeps, LogEventKeeps DEF OfUser
  <2>3. CASE OfTenant(r)
    BY <2>3, ReceivedKeeps, PutTenantKeeps, WriteTenantKeeps DEF OfTenant
  <2>4. CASE Raise(r)
    BY <2>4, RaiseKeeps
  <2> QED BY <2>1, <2>2, <2>3, <2>4
<1>2. CASE UNCHANGED vars
  BY <1>2 DEF vars, AdminInv, TypeOK, RequestsOK, RequestOK, Agrees, Alone,
              AloneOK, UsersOK, UserOK, OneRole, HasRole, LimitsOrdered,
              InFlight, On, WritesRole, NamesRole
<1> QED BY <1>1, <1>2

\* The inductive invariant holds of every state the requests of super-admins
\* reach.
THEOREM AdminInvariant == Spec => []AdminInv
BY Initially, StepKeeps, PTL DEF Spec

\* update_tenant: the daily limit of a tenant exceeds its monthly limit only
\* when requests for that tenant overlapped since an update that ran alone;
\* a call that raises, at any point, does not do it.
THEOREM LimitsStayOrdered == Spec => []LimitsOrdered
<1>1. AdminInv => LimitsOrdered
  BY DEF AdminInv
<1> QED BY <1>1, AdminInvariant, PTL

\* replace_role and log_event: a user is in two role groups only after requests
\* for the user overlapped; and when nothing failed or overlapped since a role
\* change that ran alone, the events of the all-events view tell the groups
\* and the tenant of the user.
THEOREM TrailTellsThePool == Spec => []TrailTellsPool
<1>1. ASSUME AdminInv
      PROVE  TrailTellsPool
  <2> SUFFICES ASSUME NEW u \in Users
               PROVE  /\ "overlap" \notin excuses[u] => Cardinality(groups[u]) <= 1
                      /\ excuses[u] = {} /\ On(u) = {} =>
                           /\ groups[u] = {told[u].role} \ {None}
                           /\ scope[u] = told[u].scope
    BY DEF TrailTellsPool
  <2>1. UserOK(u)
    BY <1>1 DEF AdminInv, UsersOK
  <2>2. ASSUME OneRole(u)
        PROVE  Cardinality(groups[u]) <= 1
    <3>1. groups[u] = {} \/ \E x : groups[u] = {x}
      BY <2>2 DEF OneRole
    <3>2. Cardinality(groups[u]) \in {0, 1}
      BY <3>1, FS_EmptySet, FS_Singleton
    <3> QED BY <3>2
  <2> QED BY <2>1, <2>2 DEF UserOK, HasRole
<1> QED BY <1>1, AdminInvariant, PTL
=============================================================================
