---------------------------- MODULE AdminRequests ----------------------------
(***************************************************************************)
(* The requests of super-admins: approving users, changing their role and  *)
(* the tenant they administer, deleting them, and creating and changing    *)
(* tenants.  A user's groups and tenant are kept by Cognito, which changes *)
(* one of them per call, and tenants in a table whose base class reads     *)
(* before it writes, so requests interleave between any two calls and stop *)
(* where a call raises.  A mutation ends with an audit event.              *)
(*                                                                         *)
(* Of a tenant the two write limits are kept; closing one is in ApiKeys.   *)
(***************************************************************************)
EXTENDS Naturals, FiniteSets

CONSTANTS
    Users,
    Tenants,
    Requests,
    Limits,       \* write limits an admin may set
    MaxFaults,    \* calls that raise
    None,         \* no tenant, no role, no limit
    Keep          \* not in the body

Roles == {"super-admin", "tenant-admin"}     \* ROLE_GROUPS

ASSUME AdminAssumption ==
    /\ Limits \subseteq Nat /\ MaxFaults \in Nat
    /\ Users \cap Tenants = {} /\ None # Keep
    /\ {None, Keep} \cap Tenants = {}
    /\ {None, Keep} \cap Limits = {}
    /\ {None, Keep} \cap Roles = {}

VARIABLES
    pool,      \* the users in the Cognito pool
    groups,    \* their role groups
    scope,     \* their custom:tenant_id
    tenant,    \* the tenants table
    req,       \* the requests
    told,      \* what the events of the __global__ partition say of a user
    excuses,   \* ghost: per user or tenant, what went wrong since the last
               \* change that ran alone to its end
    faults

vars == <<pool, groups, scope, tenant, req, told, excuses, faults>>

------------------------------------------------------------------------------
Row(day, month) == [there |-> TRUE, day |-> day, month |-> month]
NoRow == [there |-> FALSE, day |-> None, month |-> None]

MaybeTenant == Tenants \cup {None}
MaybeLimit == Limits \cup {None}

\* What a write sets, and what it leaves as it is.
Written(b, stored) == IF b = Keep THEN stored ELSE b

\* A request: its subject, what its next calls are to write, and the event.
Idle ==
    [pc |-> "idle", subject |-> None, alone |-> FALSE,
     role |-> None, scope |-> None, left |-> {},
     event |-> [role |-> Keep, scope |-> Keep],
     row |-> NoRow, body |-> [day |-> Keep, month |-> Keep]]

InFlight(r) == req[r].pc \notin {"idle", "done", "failed"}
At(r, pc) == req[r].pc = pc
On(s) == {r \in Requests : InFlight(r) /\ req[r].subject = s}

\* A request is received for a user or a tenant; it is alone until another
\* one for the same subject is.
Receive(r, w) ==
    /\ req' = [q \in Requests |->
                  CASE q = r               -> [w EXCEPT !.alone = (On(w.subject) = {})]
                    [] q \in On(w.subject) -> [req[q] EXCEPT !.alone = FALSE]
                    [] OTHER               -> req[q]]
    /\ excuses' = [excuses EXCEPT ![w.subject] =
                      IF On(w.subject) = {} THEN @ ELSE @ \cup {"overlap"}]

Goto(r, pc) == req' = [req EXCEPT ![r].pc = pc]
Excuse(r) == excuses' = [excuses EXCEPT ![req[r].subject] = @ \cup {"failure"}]
MayRaise == faults < MaxFaults /\ faults' = faults + 1

\* A call that changes something returns, or takes effect and raises.
Then(r, w) ==
    \/ req' = [req EXCEPT ![r] = w] /\ UNCHANGED <<excuses, faults>>
    \/ Goto(r, "failed") /\ Excuse(r) /\ MayRaise

\* A call raises and changes nothing.
Raise(r) ==
    /\ InFlight(r)
    /\ MayRaise
    /\ Goto(r, "failed")
    /\ Excuse(r)
    /\ UNCHANGED <<pool, groups, scope, tenant, told>>

Init ==
    /\ pool = Users
    /\ groups = [u \in Users |-> {}]
    /\ scope = [u \in Users |-> None]
    /\ tenant \in [Tenants -> {NoRow, Row(None, None)}]
    /\ req = [r \in Requests |-> Idle]
    /\ told = [u \in Users |-> [role |-> None, scope |-> None]]
    /\ excuses = [s \in Users \cup Tenants |-> {}]
    /\ faults = 0

------------------------------------------------------------------------------
(* Users *)

\* _validate_tenant_for_role and the tenant's row, read at the start.
Admissible(role, t) ==
    /\ role = "tenant-admin" => t # None
    /\ t # None => tenant[t].there

\* approve_user clears the tenant for SUPER_ADMIN, which is the value
\* "__admin__" of UserContext and not the name of the role.
SUPER_ADMIN == "__admin__"
ApprovedScope(role, t) == IF role = SUPER_ADMIN THEN None ELSE t
Approve(r, u, role, t) ==
    /\ At(r, "idle")
    /\ Admissible(role, t)
    /\ Receive(r, [Idle EXCEPT !.pc = "list", !.subject = u, !.role = role,
                               !.scope = ApprovedScope(role, t),
                               !.event = [role |-> role, scope |-> t]])
    /\ UNCHANGED <<pool, groups, scope, tenant, told, faults>>

\* change_role; without a role it revokes the user.
ChangeRole(r, u, role, t) ==
    LET kept == IF role = "tenant-admin" THEN t ELSE None IN
    /\ At(r, "idle")
    /\ Admissible(role, t)
    /\ Receive(r, [Idle EXCEPT !.pc = "list", !.subject = u, !.role = role,
                               !.scope = kept,
                               !.event = [role |-> role, scope |-> kept]])
    /\ UNCHANGED <<pool, groups, scope, tenant, told, faults>>

\* change_tenant touches the tenant only, and its event names no role.
ChangeTenant(r, u, t) ==
    /\ At(r, "idle")
    /\ t # None => tenant[t].there
    /\ Receive(r, [Idle EXCEPT !.pc = "scope", !.subject = u, !.scope = t,
                               !.event.scope = t])
    /\ UNCHANGED <<pool, groups, scope, tenant, told, faults>>

DeleteUser(r, u) ==
    /\ At(r, "idle")
    /\ Receive(r, [Idle EXCEPT !.pc = "delete", !.subject = u,
                               !.event = [role |-> None, scope |-> None]])
    /\ UNCHANGED <<pool, groups, scope, tenant, told, faults>>

\* A call about a user who is gone raises.
UserNotFound(r) ==
    /\ req[r].pc \in {"list", "remove", "scope", "delete"}
    /\ req[r].subject \notin pool
    /\ Goto(r, "failed")
    /\ UNCHANGED <<pool, groups, scope, tenant, told, excuses, faults>>

\* replace_role: the groups of the user, out of each role group, into the one.
NothingToRemove(gs) == {}
ToRemove(gs) == gs \cap Roles
ListGroups(r) ==
    /\ At(r, "list")
    /\ req[r].subject \in pool
    /\ req' = [req EXCEPT ![r].pc = "remove",
                          ![r].left = ToRemove(groups[req[r].subject])]
    /\ UNCHANGED <<pool, groups, scope, tenant, told, excuses, faults>>

RemoveGroup(r) ==
    /\ At(r, "remove")
    /\ req[r].subject \in pool
    /\ \E g \in req[r].left :
         /\ groups' = [groups EXCEPT ![req[r].subject] = @ \ {g}]
         /\ Then(r, [req[r] EXCEPT !.left = @ \ {g}])
    /\ UNCHANGED <<pool, scope, tenant, told>>

AddGroup(r) ==
    /\ At(r, "remove")
    /\ req[r].left = {} /\ req[r].role # None
    /\ req[r].subject \in pool
    /\ groups' = [groups EXCEPT ![req[r].subject] = @ \cup {req[r].role}]
    /\ Then(r, [req[r] EXCEPT !.pc = "scope"])
    /\ UNCHANGED <<pool, scope, tenant, told>>

NoGroup(r) ==
    /\ At(r, "remove")
    /\ req[r].left = {} /\ req[r].role = None
    /\ Goto(r, "scope")
    /\ UNCHANGED <<pool, groups, scope, tenant, told, excuses, faults>>

\* set_tenant sets the attribute or deletes it.
SetTenant(r) ==
    /\ At(r, "scope")
    /\ req[r].subject \in pool
    /\ scope' = [scope EXCEPT ![req[r].subject] = req[r].scope]
    /\ Then(r, [req[r] EXCEPT !.pc = "log"])
    /\ UNCHANGED <<pool, groups, tenant, told>>

Delete(r) ==
    LET u == req[r].subject IN
    /\ At(r, "delete")
    /\ u \in pool
    /\ pool' = pool \ {u}
    /\ groups' = [groups EXCEPT ![u] = {}]
    /\ scope' = [scope EXCEPT ![u] = None]
    /\ Then(r, [req[r] EXCEPT !.pc = "log"])
    /\ UNCHANGED <<tenant, told>>

\* log_event: into the tenant's partition, then into __global__, which alone
\* shows the events about every user.  A put that raises is logged and
\* swallowed, so the request succeeds without its event.
LogEvent(r) ==
    LET u == req[r].subject
        event == req[r].event
        whole == event.role # Keep IN
    /\ At(r, "log")
    /\ Goto(r, "done")
    /\ \/ /\ told' = [told EXCEPT ![u] =
                         [role |-> Written(event.role, told[u].role),
                          scope |-> event.scope]]
          /\ excuses' = [excuses EXCEPT ![u] =
                            IF whole /\ req[r].alone THEN {} ELSE @]
          /\ UNCHANGED faults
       \/ MayRaise /\ Excuse(r) /\ UNCHANGED told
    /\ UNCHANGED <<pool, groups, scope, tenant>>

------------------------------------------------------------------------------
(* Tenants *)

Ordered(day, month) == day # None /\ month # None => day <= month

\* create: refused when the row is there; the model checks the limits.
CreateTenant(r, t, day, month) ==
    /\ At(r, "idle")
    /\ Ordered(day, month)
    /\ ~tenant[t].there
    /\ Receive(r, [Idle EXCEPT !.pc = "put", !.subject = t,
                               !.row = Row(day, month)])
    /\ UNCHANGED <<pool, groups, scope, tenant, told, faults>>

\* The put that follows has no condition.
PutTenant(r) ==
    /\ At(r, "put")
    /\ tenant' = [tenant EXCEPT ![req[r].subject] = req[r].row]
    /\ Then(r, [req[r] EXCEPT !.pc = "done"])
    /\ UNCHANGED <<pool, groups, scope, told>>

\* update_tenant: a limit in the body is set, or cleared when it is null;
\* Keep is a limit the body leaves out.  Together with what the row holds
\* they must be in order.
Bodies == [day : MaybeLimit \cup {Keep}, month : MaybeLimit \cup {Keep}]
OfBody(b, stored) == IF b = Keep THEN None ELSE b
Effective(b, stored) == IF b = Keep THEN stored ELSE b
UpdateTenant(r, t, b) ==
    /\ At(r, "idle")
    /\ b # [day |-> Keep, month |-> Keep]
    /\ tenant[t].there
    /\ Ordered(Effective(b.day, tenant[t].day),
               Effective(b.month, tenant[t].month))
    /\ Receive(r, [Idle EXCEPT !.pc = "update", !.subject = t, !.body = b])
    /\ UNCHANGED <<pool, groups, scope, tenant, told, faults>>

\* The update writes what the body sets and clears, to the row as it is now.
WriteTenant(r) ==
    LET t == req[r].subject IN
    /\ At(r, "update")
    /\ tenant' = [tenant EXCEPT
                     ![t].day = Written(req[r].body.day, @),
                     ![t].month = Written(req[r].body.month, @)]
    /\ \/ /\ Goto(r, "done")
          /\ excuses' = [excuses EXCEPT ![t] = IF req[r].alone THEN {} ELSE @]
          /\ UNCHANGED faults
       \/ Goto(r, "failed") /\ Excuse(r) /\ MayRaise
    /\ UNCHANGED <<pool, groups, scope, told>>

------------------------------------------------------------------------------
OfUser(r) ==
    \/ \E u \in Users, role \in Roles, t \in MaybeTenant :
         Approve(r, u, role, t) \/ ChangeRole(r, u, role, t)
    \/ \E u \in Users, t \in MaybeTenant :
         ChangeRole(r, u, None, t) \/ ChangeTenant(r, u, t)
    \/ \E u \in Users : DeleteUser(r, u)
    \/ UserNotFound(r) \/ ListGroups(r) \/ RemoveGroup(r) \/ AddGroup(r)
    \/ NoGroup(r) \/ SetTenant(r) \/ Delete(r) \/ LogEvent(r)

OfTenant(r) ==
    \/ \E t \in Tenants, day, month \in MaybeLimit :
         CreateTenant(r, t, day, month)
    \/ \E t \in Tenants, b \in Bodies : UpdateTenant(r, t, b)
    \/ PutTenant(r) \/ WriteTenant(r)

Next == \E r \in Requests : OfUser(r) \/ OfTenant(r) \/ Raise(r)

Spec == Init /\ [][Next]_vars

------------------------------------------------------------------------------
(* Properties *)

\* replace_role: requests that fail at any call leave a user in at most one
\* role group, and only requests for the same user that overlap leave two;
\* a role change that then runs alone repairs that.  And when nothing failed
\* since such a change, the events of the all-events view, replayed, tell
\* the groups and the tenant of a user for whom no request is under way.
TrailTellsPool ==
    \A u \in Users :
        /\ "overlap" \notin excuses[u] => Cardinality(groups[u]) <= 1
        /\ excuses[u] = {} /\ On(u) = {} =>
             /\ groups[u] = {told[u].role} \ {None}
             /\ scope[u] = told[u].scope

\* update_tenant: "Daily write limit cannot exceed monthly write limit".  The
\* row is read, and written in another call: only requests that overlap leave
\* the limits out of order, and an update that then runs alone repairs them.
LimitsOrdered ==
    \A t \in Tenants :
        "overlap" \notin excuses[t] => Ordered(tenant[t].day, tenant[t].month)

------------------------------------------------------------------------------
(* What the docs say, and a run refutes *)

\* get_tenant_id: "super-admins always have none (they aren't scoped to any
\* single tenant)".
SuperAdminUnscoped ==
    \A u \in Users :
        excuses[u] = {} /\ On(u) = {} /\ "super-admin" \in groups[u]
            => scope[u] = None
==============================================================================
