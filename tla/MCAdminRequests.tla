-------------------------- MODULE MCAdminRequests --------------------------
(* One user and one tenant: all conflicts are about the same one.  Three   *)
(* requests: two that overlap, and one that repairs what they left.        *)
EXTENDS AdminRequests, TLC

CONSTANTS u1, t1, r1, r2, r3

const_Users == {u1}
const_Tenants == {t1}
const_Requests == {r1, r2, r3}
const_Limits == {1, 2}

Symmetry == Permutations(const_Requests)
==============================================================================
