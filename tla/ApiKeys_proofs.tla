---------------------------- MODULE ApiKeys_proofs ----------------------------
(***************************************************************************)
(* Proofs about ApiKeys, for any containers, keys, requests, lifetimes and *)
(* failures: a revocation takes effect in time, nobody else is refused,    *)
(* and a closed tenant has no active key.                                  *)
(*                                                                         *)
(* The invariant has a part for each:                                      *)
(*   - AgesOK bounds the age of a revocation by what is still known of the *)
(*     key from before it: the time a cache entry has lived, or the time a *)
(*     request has lasted;                                                 *)
(*   - FreshOK follows a key that nobody has deactivated through its move; *)
(*   - ClosingOK says that a closing tenant has every active key that it   *)
(*     saw among the rows it is yet to write.                              *)
(* They rest on what a request is about (WorkOK), on a key being its       *)
(* creator's alone until it is stored (KeysOK), and on containers that     *)
(* know the pepper, unless reading it failed (PepperOK).                   *)
(***************************************************************************)
EXTENDS ApiKeys, TLAPS

-----------------------------------------------------------------------------
(* The inductive invariant *)

KeySteps == AuthSteps \cup {"check", "store"}

\* What is known of a request by where it is.
WorkOK ==
    \A c \in Containers : LET w == work[c] IN
        /\ w.pc = "idle" => w = Idle
        /\ w.pc \in KeySteps =>
              w.key \in Keys /\ w.todo = {} /\ w.target = {} /\ ~w.closes
        /\ w.pc \notin KeySteps => w.key = NoKey
        /\ w.pc # "decide" => ~w.cached
        /\ w.pc \in {"new", "old"} => w.seen = "none"
        /\ w.pc \in {"reread", "put", "delete"} => w.seen # "none"
        /\ w.pc = "put" => w.copy # "none"
        /\ w.pc = "delete" => row[<<w.key, "hmac">>] # "none"
        /\ w.pc \in {"list", "close"} => w.todo = {}
        /\ w.pc # "write" => w.target = {}
        /\ \A r \in w.target : w.target = {r}
        /\ w.pc = "close" => w.closes

\* A key that is not in the table is known to its creator only.
Unknown(k) ==
    /\ revoked[k] = Never
    /\ \A c \in Containers :
          /\ work[c].key = k => work[c].pc \notin AuthSteps
          /\ \A s \in Schemes :
                /\ <<k, s>> \notin touches[c] \cup work[c].todo \cup work[c].target
                /\ cache[c][<<k, s>>].value = "none"

Creates(c, k) == work[c].pc \in {"check", "store"} /\ work[c].key = k

KeysOK ==
    \A k \in Keys :
        /\ ~Issued(k) => Unknown(k)
        /\ \A c \in Containers : Creates(c, k) => ~Issued(k)
        /\ \A c, d \in Containers : Creates(c, k) /\ Creates(d, k) => c = d
        /\ revoked[k] = Never <=> by[k] = Nobody

\* The request of a container is about the key.
Asks(c, k) == work[c].pc \in AuthSteps /\ work[c].key = k

\* What is still taken for active after a deactivation is no older than that.
AgesOK ==
    \A k \in Keys \ crossed : revoked[k] # Never =>
        /\ \A s \in Schemes : row[<<k, s>>] # "active"
        /\ \A c \in Containers :
              /\ Asks(c, k) /\ work[c].seen = "active" =>
                    revoked[k] <= (IF work[c].cached THEN TTL + 1 ELSE 0) + work[c].lasted
              /\ \A s \in Schemes : cache[c][<<k, s>>].value = "active" =>
                    revoked[k] + cache[c][<<k, s>>].left <= TTL + 1

\* Without failures keys are used under the new hash only, once they have it.
PepperOK ==
    faults = 0 => \A c \in Containers :
        /\ pepper[c] # "none"
        /\ work[c].pc \in AuthSteps => pepper[c] = "known"
        /\ work[c].pc = "decide" /\ work[c].seen # "none" => row[<<work[c].key, "hmac">>] # "none"
        /\ \A k \in Keys :
              /\ cache[c][<<k, "sha">>].value = "none" /\ <<k, "sha">> \notin touches[c]
              /\ cache[c][<<k, "hmac">>].value # "none" => row[<<k, "hmac">>] # "none"
              /\ <<k, "hmac">> \in touches[c] => row[<<k, "hmac">>] # "none"

\* ... and a container that deactivated a key has forgotten it.
OwnOK ==
    faults = 0 => \A k \in Keys \ crossed : \A c \in Containers : by[k] = c =>
        /\ \A s \in Schemes : cache[c][<<k, s>>].value # "active"
        /\ Asks(c, k) => work[c].seen # "active"

\* A key that nobody deactivated is found active, wherever it is.
Good == {"none", "active"}

FreshOK ==
    faults = 0 => \A k \in Keys : revoked[k] = Never =>
        /\ \A s \in Schemes : row[<<k, s>>] \in Good
        /\ \A c \in Containers :
              /\ \A s \in Schemes : cache[c][<<k, s>>].value \in Good
              /\ Asks(c, k) =>
                    /\ work[c].seen \in Good /\ work[c].copy \in Good
                    /\ work[c].pc = "old" /\ ~work[c].raced => row[<<k, "sha">>] # "none"
                    /\ work[c].pc = "decide" /\ ~work[c].raced => work[c].seen = "active"

\* Some request is yet to write a row of the key.
Pending(k) ==
    \E c \in Containers, s \in Schemes : <<k, s>> \in work[c].todo \cup work[c].target

IsActive(k) == \E s \in Schemes : row[<<k, s>>] = "active"

ClosingOK ==
    faults = 0 => \A k \in Keys \ (late \cup crossed) : IsActive(k) =>
        /\ \A c \in Containers : work[c].closes /\ work[c].pc # "list" => Pending(k)
        /\ ~tenant => Pending(k) \/ \E c \in Containers : work[c].pc = "list"

IInv ==
    /\ TypeOK /\ WorkOK /\ KeysOK /\ AgesOK
    /\ PepperOK /\ OwnOK /\ FreshOK /\ ClosingOK

-----------------------------------------------------------------------------
(* What a step does *)

\* No other request moves.
Alone(c) ==
    /\ work' \in [Containers -> Work]
    /\ \A d \in Containers \ {c} : work'[d] = work[d]

\* The request goes on, about the same key.
Forth(c) ==
    /\ Alone(c)
    /\ work'[c].key = work[c].key
    /\ work'[c].cached = work[c].cached
    /\ work'[c].raced = work[c].raced
    /\ work'[c].todo = work[c].todo
    /\ work'[c].target = work[c].target
    /\ work'[c].closes = work[c].closes
    /\ work'[c].lasted = work[c].lasted

\* A request that goes on moves its own container alone.
LEMMA Moved ==
    ASSUME TypeOK, NEW c \in Containers, NEW w \in Work, GoOn(c, w)
    PROVE  Alone(c) /\ work'[c] = w
  BY DEF TypeOK, GoOn, Alone

\* Only the place changes.
LEMMA GoneTo ==
    ASSUME TypeOK, NEW c \in Containers, NEW pc \in KeySteps \cup {"list"}, GoTo(c, pc)
    PROVE  Forth(c) /\ work'[c].pc = pc /\ work'[c].seen = work[c].seen
                    /\ work'[c].copy = work[c].copy
  <1> DEFINE w == [work[c] EXCEPT !.pc = pc]
  <1>1. work[c] \in Work
    BY DEF TypeOK
  <1>2. w \in Work
    BY <1>1 DEF Work, KeySteps, AuthSteps
  <1>3. /\ w.pc = pc /\ w.seen = work[c].seen /\ w.copy = work[c].copy
        /\ w.key = work[c].key /\ w.cached = work[c].cached /\ w.raced = work[c].raced
        /\ w.todo = work[c].todo /\ w.target = work[c].target
        /\ w.closes = work[c].closes /\ w.lasted = work[c].lasted
    BY <1>1 DEF Work
  <1>4. GoOn(c, w)
    BY DEF GoTo
  <1> HIDE DEF w
  <1> QED
    BY <1>2, <1>3, <1>4, Moved DEF Forth

\* A container without a request has nothing read and nothing to do.
LEMMA IdleType ==
    /\ Idle \in Work
    /\ Idle.pc = "idle" /\ Idle.key = NoKey /\ Idle.seen = "none" /\ Idle.copy = "none"
    /\ ~Idle.cached /\ ~Idle.raced /\ Idle.todo = {} /\ Idle.target = {}
    /\ ~Idle.closes /\ Idle.lasted = 0
  BY DEF Idle, Work, Value, Record, Rows

\* The request ends.
LEMMA Ended ==
    ASSUME TypeOK, NEW c \in Containers, End(c)
    PROVE  Alone(c) /\ work'[c] = Idle
  BY IdleType, Moved DEF End

\* The bound on failures is kept, and a failure is never forgotten.
LEMMA FaultCounts ==
    ASSUME TypeOK, Fault \/ UNCHANGED faults
    PROVE  faults' \in 0..MaxFaults /\ (faults' = 0 => faults = 0)
  BY ConstantsAssumption DEF TypeOK, Fault

\* After a failure there has been one.
LEMMA FaultShows == ASSUME TypeOK, Fault PROVE faults' # 0
  BY ConstantsAssumption DEF TypeOK, Fault

\* A lookup answers the row, or nothing after a failure (get_api_key_record).
LEMMA LookupFinds ==
    ASSUME TypeOK, NEW r \in Rows, NEW value, Lookup(r, value)
    PROVE  /\ value \in Value
           /\ value = row[r] \/ (value = "none" /\ faults' # 0)
           /\ faults' \in 0..MaxFaults /\ (faults' = 0 => faults = 0)
  BY FaultCounts, FaultShows DEF Lookup, TypeOK, Value

-----------------------------------------------------------------------------
(* Steps that change no key and no cache *)

\* A step of a container that leaves keys and caches alone, and what it knows
\* of a key is what it knew or, from the table, what is known.
Silent(c) ==
    /\ Alone(c)
    /\ UNCHANGED <<row, cache, touches, revoked, by>>
    /\ crossed \subseteq crossed'
    /\ faults' = 0 => faults = 0

\* Requests that are not about a key, or not yet.
LEMMA AdminKeeps ==
    ASSUME IInv, NEW c \in Containers, Silent(c), UNCHANGED pepper,
           work'[c].pc \notin AuthSteps
    PROVE  AgesOK' /\ PepperOK' /\ OwnOK' /\ FreshOK'
  <1>1. \A d \in Containers, k \in Keys : Asks(d, k)' => d # c /\ Asks(d, k) /\ work'[d] = work[d]
    BY DEF Silent, Alone, Asks
  <1>2. AgesOK'
    BY <1>1 DEF IInv, AgesOK, Silent
  <1>3. PepperOK'
    <2>1. SUFFICES ASSUME faults = 0, NEW d \in Containers, faults' = 0
                   PROVE  /\ pepper[d] # "none"
                          /\ work'[d].pc \in AuthSteps => pepper[d] = "known"
                          /\ work'[d].pc = "decide" /\ work'[d].seen # "none" =>
                                row[<<work'[d].key, "hmac">>] # "none"
      BY DEF IInv, PepperOK, Silent
    <2>2. d # c => work'[d] = work[d]
      BY DEF Silent, Alone
    <2>3. d = c => work'[d].pc # "decide"
      BY DEF AuthSteps
    <2> QED
      BY <2>1, <2>2, <2>3 DEF IInv, PepperOK
  <1>4. OwnOK'
    BY <1>1 DEF IInv, OwnOK, Silent
  <1>5. FreshOK'
    BY <1>1 DEF IInv, FreshOK, Silent
  <1> QED
    BY <1>2, <1>3, <1>4, <1>5

\* A request that goes on about its key has found nothing that it did not
\* know, or that the table does not say.
LEMMA ForthAges ==
    ASSUME IInv, NEW c \in Containers, Silent(c), Forth(c), UNCHANGED crossed,
           work[c].pc \in AuthSteps,
           work'[c].seen = "active" =>
              \/ work[c].seen = "active"
              \/ \E s \in Schemes : row[<<work[c].key, s>>] = "active"
    PROVE  AgesOK'
  <1>1. SUFFICES ASSUME NEW k \in Keys \ crossed, revoked[k] # Never,
                        NEW d \in Containers, Asks(d, k)', work'[d].seen = "active"
                 PROVE  /\ Asks(d, k) /\ work[d].seen = "active"
                        /\ work'[d].cached = work[d].cached /\ work'[d].lasted = work[d].lasted
    BY DEF IInv, AgesOK, Silent
  <1>2. CASE d # c
    BY <1>1, <1>2 DEF Silent, Alone, Asks
  <1>3. CASE d = c
    BY <1>1, <1>3 DEF Forth, Asks, IInv, AgesOK
  <1> QED
    BY <1>2, <1>3

\* In the container that deactivated a key, a request with it finds no active row.
LEMMA ForthOwn ==
    ASSUME IInv, NEW c \in Containers, Silent(c), Forth(c), UNCHANGED crossed,
           work[c].pc \in AuthSteps,
           work'[c].seen = "active" =>
              \/ work[c].seen = "active"
              \/ \E s \in Schemes : row[<<work[c].key, s>>] = "active"
    PROVE  OwnOK'
  <1>1. SUFFICES ASSUME faults = 0, NEW k \in Keys \ crossed,
                        NEW d \in Containers, by[k] = d, Asks(d, k)'
                 PROVE  work'[d].seen # "active"
    BY DEF IInv, OwnOK, Silent
  <1>2. CASE d # c
    BY <1>1, <1>2 DEF Silent, Alone, Asks, IInv, OwnOK
  <1>3. CASE d = c
    <2>1. Asks(c, k) /\ work[c].seen # "active"
      BY <1>1, <1>3 DEF Forth, Asks, IInv, OwnOK
    <2>2. revoked[k] # Never
      BY <1>1, <1>3, ConstantsAssumption DEF IInv, KeysOK
    <2>3. \A s \in Schemes : row[<<k, s>>] # "active"
      BY <1>1, <2>2 DEF IInv, AgesOK
    <2> QED
      BY <1>1, <1>3, <2>1, <2>3 DEF Asks
  <1> QED
    BY <1>2, <1>3

\* What a request is about stays in the table, and nobody else's.
LEMMA ForthKeys ==
    ASSUME IInv, NEW c \in Containers, Silent(c), Forth(c),
           work[c].pc \in AuthSteps, work'[c].pc \in AuthSteps
    PROVE  KeysOK'
  <1>1. \A d \in Containers, k \in Keys : Creates(d, k)' => d # c /\ Creates(d, k)
    BY DEF Silent, Alone, Creates, AuthSteps
  <1>2. \A k \in Keys : Unknown(k) => Unknown(k)'
    BY DEF Forth, Silent, Alone, Unknown
  <1> QED
    BY <1>1, <1>2 DEF IInv, KeysOK, Issued, Silent

\* A request with a key does not disturb the closing of a tenant.
LEMMA ForthClosing ==
    ASSUME IInv, NEW c \in Containers, Forth(c), UNCHANGED <<tenant, row>>,
           late \subseteq late', crossed \subseteq crossed', faults' = 0 => faults = 0,
           work[c].pc \in AuthSteps, work'[c].pc \in AuthSteps
    PROVE  ClosingOK'
  <1>1. ~work[c].closes
    BY DEF IInv, WorkOK, KeySteps
  <1>2. \A k \in Keys : Pending(k) => Pending(k)'
    BY DEF Forth, Alone, Pending
  <1>3. \A d \in Containers : work[d].pc = "list" => work'[d].pc = "list"
    BY DEF Forth, Alone, AuthSteps
  <1>4. \A d \in Containers : work'[d].closes => d # c /\ work'[d] = work[d]
    BY <1>1 DEF Forth, Alone
  <1> QED
    BY <1>2, <1>3, <1>4 DEF IInv, ClosingOK, IsActive

-----------------------------------------------------------------------------
(* Looking a key up *)

\* The key is looked for under its new hash.
LEMMA LookupNewOK ==
    ASSUME IInv, NEW c \in Containers, LookupNew(c) PROVE IInv'
  <1>1. /\ UNCHANGED <<tenant, row, pepper, cache, touches, admin, revoked, by, crossed, late>>
        /\ work[c].pc = "new" /\ work[c] \in Work /\ TypeOK /\ work[c].key \in Keys
        /\ Key(c) = work[c].key /\ work[c].seen = "none"
    BY DEF LookupNew, At, IInv, TypeOK, WorkOK, KeySteps, AuthSteps, Key
  <1>2. PICK value \in Value :
          /\ Lookup(<<work[c].key, "hmac">>, value)
          /\ GoOn(c, [work[c] EXCEPT !.seen = value,
                                     !.pc = IF value = "none" THEN "old" ELSE "decide"])
    BY <1>1 DEF LookupNew
  <1> DEFINE pc == IF value = "none" THEN "old" ELSE "decide"
  <1>3. Forth(c) /\ work'[c].pc = pc /\ work'[c].seen = value /\ work'[c].copy = work[c].copy
    <2> DEFINE v == [work[c] EXCEPT !.seen = value, !.pc = pc]
    <2>1. v \in Work
      BY <1>1 DEF Work, AuthSteps
    <2>2. /\ v.pc = pc /\ v.seen = value /\ v.copy = work[c].copy
          /\ v.key = work[c].key /\ v.cached = work[c].cached /\ v.raced = work[c].raced
          /\ v.todo = work[c].todo /\ v.target = work[c].target
          /\ v.closes = work[c].closes /\ v.lasted = work[c].lasted
      BY <1>1 DEF Work
    <2>3. GoOn(c, v)
      BY <1>2
    <2> HIDE DEF v, pc
    <2> QED
      BY <1>1, <2>1, <2>2, <2>3, Moved DEF Forth
  <1>4. /\ value = row[<<work[c].key, "hmac">>] \/ (value = "none" /\ faults' # 0)
        /\ faults' \in 0..MaxFaults /\ (faults' = 0 => faults = 0)
    BY <1>1, <1>2, LookupFinds DEF Rows, Schemes
  <1>5. Silent(c) /\ pc \in AuthSteps
    BY <1>1, <1>3, <1>4 DEF Silent, Forth, AuthSteps
  <1>6. TypeOK'
    BY <1>1, <1>3, <1>4 DEF TypeOK, Forth, Alone
  <1>7. WorkOK'
    BY <1>1, <1>3 DEF IInv, WorkOK, KeySteps, AuthSteps, Forth, Alone
  <1>8. KeysOK' /\ ClosingOK'
    BY <1>1, <1>3, <1>5, <1>4, ForthKeys, ForthClosing DEF AuthSteps
  <1>9. AgesOK' /\ OwnOK'
    BY <1>1, <1>3, <1>4, <1>5, ForthAges, ForthOwn DEF AuthSteps, Schemes
  <1>10. PepperOK'
    BY <1>1, <1>3, <1>4 DEF IInv, PepperOK, AuthSteps, Forth, Alone
  <1>11. FreshOK'
    <2>1. SUFFICES ASSUME faults' = 0, NEW k \in Keys, revoked[k] = Never,
                          NEW d \in Containers, Asks(d, k)'
                   PROVE  /\ work'[d].seen \in Good /\ work'[d].copy \in Good
                          /\ work'[d].pc = "old" /\ ~work'[d].raced => row[<<k, "sha">>] # "none"
                          /\ work'[d].pc = "decide" /\ ~work'[d].raced => work'[d].seen = "active"
      BY <1>1, <1>4 DEF IInv, FreshOK
    <2>2. CASE d # c
      BY <1>1, <1>3, <1>4, <2>1, <2>2 DEF IInv, FreshOK, Asks, Forth, Alone
    <2>3. CASE d = c
      <3>1. Asks(c, k) /\ k = work[c].key
        BY <1>1, <1>3, <2>1, <2>3 DEF Asks, Forth, AuthSteps
      <3>2. Issued(k)
        BY <3>1 DEF IInv, KeysOK, Unknown, Asks
      <3> QED
        BY <1>1, <1>3, <1>4, <2>1, <2>3, <3>1, <3>2 DEF IInv, FreshOK, Good, Issued, Schemes
    <2> QED
      BY <2>2, <2>3
  <1> QED
    BY <1>6, <1>7, <1>8, <1>9, <1>10, <1>11 DEF IInv

\* ... then under the old one, whose row is to be moved.
LEMMA LookupOldOK ==
    ASSUME IInv, NEW c \in Containers, LookupOld(c) PROVE IInv'
  <1>1. /\ UNCHANGED <<tenant, row, pepper, cache, touches, admin, revoked, by, crossed, late>>
        /\ work[c].pc = "old" /\ work[c] \in Work /\ TypeOK /\ work[c].key \in Keys
        /\ Key(c) = work[c].key /\ work[c].seen = "none"
    BY DEF LookupOld, At, IInv, TypeOK, WorkOK, KeySteps, AuthSteps, Key
  <1>2. PICK value \in Value :
          /\ Lookup(<<work[c].key, "sha">>, value)
          /\ GoOn(c, [work[c] EXCEPT !.seen = value,
                        !.pc = IF value # "none" /\ pepper[c] = "known"
                               THEN "reread" ELSE "decide"])
    BY <1>1 DEF LookupOld
  <1> DEFINE pc == IF value # "none" /\ pepper[c] = "known" THEN "reread" ELSE "decide"
  <1>3. Forth(c) /\ work'[c].pc = pc /\ work'[c].seen = value /\ work'[c].copy = work[c].copy
    <2> DEFINE v == [work[c] EXCEPT !.seen = value, !.pc = pc]
    <2>1. v \in Work
      BY <1>1 DEF Work, AuthSteps
    <2>2. /\ v.pc = pc /\ v.seen = value /\ v.copy = work[c].copy
          /\ v.key = work[c].key /\ v.cached = work[c].cached /\ v.raced = work[c].raced
          /\ v.todo = work[c].todo /\ v.target = work[c].target
          /\ v.closes = work[c].closes /\ v.lasted = work[c].lasted
      BY <1>1 DEF Work
    <2>3. GoOn(c, v)
      BY <1>2
    <2> HIDE DEF v, pc
    <2> QED
      BY <1>1, <2>1, <2>2, <2>3, Moved DEF Forth
  <1>4. /\ value = row[<<work[c].key, "sha">>] \/ (value = "none" /\ faults' # 0)
        /\ faults' \in 0..MaxFaults /\ (faults' = 0 => faults = 0)
    BY <1>1, <1>2, LookupFinds DEF Rows, Schemes
  <1>5. Silent(c) /\ pc \in AuthSteps
    BY <1>1, <1>3, <1>4 DEF Silent, Forth, AuthSteps
  <1>6. TypeOK'
    BY <1>1, <1>3, <1>4 DEF TypeOK, Forth, Alone
  <1>7. WorkOK'
    BY <1>1, <1>3 DEF IInv, WorkOK, KeySteps, AuthSteps, Forth, Alone
  <1>8. KeysOK' /\ ClosingOK'
    BY <1>1, <1>3, <1>5, <1>4, ForthKeys, ForthClosing DEF AuthSteps
  <1>9. AgesOK' /\ OwnOK'
    BY <1>1, <1>3, <1>4, <1>5, ForthAges, ForthOwn DEF AuthSteps, Schemes
  <1>10. PepperOK'
    BY <1>1, <1>3, <1>4 DEF IInv, PepperOK, AuthSteps, Forth, Alone
  <1>11. FreshOK'
    <2>1. SUFFICES ASSUME faults' = 0, NEW k \in Keys, revoked[k] = Never,
                          NEW d \in Containers, Asks(d, k)'
                   PROVE  /\ work'[d].seen \in Good /\ work'[d].copy \in Good
                          /\ work'[d].pc = "old" /\ ~work'[d].raced => row[<<k, "sha">>] # "none"
                          /\ work'[d].pc = "decide" /\ ~work'[d].raced => work'[d].seen = "active"
      BY <1>1, <1>4 DEF IInv, FreshOK
    <2>2. CASE d # c
      BY <1>1, <1>3, <1>4, <2>1, <2>2 DEF IInv, FreshOK, Asks, Forth, Alone
    <2>3. CASE d = c
      <3>1. Asks(c, k) /\ k = work[c].key
        BY <1>1, <1>3, <2>1, <2>3 DEF Asks, Forth, AuthSteps
      <3>2. pepper[c] = "known"
        BY <1>1, <1>4, <2>1 DEF IInv, PepperOK, AuthSteps
      <3> QED
        BY <1>1, <1>3, <1>4, <2>1, <2>3, <3>1, <3>2 DEF IInv, FreshOK, Good, Schemes, Forth
    <2> QED
      BY <2>2, <2>3
  <1> QED
    BY <1>6, <1>7, <1>8, <1>9, <1>10, <1>11 DEF IInv

-----------------------------------------------------------------------------
(* Moving a key *)

\* The row to be moved is read again.
LEMMA RereadOK ==
    ASSUME IInv, NEW c \in Containers, Reread(c) PROVE IInv'
  <1>1. /\ UNCHANGED <<tenant, row, pepper, cache, touches, admin, revoked, by, crossed, late>>
        /\ work[c].pc = "reread" /\ work[c] \in Work /\ TypeOK /\ work[c].key \in Keys
        /\ Key(c) = work[c].key /\ work[c].seen # "none" /\ ~work[c].cached
    BY DEF Reread, At, IInv, TypeOK, WorkOK, KeySteps, AuthSteps, Key
  <1>2. PICK value \in Value :
          /\ Lookup(<<work[c].key, "sha">>, value)
          /\ GoOn(c, [work[c] EXCEPT !.copy = value,
                                     !.pc = IF value = "none" THEN "decide" ELSE "put"])
    BY <1>1 DEF Reread
  <1> DEFINE pc == IF value = "none" THEN "decide" ELSE "put"
  <1>3. Forth(c) /\ work'[c].pc = pc /\ work'[c].seen = work[c].seen /\ work'[c].copy = value
    <2> DEFINE v == [work[c] EXCEPT !.copy = value, !.pc = pc]
    <2>1. v \in Work
      BY <1>1 DEF Work, AuthSteps
    <2>2. /\ v.pc = pc /\ v.seen = work[c].seen /\ v.copy = value
          /\ v.key = work[c].key /\ v.cached = work[c].cached /\ v.raced = work[c].raced
          /\ v.todo = work[c].todo /\ v.target = work[c].target
          /\ v.closes = work[c].closes /\ v.lasted = work[c].lasted
      BY <1>1 DEF Work
    <2>3. GoOn(c, v)
      BY <1>2
    <2> HIDE DEF v, pc
    <2> QED
      BY <1>1, <2>1, <2>2, <2>3, Moved DEF Forth
  <1>4. /\ value = row[<<work[c].key, "sha">>] \/ (value = "none" /\ faults' # 0)
        /\ faults' \in 0..MaxFaults /\ (faults' = 0 => faults = 0)
    BY <1>1, <1>2, LookupFinds DEF Rows, Schemes
  <1>5. Silent(c) /\ pc \in AuthSteps
    BY <1>1, <1>3, <1>4 DEF Silent, Forth, AuthSteps
  <1>6. TypeOK'
    BY <1>1, <1>3, <1>4 DEF TypeOK, Forth, Alone
  <1>7. WorkOK'
    BY <1>1, <1>3 DEF IInv, WorkOK, KeySteps, AuthSteps, Forth, Alone
  <1>8. KeysOK' /\ ClosingOK'
    BY <1>1, <1>3, <1>5, <1>4, ForthKeys, ForthClosing DEF AuthSteps
  <1>9. AgesOK' /\ OwnOK'
    BY <1>1, <1>3, <1>4, <1>5, ForthAges, ForthOwn DEF AuthSteps, Schemes
  <1>10. Issued(work[c].key)
    BY <1>1 DEF IInv, KeysOK, Unknown, AuthSteps
  <1>11. PepperOK'
    BY <1>1, <1>3, <1>4, <1>10 DEF IInv, PepperOK, AuthSteps, Forth, Alone, Issued, Schemes
  <1>12. FreshOK'
    <2>1. SUFFICES ASSUME faults' = 0, NEW k \in Keys, revoked[k] = Never,
                          NEW d \in Containers, Asks(d, k)'
                   PROVE  /\ work'[d].seen \in Good /\ work'[d].copy \in Good
                          /\ work'[d].pc = "old" /\ ~work'[d].raced => row[<<k, "sha">>] # "none"
                          /\ work'[d].pc = "decide" /\ ~work'[d].raced => work'[d].seen = "active"
      BY <1>1, <1>4 DEF IInv, FreshOK
    <2>2. CASE d # c
      BY <1>1, <1>3, <1>4, <2>1, <2>2 DEF IInv, FreshOK, Asks, Forth, Alone
    <2>3. CASE d = c
      <3>1. Asks(c, k) /\ k = work[c].key
        BY <1>1, <1>3, <2>1, <2>3 DEF Asks, Forth, AuthSteps
      <3> QED
        BY <1>1, <1>3, <1>4, <2>1, <2>3, <3>1 DEF IInv, FreshOK, Good, Schemes
    <2> QED
      BY <2>2, <2>3
  <1> QED
    BY <1>6, <1>7, <1>8, <1>9, <1>11, <1>12 DEF IInv

\* The move of a row is given up after a failure.
LEMMA GiveUpMoveOK ==
    ASSUME IInv, NEW c \in Containers, GiveUpMove(c) PROVE IInv'
  <1>1. /\ UNCHANGED <<tenant, row, pepper, cache, touches, admin, revoked, by, crossed, late>>
        /\ work[c].pc \in {"put", "delete"} /\ TypeOK /\ work[c].key \in Keys
        /\ ~work[c].cached
    BY DEF GiveUpMove, At, IInv, WorkOK, KeySteps, AuthSteps
  <1>2. Forth(c) /\ work'[c].pc = "decide" /\ work'[c].seen = work[c].seen
                 /\ work'[c].copy = work[c].copy
    BY <1>1, GoneTo DEF GiveUpMove, KeySteps, AuthSteps
  <1>3. faults' \in 0..MaxFaults /\ faults' # 0
    BY <1>1, FaultCounts, FaultShows DEF GiveUpMove
  <1>4. Silent(c)
    BY <1>1, <1>2, <1>3 DEF Silent, Forth
  <1>5. TypeOK'
    BY <1>1, <1>2, <1>3 DEF TypeOK, Forth, Alone
  <1>6. WorkOK'
    BY <1>1, <1>2 DEF IInv, WorkOK, KeySteps, AuthSteps, Forth, Alone
  <1>7. KeysOK' /\ AgesOK'
    BY <1>1, <1>2, <1>4, ForthKeys, ForthAges DEF AuthSteps
  <1> QED
    BY <1>3, <1>5, <1>6, <1>7 DEF IInv, PepperOK, OwnOK, FreshOK, ClosingOK

\* The row is put under the new hash, with the state that was read.
LEMMA PutCopyOK ==
    ASSUME IInv, NEW c \in Containers, PutCopy(c) PROVE IInv'
  <1>0. /\ work[c].pc = "put" /\ TypeOK /\ work[c].key \in Keys
        /\ work[c].copy \in Value \ {"none"} /\ ~work[c].cached
    BY DEF PutCopy, At, IInv, TypeOK, Work, WorkOK, KeySteps, AuthSteps
  <1>j. PICK j \in Keys, copy \in Value \ {"none"} : j = work[c].key /\ copy = work[c].copy
    BY <1>0
  <1>1. /\ UNCHANGED <<tenant, pepper, cache, touches, faults, admin, revoked, by, late>>
        /\ work[c].pc = "put" /\ TypeOK /\ work[c].key = j /\ work[c].copy = copy
        /\ Key(c) = j /\ ~work[c].cached
    BY <1>0, <1>j DEF PutCopy, Key
  <1>2. Forth(c) /\ work'[c].pc = "delete" /\ work'[c].seen = work[c].seen
                 /\ work'[c].copy = copy
    BY <1>1, GoneTo DEF PutCopy, KeySteps, AuthSteps
  <1>3. /\ row' \in [Rows -> Value]
        /\ row'[<<j, "hmac">>] = copy
        /\ \A k \in Keys, s \in Schemes : k # j \/ s # "hmac" => row'[<<k, s>>] = row[<<k, s>>]
    <2>1. "hmac" \in Schemes /\ row' = [row EXCEPT ![<<j, "hmac">>] = copy]
      BY <1>1 DEF PutCopy, Schemes
    <2> QED
      BY <1>1, <2>1 DEF TypeOK, Rows
  <1>4. /\ crossed \subseteq crossed' /\ crossed' \subseteq Keys
        /\ copy = "active" /\ revoked[j] # Never => j \in crossed'
    BY <1>1 DEF PutCopy, TypeOK
  <1>5. Issued(j) /\ \A k \in Keys : Issued(k)' <=> Issued(k)
    <2>1. Issued(j)
      BY <1>1 DEF IInv, KeysOK, Unknown, AuthSteps
    <2>2. Issued(j)'
      BY <1>1, <1>3 DEF Issued, Schemes
    <2>3. \A k \in Keys \ {j} : Issued(k)' <=> Issued(k)
      BY <1>3 DEF Issued
    <2> QED
      BY <2>1, <2>2, <2>3
  <1>h. /\ row'[<<j, "hmac">>] # "none" /\ \A k \in Keys : row'[<<k, "sha">>] = row[<<k, "sha">>]
        /\ \A k \in Keys : row[<<k, "hmac">>] # "none" => row'[<<k, "hmac">>] # "none"
    BY <1>3 DEF Schemes
  <1>6. TypeOK'
    BY <1>1, <1>2, <1>3, <1>4 DEF TypeOK, Forth, Alone
  <1>7. WorkOK'
    BY <1>1, <1>2, <1>h DEF IInv, WorkOK, KeySteps, AuthSteps, Forth, Alone
  <1>8. KeysOK'
    <2>1. \A d \in Containers, k \in Keys : Creates(d, k)' => d # c /\ Creates(d, k)
      BY <1>2 DEF Creates, Forth, Alone
    <2>2. \A k \in Keys : Unknown(k) => Unknown(k)'
      BY <1>1, <1>2 DEF Unknown, Forth, Alone, AuthSteps
    <2> QED
      BY <1>1, <1>5, <2>1, <2>2 DEF IInv, KeysOK
  <1>9. \A d \in Containers, k \in Keys :
          Asks(d, k)' => /\ Asks(d, k)
                         /\ work'[d].seen = work[d].seen /\ work'[d].copy = work[d].copy
                         /\ work'[d].cached = work[d].cached /\ work'[d].lasted = work[d].lasted
    BY <1>1, <1>2 DEF Asks, Forth, Alone, AuthSteps
  <1>10. AgesOK'
    <2>1. \A k \in Keys \ crossed' : revoked[k] # Never =>
             \A s \in Schemes : row'[<<k, s>>] = "active" => row[<<k, s>>] = "active"
      BY <1>3, <1>4
    <2> QED
      BY <1>1, <1>4, <1>9, <2>1 DEF IInv, AgesOK
  <1>11. PepperOK'
    <2>1. \A d \in Containers : work'[d].pc = "decide" =>
             d # c /\ work'[d] = work[d] /\ work[d].key \in Keys
      BY <1>1, <1>2 DEF Forth, Alone, IInv, WorkOK, KeySteps, AuthSteps
    <2> QED
      BY <1>1, <1>2, <1>h, <2>1 DEF IInv, PepperOK, Forth, Alone, AuthSteps
  <1>12. OwnOK'
    BY <1>1, <1>4, <1>9 DEF IInv, OwnOK
  <1>13. FreshOK'
    <2>1. SUFFICES ASSUME faults = 0, NEW k \in Keys, revoked[k] = Never
                   PROVE  /\ \A s \in Schemes : row'[<<k, s>>] \in Good
                          /\ \A d \in Containers : Asks(d, k)' =>
                                /\ work'[d].seen \in Good /\ work'[d].copy \in Good
                                /\ work'[d].pc = "old" /\ ~work'[d].raced =>
                                         row'[<<k, "sha">>] # "none"
                                /\ work'[d].pc = "decide" /\ ~work'[d].raced =>
                                         work'[d].seen = "active"
      BY <1>1 DEF IInv, FreshOK
    <2>2. k = j => copy \in Good
      BY <1>1, <2>1 DEF IInv, FreshOK, Asks, AuthSteps
    <2>3. \A s \in Schemes : row'[<<k, s>>] \in Good
      BY <1>3, <2>1, <2>2 DEF IInv, FreshOK
    <2>4. row'[<<k, "sha">>] = row[<<k, "sha">>]
      BY <1>3 DEF Schemes
    <2>5. ASSUME NEW d \in Containers, Asks(d, k)'
          PROVE  /\ work'[d].seen \in Good /\ work'[d].copy \in Good
                 /\ work'[d].pc = "old" /\ ~work'[d].raced => row'[<<k, "sha">>] # "none"
                 /\ work'[d].pc = "decide" /\ ~work'[d].raced => work'[d].seen = "active"
      <3>1. /\ work'[d].seen \in Good /\ work'[d].copy \in Good
        BY <1>9, <2>1, <2>5 DEF IInv, FreshOK
      <3>2. work'[d].pc \in {"old", "decide"} => work'[d] = work[d]
        BY <1>2 DEF Forth, Alone
      <3> QED
        BY <1>9, <2>1, <2>4, <2>5, <3>1, <3>2 DEF IInv, FreshOK
    <2> QED
      BY <2>3, <2>5
  <1>14. ClosingOK'
    <2>1. SUFFICES ASSUME faults = 0, NEW k \in Keys \ (late \cup crossed'), IsActive(k)'
                   PROVE  IsActive(k)
      <3>1. \A k \in Keys : Pending(k) => Pending(k)'
        BY <1>2 DEF Forth, Alone, Pending
      <3>2. \A d \in Containers : work[d].pc = "list" => work'[d].pc = "list"
        BY <1>1, <1>2 DEF Forth, Alone
      <3>3. \A d \in Containers : work'[d].closes => d # c /\ work'[d] = work[d]
        BY <1>1, <1>2 DEF Forth, Alone, IInv, WorkOK, KeySteps, AuthSteps
      <3> QED
        BY <1>1, <1>4, <2>1, <3>1, <3>2, <3>3 DEF IInv, ClosingOK
    <2>2. CASE k # j
      BY <1>3, <2>1, <2>2 DEF IsActive
    <2>3. CASE k = j /\ revoked[k] = Never
      BY <1>5, <2>1, <2>3 DEF IInv, FreshOK, Good, Issued, IsActive
    <2>4. CASE k = j /\ revoked[k] # Never
      BY <1>3, <1>4, <2>1, <2>4 DEF IsActive
    <2> QED
      BY <2>2, <2>3, <2>4
  <1> QED
    BY <1>6, <1>7, <1>8, <1>10, <1>11, <1>12, <1>13, <1>14 DEF IInv

\* The row under the old hash is deleted once its copy is there.
LEMMA DeleteOldOK ==
    ASSUME IInv, NEW c \in Containers, DeleteOld(c) PROVE IInv'
  <1>0. /\ work[c].pc = "delete" /\ TypeOK /\ work[c].key \in Keys /\ ~work[c].cached
        /\ row[<<work[c].key, "hmac">>] # "none"
    BY DEF DeleteOld, At, IInv, TypeOK, Work, WorkOK, KeySteps, AuthSteps
  <1>j. PICK j \in Keys : j = work[c].key
    BY <1>0
  <1>1. /\ UNCHANGED <<tenant, pepper, touches, faults, admin, revoked, by, crossed, late>>
        /\ work[c].pc = "delete" /\ TypeOK /\ work[c].key = j /\ ~work[c].cached
        /\ row[<<j, "hmac">>] # "none"
    BY <1>0, <1>j DEF DeleteOld
  <1>2. /\ work' \in [Containers -> Work]
        /\ \A d \in Containers :
              /\ work'[d].pc = IF d = c THEN "decide" ELSE work[d].pc
              /\ work'[d].key = work[d].key /\ work'[d].seen = work[d].seen
              /\ work'[d].copy = work[d].copy /\ work'[d].cached = work[d].cached
              /\ work'[d].todo = work[d].todo /\ work'[d].target = work[d].target
              /\ work'[d].closes = work[d].closes /\ work'[d].lasted = work[d].lasted
              /\ (work[d].pc = "old" /\ work[d].key = j) \/ work'[d].raced = work[d].raced
              /\ work[d].pc = "old" /\ work[d].key = j => work'[d].raced
              /\ work[d].pc = "idle" => work'[d] = work[d]
    <2>1. work' = [d \in Containers |->
             IF d = c THEN [work[c] EXCEPT !.pc = "decide"]
             ELSE IF work[d].pc = "old" /\ work[d].key = j THEN [work[d] EXCEPT !.raced = TRUE]
             ELSE work[d]]
      BY <1>1 DEF DeleteOld, At, Key
    <2>2. SUFFICES ASSUME NEW d \in Containers
                   PROVE  /\ work'[d] \in Work
                          /\ work'[d].pc = IF d = c THEN "decide" ELSE work[d].pc
                          /\ work'[d].key = work[d].key /\ work'[d].seen = work[d].seen
                          /\ work'[d].copy = work[d].copy /\ work'[d].cached = work[d].cached
                          /\ work'[d].todo = work[d].todo /\ work'[d].target = work[d].target
                          /\ work'[d].closes = work[d].closes /\ work'[d].lasted = work[d].lasted
                          /\ (work[d].pc = "old" /\ work[d].key = j) \/ work'[d].raced = work[d].raced
                          /\ work[d].pc = "old" /\ work[d].key = j => work'[d].raced
                          /\ work[d].pc = "idle" => work'[d] = work[d]
      BY <2>1
    <2>3. work[d] \in Work
      BY <1>1 DEF TypeOK
    <2>4. CASE d = c
      <3>1. work'[d] = [work[d] EXCEPT !.pc = "decide"]
        BY <2>1, <2>4
      <3> QED
        BY <1>1, <2>3, <2>4, <3>1 DEF Work, AuthSteps
    <2>5. CASE d # c /\ work[d].pc = "old" /\ work[d].key = j
      <3>1. work'[d] = [work[d] EXCEPT !.raced = TRUE]
        BY <2>1, <2>5
      <3> QED
        BY <2>3, <2>5, <3>1 DEF Work
    <2>6. CASE d # c /\ ~(work[d].pc = "old" /\ work[d].key = j)
      BY <2>1, <2>3, <2>6
    <2> QED
      BY <2>4, <2>5, <2>6
  <1>3. /\ row' \in [Rows -> Value]
        /\ \A k \in Keys : row'[<<k, "hmac">>] = row[<<k, "hmac">>]
        /\ row'[<<j, "sha">>] = "none"
        /\ \A k \in Keys \ {j} : row'[<<k, "sha">>] = row[<<k, "sha">>]
    <2>1. row' = [row EXCEPT ![<<j, "sha">>] = "none"]
      BY <1>1 DEF DeleteOld, Key
    <2>2. /\ "none" \in Value /\ "sha" # "hmac"
          /\ \A k \in Keys : <<k, "hmac">> \in Rows /\ <<k, "sha">> \in Rows
      BY DEF Value, Rows, Schemes
    <2>3. row \in [Rows -> Value]
      BY <1>1 DEF TypeOK
    <2> QED
      BY <2>1, <2>2, <2>3
  <1>4. /\ cache' \in [Containers -> [Rows -> Entry]]
        /\ \A d \in Containers, k \in Keys, s \in Schemes :
              cache'[d][<<k, s>>] = cache[d][<<k, s>>] \/ cache'[d][<<k, s>>].value = "none"
    <2>1. NoEntry \in Entry /\ NoEntry.value = "none"
      BY ConstantsAssumption DEF NoEntry, Entry, Value
    <2>2. "sha" \in Schemes /\ cache' = [cache EXCEPT ![c][<<j, "sha">>] = NoEntry]
      BY <1>1 DEF DeleteOld, Schemes, Key
    <2>3. /\ cache' \in [Containers -> [Rows -> Entry]]
          /\ cache'[c][<<j, "sha">>] = NoEntry
          /\ \A d \in Containers, i \in Keys, t \in Schemes :
                d # c \/ i # j \/ t # "sha" => cache'[d][<<i, t>>] = cache[d][<<i, t>>]
      <3>1. PICK s \in Schemes, e \in Entry : s = "sha" /\ e = NoEntry
        BY <2>1, <2>2
      <3>2. cache' = [cache EXCEPT ![c][<<j, s>>] = e]
        BY <2>2, <3>1
      <3>3. /\ cache' \in [Containers -> [Rows -> Entry]]
            /\ cache'[c][<<j, s>>] = e
            /\ \A d \in Containers, i \in Keys, t \in Schemes :
                  d # c \/ i # j \/ t # s => cache'[d][<<i, t>>] = cache[d][<<i, t>>]
        BY <1>1, <3>2 DEF TypeOK, Rows
      <3> QED
        BY <3>1, <3>3
    <2> QED
      BY <2>1, <2>3
  <1>5. \A k \in Keys : Issued(k)' <=> Issued(k)
    BY <1>1, <1>3 DEF Issued, Schemes
  <1>6. TypeOK'
    BY <1>1, <1>2, <1>3, <1>4 DEF TypeOK
  <1>7. WorkOK'
    BY <1>1, <1>2, <1>3 DEF IInv, WorkOK, KeySteps, AuthSteps
  <1>8. KeysOK'
    <2>1. \A d \in Containers, k \in Keys : Creates(d, k)' => Creates(d, k)
      BY <1>2 DEF Creates
    <2>2. \A k \in Keys : Unknown(k) => Unknown(k)'
      <3>1. SUFFICES ASSUME NEW k \in Keys, Unknown(k), NEW d \in Containers
                     PROVE  /\ work'[d].key = k => work'[d].pc \notin AuthSteps
                            /\ \A s \in Schemes :
                                  /\ <<k, s>> \notin touches[d] \cup work'[d].todo \cup work'[d].target
                                  /\ cache'[d][<<k, s>>].value = "none"
        BY <1>1 DEF Unknown
      <3>2. k # j
        BY <1>1, <3>1 DEF Unknown, AuthSteps
      <3>3. work'[d].key = k => d # c
        BY <1>1, <1>2, <3>2
      <3>4. ASSUME NEW s \in Schemes PROVE cache'[d][<<k, s>>].value = "none"
        BY <1>4, <3>1 DEF Unknown
      <3>5. \A s \in Schemes : <<k, s>> \notin touches[d] \cup work'[d].todo \cup work'[d].target
        BY <1>2, <3>1 DEF Unknown
      <3> QED
        BY <1>2, <3>1, <3>3, <3>4, <3>5 DEF Unknown
    <2> QED
      BY <1>1, <1>5, <2>1, <2>2 DEF IInv, KeysOK
  <1>9. \A d \in Containers, k \in Keys : Asks(d, k)' => Asks(d, k)
    BY <1>1, <1>2 DEF Asks, AuthSteps
  <1>10. \A k \in Keys, s \in Schemes : row'[<<k, s>>] = row[<<k, s>>] \/ row'[<<k, s>>] = "none"
    BY <1>3 DEF Schemes
  <1>11. AgesOK'
    <2>1. SUFFICES ASSUME NEW k \in Keys \ crossed, revoked[k] # Never
                   PROVE  /\ \A s \in Schemes : row'[<<k, s>>] # "active"
                          /\ \A d \in Containers :
                                /\ Asks(d, k)' /\ work'[d].seen = "active" =>
                                      revoked[k] <= (IF work'[d].cached THEN TTL + 1 ELSE 0) + work'[d].lasted
                                /\ \A s \in Schemes : cache'[d][<<k, s>>].value = "active" =>
                                      revoked[k] + cache'[d][<<k, s>>].left <= TTL + 1
      BY <1>1 DEF AgesOK
    <2>2. \A s \in Schemes : row'[<<k, s>>] # "active"
      BY <1>10, <2>1 DEF IInv, AgesOK
    <2>3. ASSUME NEW d \in Containers, Asks(d, k)', work'[d].seen = "active"
          PROVE  revoked[k] <= (IF work'[d].cached THEN TTL + 1 ELSE 0) + work'[d].lasted
      <3>1. revoked[k] <= (IF work[d].cached THEN TTL + 1 ELSE 0) + work[d].lasted
        BY <1>2, <1>9, <2>1, <2>3 DEF IInv, AgesOK
      <3> QED
        BY <1>2, <3>1
    <2>4. ASSUME NEW d \in Containers, NEW s \in Schemes, cache'[d][<<k, s>>].value = "active"
          PROVE  revoked[k] + cache'[d][<<k, s>>].left <= TTL + 1
      BY <1>4, <2>1, <2>4 DEF IInv, AgesOK
    <2> QED
      BY <2>2, <2>3, <2>4
  <1>12. PepperOK'
    <2>1. SUFFICES ASSUME faults = 0, NEW d \in Containers
                   PROVE  /\ pepper[d] # "none"
                          /\ work'[d].pc \in AuthSteps => pepper[d] = "known"
                          /\ work'[d].pc = "decide" /\ work'[d].seen # "none" =>
                                row'[<<work'[d].key, "hmac">>] # "none"
                          /\ \A k \in Keys :
                                /\ cache'[d][<<k, "sha">>].value = "none"
                                         /\ <<k, "sha">> \notin touches[d]
                                /\ cache'[d][<<k, "hmac">>].value # "none" =>
                                         row'[<<k, "hmac">>] # "none"
                                /\ <<k, "hmac">> \in touches[d] => row'[<<k, "hmac">>] # "none"
      BY <1>1 DEF PepperOK
    <2>2. pepper[d] # "none" /\ (work'[d].pc \in AuthSteps => pepper[d] = "known")
      <3>1. pepper[d] # "none" /\ (work[d].pc \in AuthSteps => pepper[d] = "known")
        BY <2>1 DEF IInv, PepperOK
      <3>2. work'[d].pc \in AuthSteps => work[d].pc \in AuthSteps
        BY <1>1, <1>2 DEF AuthSteps
      <3> QED
        BY <3>1, <3>2
    <2>3. ASSUME work'[d].pc = "decide", work'[d].seen # "none"
          PROVE  row'[<<work'[d].key, "hmac">>] # "none"
      <3>1. CASE d = c
        BY <1>1, <1>2, <1>3, <3>1
      <3>2. CASE d # c
        <4>1. work[d].pc = "decide" /\ work[d].seen # "none" /\ work'[d].key = work[d].key
          BY <1>2, <2>3, <3>2
        <4>2. work[d].key \in Keys /\ row[<<work[d].key, "hmac">>] # "none"
          BY <2>1, <4>1 DEF IInv, PepperOK, WorkOK, KeySteps, AuthSteps
        <4> QED
          BY <1>3, <4>1, <4>2
      <3> QED
        BY <3>1, <3>2
    <2>4. ASSUME NEW k \in Keys
          PROVE  /\ cache'[d][<<k, "sha">>].value = "none" /\ <<k, "sha">> \notin touches[d]
                 /\ cache'[d][<<k, "hmac">>].value # "none" => row'[<<k, "hmac">>] # "none"
                 /\ <<k, "hmac">> \in touches[d] => row'[<<k, "hmac">>] # "none"
      <3>1. /\ cache[d][<<k, "sha">>].value = "none" /\ <<k, "sha">> \notin touches[d]
            /\ cache[d][<<k, "hmac">>].value # "none" => row[<<k, "hmac">>] # "none"
            /\ <<k, "hmac">> \in touches[d] => row[<<k, "hmac">>] # "none"
        BY <2>1 DEF IInv, PepperOK
      <3>2. \A s \in Schemes : cache'[d][<<k, s>>] = cache[d][<<k, s>>] \/ cache'[d][<<k, s>>].value = "none"
        BY <1>4
      <3> QED
        BY <1>3, <3>1, <3>2 DEF Schemes
    <2> QED
      BY <2>2, <2>3, <2>4
  <1>13. OwnOK'
    <2>1. SUFFICES ASSUME faults = 0, NEW k \in Keys \ crossed, NEW d \in Containers, by[k] = d
                   PROVE  /\ \A s \in Schemes : cache'[d][<<k, s>>].value # "active"
                          /\ Asks(d, k)' => work'[d].seen # "active"
      BY <1>1 DEF OwnOK
    <2>2. /\ \A s \in Schemes : cache[d][<<k, s>>].value # "active"
          /\ Asks(d, k) => work[d].seen # "active"
      BY <2>1 DEF IInv, OwnOK
    <2>3. ASSUME NEW s \in Schemes PROVE cache'[d][<<k, s>>].value # "active"
      BY <1>4, <2>2
    <2>4. Asks(d, k)' => work'[d].seen # "active"
      BY <1>2, <1>9, <2>2
    <2> QED
      BY <2>3, <2>4
  <1>14. FreshOK'
    <2>1. SUFFICES ASSUME faults = 0, NEW k \in Keys, revoked[k] = Never
                   PROVE  /\ \A s \in Schemes : row'[<<k, s>>] \in Good
                          /\ \A d \in Containers, s \in Schemes : cache'[d][<<k, s>>].value \in Good
                          /\ \A d \in Containers : Asks(d, k)' =>
                                /\ work'[d].seen \in Good /\ work'[d].copy \in Good
                                /\ work'[d].pc = "old" /\ ~work'[d].raced =>
                                         row'[<<k, "sha">>] # "none"
                                /\ work'[d].pc = "decide" /\ ~work'[d].raced =>
                                         work'[d].seen = "active"
      BY <1>1 DEF FreshOK
    <2>2. \A s \in Schemes : row'[<<k, s>>] \in Good
      BY <1>10, <2>1 DEF IInv, FreshOK, Good
    <2>3. \A d \in Containers, s \in Schemes : cache'[d][<<k, s>>].value \in Good
      BY <1>4, <2>1 DEF IInv, FreshOK, Good
    <2>4. ASSUME NEW d \in Containers, Asks(d, k)'
          PROVE  /\ work'[d].seen \in Good /\ work'[d].copy \in Good
                 /\ work'[d].pc = "old" /\ ~work'[d].raced => row'[<<k, "sha">>] # "none"
                 /\ work'[d].pc = "decide" /\ ~work'[d].raced => work'[d].seen = "active"
      <3>1. Asks(d, k) /\ work[d].seen \in Good /\ work[d].copy \in Good
        BY <1>9, <2>1, <2>4 DEF IInv, FreshOK
      <3>2. work'[d].pc = "old" /\ ~work'[d].raced => row'[<<k, "sha">>] # "none"
        BY <1>1, <1>2, <1>3, <2>1, <3>1 DEF IInv, FreshOK, Asks
      <3>3. ASSUME work'[d].pc = "decide", ~work'[d].raced PROVE work'[d].seen = "active"
        <4>1. CASE d = c
          <5>1. work[c].seen # "none"
            BY <1>1 DEF IInv, WorkOK
          <5> QED
            BY <1>2, <3>1, <4>1, <5>1 DEF Good
        <4>2. CASE d # c
          <5>1. work'[d].seen = work[d].seen /\ work[d].pc = "decide"
            BY <1>2, <3>3, <4>2
          <5>2. work'[d].raced = work[d].raced
            BY <1>2, <5>1
          <5>3. ~work[d].raced
            BY <3>3, <5>2
          <5> QED
            BY <2>1, <3>1, <5>1, <5>3 DEF IInv, FreshOK
        <4> QED
          BY <4>1, <4>2
      <3> QED
        BY <1>2, <3>1, <3>2, <3>3
    <2> QED
      BY <2>2, <2>3, <2>4
  <1>15. ClosingOK'
    <2>1. \A k \in Keys : Pending(k) => Pending(k)'
      BY <1>2 DEF Pending
    <2>2. \A d \in Containers : work[d].pc = "list" <=> work'[d].pc = "list"
      BY <1>1, <1>2
    <2>3. \A k \in Keys : IsActive(k)' => IsActive(k)
      BY <1>10 DEF IsActive
    <2> QED
      BY <1>1, <1>2, <2>1, <2>2, <2>3 DEF IInv, ClosingOK
  <1> QED
    BY <1>6, <1>7, <1>8, <1>11, <1>12, <1>13, <1>14, <1>15 DEF IInv


-----------------------------------------------------------------------------
(* The answer, and the thread that follows it *)

\* A request that is over has nothing left to write.
LEMMA EndClosing ==
    ASSUME IInv, NEW c \in Containers, Alone(c), work'[c] = Idle, UNCHANGED <<tenant, row>>,
           late \subseteq late', crossed \subseteq crossed', faults' = 0 => faults = 0,
           work[c].pc \in KeySteps
    PROVE  ClosingOK'
  <1>1. ~work[c].closes /\ work[c].todo = {} /\ work[c].target = {} /\ work[c].pc # "list"
    BY DEF IInv, WorkOK, KeySteps, AuthSteps
  <1>2. \A k \in Keys : Pending(k) => Pending(k)'
    BY <1>1 DEF Alone, Pending
  <1>3. \A d \in Containers : work[d].pc = "list" => work'[d].pc = "list"
    BY <1>1 DEF Alone
  <1>4. \A d \in Containers : work'[d].closes => d # c /\ work'[d] = work[d]
    BY IdleType DEF Alone
  <1> QED
    BY <1>2, <1>3, <1>4 DEF IInv, ClosingOK, IsActive

\* The request is answered, and the container caches what it found.
LEMMA DecideOK ==
    ASSUME IInv, NEW c \in Containers, Decide(c) PROVE IInv'
  <1>0. /\ work[c].pc = "decide" /\ TypeOK /\ work[c].key \in Keys /\ work[c].seen \in Value
        /\ work[c].lasted \in 0..1
    BY DEF Decide, At, IInv, TypeOK, Work, WorkOK, KeySteps, AuthSteps
  <1>j. PICK j \in Keys, seen \in Value, s \in Schemes :
           /\ j = work[c].key /\ seen = work[c].seen
           /\ s = IF pepper[c] = "known" THEN "hmac" ELSE "sha"
    BY <1>0 DEF Schemes
  <1>1. /\ UNCHANGED <<tenant, row, pepper, faults, admin, revoked, by, crossed, late>>
        /\ work[c].pc = "decide" /\ TypeOK /\ work[c].key = j /\ work[c].seen = seen
        /\ work[c].lasted \in 0..1 /\ Hash(pepper[c], Key(c)) = <<j, s>> /\ Asks(c, j)
    BY <1>0, <1>j DEF Decide, Key, Hash, Asks, AuthSteps
  <1>2. Alone(c) /\ work'[c] = Idle
    BY <1>1, Ended DEF Decide
  <1>3. /\ cache' \in [Containers -> [Rows -> Entry]]
        /\ \A d \in Containers, k \in Keys, t \in Schemes :
              \/ cache'[d][<<k, t>>] = cache[d][<<k, t>>]
              \/ /\ d = c /\ k = j /\ t = s /\ seen # "none" /\ ~work[c].cached
                 /\ cache'[d][<<k, t>>].value = seen /\ cache'[d][<<k, t>>].left = TTL
    <2>1. PICK e \in Entry : e = [value |-> seen, left |-> TTL]
      <3>1. TTL \in 0..TTL
        BY ConstantsAssumption
      <3>2. [value |-> seen, left |-> TTL] \in Entry
        BY <3>1 DEF Entry
      <3> QED
        BY <3>2
    <2>2. CASE cache' = cache
      BY <1>1, <2>2 DEF TypeOK
    <2>3. CASE cache' # cache
      <3>1. /\ cache' = [cache EXCEPT ![c][<<j, s>>] = e] /\ seen # "none" /\ ~work[c].cached
        BY <1>1, <2>1, <2>3 DEF Decide, Cached, AddToCache
      <3>2. /\ cache' \in [Containers -> [Rows -> Entry]]
            /\ cache'[c][<<j, s>>] = e
            /\ \A d \in Containers, k \in Keys, t \in Schemes :
                  d # c \/ k # j \/ t # s => cache'[d][<<k, t>>] = cache[d][<<k, t>>]
        BY <1>1, <3>1 DEF TypeOK, Rows
      <3>3. e.value = seen /\ e.left = TTL
        BY <2>1
      <3> QED
        BY <3>1, <3>2, <3>3
    <2> QED
      BY <2>2, <2>3
  <1>4. /\ touches' \in [Containers -> SUBSET Rows]
        /\ \A d \in Containers, r \in Rows :
              r \in touches'[d] => r \in touches[d] \/ (d = c /\ r = <<j, s>> /\ seen = "active")
    <2>1. touches' = IF seen = "active" THEN [touches EXCEPT ![c] = @ \cup {<<j, s>>}] ELSE touches
      BY <1>1 DEF Decide, Valid
    <2> QED
      BY <1>1, <2>1 DEF TypeOK, Rows
  <1>5. TypeOK'
    BY <1>1, <1>2, <1>3, <1>4 DEF TypeOK, Alone
  <1>6. WorkOK'
    BY <1>1, <1>2, IdleType DEF IInv, WorkOK, KeySteps, AuthSteps, Alone
  <1>7. \A d \in Containers, k \in Keys : Asks(d, k)' => d # c /\ Asks(d, k) /\ work'[d] = work[d]
    BY <1>2, IdleType DEF Alone, Asks, AuthSteps
  <1>8. KeysOK'
    <2>1. \A d \in Containers, k \in Keys : Creates(d, k)' => d # c /\ Creates(d, k)
      BY <1>2, IdleType DEF Alone, Creates
    <2>2. ASSUME NEW k \in Keys, Unknown(k) PROVE Unknown(k)'
      <3>1. k # j
        BY <1>1, <2>2 DEF Unknown, Asks
      <3>2. SUFFICES ASSUME NEW d \in Containers
                     PROVE  /\ work'[d].key = k => work'[d].pc \notin AuthSteps
                            /\ \A t \in Schemes :
                                  /\ <<k, t>> \notin touches'[d] \cup work'[d].todo \cup work'[d].target
                                  /\ cache'[d][<<k, t>>].value = "none"
        BY <1>1, <2>2 DEF Unknown
      <3>3. work'[d].key = k => work'[d].pc \notin AuthSteps
        BY <1>2, <2>2, IdleType DEF Alone, Unknown, AuthSteps
      <3>4. ASSUME NEW t \in Schemes
            PROVE  /\ <<k, t>> \notin work'[d].todo \cup work'[d].target
                   /\ <<k, t>> \notin touches'[d]
                   /\ cache'[d][<<k, t>>].value = "none"
        <4>1. <<k, t>> \notin work'[d].todo \cup work'[d].target
          BY <1>2, <2>2, <3>4, IdleType DEF Alone, Unknown
        <4>2. <<k, t>> \notin touches'[d]
          BY <1>4, <2>2, <3>1, <3>4 DEF Unknown, Rows
        <4>3. cache'[d][<<k, t>>].value = "none"
          BY <1>3, <2>2, <3>1, <3>4 DEF Unknown
        <4> QED
          BY <4>1, <4>2, <4>3
      <3> QED
        BY <3>3, <3>4
    <2> QED
      BY <1>1, <2>1, <2>2 DEF IInv, KeysOK, Issued
  <1>9. AgesOK'
    <2>1. SUFFICES ASSUME NEW k \in Keys \ crossed, revoked[k] # Never
                   PROVE  /\ \A t \in Schemes : row[<<k, t>>] # "active"
                          /\ \A d \in Containers :
                                /\ Asks(d, k)' /\ work'[d].seen = "active" =>
                                      revoked[k] <= (IF work'[d].cached THEN TTL + 1 ELSE 0) + work'[d].lasted
                                /\ \A t \in Schemes : cache'[d][<<k, t>>].value = "active" =>
                                      revoked[k] + cache'[d][<<k, t>>].left <= TTL + 1
      BY <1>1 DEF AgesOK
    <2>2. ASSUME NEW d \in Containers, NEW t \in Schemes, cache'[d][<<k, t>>].value = "active"
          PROVE  revoked[k] + cache'[d][<<k, t>>].left <= TTL + 1
      <3>1. CASE cache'[d][<<k, t>>] = cache[d][<<k, t>>]
        BY <2>1, <2>2, <3>1 DEF IInv, AgesOK
      <3>2. CASE cache'[d][<<k, t>>] # cache[d][<<k, t>>]
        <4>1. /\ k = j /\ seen = "active" /\ ~work[c].cached /\ cache'[d][<<k, t>>].left = TTL
          BY <1>3, <2>2, <3>2
        <4>2. revoked[k] <= 0 + work[c].lasted
          BY <1>1, <2>1, <4>1 DEF IInv, AgesOK
        <4>3. revoked[k] \in Nat
          BY <1>1, ConstantsAssumption DEF TypeOK, Ages, Never
        <4> QED
          BY <1>1, <4>1, <4>2, <4>3, ConstantsAssumption
      <3> QED
        BY <3>1, <3>2
    <2>3. ASSUME NEW d \in Containers, Asks(d, k)', work'[d].seen = "active"
          PROVE  revoked[k] <= (IF work'[d].cached THEN TTL + 1 ELSE 0) + work'[d].lasted
      BY <1>7, <2>1, <2>3 DEF IInv, AgesOK
    <2>4. \A t \in Schemes : row[<<k, t>>] # "active"
      BY <2>1 DEF IInv, AgesOK
    <2> QED
      BY <2>2, <2>3, <2>4
  <1>10. PepperOK'
    <2>1. SUFFICES ASSUME faults = 0, NEW d \in Containers
                   PROVE  /\ pepper[d] # "none"
                          /\ work'[d].pc \in AuthSteps => pepper[d] = "known"
                          /\ work'[d].pc = "decide" /\ work'[d].seen # "none" =>
                                row[<<work'[d].key, "hmac">>] # "none"
                          /\ \A k \in Keys :
                                /\ cache'[d][<<k, "sha">>].value = "none"
                                         /\ <<k, "sha">> \notin touches'[d]
                                /\ cache'[d][<<k, "hmac">>].value # "none" =>
                                         row[<<k, "hmac">>] # "none"
                                /\ <<k, "hmac">> \in touches'[d] => row[<<k, "hmac">>] # "none"
      BY <1>1 DEF PepperOK
    <2>2. /\ pepper[d] # "none" /\ (work'[d].pc \in AuthSteps => pepper[d] = "known")
          /\ work'[d].pc = "decide" /\ work'[d].seen # "none" =>
                                row[<<work'[d].key, "hmac">>] # "none"
      <3>1. /\ pepper[d] # "none" /\ (work[d].pc \in AuthSteps => pepper[d] = "known")
            /\ work[d].pc = "decide" /\ work[d].seen # "none" =>
                                row[<<work[d].key, "hmac">>] # "none"
        BY <2>1 DEF IInv, PepperOK
      <3>2. work'[d] = work[d] \/ work'[d].pc = "idle"
        BY <1>2, IdleType DEF Alone
      <3> QED
        BY <3>1, <3>2 DEF AuthSteps
    <2>3. s = "hmac" /\ (seen # "none" => row[<<j, "hmac">>] # "none")
      BY <1>1, <1>j, <2>1 DEF IInv, PepperOK, AuthSteps
    <2>4. ASSUME NEW k \in Keys
          PROVE  /\ cache'[d][<<k, "sha">>].value = "none" /\ <<k, "sha">> \notin touches'[d]
                 /\ cache'[d][<<k, "hmac">>].value # "none" => row[<<k, "hmac">>] # "none"
                 /\ <<k, "hmac">> \in touches'[d] => row[<<k, "hmac">>] # "none"
      <3>1. /\ cache[d][<<k, "sha">>].value = "none" /\ <<k, "sha">> \notin touches[d]
            /\ cache[d][<<k, "hmac">>].value # "none" => row[<<k, "hmac">>] # "none"
            /\ <<k, "hmac">> \in touches[d] => row[<<k, "hmac">>] # "none"
        BY <2>1 DEF IInv, PepperOK
      <3>2. "sha" \in Schemes /\ "hmac" \in Schemes
            /\ <<k, "sha">> \in Rows /\ <<k, "hmac">> \in Rows
        BY DEF Schemes, Rows
      <3>3. cache'[d][<<k, "sha">>] = cache[d][<<k, "sha">>] /\ <<k, "sha">> \notin touches'[d]
        BY <1>3, <1>4, <2>3, <3>1, <3>2
      <3>4. cache'[d][<<k, "hmac">>] = cache[d][<<k, "hmac">>] \/ (k = j /\ seen # "none")
        BY <1>3, <3>2
      <3>5. <<k, "hmac">> \in touches'[d] =>
               <<k, "hmac">> \in touches[d] \/ (k = j /\ seen # "none")
        BY <1>4, <3>2
      <3> QED
        BY <2>3, <3>1, <3>3, <3>4, <3>5
    <2> QED
      BY <2>2, <2>4
  <1>11. OwnOK'
    <2>1. SUFFICES ASSUME faults = 0, NEW k \in Keys \ crossed, NEW d \in Containers, by[k] = d
                   PROVE  /\ \A t \in Schemes : cache'[d][<<k, t>>].value # "active"
                          /\ Asks(d, k)' => work'[d].seen # "active"
      BY <1>1 DEF OwnOK
    <2>2. /\ \A t \in Schemes : cache[d][<<k, t>>].value # "active"
          /\ Asks(d, k) => work[d].seen # "active"
      BY <2>1 DEF IInv, OwnOK
    <2>3. ASSUME NEW t \in Schemes PROVE cache'[d][<<k, t>>].value # "active"
      BY <1>1, <1>3, <2>2
    <2>4. Asks(d, k)' => work'[d].seen # "active"
      BY <1>7, <2>2
    <2> QED
      BY <2>3, <2>4
  <1>12. FreshOK'
    <2>1. SUFFICES ASSUME faults = 0, NEW k \in Keys, revoked[k] = Never, NEW d \in Containers
                   PROVE  /\ \A t \in Schemes : cache'[d][<<k, t>>].value \in Good
                          /\ Asks(d, k)' =>
                                /\ work'[d].seen \in Good /\ work'[d].copy \in Good
                                /\ work'[d].pc = "old" /\ ~work'[d].raced =>
                                         row[<<k, "sha">>] # "none"
                                /\ work'[d].pc = "decide" /\ ~work'[d].raced =>
                                         work'[d].seen = "active"
      BY <1>1 DEF IInv, FreshOK
    <2>2. ASSUME NEW t \in Schemes PROVE cache'[d][<<k, t>>].value \in Good
      <3>1. cache[d][<<k, t>>].value \in Good /\ (k = j => seen \in Good)
        BY <1>1, <2>1 DEF IInv, FreshOK
      <3> QED
        BY <1>3, <3>1
    <2>3. Asks(d, k)' => /\ work'[d].seen \in Good /\ work'[d].copy \in Good
                         /\ work'[d].pc = "old" /\ ~work'[d].raced => row[<<k, "sha">>] # "none"
                         /\ work'[d].pc = "decide" /\ ~work'[d].raced => work'[d].seen = "active"
      BY <1>7, <2>1 DEF IInv, FreshOK
    <2> QED
      BY <2>2, <2>3
  <1>13. ClosingOK'
    BY <1>1, <1>2, EndClosing DEF KeySteps, AuthSteps
  <1> QED
    BY <1>5, <1>6, <1>8, <1>9, <1>10, <1>11, <1>12, <1>13 DEF IInv

-----------------------------------------------------------------------------
(* The beginning of a request *)

\* A container reads the pepper once, and without a failure it gets it.
LEMMA PepperRead ==
    ASSUME TypeOK, NEW c \in Containers, Pepper(c)
    PROVE  /\ pepper' \in [Containers -> {"unread", "known", "none"}]
           /\ \A d \in Containers \ {c} : pepper'[d] = pepper[d]
           /\ pepper[c] # "unread" => pepper'[c] = pepper[c]
           /\ faults' = 0 /\ pepper[c] # "none" => pepper'[c] = "known"
           /\ faults' \in 0..MaxFaults /\ (faults' = 0 => faults = 0)
  <1>1. CASE Fault
    <2>1. faults' # 0 /\ faults' \in 0..MaxFaults
      BY <1>1, FaultShows, FaultCounts
    <2> QED
      BY <1>1, <2>1 DEF Pepper, TypeOK
  <1>2. CASE ~Fault
    BY <1>2 DEF Pepper, TypeOK
  <1> QED
    BY <1>1, <1>2 DEF Pepper

\* A request that is not closing the tenant, and gives up no row.
LEMMA ClosingKept ==
    ASSUME IInv, NEW c \in Containers, Alone(c), UNCHANGED <<tenant, row>>,
           late \subseteq late', crossed \subseteq crossed', faults' = 0 => faults = 0,
           work[c].pc # "list", ~work'[c].closes,
           work[c].todo \cup work[c].target \subseteq work'[c].todo \cup work'[c].target
    PROVE  ClosingOK'
  <1>1. \A k \in Keys : Pending(k) => Pending(k)'
    BY DEF Alone, Pending
  <1>2. \A d \in Containers : work[d].pc = "list" => work'[d].pc = "list"
    BY DEF Alone
  <1>3. \A d \in Containers : work'[d].closes => d # c /\ work'[d] = work[d]
    BY DEF Alone
  <1> QED
    BY <1>1, <1>2, <1>3 DEF IInv, ClosingOK, IsActive

\* A request with a key begins.
LEMMA AuthenticateOK ==
    ASSUME IInv, NEW c \in Containers, NEW k \in Keys, Authenticate(c, k) PROVE IInv'
  <1>1. /\ UNCHANGED <<tenant, row, cache, touches, admin, revoked, by, crossed, late>>
        /\ work[c].pc = "idle" /\ work[c] = Idle /\ Issued(k) /\ TypeOK
    BY DEF Authenticate, At, IInv, WorkOK
  <1>2. /\ pepper' \in [Containers -> {"unread", "known", "none"}]
        /\ \A d \in Containers \ {c} : pepper'[d] = pepper[d]
        /\ pepper[c] # "unread" => pepper'[c] = pepper[c]
        /\ faults' = 0 /\ pepper[c] # "none" => pepper'[c] = "known"
        /\ faults' \in 0..MaxFaults /\ (faults' = 0 => faults = 0)
    BY <1>1, PepperRead DEF Authenticate
  <1>s. PICK s \in Schemes : s = IF pepper'[c] = "known" THEN "hmac" ELSE "sha"
    BY DEF Schemes
  <1>e. PICK e \in Entry : e = cache[c][<<k, s>>] /\ e.value \in Value /\ e.left \in 0..TTL
    BY <1>1 DEF TypeOK, Rows, Entry
  <1> DEFINE pc == IF e.value # "none" THEN "decide"
                   ELSE IF pepper'[c] = "known" THEN "new" ELSE "old"
  <1>p. pc \in {"decide", "new", "old"}
    OBVIOUS
  <1>3. /\ Alone(c) /\ work'[c].pc = pc /\ work'[c].key = k /\ work'[c].seen = e.value
        /\ work'[c].cached = (e.value # "none") /\ work'[c].copy = "none" /\ ~work'[c].raced
        /\ work'[c].todo = {} /\ work'[c].target = {} /\ ~work'[c].closes /\ work'[c].lasted = 0
    <2> DEFINE v == [Idle EXCEPT !.pc = pc, !.key = k, !.seen = e.value,
                                 !.cached = e.value # "none"]
    <2>1. v \in Work
      <3>1. pc \in AuthSteps /\ e.value \in Value /\ (e.value # "none") \in BOOLEAN
        BY <1>e, <1>p DEF AuthSteps
      <3> HIDE DEF pc
      <3> QED
        BY <3>1, IdleType DEF Work
    <2>2. /\ v.pc = pc /\ v.key = k /\ v.seen = e.value
          /\ v.cached = (e.value # "none") /\ v.copy = "none" /\ ~v.raced
          /\ v.todo = {} /\ v.target = {} /\ ~v.closes /\ v.lasted = 0
      BY DEF Idle
    <2>3. GoOn(c, v)
      BY <1>s, <1>e DEF Authenticate, Hash
    <2> HIDE DEF v, pc
    <2> QED
      BY <1>1, <2>1, <2>2, <2>3, Moved
  <1> HIDE DEF pc
  <1>4. Silent(c) /\ pc \in AuthSteps
    BY <1>1, <1>2, <1>3, <1>p DEF Silent, AuthSteps
  <1>5. TypeOK'
    BY <1>1, <1>2, <1>3 DEF TypeOK, Alone
  <1>6. WorkOK'
    <2>1. \A d \in Containers \ {c} : work'[d] = work[d]
      BY <1>3 DEF Alone
    <2>2. pc \in {"new", "old"} => e.value = "none"
      BY DEF pc
    <2>3. pc # "decide" => e.value = "none"
      BY DEF pc
    <2>4. pc \in KeySteps /\ pc \notin {"idle", "reread", "put", "delete", "list", "close", "write"}
      BY <1>p DEF KeySteps, AuthSteps
    <2>5. SUFFICES ASSUME NEW d \in Containers
                   PROVE  LET w == work'[d] IN
                     /\ w.pc = "idle" => w = Idle
                     /\ w.pc \in KeySteps =>
                           w.key \in Keys /\ w.todo = {} /\ w.target = {} /\ ~w.closes
                     /\ w.pc \notin KeySteps => w.key = NoKey
                     /\ w.pc # "decide" => ~w.cached
                     /\ w.pc \in {"new", "old"} => w.seen = "none"
                     /\ w.pc \in {"reread", "put", "delete"} => w.seen # "none"
                     /\ w.pc = "put" => w.copy # "none"
                     /\ w.pc = "delete" => row[<<w.key, "hmac">>] # "none"
                     /\ w.pc \in {"list", "close"} => w.todo = {}
                     /\ w.pc # "write" => w.target = {}
                     /\ \A r \in w.target : w.target = {r}
                     /\ w.pc = "close" => w.closes
      BY <1>1 DEF WorkOK
    <2>6. CASE d # c
      BY <2>1, <2>6 DEF IInv, WorkOK
    <2>7. CASE d = c
      BY <1>3, <2>2, <2>3, <2>4, <2>7
    <2> QED
      BY <2>6, <2>7
  <1>7. KeysOK'
    <2>1. \A d \in Containers, i \in Keys : Creates(d, i)' => d # c /\ Creates(d, i)
      BY <1>3, <1>p DEF Creates, Alone
    <2>2. ASSUME NEW i \in Keys, ~Issued(i) PROVE Unknown(i) /\ Unknown(i)'
      <3>1. Unknown(i) /\ i # k
        BY <1>1, <2>2 DEF IInv, KeysOK
      <3> QED
        BY <1>1, <1>3, <3>1 DEF Unknown, Alone
    <2> QED
      BY <1>1, <2>1, <2>2 DEF IInv, KeysOK, Issued
  <1>8. AgesOK'
    <2>1. SUFFICES ASSUME NEW i \in Keys \ crossed, revoked[i] # Never,
                          NEW d \in Containers, Asks(d, i)', work'[d].seen = "active"
                   PROVE  revoked[i] <= (IF work'[d].cached THEN TTL + 1 ELSE 0) + work'[d].lasted
      BY <1>1 DEF IInv, AgesOK
    <2>2. CASE d # c
      BY <1>3, <2>1, <2>2 DEF IInv, AgesOK, Asks, Alone
    <2>3. CASE d = c
      <3>1. i = k /\ e.value = "active" /\ work'[c].cached /\ work'[c].lasted = 0
        BY <1>3, <2>1, <2>3 DEF Asks
      <3>2. revoked[k] + e.left <= TTL + 1
        BY <1>e, <2>1, <3>1 DEF IInv, AgesOK
      <3>3. revoked[k] \in Nat
        BY <1>1, ConstantsAssumption DEF TypeOK, Ages, Never
      <3> QED
        BY <1>e, <2>3, <3>1, <3>2, <3>3, ConstantsAssumption
    <2> QED
      BY <2>2, <2>3
  <1>9. ASSUME faults' = 0
        PROVE  faults = 0 /\ pepper'[c] = "known" /\ s = "hmac" /\ pc \in {"new", "decide"}
    <2>1. faults = 0 /\ pepper[c] # "none"
      BY <1>2, <1>9 DEF IInv, PepperOK
    <2> QED
      BY <1>2, <1>9, <1>s, <2>1 DEF pc
  <1>10. PepperOK'
    <2>1. SUFFICES ASSUME faults' = 0, NEW d \in Containers
                   PROVE  /\ pepper'[d] # "none"
                          /\ work'[d].pc \in AuthSteps => pepper'[d] = "known"
                          /\ work'[d].pc = "decide" /\ work'[d].seen # "none" =>
                                row[<<work'[d].key, "hmac">>] # "none"
      BY <1>1, <1>2 DEF IInv, PepperOK
    <2>2. CASE d # c
      BY <1>2, <1>3, <2>1, <2>2 DEF IInv, PepperOK, Alone
    <2>3. CASE d = c
      <3>1. e.value # "none" => row[<<k, "hmac">>] # "none"
        BY <1>e, <1>9, <2>1 DEF IInv, PepperOK
      <3> QED
        BY <1>3, <1>9, <2>1, <2>3, <3>1
    <2> QED
      BY <2>2, <2>3
  <1>11. OwnOK'
    <2>1. SUFFICES ASSUME faults' = 0, NEW i \in Keys \ crossed,
                          NEW d \in Containers, by[i] = d, Asks(d, i)'
                   PROVE  work'[d].seen # "active"
      BY <1>1, <1>2 DEF IInv, OwnOK
    <2>2. CASE d # c
      BY <1>3, <1>9, <2>1, <2>2 DEF IInv, OwnOK, Asks, Alone
    <2>3. CASE d = c
      BY <1>3, <1>9, <1>e, <2>1, <2>3 DEF IInv, OwnOK, Asks
    <2> QED
      BY <2>2, <2>3
  <1>12. FreshOK'
    <2>1. SUFFICES ASSUME faults' = 0, NEW i \in Keys, revoked[i] = Never,
                          NEW d \in Containers, Asks(d, i)'
                   PROVE  /\ work'[d].seen \in Good /\ work'[d].copy \in Good
                          /\ work'[d].pc = "old" /\ ~work'[d].raced => row[<<i, "sha">>] # "none"
                          /\ work'[d].pc = "decide" /\ ~work'[d].raced => work'[d].seen = "active"
      BY <1>1, <1>2 DEF IInv, FreshOK
    <2>2. CASE d # c
      BY <1>3, <1>9, <2>1, <2>2 DEF IInv, FreshOK, Asks, Alone
    <2>3. CASE d = c
      <3>1. i = k /\ e.value \in Good
        BY <1>3, <1>9, <1>e, <2>1, <2>3 DEF IInv, FreshOK, Asks
      <3>2. pc = "decide" => e.value # "none"
        BY DEF pc
      <3> QED
        BY <1>3, <1>9, <2>1, <2>3, <3>1, <3>2 DEF Good
    <2> QED
      BY <2>2, <2>3
  <1>13. ClosingOK'
    BY <1>1, <1>2, <1>3, IdleType, ClosingKept
  <1> QED
    BY <1>5, <1>6, <1>7, <1>8, <1>10, <1>11, <1>12, <1>13 DEF IInv

-----------------------------------------------------------------------------
(* The threads *)

\* The time of last use is written, which leaves the state of a row alone.
LEMMA TouchOK ==
    ASSUME IInv, NEW c \in Containers, NEW r \in Rows, Touch(c, r) \/ TouchSkipped(c, r)
    PROVE  IInv'
  <1>1. /\ UNCHANGED <<tenant, pepper, cache, work, faults, admin, revoked, by, crossed, late>>
        /\ r \in touches[c] /\ TypeOK
    BY DEF IInv, Touch, TouchSkipped
  <1>2. /\ touches' \in [Containers -> SUBSET Rows]
        /\ \A d \in Containers : touches'[d] \subseteq touches[d]
    BY <1>1 DEF Touch, TouchSkipped, TypeOK
  <1>3. /\ row' \in [Rows -> Value]
        /\ \A i \in Rows : row'[i] = row[i] \/ (i = r /\ row[r] = "none" /\ row'[i] = "bare")
    BY <1>1 DEF Touch, TouchSkipped, TypeOK, Value, Record
  <1>4. PICK j \in Keys, t \in Schemes : r = <<j, t>>
    BY DEF Rows
  <1>5. \A k \in Keys, s \in Schemes : <<k, s>> \in Rows
    BY DEF Rows
  <1>6. /\ Issued(j)
        /\ \A k \in Keys : Issued(k)' <=> Issued(k)
    <2>1. Issued(j)
      BY <1>1, <1>4 DEF IInv, KeysOK, Unknown
    <2>2. \A k \in Keys, s \in Schemes : row[<<k, s>>] # "none" => row'[<<k, s>>] # "none"
      BY <1>3, <1>5
    <2>3. \A k \in Keys \ {j}, s \in Schemes : row'[<<k, s>>] = row[<<k, s>>]
      BY <1>3, <1>4, <1>5
    <2> QED
      BY <2>1, <2>2, <2>3 DEF Issued
  <1>7. ASSUME faults = 0 PROVE row' = row
    <2>1. row[r] # "none"
      BY <1>1, <1>4, <1>7 DEF IInv, PepperOK, Schemes
    <2> QED
      BY <1>1, <2>1 DEF Touch, TouchSkipped
  <1>8. TypeOK'
    BY <1>1, <1>2, <1>3 DEF TypeOK
  <1>9. WorkOK'
    <2>1. \A d \in Containers :
             work[d].pc = "delete" => row'[<<work[d].key, "hmac">>] # "none"
      <3>1. \A d \in Containers : work[d].pc = "delete" => <<work[d].key, "hmac">> \in Rows
        BY <1>5 DEF IInv, WorkOK, KeySteps, AuthSteps, Schemes
      <3> QED
        BY <1>3, <3>1 DEF IInv, WorkOK
    <2> QED
      BY <1>1, <2>1 DEF IInv, WorkOK
  <1>10. KeysOK'
    <2>1. \A k \in Keys : Unknown(k) => Unknown(k)'
      BY <1>1, <1>2 DEF Unknown
    <2>2. \A d \in Containers, k \in Keys : Creates(d, k)' <=> Creates(d, k)
      BY <1>1 DEF Creates
    <2> QED
      BY <1>1, <1>6, <2>1, <2>2 DEF IInv, KeysOK
  <1>11. AgesOK'
    <2>1. \A k \in Keys, s \in Schemes : row'[<<k, s>>] = "active" => row[<<k, s>>] = "active"
      BY <1>3, <1>5
    <2> QED
      BY <1>1, <2>1 DEF IInv, AgesOK, Asks
  <1>12. PepperOK'
    <2>1. SUFFICES ASSUME faults = 0, NEW d \in Containers, NEW k \in Keys
                   PROVE  /\ <<k, "sha">> \notin touches'[d]
                          /\ <<k, "hmac">> \in touches'[d] => row[<<k, "hmac">>] # "none"
      BY <1>1, <1>7 DEF IInv, PepperOK
    <2>2. /\ <<k, "sha">> \notin touches[d]
          /\ <<k, "hmac">> \in touches[d] => row[<<k, "hmac">>] # "none"
      BY <2>1 DEF IInv, PepperOK
    <2> QED
      BY <1>2, <2>2
  <1>13. OwnOK'
    <2>1. OwnOK
      BY DEF IInv
    <2>2. CASE faults = 0
      <3>1. row' = row
        BY <1>7, <2>2
      <3> QED
        BY <1>1, <2>1, <3>1 DEF OwnOK, Asks
    <2>3. CASE faults # 0
      BY <1>1, <2>3 DEF OwnOK
    <2> QED
      BY <2>2, <2>3
  <1>14. FreshOK'
    <2>1. FreshOK
      BY DEF IInv
    <2>2. CASE faults = 0
      <3>1. row' = row
        BY <1>7, <2>2
      <3> QED
        BY <1>1, <2>1, <3>1 DEF FreshOK, Asks
    <2>3. CASE faults # 0
      BY <1>1, <2>3 DEF FreshOK
    <2> QED
      BY <2>2, <2>3
  <1>15. ClosingOK'
    BY <1>1, <1>7 DEF IInv, ClosingOK, Asks, IsActive, Pending
  <1> QED
    BY <1>8, <1>9, <1>10, <1>11, <1>12, <1>13, <1>14, <1>15 DEF IInv

-----------------------------------------------------------------------------
(* Admins *)

\* An admin's request is about rows that are there, or about a key of its own.
LEMMA AdminKeys ==
    ASSUME IInv, NEW c \in Containers, Silent(c), work'[c].pc \notin AuthSteps,
           \A k \in Keys : ~Issued(k) =>
              \A s \in Schemes : <<k, s>> \notin work'[c].todo \cup work'[c].target,
           \A k \in Keys : Creates(c, k)' =>
              Creates(c, k) \/ (~Issued(k) /\ \A d \in Containers : Key(d) # k)
    PROVE  KeysOK'
  <1>1. \A d \in Containers, k \in Keys : d # c => (Creates(d, k)' <=> Creates(d, k))
    BY DEF Silent, Alone, Creates
  <1>2. \A k \in Keys : ~Issued(k) => Unknown(k)'
    BY DEF IInv, KeysOK, Silent, Alone, Unknown
  <1>3. \A k \in Keys : Issued(k)' <=> Issued(k)
    BY DEF Issued, Silent
  <1>4. \A d \in Containers, k \in Keys : Creates(d, k)' => ~Issued(k)
    BY <1>1 DEF IInv, KeysOK
  <1>5. \A k \in Keys, d, i \in Containers : Creates(d, k)' /\ Creates(i, k)' => d = i
    <2>1. SUFFICES ASSUME NEW k \in Keys, NEW d \in Containers, d # c,
                          Creates(d, k)', Creates(c, k)'
                   PROVE  FALSE
      BY <1>1 DEF IInv, KeysOK
    <2>2. Creates(d, k) /\ Key(d) = k
      BY <1>1, <2>1 DEF Creates, Key
    <2>3. Creates(c, k)
      BY <2>1, <2>2
    <2> QED
      BY <2>1, <2>2, <2>3 DEF IInv, KeysOK
  <1>6. \A k \in Keys : revoked'[k] = Never <=> by'[k] = Nobody
    BY DEF IInv, KeysOK, Silent
  <1> QED
    BY <1>2, <1>3, <1>4, <1>5, <1>6 DEF KeysOK

\* A container that takes up a request.
LEMMA BegunType ==
    ASSUME IInv, NEW c \in Containers, Begin(c)
    PROVE  work[c] = Idle /\ admin' \in 0..MaxAdmin /\ TypeOK
  <1>1. admin \in 0..MaxAdmin /\ admin < MaxAdmin /\ admin' = admin + 1
    BY DEF IInv, TypeOK, Begin
  <1>2. admin' \in 0..MaxAdmin
    BY <1>1, ConstantsAssumption
  <1> QED
    BY <1>2 DEF IInv, WorkOK, Begin, At

\* An admin begins to create a key.
LEMMA CreateOK ==
    ASSUME IInv, NEW c \in Containers, NEW k \in Keys, Create(c, k) PROVE IInv'
  <1>1. /\ UNCHANGED <<tenant, row, pepper, cache, touches, faults, revoked, by, crossed, late>>
        /\ work[c] = Idle /\ admin' \in 0..MaxAdmin /\ TypeOK
        /\ ~Issued(k) /\ \A d \in Containers : Key(d) # k
    BY BegunType DEF Create
  <1>2. /\ Alone(c) /\ work'[c].pc = "check" /\ work'[c].key = k /\ work'[c].seen = "none"
        /\ work'[c].todo = {} /\ work'[c].target = {} /\ ~work'[c].closes /\ ~work'[c].cached
    <2> DEFINE v == [Idle EXCEPT !.pc = "check", !.key = k]
    <2>1. v \in Work
      BY IdleType DEF Work
    <2>2. /\ v.pc = "check" /\ v.key = k /\ v.seen = "none"
          /\ v.todo = {} /\ v.target = {} /\ ~v.closes /\ ~v.cached
      BY DEF Idle
    <2>3. GoOn(c, v)
      BY DEF Create
    <2> HIDE DEF v
    <2> QED
      BY <1>1, <2>1, <2>2, <2>3, Moved
  <1>3. Silent(c) /\ work'[c].pc \notin AuthSteps
    BY <1>1, <1>2 DEF Silent, AuthSteps
  <1>4. TypeOK'
    BY <1>1, <1>2 DEF TypeOK, Alone
  <1>5. WorkOK'
    BY <1>1, <1>2 DEF IInv, WorkOK, KeySteps, AuthSteps, Alone
  <1>6. \A i \in Keys : Creates(c, i)' => i = k
    BY <1>2 DEF Creates
  <1>7. KeysOK'
    BY <1>1, <1>2, <1>3, <1>6, AdminKeys
  <1>8. AgesOK' /\ PepperOK' /\ OwnOK' /\ FreshOK'
    BY <1>1, <1>3, AdminKeeps
  <1>9. ClosingOK'
    BY <1>1, <1>2, IdleType, ClosingKept
  <1> QED
    BY <1>4, <1>5, <1>7, <1>8, <1>9 DEF IInv

\* The tenant's keys are listed for one of the same name.
LEMMA CheckNameOK ==
    ASSUME IInv, NEW c \in Containers, CheckName(c) PROVE IInv'
  <1>1. /\ UNCHANGED <<tenant, row, pepper, cache, touches, faults, admin, revoked, by, crossed, late>>
        /\ work[c].pc = "check" /\ TypeOK
        /\ work[c].todo = {} /\ work[c].target = {} /\ ~work[c].closes
        /\ ~work[c].cached /\ work[c].key \in Keys
    BY DEF CheckName, At, IInv, WorkOK, KeySteps
  <1>2. /\ Alone(c)
        /\ \/ work'[c] = Idle
           \/ Forth(c) /\ work'[c].pc = "store" /\ work'[c].seen = work[c].seen
                       /\ work'[c].copy = work[c].copy
    BY <1>1, Ended, GoneTo DEF CheckName, KeySteps, Forth
  <1>3. /\ work'[c].pc \notin AuthSteps /\ work'[c].todo = {} /\ work'[c].target = {}
        /\ ~work'[c].closes /\ Silent(c)
    BY <1>1, <1>2, IdleType DEF Silent, Forth, AuthSteps
  <1>4. TypeOK'
    BY <1>1, <1>2 DEF TypeOK, Alone
  <1>5. WorkOK'
    BY <1>1, <1>2, IdleType DEF IInv, WorkOK, KeySteps, AuthSteps, Alone, Forth
  <1>6. \A k \in Keys : Creates(c, k)' => Creates(c, k)
    BY <1>1, <1>2, IdleType DEF Creates, Forth
  <1>7. KeysOK'
    BY <1>3, <1>6, AdminKeys
  <1>8. AgesOK' /\ PepperOK' /\ OwnOK' /\ FreshOK'
    BY <1>1, <1>3, AdminKeeps
  <1>9. ClosingOK'
    BY <1>1, <1>2, <1>3, ClosingKept
  <1> QED
    BY <1>4, <1>5, <1>7, <1>8, <1>9 DEF IInv

\* An admin begins to deactivate a key.
LEMMA RevokeOK ==
    ASSUME IInv, NEW c \in Containers, NEW r \in Rows, Revoke(c, r) PROVE IInv'
  <1>1. /\ UNCHANGED <<tenant, row, pepper, cache, touches, faults, revoked, by, crossed, late>>
        /\ work[c] = Idle /\ admin' \in 0..MaxAdmin /\ TypeOK /\ row[r] # "none"
    BY BegunType DEF Revoke
  <1>2. /\ Alone(c) /\ work'[c].pc = "get" /\ work'[c].key = NoKey /\ work'[c].seen = "none"
        /\ work'[c].todo = {r} /\ work'[c].target = {} /\ ~work'[c].closes /\ ~work'[c].cached
    <2> DEFINE v == [Idle EXCEPT !.pc = "get", !.todo = {r}]
    <2>1. v \in Work
      BY IdleType DEF Work
    <2>2. /\ v.pc = "get" /\ v.key = NoKey /\ v.seen = "none"
          /\ v.todo = {r} /\ v.target = {} /\ ~v.closes /\ ~v.cached
      BY DEF Idle
    <2>3. GoOn(c, v)
      BY DEF Revoke
    <2> HIDE DEF v
    <2> QED
      BY <1>1, <2>1, <2>2, <2>3, Moved
  <1>3. Silent(c) /\ work'[c].pc \notin AuthSteps
    BY <1>1, <1>2 DEF Silent, AuthSteps
  <1>4. TypeOK'
    BY <1>1, <1>2 DEF TypeOK, Alone
  <1>5. WorkOK'
    BY <1>1, <1>2 DEF IInv, WorkOK, KeySteps, AuthSteps, Alone
  <1>6. KeysOK'
    BY <1>1, <1>2, <1>3, AdminKeys DEF Creates, Issued
  <1>7. AgesOK' /\ PepperOK' /\ OwnOK' /\ FreshOK'
    BY <1>1, <1>3, AdminKeeps
  <1>8. ClosingOK'
    BY <1>1, <1>2, IdleType, ClosingKept
  <1> QED
    BY <1>4, <1>5, <1>6, <1>7, <1>8 DEF IInv

\* The tenant is opened again, and its keys stay as they are.
LEMMA ReopenOK ==
    ASSUME IInv, NEW c \in Containers, Reopen(c) PROVE IInv'
  <1>1. /\ UNCHANGED <<row, pepper, cache, work, touches, faults, revoked, by, crossed, late>>
        /\ tenant' = TRUE /\ admin' \in 0..MaxAdmin /\ TypeOK
    BY BegunType DEF Reopen
  <1>2. TypeOK'
    BY <1>1 DEF TypeOK
  <1>3. WorkOK' /\ KeysOK' /\ AgesOK' /\ PepperOK'
    BY <1>1 DEF IInv, WorkOK, KeysOK, AgesOK, PepperOK, Unknown, Creates, Issued, Asks
  <1>4. OwnOK' /\ FreshOK' /\ ClosingOK'
    BY <1>1 DEF IInv, OwnOK, FreshOK, ClosingOK, Asks, IsActive, Pending
  <1> QED
    BY <1>2, <1>3, <1>4 DEF IInv

\* An admin begins to close the tenant, before its keys or after them.
LEMMA CloseTenantOK ==
    ASSUME IInv, NEW c \in Containers, CloseTenant(c) PROVE IInv'
  <1>1. /\ UNCHANGED <<row, pepper, cache, touches, faults, revoked, by, crossed, late>>
        /\ work[c] = Idle /\ admin' \in 0..MaxAdmin /\ TypeOK
    BY BegunType DEF CloseTenant
  <1>2. /\ Alone(c) /\ work'[c].pc = "list" /\ work'[c].key = NoKey /\ work'[c].seen = "none"
        /\ work'[c].todo = {} /\ work'[c].target = {} /\ ~work'[c].cached /\ tenant' \in BOOLEAN
    <2>1. CASE tenant' = FALSE /\ GoTo(c, "list")
      <3>1. Forth(c) /\ work'[c].pc = "list" /\ work'[c].seen = work[c].seen
        BY <1>1, <2>1, GoneTo
      <3> QED
        BY <1>1, <2>1, <3>1, IdleType DEF Forth
    <2>2. CASE GoOn(c, [Idle EXCEPT !.pc = "list", !.closes = TRUE]) /\ UNCHANGED tenant
      <3> DEFINE v == [Idle EXCEPT !.pc = "list", !.closes = TRUE]
      <3>1. v \in Work
        BY IdleType DEF Work
      <3>2. /\ v.pc = "list" /\ v.key = NoKey /\ v.seen = "none"
            /\ v.todo = {} /\ v.target = {} /\ ~v.cached
        BY DEF Idle
      <3>3. GoOn(c, v) /\ tenant' \in BOOLEAN
        BY <1>1, <2>2 DEF TypeOK
      <3> HIDE DEF v
      <3> QED
        BY <1>1, <3>1, <3>2, <3>3, Moved
    <2> QED
      BY <2>1, <2>2 DEF CloseTenant
  <1>3. Silent(c) /\ work'[c].pc \notin AuthSteps
    BY <1>1, <1>2 DEF Silent, AuthSteps
  <1>4. TypeOK'
    BY <1>1, <1>2 DEF TypeOK, Alone
  <1>5. WorkOK'
    BY <1>1, <1>2 DEF IInv, WorkOK, KeySteps, AuthSteps, Alone
  <1>6. KeysOK'
    BY <1>1, <1>2, <1>3, AdminKeys DEF Creates
  <1>7. AgesOK' /\ PepperOK' /\ OwnOK' /\ FreshOK'
    BY <1>1, <1>3, AdminKeeps
  <1>8. ClosingOK'
    <2>1. \A k \in Keys : Pending(k) => Pending(k)'
      BY <1>1, <1>2, IdleType DEF Alone, Pending
    <2>2. \A d \in Containers \ {c} : work'[d] = work[d]
      BY <1>2 DEF Alone
    <2> QED
      BY <1>1, <1>2, <2>1, <2>2 DEF IInv, ClosingOK, IsActive
  <1> QED
    BY <1>4, <1>5, <1>6, <1>7, <1>8 DEF IInv

\* The tenant is set inactive after its keys were.
LEMMA CloseAfterOK ==
    ASSUME IInv, NEW c \in Containers, CloseAfter(c) PROVE IInv'
  <1>1. /\ UNCHANGED <<row, pepper, cache, touches, faults, admin, revoked, by, crossed, late>>
        /\ work[c].pc = "close" /\ tenant' = FALSE /\ TypeOK
        /\ work[c].closes /\ work[c].todo = {} /\ work[c].target = {}
    BY DEF CloseAfter, At, IInv, WorkOK
  <1>2. Alone(c) /\ work'[c] = Idle
    BY <1>1, Ended DEF CloseAfter
  <1>3. Silent(c) /\ work'[c].pc \notin AuthSteps
    BY <1>1, <1>2, IdleType DEF Silent, AuthSteps
  <1>4. TypeOK'
    BY <1>1, <1>2 DEF TypeOK, Alone
  <1>5. WorkOK'
    BY <1>1, <1>2, IdleType DEF IInv, WorkOK, KeySteps, AuthSteps, Alone
  <1>6. KeysOK'
    BY <1>1, <1>2, <1>3, IdleType, AdminKeys DEF Creates
  <1>7. AgesOK' /\ PepperOK' /\ OwnOK' /\ FreshOK'
    BY <1>1, <1>3, AdminKeeps
  <1>8. ClosingOK'
    <2>1. \A k \in Keys : Pending(k) => Pending(k)'
      BY <1>1, <1>2, IdleType DEF Alone, Pending
    <2>2. \A d \in Containers : work'[d].closes => d # c /\ work'[d] = work[d]
      BY <1>2, IdleType DEF Alone
    <2>3. faults = 0 => \A k \in Keys \ (late \cup crossed) : IsActive(k) => Pending(k)
      BY <1>1 DEF IInv, ClosingOK
    <2> QED
      BY <1>1, <2>1, <2>2, <2>3 DEF ClosingOK, IsActive
  <1> QED
    BY <1>4, <1>5, <1>6, <1>7, <1>8 DEF IInv

\* The closing of a tenant ends with a failure.
LEMMA CloseFailsOK ==
    ASSUME IInv, NEW c \in Containers, CloseFails(c) PROVE IInv'
  <1>1. /\ UNCHANGED <<tenant, row, pepper, cache, touches, admin, revoked, by, crossed, late>>
        /\ work[c].pc \in {"list", "close"} /\ TypeOK
    BY DEF CloseFails, At, IInv
  <1>2. Alone(c) /\ work'[c] = Idle
    BY <1>1, Ended DEF CloseFails
  <1>3. faults' \in 0..MaxFaults /\ faults' # 0
    BY <1>1, FaultCounts, FaultShows DEF CloseFails
  <1>4. Silent(c) /\ work'[c].pc \notin AuthSteps
    BY <1>1, <1>2, <1>3, IdleType DEF Silent, AuthSteps
  <1>5. TypeOK'
    BY <1>1, <1>2, <1>3 DEF TypeOK, Alone
  <1>6. WorkOK'
    BY <1>1, <1>2, IdleType DEF IInv, WorkOK, KeySteps, AuthSteps, Alone
  <1>7. KeysOK'
    BY <1>1, <1>2, <1>4, IdleType, AdminKeys DEF Creates
  <1>8. AgesOK'
    BY <1>1, <1>4, AdminKeeps
  <1> QED
    BY <1>3, <1>5, <1>6, <1>7, <1>8 DEF IInv, PepperOK, OwnOK, FreshOK, ClosingOK

\* The row of a new key is put.
LEMMA StoreOK ==
    ASSUME IInv, NEW c \in Containers, Store(c) PROVE IInv'
  <1>0. /\ work[c].pc = "store" /\ TypeOK /\ work[c].key \in Keys
        /\ work[c].todo = {} /\ work[c].target = {} /\ ~work[c].closes
    BY DEF Store, At, IInv, WorkOK, KeySteps
  <1>j. PICK j \in Keys : j = work[c].key
    BY <1>0
  <1>1. /\ UNCHANGED <<tenant, cache, touches, admin, revoked, by, crossed>>
        /\ Creates(c, j) /\ ~Issued(j) /\ Unknown(j)
    BY <1>0, <1>j DEF Store, Creates, IInv, KeysOK
  <1>2. Alone(c) /\ work'[c] = Idle
    BY <1>0, Ended DEF Store
  <1>3. CASE Fault /\ UNCHANGED <<row, pepper, late>>
    <2>1. faults' \in 0..MaxFaults /\ faults' # 0
      BY <1>0, <1>3, FaultCounts, FaultShows
    <2>2. Silent(c) /\ work'[c].pc \notin AuthSteps
      BY <1>1, <1>2, <1>3, <2>1, IdleType DEF Silent, AuthSteps
    <2>3. TypeOK'
      BY <1>0, <1>1, <1>2, <1>3, <2>1 DEF TypeOK, Alone
    <2>4. WorkOK'
      BY <1>2, <1>3, IdleType DEF IInv, WorkOK, KeySteps, AuthSteps, Alone
    <2>5. KeysOK'
      BY <1>2, <2>2, IdleType, AdminKeys DEF Creates
    <2>6. AgesOK'
      BY <1>3, <2>2, AdminKeeps
    <2> QED
      BY <2>1, <2>3, <2>4, <2>5, <2>6 DEF IInv, PepperOK, OwnOK, FreshOK, ClosingOK
  <1>4. CASE /\ Pepper(c)
             /\ row' = [row EXCEPT ![Hash(pepper'[c], Key(c))] = "active"]
             /\ late' = IF Closing \/ ~tenant THEN late \cup {Key(c)} ELSE late
    <2>1. /\ pepper' \in [Containers -> {"unread", "known", "none"}]
          /\ \A d \in Containers \ {c} : pepper'[d] = pepper[d]
          /\ pepper[c] # "unread" => pepper'[c] = pepper[c]
          /\ faults' = 0 /\ pepper[c] # "none" => pepper'[c] = "known"
          /\ faults' \in 0..MaxFaults /\ (faults' = 0 => faults = 0)
      BY <1>0, <1>4, PepperRead
    <2>s. PICK s \in Schemes : Hash(pepper'[c], Key(c)) = <<j, s>>
      BY <1>j DEF Hash, Key, Schemes
    <2>2. /\ row' \in [Rows -> Value] /\ row'[<<j, s>>] = "active"
          /\ \A k \in Keys, t \in Schemes : k # j \/ t # s => row'[<<k, t>>] = row[<<k, t>>]
      <3>1. PICK v \in Value : v = "active"
        BY DEF Value, Record
      <3> QED
        BY <1>0, <1>4, <2>s, <3>1 DEF TypeOK, Rows
    <2>3. /\ late \subseteq late' /\ late' \subseteq Keys
          /\ j \notin late' => tenant /\ ~Closing
      BY <1>0, <1>4, <1>j DEF Key, TypeOK
    <2>4. /\ revoked[j] = Never /\ by[j] = Nobody
          /\ \A d \in Containers :
                /\ ~Asks(d, j)
                /\ \A t \in Schemes : <<j, t>> \notin touches[d]
                         /\ cache[d][<<j, t>>].value = "none"
          /\ \A t \in Schemes : row[<<j, t>>] = "none"
      BY <1>1 DEF IInv, KeysOK, Unknown, Asks, Issued
    <2>5. \A d \in Containers, k \in Keys : Asks(d, k)' =>
             d # c /\ Asks(d, k) /\ work'[d] = work[d] /\ k # j
      BY <1>2, <2>4, IdleType DEF Alone, Asks, AuthSteps
    <2>6. TypeOK'
      BY <1>0, <1>1, <1>2, <2>1, <2>2, <2>3 DEF TypeOK, Alone
    <2>7. WorkOK'
      <3>1. \A k \in Keys : row[<<k, "hmac">>] # "none" => row'[<<k, "hmac">>] # "none"
        BY <2>2, <2>4 DEF Schemes
      <3> QED
        BY <1>2, <3>1, IdleType DEF IInv, WorkOK, KeySteps, AuthSteps, Alone
    <2>8. KeysOK'
      <3>1. \A d \in Containers, k \in Keys : Creates(d, k)' => d # c /\ Creates(d, k) /\ k # j
        BY <1>1, <1>2, IdleType DEF Creates, Alone, IInv, KeysOK
      <3>2. Issued(j)' /\ \A k \in Keys \ {j} : Issued(k)' <=> Issued(k)
        BY <2>2 DEF Issued
      <3>3. \A k \in Keys : Unknown(k) => Unknown(k)'
        BY <1>1, <1>2, IdleType DEF Unknown, Alone, AuthSteps
      <3> QED
        BY <1>1, <3>1, <3>2, <3>3 DEF IInv, KeysOK
    <2>9. AgesOK'
      <3>1. SUFFICES ASSUME NEW k \in Keys \ crossed, revoked[k] # Never
                     PROVE  /\ \A t \in Schemes : row'[<<k, t>>] # "active"
                            /\ \A d \in Containers :
                                  /\ Asks(d, k)' /\ work'[d].seen = "active" =>
                                        revoked[k] <= (IF work'[d].cached THEN TTL + 1 ELSE 0) + work'[d].lasted
                                  /\ \A t \in Schemes : cache[d][<<k, t>>].value = "active" =>
                                        revoked[k] + cache[d][<<k, t>>].left <= TTL + 1
        BY <1>1 DEF AgesOK
      <3>2. \A t \in Schemes : row'[<<k, t>>] # "active"
        BY <2>2, <2>4, <3>1 DEF IInv, AgesOK
      <3> QED
        BY <2>5, <3>1, <3>2 DEF IInv, AgesOK
    <2>10. PepperOK'
      <3>1. SUFFICES ASSUME faults' = 0, NEW d \in Containers
                     PROVE  /\ pepper'[d] # "none"
                            /\ work'[d].pc \in AuthSteps => pepper'[d] = "known"
                            /\ work'[d].pc = "decide" /\ work'[d].seen # "none" =>
                                  row'[<<work'[d].key, "hmac">>] # "none"
                            /\ \A k \in Keys :
                                  /\ cache[d][<<k, "sha">>].value = "none"
                                           /\ <<k, "sha">> \notin touches[d]
                                  /\ cache[d][<<k, "hmac">>].value # "none" =>
                                           row'[<<k, "hmac">>] # "none"
                                  /\ <<k, "hmac">> \in touches[d] => row'[<<k, "hmac">>] # "none"
        BY <1>1 DEF PepperOK
      <3>2. \A k \in Keys : row[<<k, "hmac">>] # "none" => row'[<<k, "hmac">>] # "none"
        BY <2>2, <2>4 DEF Schemes
      <3>3. faults = 0 /\ pepper'[d] # "none" /\ (d = c => work'[d].pc \notin AuthSteps)
            /\ (d # c => work'[d] = work[d] /\ pepper'[d] = pepper[d])
        BY <1>2, <2>1, <3>1, IdleType DEF IInv, PepperOK, Alone, AuthSteps
      <3>4. work[d].pc = "decide" => work[d].key \in Keys
        BY <3>1 DEF IInv, WorkOK, KeySteps, AuthSteps
      <3> QED
        BY <3>2, <3>3, <3>4 DEF IInv, PepperOK, AuthSteps
    <2>11. OwnOK'
      BY <1>1, <2>1, <2>5 DEF IInv, OwnOK
    <2>12. FreshOK'
      <3>1. SUFFICES ASSUME faults' = 0, NEW k \in Keys, revoked[k] = Never
                     PROVE  /\ \A t \in Schemes : row'[<<k, t>>] \in Good
                            /\ \A d \in Containers :
                                  /\ \A t \in Schemes : cache[d][<<k, t>>].value \in Good
                                  /\ Asks(d, k)' =>
                                       /\ work'[d].seen \in Good /\ work'[d].copy \in Good
                                       /\ work'[d].pc = "old" /\ ~work'[d].raced =>
                                                row'[<<k, "sha">>] # "none"
                                       /\ work'[d].pc = "decide" /\ ~work'[d].raced =>
                                                work'[d].seen = "active"
        BY <1>1 DEF FreshOK
      <3>2. \A t \in Schemes : row'[<<k, t>>] \in Good
        BY <2>1, <2>2, <3>1 DEF IInv, FreshOK, Good
      <3>3. k # j => row'[<<k, "sha">>] = row[<<k, "sha">>]
        BY <2>2 DEF Schemes
      <3> QED
        BY <2>1, <2>5, <3>1, <3>2, <3>3 DEF IInv, FreshOK
    <2>13. ClosingOK'
      <3>1. SUFFICES ASSUME faults' = 0, NEW k \in Keys \ (late' \cup crossed), IsActive(k)'
                     PROVE  /\ \A d \in Containers : work'[d].closes /\ work'[d].pc # "list" =>
                                     Pending(k)'
                            /\ ~tenant => Pending(k)' \/ \E d \in Containers : work'[d].pc = "list"
        BY <1>1 DEF ClosingOK
      <3>2. \A d \in Containers : work'[d].closes => d # c /\ work'[d] = work[d]
        BY <1>2, IdleType DEF Alone
      <3>3. CASE k = j
        BY <2>3, <3>1, <3>2, <3>3 DEF Closing
      <3>4. CASE k # j
        <4>1. IsActive(k)
          BY <2>2, <3>1, <3>4 DEF IsActive
        <4>2. Pending(k) => Pending(k)'
          BY <1>0, <1>2 DEF Alone, Pending
        <4>3. \A d \in Containers : work[d].pc = "list" => work'[d].pc = "list"
          BY <1>0, <1>2 DEF Alone
        <4> QED
          BY <2>1, <2>3, <3>1, <3>2, <4>1, <4>2, <4>3 DEF IInv, ClosingOK
      <3> QED
        BY <3>3, <3>4
    <2> QED
      BY <2>6, <2>7, <2>8, <2>9, <2>10, <2>11, <2>12, <2>13 DEF IInv
  <1> QED
    BY <1>3, <1>4 DEF Store

-----------------------------------------------------------------------------
(* Deactivating keys *)

\* The loop goes on, ends, or comes to the tenant's own row.
LEMMA NextRowIs ==
    ASSUME TypeOK, NEW c \in Containers, NEW todo \in SUBSET Rows, NextRow(c, todo)
    PROVE  /\ Alone(c)
           /\ \/ todo = {} /\ ~work[c].closes /\ work'[c] = Idle
              \/ /\ work'[c].todo = todo /\ work'[c].target = {}
                 /\ work'[c].pc = IF todo = {} THEN "close" ELSE "get"
                 /\ todo # {} \/ work[c].closes
                 /\ work'[c].closes = work[c].closes /\ work'[c].key = work[c].key
                 /\ work'[c].seen = work[c].seen /\ work'[c].cached = work[c].cached
  <1>1. CASE todo = {} /\ ~work[c].closes
    BY <1>1, Ended DEF NextRow
  <1>2. CASE ~(todo = {} /\ ~work[c].closes)
    <2> DEFINE pc == IF todo = {} THEN "close" ELSE "get"
               v == [work[c] EXCEPT !.todo = todo, !.target = {}, !.pc = pc]
    <2>1. work[c] \in Work
      BY DEF TypeOK
    <2>2. v \in Work
      BY <2>1 DEF Work
    <2>3. /\ v.todo = todo /\ v.target = {} /\ v.pc = pc
          /\ v.closes = work[c].closes /\ v.key = work[c].key
          /\ v.seen = work[c].seen /\ v.cached = work[c].cached
      BY <2>1 DEF Work
    <2>4. GoOn(c, v)
      BY <1>2 DEF NextRow
    <2> HIDE DEF v
    <2> QED
      BY <1>2, <2>2, <2>3, <2>4, Moved
  <1> QED
    BY <1>1, <1>2

\* What every step of the loop keeps.
LEMMA LoopKeeps ==
    ASSUME IInv, NEW c \in Containers, NEW todo \in SUBSET Rows, NextRow(c, todo),
           work[c].pc \in {"list", "get", "write"},
           \A k \in Keys : Issued(k) => Issued(k)',
           \A k \in Keys : row[<<k, "hmac">>] # "none" => row'[<<k, "hmac">>] # "none"
    PROVE  /\ WorkOK' /\ work' \in [Containers -> Work]
           /\ Alone(c) /\ work'[c].pc \notin KeySteps /\ work'[c].key = NoKey
           /\ work'[c].pc # "list" /\ (work'[c].closes => work[c].closes)
           /\ work'[c].todo = todo /\ work'[c].target = {}
           /\ \A d \in Containers, k \in Keys :
                 Asks(d, k)' => d # c /\ Asks(d, k) /\ work'[d] = work[d]
           /\ \A d \in Containers, k \in Keys :
                 Creates(d, k)' => d # c /\ Creates(d, k) /\ work'[d] = work[d]
  <1>1. TypeOK /\ work[c].key = NoKey /\ ~work[c].cached
    BY DEF IInv, WorkOK, KeySteps, AuthSteps
  <1>2. /\ Alone(c)
        /\ \/ todo = {} /\ ~work[c].closes /\ work'[c] = Idle
           \/ /\ work'[c].todo = todo /\ work'[c].target = {}
              /\ work'[c].pc = IF todo = {} THEN "close" ELSE "get"
              /\ todo # {} \/ work[c].closes
              /\ work'[c].closes = work[c].closes /\ work'[c].key = work[c].key
              /\ work'[c].seen = work[c].seen /\ work'[c].cached = work[c].cached
    BY <1>1, NextRowIs
  <1>3. /\ work'[c].pc \notin KeySteps /\ work'[c].key = NoKey /\ work'[c].pc # "list"
        /\ work'[c].closes => work[c].closes
        /\ work'[c].todo = todo /\ work'[c].target = {} /\ ~work'[c].cached
        /\ work'[c].pc = "idle" => work'[c] = Idle
        /\ work'[c].pc = "close" => work'[c].todo = {} /\ work'[c].closes
    BY <1>1, <1>2, IdleType DEF KeySteps, AuthSteps
  <1>4. WorkOK'
    BY <1>2, <1>3 DEF IInv, WorkOK, KeySteps, AuthSteps, Alone
  <1>5. \A d \in Containers, k \in Keys :
           /\ Asks(d, k)' => d # c /\ Asks(d, k) /\ work'[d] = work[d]
           /\ Creates(d, k)' => d # c /\ Creates(d, k) /\ work'[d] = work[d]
    BY <1>2, <1>3 DEF Asks, Creates, Alone, KeySteps
  <1> QED
    BY <1>2, <1>3, <1>4, <1>5 DEF Alone

\* The keys of the tenant that is closed are listed.
LEMMA ListKeysOK ==
    ASSUME IInv, NEW c \in Containers, ListKeys(c) PROVE IInv'
  <1>1. /\ UNCHANGED <<tenant, row, pepper, cache, touches, faults, admin, revoked, by, crossed>>
        /\ work[c].pc = "list" /\ TypeOK /\ work[c].todo = {} /\ work[c].target = {}
    BY DEF ListKeys, At, IInv, WorkOK
  <1>2. PICK listed \in SUBSET ActiveRows :
          /\ NextRow(c, listed)
          /\ late' = late \cup {r[1] : r \in ActiveRows \ listed}
    BY DEF ListKeys
  <1>3. listed \in SUBSET Rows /\ \A r \in listed : row[r] = "active"
    BY DEF ActiveRows
  <1>4. /\ WorkOK' /\ work' \in [Containers -> Work]
        /\ Alone(c) /\ work'[c].pc \notin KeySteps
        /\ work'[c].todo = listed /\ work'[c].target = {}
        /\ \A d \in Containers, k \in Keys : Creates(d, k)' => d # c
    BY <1>1, <1>2, <1>3, LoopKeeps DEF Issued
  <1>5. Silent(c) /\ work'[c].pc \notin AuthSteps
    BY <1>1, <1>4 DEF Silent, KeySteps
  <1>6. TypeOK'
    <2>1. \A r \in Rows : r[1] \in Keys
      BY DEF Rows
    <2>2. late' \subseteq Keys
      BY <1>1, <1>2, <2>1 DEF TypeOK, ActiveRows
    <2> QED
      BY <1>1, <1>4, <2>2 DEF TypeOK
  <1>7. KeysOK'
    <2>1. \A k \in Keys : ~Issued(k) =>
             \A s \in Schemes : <<k, s>> \notin work'[c].todo \cup work'[c].target
      BY <1>3, <1>4 DEF Issued
    <2> QED
      BY <1>4, <1>5, <2>1, AdminKeys
  <1>8. AgesOK' /\ PepperOK' /\ OwnOK' /\ FreshOK'
    BY <1>1, <1>5, AdminKeeps
  <1>9. ClosingOK'
    <2>1. SUFFICES ASSUME NEW k \in Keys \ (late' \cup crossed), IsActive(k)
                   PROVE  Pending(k)'
      BY <1>1 DEF ClosingOK, IsActive
    <2>2. PICK s \in Schemes : row[<<k, s>>] = "active"
      BY <2>1 DEF IsActive
    <2>3. <<k, s>> \in ActiveRows /\ <<k, s>>[1] = k
      BY <2>2 DEF ActiveRows, Rows
    <2>4. <<k, s>> \in listed
      BY <1>2, <2>1, <2>3
    <2> QED
      BY <1>4, <2>4 DEF Pending
  <1> QED
    BY <1>4, <1>6, <1>7, <1>8, <1>9 DEF IInv

\* The deactivation of a row fails; the tenant's others go on.
LEMMA RowFailsOK ==
    ASSUME IInv, NEW c \in Containers, RowFails(c) PROVE IInv'
  <1>1. /\ UNCHANGED <<tenant, row, pepper, cache, touches, admin, revoked, by, crossed, late>>
        /\ work[c].pc \in {"get", "write"} /\ TypeOK
        /\ work[c].todo \in SUBSET Rows
    BY DEF RowFails, At, IInv, TypeOK, Work
  <1>2. PICK r \in work[c].todo \cup work[c].target : NextRow(c, work[c].todo \ {r})
    BY DEF RowFails
  <1>3. faults' \in 0..MaxFaults /\ faults' # 0
    BY <1>1, FaultCounts, FaultShows DEF RowFails
  <1>4. /\ WorkOK' /\ work' \in [Containers -> Work]
        /\ Alone(c) /\ work'[c].pc \notin KeySteps
        /\ work'[c].todo = work[c].todo \ {r} /\ work'[c].target = {}
        /\ \A d \in Containers, k \in Keys : Creates(d, k)' => d # c
    <2>1. work[c].todo \ {r} \in SUBSET Rows
      BY <1>1
    <2> QED
      BY <1>1, <1>2, <2>1, LoopKeeps DEF Issued
  <1>5. Silent(c) /\ work'[c].pc \notin AuthSteps
    BY <1>1, <1>3, <1>4 DEF Silent, KeySteps
  <1>6. TypeOK'
    BY <1>1, <1>3, <1>4 DEF TypeOK
  <1>7. KeysOK'
    <2>1. \A k \in Keys : ~Issued(k) =>
             \A s \in Schemes : <<k, s>> \notin work'[c].todo \cup work'[c].target
      BY <1>4 DEF IInv, KeysOK, Unknown
    <2> QED
      BY <1>4, <1>5, <2>1, AdminKeys
  <1>8. AgesOK'
    BY <1>1, <1>5, AdminKeeps
  <1> QED
    BY <1>3, <1>4, <1>6, <1>7, <1>8 DEF IInv, PepperOK, OwnOK, FreshOK, ClosingOK

\* The row to be deactivated is read.
LEMMA GetRowOK ==
    ASSUME IInv, NEW c \in Containers, GetRow(c) PROVE IInv'
  <1>1. /\ UNCHANGED <<tenant, row, pepper, cache, touches, faults, admin, revoked, by, late>>
        /\ work[c].pc = "get" /\ TypeOK /\ work[c] \in Work
        /\ work[c].todo \in SUBSET Rows /\ work[c].target = {}
        /\ work[c].key = NoKey /\ ~work[c].cached
    BY DEF GetRow, At, IInv, TypeOK, Work, WorkOK, KeySteps, AuthSteps
  <1>2. PICK r \in work[c].todo :
          \/ /\ row[r] = "none" /\ NextRow(c, work[c].todo \ {r})
             /\ crossed' = IF StillActive(r[1], r) THEN crossed \cup {r[1]} ELSE crossed
          \/ /\ row[r] # "none" /\ UNCHANGED crossed
             /\ GoOn(c, [work[c] EXCEPT !.pc = "write", !.todo = @ \ {r}, !.target = {r}])
    BY DEF GetRow
  <1>3. PICK j \in Keys, t \in Schemes : r = <<j, t>>
    BY <1>1 DEF Rows
  <1>4. CASE row[r] # "none"
    <2>1. /\ Alone(c) /\ work'[c].pc = "write" /\ work'[c].todo = work[c].todo \ {r}
          /\ work'[c].target = {r} /\ work'[c].closes = work[c].closes
          /\ work'[c].key = NoKey /\ ~work'[c].cached
      <3> DEFINE v == [work[c] EXCEPT !.pc = "write", !.todo = @ \ {r}, !.target = {r}]
      <3>1. v \in Work
        BY <1>1 DEF Work
      <3>2. /\ v.pc = "write" /\ v.todo = work[c].todo \ {r} /\ v.target = {r}
            /\ v.closes = work[c].closes /\ v.key = NoKey /\ ~v.cached
        BY <1>1 DEF Work
      <3>3. GoOn(c, v)
        BY <1>2, <1>4
      <3> HIDE DEF v
      <3> QED
        BY <1>1, <3>1, <3>2, <3>3, Moved
    <2>2. UNCHANGED crossed /\ Silent(c) /\ work'[c].pc \notin AuthSteps
      BY <1>1, <1>2, <1>4, <2>1 DEF Silent, AuthSteps
    <2>3. TypeOK'
      BY <1>1, <2>1, <2>2 DEF TypeOK, Alone
    <2>4. WorkOK'
      BY <1>1, <2>1 DEF IInv, WorkOK, KeySteps, AuthSteps, Alone
    <2>5. work'[c].todo \cup work'[c].target = work[c].todo \cup work[c].target
      BY <1>1, <1>2, <2>1
    <2>6. KeysOK'
      <3>1. \A k \in Keys : ~Issued(k) =>
               \A s \in Schemes : <<k, s>> \notin work'[c].todo \cup work'[c].target
        BY <2>5 DEF IInv, KeysOK, Unknown
      <3> QED
        BY <2>1, <2>2, <3>1, AdminKeys DEF Creates
    <2>7. AgesOK' /\ PepperOK' /\ OwnOK' /\ FreshOK'
      BY <1>1, <2>2, AdminKeeps
    <2>8. ClosingOK'
      <3>1. \A k \in Keys : Pending(k) => Pending(k)'
        BY <2>1, <2>5 DEF Alone, Pending
      <3>2. \A d \in Containers : /\ work'[d].pc = "list" <=> work[d].pc = "list"
                                  /\ work'[d].closes = work[d].closes
        BY <1>1, <2>1 DEF Alone
      <3> QED
        BY <1>1, <2>2, <3>1, <3>2 DEF IInv, ClosingOK, IsActive
    <2> QED
      BY <2>3, <2>4, <2>6, <2>7, <2>8 DEF IInv
  <1>5. CASE row[r] = "none"
    <2>1. /\ WorkOK' /\ work' \in [Containers -> Work]
          /\ Alone(c) /\ work'[c].pc \notin KeySteps
          /\ work'[c].pc # "list" /\ (work'[c].closes => work[c].closes)
          /\ work'[c].todo = work[c].todo \ {r} /\ work'[c].target = {}
          /\ \A d \in Containers, k \in Keys : Creates(d, k)' => d # c
      <3>1. work[c].todo \ {r} \in SUBSET Rows
        BY <1>1
      <3> QED
        BY <1>1, <1>2, <1>5, <3>1, LoopKeeps DEF Issued
    <2>2. /\ crossed \subseteq crossed' /\ crossed' \subseteq Keys
          /\ StillActive(j, r) => j \in crossed'
      BY <1>1, <1>2, <1>3, <1>5 DEF TypeOK
    <2>3. Silent(c) /\ work'[c].pc \notin AuthSteps
      BY <1>1, <2>1, <2>2 DEF Silent, KeySteps
    <2>4. TypeOK'
      BY <1>1, <2>1, <2>2 DEF TypeOK
    <2>5. KeysOK'
      <3>1. \A k \in Keys : ~Issued(k) =>
               \A s \in Schemes : <<k, s>> \notin work'[c].todo \cup work'[c].target
        BY <2>1 DEF IInv, KeysOK, Unknown
      <3> QED
        BY <2>1, <2>3, <3>1, AdminKeys
    <2>6. AgesOK' /\ PepperOK' /\ OwnOK' /\ FreshOK'
      BY <1>1, <2>3, AdminKeeps
    <2>7. ClosingOK'
      <3>1. SUFFICES ASSUME faults = 0, NEW k \in Keys \ (late \cup crossed'), IsActive(k)
                     PROVE  /\ \A d \in Containers : work'[d].closes /\ work'[d].pc # "list" =>
                                     Pending(k)'
                            /\ ~tenant => Pending(k)' \/ \E d \in Containers : work'[d].pc = "list"
        BY <1>1 DEF ClosingOK, IsActive
      <3>2. k # j
        <4>1. IsActive(j) => StillActive(j, r)
          BY <1>3, <1>5 DEF IsActive, StillActive
        <4> QED
          BY <2>2, <3>1, <4>1
      <3>3. Pending(k) => Pending(k)'
        <4>1. \A s \in Schemes : <<k, s>> \in work[c].todo \cup work[c].target =>
                 <<k, s>> \in work'[c].todo
          BY <1>1, <1>3, <2>1, <3>2
        <4> QED
          BY <2>1, <4>1 DEF Alone, Pending
      <3>4. \A d \in Containers : /\ work[d].pc = "list" <=> work'[d].pc = "list"
                                  /\ work'[d].closes => work[d].closes
        BY <1>1, <2>1 DEF Alone
      <3> QED
        BY <2>2, <3>1, <3>3, <3>4 DEF IInv, ClosingOK
    <2> QED
      BY <2>1, <2>4, <2>5, <2>6, <2>7 DEF IInv
  <1> QED
    BY <1>4, <1>5

\* The row is written back as inactive, and its entry leaves the cache.
LEMMA WriteRowOK ==
    ASSUME IInv, NEW c \in Containers, WriteRow(c) PROVE IInv'
  <1>1. /\ UNCHANGED <<tenant, pepper, touches, faults, admin, late>>
        /\ work[c].pc = "write" /\ TypeOK /\ work[c].todo \in SUBSET Rows
        /\ work[c].target \in SUBSET Rows /\ NextRow(c, work[c].todo)
    BY DEF WriteRow, At, IInv, TypeOK, Work
  <1>r. PICK r \in work[c].target : LET k == r[1] IN
          /\ row' = [row EXCEPT ![r] = IF @ = "none" THEN "bare" ELSE "inactive"]
          /\ cache' = [cache EXCEPT ![c][r] = NoEntry]
          /\ revoked' = [revoked EXCEPT ![k] = IF @ = Never THEN 0 ELSE @]
          /\ by' = [by EXCEPT ![k] = IF @ = Nobody THEN c ELSE @]
          /\ crossed' = IF row[r] = "none" \/ StillActive(k, r)
                        THEN crossed \cup {k} ELSE crossed
    BY DEF WriteRow
  <1>j. PICK j \in Keys, t \in Schemes : r = <<j, t>>
    BY <1>1, <1>r DEF Rows
  <1>2. /\ work[c].target = {r} /\ Issued(j) /\ r[1] = j /\ r \in Rows
        /\ \A k \in Keys, s \in Schemes : <<k, s>> \in Rows
    BY <1>1, <1>r, <1>j DEF IInv, WorkOK, KeysOK, Unknown, Rows
  <1>3. /\ row' \in [Rows -> Value]
        /\ row'[r] \in {"bare", "inactive"}
        /\ \A i \in Rows : i # r => row'[i] = row[i]
    BY <1>1, <1>r, <1>2 DEF TypeOK, Value, Record
  <1>4. /\ cache' \in [Containers -> [Rows -> Entry]]
        /\ cache'[c][r].value = "none"
        /\ \A d \in Containers, i \in Rows : d # c \/ i # r => cache'[d][i] = cache[d][i]
    <2>1. NoEntry \in Entry /\ NoEntry.value = "none"
      BY ConstantsAssumption DEF NoEntry, Entry, Value
    <2> QED
      BY <1>1, <1>r, <1>2, <2>1 DEF TypeOK
  <1>n. Never \in Nat /\ 0 \in Ages /\ 0 # Never
    BY ConstantsAssumption DEF Never, Ages
  <1>5. /\ revoked' \in [Keys -> Ages] /\ by' \in [Keys -> Containers \cup {Nobody}]
        /\ \A k \in Keys \ {j} : revoked'[k] = revoked[k] /\ by'[k] = by[k]
        /\ revoked'[j] = IF revoked[j] = Never THEN 0 ELSE revoked[j]
        /\ by'[j] = IF by[j] = Nobody THEN c ELSE by[j]
        /\ revoked'[j] # Never /\ by'[j] # Nobody
    BY <1>1, <1>r, <1>2, <1>n, ConstantsAssumption DEF TypeOK
  <1>6. /\ crossed \subseteq crossed' /\ crossed' \subseteq Keys
        /\ j \notin crossed' => row[r] # "none" /\ ~StillActive(j, r)
    BY <1>1, <1>r, <1>2 DEF TypeOK
  <1>7. /\ Issued(j)' /\ \A k \in Keys \ {j} : Issued(k)' <=> Issued(k)
        /\ \A k \in Keys : row[<<k, "hmac">>] # "none" => row'[<<k, "hmac">>] # "none"
    <2>1. row'[<<j, t>>] # "none"
      BY <1>3, <1>j
    <2>2. ASSUME NEW k \in Keys \ {j}, NEW s \in Schemes PROVE row'[<<k, s>>] = row[<<k, s>>]
      <3>1. <<k, s>> # <<j, t>> /\ <<k, s>> \in Rows
        BY <1>2
      <3> QED
        BY <1>3, <1>j, <3>1
    <2>3. "hmac" \in Schemes
      BY DEF Schemes
    <2>4. \A k \in Keys, s \in Schemes : row[<<k, s>>] # "none" => row'[<<k, s>>] # "none"
      BY <1>2, <1>3
    <2> QED
      BY <2>1, <2>2, <2>3, <2>4 DEF Issued
  <1>8. /\ WorkOK' /\ work' \in [Containers -> Work]
        /\ Alone(c) /\ work'[c].pc \notin KeySteps
        /\ work'[c].key = NoKey
        /\ work'[c].pc # "list" /\ (work'[c].closes => work[c].closes)
        /\ work'[c].todo = work[c].todo /\ work'[c].target = {}
        /\ \A d \in Containers, k \in Keys :
              /\ Asks(d, k)' => d # c /\ Asks(d, k) /\ work'[d] = work[d]
              /\ Creates(d, k)' => d # c /\ Creates(d, k) /\ work'[d] = work[d]
    <2>1. \A k \in Keys : Issued(k) => Issued(k)'
      BY <1>7
    <2> QED
      BY <1>1, <1>7, <2>1, LoopKeeps
  <1>9. TypeOK'
    BY <1>1, <1>3, <1>4, <1>5, <1>6, <1>8 DEF TypeOK
  <1>10. KeysOK'
    <2>1. ASSUME NEW k \in Keys, ~Issued(k)' PROVE Unknown(k)'
      <3>1. k # j /\ Unknown(k)
        BY <1>7, <2>1 DEF IInv, KeysOK
      <3>2. \A d \in Containers, s \in Schemes : cache'[d][<<k, s>>] = cache[d][<<k, s>>]
        BY <1>2, <1>4, <1>j, <3>1
      <3>3. \A d \in Containers : work'[d].key = k => work'[d].pc \notin AuthSteps
        BY <1>8, <3>1 DEF Unknown, Alone, KeySteps
      <3>4. \A d \in Containers, s \in Schemes :
               <<k, s>> \notin touches'[d] \cup work'[d].todo \cup work'[d].target
        BY <1>1, <1>8, <3>1 DEF Unknown, Alone
      <3> QED
        BY <1>5, <3>1, <3>2, <3>3, <3>4 DEF Unknown
    <2>2. \A d \in Containers, k \in Keys : Creates(d, k)' => Creates(d, k) /\ ~Issued(k)'
      BY <1>2, <1>7, <1>8 DEF IInv, KeysOK
    <2>3. \A k \in Keys : revoked'[k] = Never <=> by'[k] = Nobody
      BY <1>5 DEF IInv, KeysOK
    <2> QED
      BY <2>1, <2>2, <2>3 DEF IInv, KeysOK
  <1>11. AgesOK'
    <2>1. SUFFICES ASSUME NEW k \in Keys \ crossed', revoked'[k] # Never
                   PROVE  /\ \A s \in Schemes : row'[<<k, s>>] # "active"
                          /\ \A d \in Containers :
                                /\ Asks(d, k)' /\ work'[d].seen = "active" =>
                                      revoked'[k] <= (IF work'[d].cached THEN TTL + 1 ELSE 0) + work'[d].lasted
                                /\ \A s \in Schemes : cache'[d][<<k, s>>].value = "active" =>
                                      revoked'[k] + cache'[d][<<k, s>>].left <= TTL + 1
      BY DEF AgesOK
    <2>2. CASE revoked[k] # Never
      <3>1. revoked'[k] = revoked[k]
        BY <1>5, <2>2
      <3>2. \A s \in Schemes : row'[<<k, s>>] # "active"
        BY <1>2, <1>3, <1>6, <2>1, <2>2 DEF IInv, AgesOK
      <3>3. ASSUME NEW d \in Containers, NEW s \in Schemes, cache'[d][<<k, s>>].value = "active"
            PROVE  revoked'[k] + cache'[d][<<k, s>>].left <= TTL + 1
        <4>1. cache'[d][<<k, s>>] = cache[d][<<k, s>>]
          BY <1>2, <1>4, <3>3
        <4> QED
          BY <1>6, <2>1, <2>2, <3>1, <3>3, <4>1 DEF IInv, AgesOK
      <3>4. ASSUME NEW d \in Containers, Asks(d, k)', work'[d].seen = "active"
            PROVE  revoked'[k] <= (IF work'[d].cached THEN TTL + 1 ELSE 0) + work'[d].lasted
        BY <1>6, <1>8, <2>1, <2>2, <3>1, <3>4 DEF IInv, AgesOK
      <3> QED
        BY <3>2, <3>3, <3>4
    <2>3. CASE revoked[k] = Never
      <3>1. k = j /\ revoked'[k] = 0 /\ ~StillActive(j, r)
        BY <1>5, <1>6, <2>1, <2>3
      <3>2. \A s \in Schemes : row'[<<k, s>>] # "active"
        BY <1>2, <1>3, <3>1 DEF StillActive
      <3>3. ASSUME NEW d \in Containers, NEW s \in Schemes
            PROVE  revoked'[k] + cache'[d][<<k, s>>].left <= TTL + 1
        <4>1. cache'[d][<<k, s>>].left \in 0..TTL
          BY <1>2, <1>4 DEF Entry
        <4> QED
          BY <3>1, <4>1, ConstantsAssumption
      <3>4. ASSUME NEW d \in Containers
            PROVE  revoked'[k] <= (IF work'[d].cached THEN TTL + 1 ELSE 0) + work'[d].lasted
        <4>1. work'[d].lasted \in 0..1
          BY <1>8 DEF Work
        <4> QED
          BY <3>1, <4>1, ConstantsAssumption
      <3> QED
        BY <3>2, <3>3, <3>4
    <2> QED
      BY <2>2, <2>3
  <1>12. PepperOK'
    <2>1. SUFFICES ASSUME faults = 0, NEW d \in Containers
                   PROVE  /\ pepper[d] # "none"
                          /\ work'[d].pc \in AuthSteps => pepper[d] = "known"
                          /\ work'[d].pc = "decide" /\ work'[d].seen # "none" =>
                                row'[<<work'[d].key, "hmac">>] # "none"
                          /\ \A k \in Keys :
                                /\ cache'[d][<<k, "sha">>].value = "none"
                                         /\ <<k, "sha">> \notin touches[d]
                                /\ cache'[d][<<k, "hmac">>].value # "none" =>
                                         row'[<<k, "hmac">>] # "none"
                                /\ <<k, "hmac">> \in touches[d] => row'[<<k, "hmac">>] # "none"
      BY <1>1 DEF PepperOK
    <2>2. /\ pepper[d] # "none" /\ (work'[d].pc \in AuthSteps => pepper[d] = "known")
      BY <1>8, <2>1 DEF IInv, PepperOK, Alone, KeySteps
    <2>3. ASSUME work'[d].pc = "decide", work'[d].seen # "none"
          PROVE  row'[<<work'[d].key, "hmac">>] # "none"
      <3>1. d # c /\ work'[d] = work[d]
        BY <1>8, <2>3 DEF Alone, KeySteps, AuthSteps
      <3>2. work[d].key \in Keys
        BY <2>3, <3>1 DEF IInv, WorkOK, KeySteps, AuthSteps
      <3> QED
        BY <1>7, <2>1, <2>3, <3>1, <3>2 DEF IInv, PepperOK
    <2>4. ASSUME NEW k \in Keys
          PROVE  /\ cache'[d][<<k, "sha">>].value = "none" /\ <<k, "sha">> \notin touches[d]
                 /\ cache'[d][<<k, "hmac">>].value # "none" => row'[<<k, "hmac">>] # "none"
                 /\ <<k, "hmac">> \in touches[d] => row'[<<k, "hmac">>] # "none"
      <3>1. /\ cache[d][<<k, "sha">>].value = "none" /\ <<k, "sha">> \notin touches[d]
            /\ cache[d][<<k, "hmac">>].value # "none" => row[<<k, "hmac">>] # "none"
            /\ <<k, "hmac">> \in touches[d] => row[<<k, "hmac">>] # "none"
        BY <2>1 DEF IInv, PepperOK
      <3>2. \A s \in Schemes : \/ cache'[d][<<k, s>>] = cache[d][<<k, s>>]
                               \/ cache'[d][<<k, s>>].value = "none"
        BY <1>2, <1>4
      <3> QED
        BY <1>7, <3>1, <3>2 DEF Schemes
    <2> QED
      BY <2>2, <2>3, <2>4
  <1>13. OwnOK'
    <2>1. SUFFICES ASSUME faults = 0, NEW k \in Keys \ crossed', NEW d \in Containers, by'[k] = d
                   PROVE  /\ \A s \in Schemes : cache'[d][<<k, s>>].value # "active"
                          /\ Asks(d, k)' => work'[d].seen # "active"
      BY <1>1 DEF OwnOK
    <2>2. \A s \in Schemes : \/ cache'[d][<<k, s>>] = cache[d][<<k, s>>]
                             \/ cache'[d][<<k, s>>].value = "none"
      BY <1>2, <1>4
    <2>3. CASE by[k] = d
      <3>1. /\ \A s \in Schemes : cache[d][<<k, s>>].value # "active"
            /\ Asks(d, k) => work[d].seen # "active"
        BY <1>6, <2>1, <2>3 DEF IInv, OwnOK
      <3>2. Asks(d, k)' => work'[d].seen # "active"
        BY <1>8, <3>1
      <3>3. ASSUME NEW s \in Schemes PROVE cache'[d][<<k, s>>].value # "active"
        BY <2>2, <3>1
      <3> QED
        BY <3>2, <3>3
    <2>4. CASE by[k] # d
      <3>1. k = j /\ by[j] = Nobody /\ d = c /\ ~StillActive(j, r)
        BY <1>5, <1>6, <2>1, <2>4
      <3>2. ~Asks(d, k)'
        BY <1>8, <3>1
      <3>3. revoked[j] = Never
        BY <3>1 DEF IInv, KeysOK
      <3>4. cache[c][<<j, "sha">>].value = "none"
        BY <2>1 DEF IInv, PepperOK
      <3>5. ASSUME <<j, "hmac">> # r PROVE cache[c][<<j, "hmac">>].value = "none"
        <4>1. row[<<j, "hmac">>] # "active"
          BY <3>1, <3>5 DEF StillActive, Schemes
        <4>2. row[<<j, "hmac">>] = "none"
          BY <2>1, <3>3, <4>1 DEF IInv, FreshOK, Good, Schemes
        <4> QED
          BY <2>1, <4>2 DEF IInv, PepperOK
      <3>6. cache'[c][r].value = "none"
        BY <1>4
      <3>7. ASSUME NEW s \in Schemes PROVE cache'[d][<<k, s>>].value # "active"
        <4>1. CASE <<k, s>> = r
          BY <3>1, <3>6, <4>1
        <4>2. CASE <<k, s>> # r
          BY <2>2, <3>1, <3>4, <3>5, <4>2 DEF Schemes
        <4> QED
          BY <4>1, <4>2
      <3> QED
        BY <3>2, <3>7
    <2> QED
      BY <2>3, <2>4
  <1>14. FreshOK'
    <2>1. SUFFICES ASSUME faults = 0, NEW k \in Keys, revoked'[k] = Never
                   PROVE  /\ \A s \in Schemes : row'[<<k, s>>] \in Good
                          /\ \A d \in Containers :
                                /\ \A s \in Schemes : cache'[d][<<k, s>>].value \in Good
                                /\ Asks(d, k)' =>
                                     /\ work'[d].seen \in Good /\ work'[d].copy \in Good
                                     /\ work'[d].pc = "old" /\ ~work'[d].raced =>
                                              row'[<<k, "sha">>] # "none"
                                     /\ work'[d].pc = "decide" /\ ~work'[d].raced =>
                                              work'[d].seen = "active"
      BY <1>1 DEF FreshOK
    <2>2. k # j /\ revoked[k] = Never
      BY <1>5, <2>1
    <2>3. /\ \A s \in Schemes : row'[<<k, s>>] = row[<<k, s>>]
          /\ \A d \in Containers, s \in Schemes : cache'[d][<<k, s>>] = cache[d][<<k, s>>]
      BY <1>2, <1>3, <1>4, <1>j, <2>2
    <2>4. row'[<<k, "sha">>] = row[<<k, "sha">>]
      BY <2>3 DEF Schemes
    <2> QED
      BY <1>8, <2>1, <2>2, <2>3, <2>4 DEF IInv, FreshOK
  <1>15. ClosingOK'
    <2>1. SUFFICES ASSUME faults = 0, NEW k \in Keys \ (late \cup crossed'), IsActive(k)'
                   PROVE  /\ \A d \in Containers : work'[d].closes /\ work'[d].pc # "list" =>
                                   Pending(k)'
                          /\ ~tenant => Pending(k)' \/ \E d \in Containers : work'[d].pc = "list"
      BY <1>1 DEF ClosingOK
    <2>2. k # j
      <3>1. ASSUME j \notin crossed', NEW s \in Schemes PROVE row'[<<j, s>>] # "active"
        BY <1>2, <1>3, <1>6, <3>1 DEF StillActive
      <3> QED
        BY <2>1, <3>1 DEF IsActive
    <2>3. IsActive(k)
      BY <1>2, <1>3, <1>j, <2>1, <2>2 DEF IsActive
    <2>4. Pending(k) => Pending(k)'
      <3>1. \A s \in Schemes : <<k, s>> \in work[c].todo \cup work[c].target =>
               <<k, s>> \in work'[c].todo
        BY <1>2, <1>8, <1>j, <2>2
      <3> QED
        BY <1>8, <3>1 DEF Alone, Pending
    <2>5. \A d \in Containers : /\ work[d].pc = "list" <=> work'[d].pc = "list"
                                /\ work'[d].closes => work[d].closes
      BY <1>1, <1>8 DEF Alone
    <2> QED
      BY <1>6, <2>1, <2>3, <2>4, <2>5 DEF IInv, ClosingOK
  <1> QED
    BY <1>8, <1>9, <1>10, <1>11, <1>12, <1>13, <1>14, <1>15 DEF IInv

-----------------------------------------------------------------------------
(* Time *)

\* Time passes, and no request sees it pass twice.
LEMMA TickOK ==
    ASSUME IInv, Tick PROVE IInv'
  <1>1. /\ UNCHANGED <<tenant, row, pepper, touches, faults, admin, by, crossed, late>>
        /\ TypeOK /\ \A c \in Containers : work[c].lasted = 0
    BY DEF IInv, Tick
  <1>2. /\ work' \in [Containers -> Work]
        /\ \A c \in Containers :
              /\ work[c].pc = "idle" => work'[c] = work[c]
              /\ work'[c].lasted \in 0..1
              /\ work[c].pc # "idle" => work'[c].lasted = 1
              /\ work'[c].pc = work[c].pc /\ work'[c].key = work[c].key
              /\ work'[c].seen = work[c].seen /\ work'[c].copy = work[c].copy
              /\ work'[c].cached = work[c].cached /\ work'[c].raced = work[c].raced
              /\ work'[c].todo = work[c].todo /\ work'[c].target = work[c].target
              /\ work'[c].closes = work[c].closes
    <2>1. work' = [c \in Containers |->
             IF work[c].pc = "idle" THEN work[c] ELSE [work[c] EXCEPT !.lasted = 1]]
      BY DEF Tick, At
    <2>2. SUFFICES ASSUME NEW c \in Containers
                   PROVE  /\ work'[c] \in Work
                          /\ work[c].pc = "idle" => work'[c] = work[c]
                          /\ work'[c].lasted \in 0..1
                          /\ work[c].pc # "idle" => work'[c].lasted = 1
                          /\ work'[c].pc = work[c].pc /\ work'[c].key = work[c].key
                          /\ work'[c].seen = work[c].seen /\ work'[c].copy = work[c].copy
                          /\ work'[c].cached = work[c].cached /\ work'[c].raced = work[c].raced
                          /\ work'[c].todo = work[c].todo /\ work'[c].target = work[c].target
                          /\ work'[c].closes = work[c].closes
      BY <2>1
    <2>3. work[c] \in Work
      BY <1>1 DEF TypeOK
    <2>4. CASE work[c].pc = "idle"
      BY <2>1, <2>3, <2>4 DEF Work
    <2>5. CASE work[c].pc # "idle"
      <3>1. work'[c] = [work[c] EXCEPT !.lasted = 1]
        BY <2>1, <2>5
      <3> QED
        BY <2>3, <2>5, <3>1 DEF Work
    <2> QED
      BY <2>4, <2>5
  <1>3. /\ cache' \in [Containers -> [Rows -> Entry]]
        /\ \A c \in Containers, r \in Rows :
              \/ cache'[c][r].value = "none"
              \/ /\ cache'[c][r].value = cache[c][r].value /\ cache[c][r].left > 0
                 /\ cache'[c][r].left = cache[c][r].left - 1
    <2>1. cache' = [c \in Containers |-> [r \in Rows |->
             IF cache[c][r].left = 0 THEN NoEntry
             ELSE [cache[c][r] EXCEPT !.left = @ - 1]]]
      BY DEF Tick
    <2>2. SUFFICES ASSUME NEW c \in Containers, NEW r \in Rows
                   PROVE  /\ cache'[c][r] \in Entry
                          /\ \/ cache'[c][r].value = "none"
                             \/ /\ cache'[c][r].value = cache[c][r].value /\ cache[c][r].left > 0
                                /\ cache'[c][r].left = cache[c][r].left - 1
      <3>1. cache' \in [Containers -> [Rows -> Entry]]
              <=> \A c \in Containers, r \in Rows : cache'[c][r] \in Entry
        BY <2>1
      <3> QED
        BY <3>1
    <2>3. cache[c][r] \in Entry
      BY <1>1 DEF TypeOK
    <2>4. CASE cache[c][r].left = 0
      <3>1. cache'[c][r] = NoEntry
        BY <2>1, <2>4
      <3> QED
        BY <3>1, ConstantsAssumption DEF NoEntry, Entry, Value
    <2>5. CASE cache[c][r].left # 0
      <3>1. cache'[c][r] = [cache[c][r] EXCEPT !.left = cache[c][r].left - 1]
        BY <2>1, <2>5
      <3>2. cache[c][r].left \in 0..TTL /\ cache[c][r].left > 0
            /\ cache[c][r].left - 1 \in 0..TTL
        BY <2>3, <2>5, ConstantsAssumption DEF Entry
      <3> QED
        BY <2>3, <3>1, <3>2 DEF Entry
    <2> QED
      BY <2>4, <2>5
  <1>4. /\ revoked' \in [Keys -> Ages]
        /\ \A k \in Keys : /\ revoked[k] \in Nat /\ revoked'[k] <= revoked[k] + 1
                           /\ revoked'[k] \in Nat
                           /\ revoked'[k] = Never <=> revoked[k] = Never
    <2>1. revoked' = [k \in Keys |-> IF revoked[k] < LongAgo THEN revoked[k] + 1 ELSE revoked[k]]
      BY DEF Tick
    <2>2. SUFFICES ASSUME NEW k \in Keys
                   PROVE  /\ revoked'[k] \in Ages
                          /\ revoked[k] \in Nat /\ revoked'[k] <= revoked[k] + 1
                          /\ revoked'[k] \in Nat
                          /\ revoked'[k] = Never <=> revoked[k] = Never
      BY <2>1
    <2>3. revoked[k] \in Ages
      BY <1>1 DEF TypeOK
    <2> QED
      BY <2>1, <2>3, ConstantsAssumption DEF Ages, Never, LongAgo
  <1>5. \A c \in Containers, k \in Keys, s \in Schemes :
           \/ cache'[c][<<k, s>>].value = "none"
           \/ /\ cache'[c][<<k, s>>].value = cache[c][<<k, s>>].value
              /\ cache[c][<<k, s>>].left \in 0..TTL /\ cache[c][<<k, s>>].left > 0
              /\ cache'[c][<<k, s>>].left = cache[c][<<k, s>>].left - 1
    <2>1. \A k \in Keys, s \in Schemes : <<k, s>> \in Rows
      BY DEF Rows
    <2>2. \A c \in Containers, r \in Rows : cache[c][r].left \in 0..TTL
      BY <1>1 DEF TypeOK, Entry
    <2> QED
      BY <1>3, <2>1, <2>2
  <1>6. TypeOK'
    BY <1>1, <1>2, <1>3, <1>4 DEF TypeOK
  <1>7. WorkOK'
    BY <1>1, <1>2 DEF IInv, WorkOK, KeySteps, AuthSteps
  <1>8. \A c \in Containers, k \in Keys : Asks(c, k)' <=> Asks(c, k)
    BY <1>2 DEF Asks
  <1>9. KeysOK'
    <2>1. \A c \in Containers, k \in Keys : Creates(c, k)' <=> Creates(c, k)
      BY <1>2 DEF Creates
    <2>2. ASSUME NEW k \in Keys, Unknown(k) PROVE Unknown(k)'
      <3>1. \A c \in Containers, s \in Schemes : cache'[c][<<k, s>>].value = "none"
        BY <1>5, <2>2 DEF Unknown
      <3> QED
        BY <1>1, <1>2, <1>4, <2>2, <3>1 DEF Unknown
    <2> QED
      BY <1>1, <1>4, <2>1, <2>2 DEF IInv, KeysOK, Issued
  <1>10. AgesOK'
    <2>1. SUFFICES ASSUME NEW k \in Keys \ crossed, revoked'[k] # Never
                   PROVE  /\ \A s \in Schemes : row[<<k, s>>] # "active"
                          /\ \A c \in Containers :
                                /\ Asks(c, k)' /\ work'[c].seen = "active" =>
                                      revoked'[k] <= (IF work'[c].cached THEN TTL + 1 ELSE 0) + work'[c].lasted
                                /\ \A s \in Schemes : cache'[c][<<k, s>>].value = "active" =>
                                      revoked'[k] + cache'[c][<<k, s>>].left <= TTL + 1
      BY <1>1 DEF AgesOK
    <2>2. revoked[k] # Never /\ revoked[k] \in Nat /\ revoked'[k] \in Nat
          /\ revoked'[k] <= revoked[k] + 1
      BY <1>4, <2>1
    <2>3. ASSUME NEW c \in Containers, Asks(c, k)', work'[c].seen = "active"
          PROVE  revoked'[k] <= (IF work'[c].cached THEN TTL + 1 ELSE 0) + work'[c].lasted
      <3>1. revoked[k] <= (IF work[c].cached THEN TTL + 1 ELSE 0) + work[c].lasted
        BY <1>2, <1>8, <2>1, <2>2, <2>3 DEF IInv, AgesOK
      <3>2. work[c].lasted = 0 /\ work'[c].lasted = 1 /\ work'[c].cached = work[c].cached
        BY <1>1, <1>2, <1>8, <2>3 DEF Asks, AuthSteps
      <3> QED
        BY <2>2, <3>1, <3>2, ConstantsAssumption
    <2>4. ASSUME NEW c \in Containers, NEW s \in Schemes, cache'[c][<<k, s>>].value = "active"
          PROVE  revoked'[k] + cache'[c][<<k, s>>].left <= TTL + 1
      <3>1. /\ cache[c][<<k, s>>].value = "active"
            /\ cache[c][<<k, s>>].left \in 0..TTL /\ cache[c][<<k, s>>].left > 0
            /\ cache'[c][<<k, s>>].left = cache[c][<<k, s>>].left - 1
        BY <1>5, <2>4
      <3>2. revoked[k] + cache[c][<<k, s>>].left <= TTL + 1
        BY <2>1, <2>2, <3>1 DEF IInv, AgesOK
      <3> QED
        BY <2>2, <3>1, <3>2, ConstantsAssumption
    <2>5. \A s \in Schemes : row[<<k, s>>] # "active"
      BY <2>1, <2>2 DEF IInv, AgesOK
    <2> QED
      BY <2>3, <2>4, <2>5
  <1>11. PepperOK'
    <2>1. SUFFICES ASSUME faults = 0, NEW c \in Containers
                   PROVE  /\ pepper[c] # "none"
                          /\ work'[c].pc \in AuthSteps => pepper[c] = "known"
                          /\ work'[c].pc = "decide" /\ work'[c].seen # "none" =>
                                row[<<work'[c].key, "hmac">>] # "none"
                          /\ \A k \in Keys :
                                /\ cache'[c][<<k, "sha">>].value = "none"
                                         /\ <<k, "sha">> \notin touches[c]
                                /\ cache'[c][<<k, "hmac">>].value # "none" =>
                                         row[<<k, "hmac">>] # "none"
                                /\ <<k, "hmac">> \in touches[c] => row[<<k, "hmac">>] # "none"
      BY <1>1 DEF PepperOK
    <2>2. \A k \in Keys, s \in Schemes :
             cache'[c][<<k, s>>].value # "none" => cache[c][<<k, s>>].value # "none"
      BY <1>5
    <2>3. "sha" \in Schemes /\ "hmac" \in Schemes
      BY DEF Schemes
    <2> QED
      BY <1>2, <2>1, <2>2, <2>3 DEF IInv, PepperOK
  <1>12. OwnOK'
    <2>1. SUFFICES ASSUME faults = 0, NEW k \in Keys \ crossed, NEW c \in Containers, by[k] = c
                   PROVE  /\ \A s \in Schemes : cache'[c][<<k, s>>].value # "active"
                          /\ Asks(c, k)' => work'[c].seen # "active"
      BY <1>1 DEF OwnOK
    <2>2. /\ \A s \in Schemes : cache[c][<<k, s>>].value # "active"
          /\ Asks(c, k) => work[c].seen # "active"
      BY <2>1 DEF IInv, OwnOK
    <2>3. ASSUME NEW s \in Schemes PROVE cache'[c][<<k, s>>].value # "active"
      BY <1>5, <2>2
    <2>4. Asks(c, k)' => work'[c].seen # "active"
      BY <1>2, <1>8, <2>2
    <2> QED
      BY <2>3, <2>4
  <1>13. FreshOK'
    <2>1. SUFFICES ASSUME faults = 0, NEW k \in Keys, revoked[k] = Never, NEW c \in Containers
                   PROVE  /\ \A s \in Schemes : cache'[c][<<k, s>>].value \in Good
                          /\ Asks(c, k)' =>
                               /\ work'[c].seen \in Good /\ work'[c].copy \in Good
                               /\ work'[c].pc = "old" /\ ~work'[c].raced =>
                                        row[<<k, "sha">>] # "none"
                               /\ work'[c].pc = "decide" /\ ~work'[c].raced =>
                                        work'[c].seen = "active"
      BY <1>1, <1>4 DEF IInv, FreshOK
    <2>2. ASSUME NEW s \in Schemes PROVE cache'[c][<<k, s>>].value \in Good
      BY <1>5, <2>1 DEF IInv, FreshOK, Good
    <2>3. Asks(c, k)' => /\ work'[c].seen \in Good /\ work'[c].copy \in Good
                         /\ work'[c].pc = "old" /\ ~work'[c].raced => row[<<k, "sha">>] # "none"
                         /\ work'[c].pc = "decide" /\ ~work'[c].raced => work'[c].seen = "active"
      BY <1>2, <1>8, <2>1 DEF IInv, FreshOK
    <2> QED
      BY <2>2, <2>3
  <1>14. ClosingOK'
    <2>1. \A k \in Keys : Pending(k)' <=> Pending(k)
      BY <1>2 DEF Pending
    <2> QED
      BY <1>1, <1>2, <2>1 DEF IInv, ClosingOK, IsActive
  <1> QED
    BY <1>6, <1>7, <1>9, <1>10, <1>11, <1>12, <1>13, <1>14 DEF IInv

-----------------------------------------------------------------------------
(* The invariant *)

\* The invariant holds at first,
LEMMA InitOK == Init => IInv
  <1> SUFFICES ASSUME Init PROVE IInv
    OBVIOUS
  <1>1. NoEntry \in Entry /\ NoEntry.value = "none"
    BY ConstantsAssumption DEF NoEntry, Entry, Value
  <1>2. \A c \in Containers : work[c] = Idle
    BY DEF Init
  <1>3. \A c \in Containers, k \in Keys, s \in Schemes : cache[c][<<k, s>>].value = "none"
    BY <1>1 DEF Init, Rows
  <1>4. TypeOK
    <2>1. Never \in Ages
      BY ConstantsAssumption DEF Ages, Never
    <2>2. row \in [Rows -> Value]
      BY DEF Init, Value, Record
    <2> QED
      BY <1>1, <2>1, <2>2, IdleType, ConstantsAssumption DEF Init, TypeOK
  <1>5. \A c \in Containers, k \in Keys : ~Asks(c, k) /\ ~Creates(c, k)
    BY <1>2, IdleType DEF Asks, Creates, AuthSteps
  <1>6. WorkOK
    BY <1>2, IdleType DEF WorkOK, KeySteps, AuthSteps
  <1>7. KeysOK
    <2>1. \A k \in Keys : Unknown(k)
      BY <1>2, <1>3, IdleType DEF Init, Unknown, AuthSteps
    <2> QED
      BY <1>5, <2>1 DEF Init, KeysOK
  <1>8. AgesOK
    BY DEF Init, AgesOK
  <1>9. PepperOK
    BY <1>2, <1>3, IdleType DEF Init, PepperOK, AuthSteps, Schemes
  <1>10. OwnOK
    BY <1>3, <1>5 DEF OwnOK
  <1>11. FreshOK
    BY <1>3, <1>5 DEF Init, FreshOK, Good, Rows
  <1>12. ClosingOK
    BY <1>2, IdleType DEF Init, ClosingOK
  <1> QED
    BY <1>4, <1>6, <1>7, <1>8, <1>9, <1>10, <1>11, <1>12 DEF IInv

\* when nothing happens,
LEMMA StutterOK == ASSUME IInv, UNCHANGED vars PROVE IInv'
  <1>1. UNCHANGED <<tenant, row, pepper, cache, work, touches, faults, admin, revoked,
                    by, crossed, late>>
    BY DEF vars
  <1>2. TypeOK'
    BY <1>1 DEF IInv, TypeOK
  <1>3. WorkOK'
    BY <1>1 DEF IInv, WorkOK
  <1>4. KeysOK'
    BY <1>1 DEF IInv, KeysOK, Unknown, Creates, Issued
  <1>5. AgesOK'
    BY <1>1 DEF IInv, AgesOK, Asks
  <1>6. PepperOK' /\ OwnOK'
    BY <1>1 DEF IInv, PepperOK, OwnOK, Asks
  <1>7. FreshOK' /\ ClosingOK'
    BY <1>1 DEF IInv, FreshOK, ClosingOK, Asks, IsActive, Pending
  <1> QED
    BY <1>2, <1>3, <1>4, <1>5, <1>6, <1>7 DEF IInv

\* after every step,
LEMMA StepOK == IInv /\ [Next]_vars => IInv'
  <1> SUFFICES ASSUME IInv, [Next]_vars PROVE IInv'
    OBVIOUS
  <1>1. ASSUME NEW c \in Containers, Auth(c) PROVE IInv'
    BY <1>1, AuthenticateOK, LookupNewOK, LookupOldOK, DecideOK, RereadOK, PutCopyOK,
       DeleteOldOK, GiveUpMoveOK DEF Auth
  <1>2. ASSUME NEW c \in Containers, Admin(c) PROVE IInv'
    BY <1>2, CreateOK, CheckNameOK, StoreOK, RevokeOK, CloseTenantOK, ReopenOK, ListKeysOK,
       GetRowOK, WriteRowOK, RowFailsOK, CloseAfterOK, CloseFailsOK DEF Admin
  <1>3. ASSUME NEW c \in Containers, NEW r \in Rows, Thread(c, r) PROVE IInv'
    BY <1>3, TouchOK DEF Thread
  <1>4. CASE Tick
    BY <1>4, TickOK
  <1>5. CASE UNCHANGED vars
    BY <1>5, StutterOK
  <1> QED
    BY <1>1, <1>2, <1>3, <1>4, <1>5 DEF Next

\* and so always.
LEMMA Invariant == Spec => []IInv
  BY InitOK, StepOK, PTL DEF Spec

-----------------------------------------------------------------------------
(* Theorems *)

\* The type invariant, for every set of containers and of keys.
THEOREM TypeCorrect == Spec => []TypeOK
  <1>1. IInv => TypeOK
    BY DEF IInv
  <1> QED
    BY <1>1, Invariant, PTL

\* deactivate_api_key takes effect in every container, within the lifetime of
\* a cache entry and that of a request that was filling it, and at once in the
\* container that made the write.
THEOREM RevocationTakesEffect == Spec => []RevokedIsRefused
  <1>1. IInv => RevokedIsRefused
    <2>1. SUFFICES ASSUME IInv, NEW c \in Containers, NEW k \in Keys \ crossed,
                          Accepted(c, k), revoked[k] # Never
                   PROVE  /\ revoked[k] <= TTL + 1 + work[c].lasted
                          /\ by[k] = c => faults > 0
      BY DEF RevokedIsRefused
    <2>2. Asks(c, k) /\ work[c].seen = "active" /\ TypeOK
      BY <2>1 DEF Accepted, At, Key, Valid, Asks, AuthSteps, IInv
    <2>3. revoked[k] <= (IF work[c].cached THEN TTL + 1 ELSE 0) + work[c].lasted
      BY <2>1, <2>2 DEF IInv, AgesOK
    <2>4. work[c].lasted \in 0..1 /\ revoked[k] \in Nat
      BY <2>2, ConstantsAssumption DEF TypeOK, Work, Ages, Never
    <2>5. revoked[k] <= TTL + 1 + work[c].lasted
      BY <2>3, <2>4, ConstantsAssumption
    <2>6. by[k] = c => faults # 0
      BY <2>1, <2>2 DEF IInv, OwnOK
    <2>7. faults \in 0..MaxFaults
      BY <2>2 DEF TypeOK
    <2>8. by[k] = c => faults > 0
      BY <2>6, <2>7, ConstantsAssumption
    <2> QED
      BY <2>5, <2>8
  <1> QED
    BY <1>1, Invariant, PTL

\* _authenticate accepts a key that nobody has deactivated, by whatever hash it
\* is found and wherever its move has got to, unless a call has failed or the
\* request looked for the row as it was moved.
THEOREM ActiveKeysAreAccepted == Spec => []ActiveIsAccepted
  <1>1. IInv => ActiveIsAccepted
    <2>1. SUFFICES ASSUME IInv, NEW c \in Containers, NEW k \in Keys,
                          Refused(c, k), ~work[c].raced, revoked[k] = Never, faults = 0
                   PROVE  FALSE
      <3>1. faults \in 0..MaxFaults => faults = 0 \/ faults > 0
        BY ConstantsAssumption
      <3> QED
        BY <3>1 DEF ActiveIsAccepted, IInv, TypeOK
    <2>2. Asks(c, k) /\ work[c].pc = "decide" /\ work[c].seen # "active"
      BY <2>1 DEF Refused, At, Key, Valid, Asks, AuthSteps
    <2> QED
      BY <2>1, <2>2 DEF IInv, FreshOK
  <1> QED
    BY <1>1, Invariant, PTL

\* deactivate_keys_for_tenant leaves a closed tenant no active key but one that
\* it could not see or that was being moved, unless a call has failed.
THEOREM ClosedTenantsHaveNoKeys == Spec => []ClosedTenantHasNoKeys
  <1>1. IInv => ClosedTenantHasNoKeys
    <2>1. SUFFICES ASSUME IInv, ~tenant,
                          \A c \in Containers : work[c].todo = {} /\ work[c].target = {}
                                                /\ ~At(c, "list"),
                          NEW k \in Keys \ (late \cup crossed), faults = 0
                   PROVE  ~IsActive(k)
      <3>1. faults \in 0..MaxFaults => faults = 0 \/ faults > 0
        BY ConstantsAssumption
      <3> QED
        BY <3>1 DEF ClosedTenantHasNoKeys, IsActive, IInv, TypeOK
    <2>2. ~Pending(k) /\ ~\E c \in Containers : work[c].pc = "list"
      BY <2>1 DEF Pending, At
    <2> QED
      BY <2>1, <2>2 DEF IInv, ClosingOK
  <1> QED
    BY <1>1, Invariant, PTL

=============================================================================
