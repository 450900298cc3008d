------------------------------ MODULE ApiKeys ------------------------------
(***************************************************************************)
(* The API keys of a tenant (utils/auth.py) in the containers of the API:  *)
(*                                                                         *)
(*   - a request is authenticated from the cache of its container, else    *)
(*     from the api-keys table, under the HMAC hash of its key and then    *)
(*     under the legacy SHA-256 hash; a legacy row is moved on the way;    *)
(*   - a thread then writes lastUsed into the row, if it must make it;     *)
(*   - admins create and revoke keys (routers/api_keys.py), and close and  *)
(*     reopen the tenant (routers/tenants.py).                             *)
(*                                                                         *)
(* A container serves a request at a time.  A tick is the time-to-live of  *)
(* a cache entry divided by TTL, and no request lasts longer than a tick.  *)
(* Names, expiry dates and the debounce of lastUsed are left out: a name   *)
(* may always be taken, a write of lastUsed may always be skipped.         *)
(***************************************************************************)
EXTENDS Naturals, FiniteSets

CONSTANTS
    Containers,
    Keys,
    TTL,           \* of a cache entry, in ticks
    MaxFaults,     \* bound: calls that fail, in all
    MaxAdmin,      \* bound: requests of admins, in all
    NoKey,
    Nobody

ASSUME ConstantsAssumption ==
    /\ TTL \in Nat \ {0}
    /\ MaxFaults \in Nat
    /\ MaxAdmin \in Nat
    /\ NoKey \notin Keys
    /\ Nobody \notin Containers

VARIABLES
    tenant,   \* isActive of the tenant
    row,      \* the api-keys table, by key and hash
    pepper,   \* what each container knows of the pepper
    cache,    \* of each container: the record under a hash, and its time left
    work,     \* the request that each container serves
    touches,  \* rows that the lastUsed threads of a container have yet to write
    faults,
    admin,    \* requests of admins so far
    revoked,  \* history: ticks since a deactivation of the key was written
    by,       \* history: the container that wrote it
    crossed,  \* history: keys that a deactivation missed as they were moved
    late      \* history: keys that a closing tenant did not see

vars == <<tenant, row, pepper, cache, work, touches, faults, admin, revoked,
          by, crossed, late>>

-----------------------------------------------------------------------------
(* State *)

Schemes == {"sha", "hmac"}
Rows == Keys \X Schemes

\* A bare row has a lastUsed or an isActive=false, and nothing else.
Record == {"active", "inactive", "bare"}
Value == Record \cup {"none"}

\* The ticks since a deactivation, no longer counted once they suffice.
Never == TTL + 4
Ages == 0..Never
LongAgo == TTL + 3

Entry == [value : Value, left : 0..TTL]
NoEntry == [value |-> "none", left |-> 0]

AuthSteps == {"new", "old", "reread", "put", "delete", "decide"}

Work == [pc : {"idle", "get", "write", "list", "close", "check", "store"} \cup AuthSteps,
         key : Keys \cup {NoKey},
         seen : Value,          \* the record found
         copy : Value,          \* and, while it is moved, read again
         cached : BOOLEAN,      \* was it found in the cache?
         raced : BOOLEAN,       \* has another container moved the key meanwhile?
         todo : SUBSET Rows,    \* rows still to be deactivated
         target : SUBSET Rows,  \* the one that is being deactivated
         closes : BOOLEAN,      \* does the tenant follow?
         lasted : 0..1]

Idle == [pc |-> "idle", key |-> NoKey, seen |-> "none", copy |-> "none",
         cached |-> FALSE, raced |-> FALSE, todo |-> {}, target |-> {},
         closes |-> FALSE, lasted |-> 0]

TypeOK ==
    /\ tenant \in BOOLEAN
    /\ row \in [Rows -> Value]
    /\ pepper \in [Containers -> {"unread", "known", "none"}]
    /\ cache \in [Containers -> [Rows -> Entry]]
    /\ work \in [Containers -> Work]
    /\ touches \in [Containers -> SUBSET Rows]
    /\ faults \in 0..MaxFaults
    /\ admin \in 0..MaxAdmin
    /\ revoked \in [Keys -> Ages]
    /\ by \in [Keys -> Containers \cup {Nobody}]
    /\ crossed \subseteq Keys
    /\ late \subseteq Keys

\* Keys that were issued before there was a pepper have a legacy row.
Init ==
    /\ tenant = TRUE
    /\ row \in [Rows -> {"none", "active"}]
    /\ \A k \in Keys : row[<<k, "hmac">>] = "none"
    /\ pepper = [c \in Containers |-> "unread"]
    /\ cache = [c \in Containers |-> [r \in Rows |-> NoEntry]]
    /\ work = [c \in Containers |-> Idle]
    /\ touches = [c \in Containers |-> {}]
    /\ faults = 0 /\ admin = 0
    /\ revoked = [k \in Keys |-> Never]
    /\ by = [k \in Keys |-> Nobody]
    /\ crossed = {} /\ late = {}

Fault == faults < MaxFaults /\ faults' = faults + 1

\* The container is at a step, and goes on to another.
At(c, pc) == work[c].pc = pc
Key(c) == work[c].key
GoOn(c, w) == work' = [work EXCEPT ![c] = w]
GoTo(c, pc) == GoOn(c, [work[c] EXCEPT !.pc = pc])
End(c) == GoOn(c, Idle)

Issued(k) == \E s \in Schemes : row[<<k, s>>] # "none"

\* _get_pepper: read once, for better or for worse.
Pepper(c) ==
    \/ pepper[c] # "unread" /\ UNCHANGED <<pepper, faults>>
    \/ pepper[c] = "unread" /\ pepper' = [pepper EXCEPT ![c] = "known"] /\ UNCHANGED faults
    \/ pepper[c] = "unread" /\ pepper' = [pepper EXCEPT ![c] = "none"] /\ Fault

\* _compute_key_hash, with what is known of the pepper.
Hash(known, k) == <<k, IF known = "known" THEN "hmac" ELSE "sha">>

-----------------------------------------------------------------------------
(* _authenticate *)

\* The hash, and the cache.  A request that finds nothing there looks further.
Authenticate(c, k) ==
    /\ At(c, "idle") /\ Issued(k)
    /\ Pepper(c)
    /\ LET entry == cache[c][Hash(pepper'[c], k)]
           next == IF entry.value # "none" THEN "decide"
                   ELSE IF pepper'[c] = "known" THEN "new" ELSE "old"
       IN  GoOn(c, [Idle EXCEPT !.pc = next, !.key = k, !.seen = entry.value,
                                !.cached = entry.value # "none"])
    /\ UNCHANGED <<tenant, row, cache, touches, admin, revoked, by, crossed,
                   late>>

\* _lookup_key_in_ddb: what is in the table, or, if the call fails, nothing.
Lookup(r, value) ==
    \/ value = row[r] /\ UNCHANGED faults
    \/ value = "none" /\ Fault

\* Legacy rows forgotten.
LookupNewOnly(c) ==
    /\ At(c, "new")
    /\ \E value \in Value :
          /\ Lookup(<<Key(c), "hmac">>, value)
          /\ GoOn(c, [work[c] EXCEPT !.seen = value, !.pc = "decide"])
    /\ UNCHANGED <<tenant, row, pepper, cache, touches, admin, revoked, by,
                   crossed, late>>

\* A record under the new hash is final ...
LookupNew(c) ==
    /\ At(c, "new")
    /\ \E value \in Value :
          /\ Lookup(<<Key(c), "hmac">>, value)
          /\ GoOn(c, [work[c] EXCEPT !.seen = value,
                                     !.pc = IF value = "none" THEN "old" ELSE "decide"])
    /\ UNCHANGED <<tenant, row, pepper, cache, touches, admin, revoked, by,
                   crossed, late>>

\* ... else one under the legacy hash counts, and is moved if it can be.
LookupOld(c) ==
    /\ At(c, "old")
    /\ \E value \in Value :
          /\ Lookup(<<Key(c), "sha">>, value)
          /\ GoOn(c, [work[c] EXCEPT
                        !.seen = value,
                        !.pc = IF value # "none" /\ pepper[c] = "known"
                               THEN "reread" ELSE "decide"])
    /\ UNCHANGED <<tenant, row, pepper, cache, touches, admin, revoked, by,
                   crossed, late>>

-----------------------------------------------------------------------------
(* _migrate_key_hash; what was found before it is judged and cached after. *)

Reread(c) ==
    /\ At(c, "reread")
    /\ \E value \in Value :
          /\ Lookup(<<Key(c), "sha">>, value)
          /\ GoOn(c, [work[c] EXCEPT !.copy = value,
                                     !.pc = IF value = "none" THEN "decide" ELSE "put"])
    /\ UNCHANGED <<tenant, row, pepper, cache, touches, admin, revoked, by,
                   crossed, late>>

\* An exception ends the move, but not the request.
GiveUpMove(c) ==
    /\ At(c, "put") \/ At(c, "delete")
    /\ Fault /\ GoTo(c, "decide")
    /\ UNCHANGED <<tenant, row, pepper, cache, touches, admin, revoked, by,
                   crossed, late>>

PutCopy(c) ==
    /\ At(c, "put")
    /\ row' = [row EXCEPT ![<<Key(c), "hmac">>] = work[c].copy]
    /\ GoTo(c, "delete")
    /\ crossed' = IF work[c].copy = "active" /\ revoked[Key(c)] # Never
                  THEN crossed \cup {Key(c)} ELSE crossed
    /\ UNCHANGED <<tenant, pepper, cache, touches, faults, admin, revoked, by,
                   late>>

\* The legacy row and its cache entry go.  Another request that has just
\* missed the new row will miss the old one too.
DeleteOld(c) ==
    /\ At(c, "delete")
    /\ row' = [row EXCEPT ![<<Key(c), "sha">>] = "none"]
    /\ cache' = [cache EXCEPT ![c][<<Key(c), "sha">>] = NoEntry]
    /\ work' = [d \in Containers |->
         IF d = c THEN [work[c] EXCEPT !.pc = "decide"]
         ELSE IF At(d, "old") /\ Key(d) = Key(c) THEN [work[d] EXCEPT !.raced = TRUE]
         ELSE work[d]]
    /\ UNCHANGED <<tenant, pepper, touches, faults, admin, revoked, by,
                   crossed, late>>

\* A record is valid if it says so.
Valid(value) == value = "active"

AddToCache(c, left) ==
    [cache EXCEPT ![c][Hash(pepper[c], Key(c))] = [value |-> work[c].seen, left |-> left]]

CachedAgain(c) == IF work[c].seen = "none" THEN cache ELSE AddToCache(c, TTL)

\* What a found record leaves in the cache, valid or not.
Cached(c) ==
    IF work[c].cached \/ work[c].seen = "none" THEN cache ELSE AddToCache(c, TTL)

\* The answer: accepted, with a thread for lastUsed, or 401.
Decide(c) ==
    /\ At(c, "decide")
    /\ cache' = Cached(c)
    /\ touches' = IF Valid(work[c].seen)
                  THEN [touches EXCEPT ![c] = @ \cup {Hash(pepper[c], Key(c))}] ELSE touches
    /\ End(c)
    /\ UNCHANGED <<tenant, row, pepper, faults, admin, revoked, by, crossed,
                   late>>

\* _update_last_used: update_item makes the row that it does not find.
Touch(c, r) ==
    /\ r \in touches[c]
    /\ touches' = [touches EXCEPT ![c] = @ \ {r}]
    /\ row' = IF row[r] = "none" THEN [row EXCEPT ![r] = "bare"] ELSE row
    /\ UNCHANGED <<tenant, pepper, cache, work, faults, admin, revoked, by,
                   crossed, late>>

\* Debounced, or the call failed.
TouchSkipped(c, r) ==
    /\ r \in touches[c]
    /\ touches' = [touches EXCEPT ![c] = @ \ {r}]
    /\ UNCHANGED <<tenant, row, pepper, cache, work, faults, admin, revoked,
                   by, crossed, late>>

-----------------------------------------------------------------------------
(* create_api_key *)

\* A container takes a request of an admin.
Begin(c) == At(c, "idle") /\ admin < MaxAdmin /\ admin' = admin + 1

\* An active tenant may have another key, and the CLI asks only for a tenant.
Create(c, k) ==
    /\ Begin(c) /\ ~Issued(k) /\ \A d \in Containers : Key(d) # k
    /\ GoOn(c, [Idle EXCEPT !.pc = "check", !.key = k])
    /\ tenant
    /\ UNCHANGED <<tenant, row, pepper, cache, touches, faults, revoked, by,
                   crossed, late>>

\* is_duplicate_key_name: the name may be taken, as far as the index tells.
CheckName(c) ==
    /\ At(c, "check")
    /\ End(c) \/ GoTo(c, "store")
    /\ UNCHANGED <<tenant, row, pepper, cache, touches, faults, admin, revoked,
                   by, crossed, late>>

Closing == \E d \in Containers : work[d].closes

\* generate_api_key.
Store(c) ==
    /\ At(c, "store")
    /\ \/ /\ Pepper(c)
          /\ row' = [row EXCEPT ![Hash(pepper'[c], Key(c))] = "active"]
          /\ late' = IF Closing \/ ~tenant THEN late \cup {Key(c)} ELSE late
       \/ Fault /\ UNCHANGED <<row, pepper, late>>
    /\ End(c)
    /\ UNCHANGED <<tenant, cache, touches, admin, revoked, by, crossed>>

-----------------------------------------------------------------------------
(* delete_api_key, and the end of a tenant *)

\* An admin names a row, by its hash or by a prefix.
Revoke(c, r) ==
    /\ Begin(c) /\ row[r] # "none"
    /\ GoOn(c, [Idle EXCEPT !.pc = "get", !.todo = {r}])
    /\ UNCHANGED <<tenant, row, pepper, cache, touches, faults, revoked, by,
                   crossed, late>>

\* PATCH closes the tenant before its keys, DELETE after them.
CloseTenant(c) ==
    /\ Begin(c)
    /\ \/ tenant' = FALSE /\ GoTo(c, "list")
       \/ GoOn(c, [Idle EXCEPT !.pc = "list", !.closes = TRUE]) /\ UNCHANGED tenant
    /\ UNCHANGED <<row, pepper, cache, touches, faults, revoked, by, crossed,
                   late>>

\* PATCH reopens it; its keys stay as they are.
Reopen(c) ==
    /\ Begin(c) /\ ~tenant
    /\ tenant' = TRUE
    /\ UNCHANGED <<row, pepper, cache, work, touches, faults, revoked, by,
                   crossed, late>>

\* The next row, or what comes after the last.
NextRow(c, todo) ==
    IF todo = {} /\ ~work[c].closes THEN End(c)
    ELSE GoOn(c, [work[c] EXCEPT !.todo = todo, !.target = {},
                                 !.pc = IF todo = {} THEN "close" ELSE "get"])

PepperedRows == {r \in Rows : row[r] = "active" /\ r[2] = "hmac"}

ActiveRows == {r \in Rows : row[r] = "active"}

\* deactivate_keys_for_tenant reads the tenant's keys from an index, which may
\* not have the last of them yet.
ListKeys(c) ==
    /\ At(c, "list")
    /\ \E listed \in SUBSET ActiveRows :
          /\ NextRow(c, listed)
          /\ late' = late \cup {r[1] : r \in ActiveRows \ listed}
    /\ UNCHANGED <<tenant, row, pepper, cache, touches, faults, admin, revoked,
                   by, crossed>>

StillActive(k, r) == \E s \in Schemes : <<k, s>> # r /\ row[<<k, s>>] = "active"

\* deactivate_api_key looks for the row ...
GetRow(c) ==
    /\ At(c, "get")
    /\ \E r \in work[c].todo :
          IF row[r] = "none"
          THEN /\ NextRow(c, work[c].todo \ {r})
               /\ crossed' = IF StillActive(r[1], r) THEN crossed \cup {r[1]} ELSE crossed
          ELSE /\ GoOn(c, [work[c] EXCEPT !.pc = "write", !.todo = @ \ {r}, !.target = {r}])
               /\ UNCHANGED crossed
    /\ UNCHANGED <<tenant, row, pepper, cache, touches, faults, admin, revoked,
                   by, late>>

\* ... and writes it, found or not, and drops it from the container's cache.
WriteRow(c) ==
    /\ At(c, "write")
    /\ \E r \in work[c].target : LET k == r[1] IN
          /\ row' = [row EXCEPT ![r] = IF @ = "none" THEN "bare" ELSE "inactive"]
          /\ cache' = [cache EXCEPT ![c][r] = NoEntry]
          /\ revoked' = [revoked EXCEPT ![k] = IF @ = Never THEN 0 ELSE @]
          /\ by' = [by EXCEPT ![k] = IF @ = Nobody THEN c ELSE @]
          /\ crossed' = IF row[r] = "none" \/ StillActive(k, r)
                        THEN crossed \cup {k} ELSE crossed
    /\ NextRow(c, work[c].todo)
    /\ UNCHANGED <<tenant, pepper, touches, faults, admin, late>>

\* A call fails: the admin is told, the loop over a tenant's keys goes on.
RowFails(c) ==
    /\ At(c, "get") \/ At(c, "write")
    /\ Fault
    /\ \E r \in work[c].todo \cup work[c].target : NextRow(c, work[c].todo \ {r})
    /\ UNCHANGED <<tenant, row, pepper, cache, touches, admin, revoked, by,
                   crossed, late>>

\* The tenant's own row, at the end of DELETE.
CloseAfter(c) ==
    /\ At(c, "close")
    /\ tenant' = FALSE
    /\ End(c)
    /\ UNCHANGED <<row, pepper, cache, touches, faults, admin, revoked, by,
                   crossed, late>>

\* The query of the keys, or the last write, fails: the rest is left undone.
CloseFails(c) ==
    /\ At(c, "list") \/ At(c, "close")
    /\ Fault /\ End(c)
    /\ UNCHANGED <<tenant, row, pepper, cache, touches, admin, revoked, by,
                   crossed, late>>

-----------------------------------------------------------------------------
(* Time *)

\* Cache entries grow old; a request does not see a second tick.
Tick ==
    /\ \A c \in Containers : work[c].lasted = 0
    /\ work' = [c \in Containers |->
         IF At(c, "idle") THEN work[c] ELSE [work[c] EXCEPT !.lasted = 1]]
    /\ cache' = [c \in Containers |-> [r \in Rows |->
         IF cache[c][r].left = 0 THEN NoEntry
         ELSE [cache[c][r] EXCEPT !.left = @ - 1]]]
    /\ revoked' = [k \in Keys |->
         IF revoked[k] < LongAgo THEN revoked[k] + 1 ELSE revoked[k]]
    /\ UNCHANGED <<tenant, row, pepper, touches, faults, admin, by, crossed,
                   late>>

-----------------------------------------------------------------------------
(* Specification *)

Auth(c) ==
    \/ \E k \in Keys : Authenticate(c, k)
    \/ LookupNew(c) \/ LookupOld(c) \/ Decide(c)
    \/ Reread(c) \/ PutCopy(c) \/ DeleteOld(c) \/ GiveUpMove(c)

Admin(c) ==
    \/ \E k \in Keys : Create(c, k)
    \/ \E r \in Rows : Revoke(c, r)
    \/ CheckName(c) \/ Store(c) \/ CloseTenant(c) \/ Reopen(c) \/ ListKeys(c)
    \/ GetRow(c) \/ WriteRow(c) \/ RowFails(c) \/ CloseAfter(c) \/ CloseFails(c)

Thread(c, r) == Touch(c, r) \/ TouchSkipped(c, r)

Next ==
    \/ \E c \in Containers : Auth(c) \/ Admin(c) \/ \E r \in Rows : Thread(c, r)
    \/ Tick

Spec == Init /\ [][Next]_vars

-----------------------------------------------------------------------------
(* Properties *)

\* A request that is about to be accepted, and one that is about to get 401.
Accepted(c, k) == At(c, "decide") /\ Key(c) = k /\ Valid(work[c].seen)
Refused(c, k) == At(c, "decide") /\ Key(c) = k /\ ~Valid(work[c].seen)

\* deactivate_api_key takes effect everywhere: a request that begins more
\* than the time-to-live of the cache, and the time of a request that was
\* filling it, after the write is refused, unless the write missed the key as
\* it was moved.  In the container that made the write it does so at once.
RevokedIsRefused == \A c \in Containers : \A k \in Keys \ crossed :
    Accepted(c, k) /\ revoked[k] # Never =>
        /\ revoked[k] <= TTL + 1 + work[c].lasted
        /\ by[k] = c => faults > 0

\* A key that nobody has deactivated is accepted, by every container and
\* before, while and after its row is moved, as long as no call has failed;
\* but not by a request that looked for the row while another one moved it.
ActiveIsAccepted == \A c \in Containers : \A k \in Keys :
    Refused(c, k) /\ ~work[c].raced => revoked[k] # Never \/ faults > 0

\* A tenant that has been closed has no active key, except for the keys that
\* it did not see, that were missed as they were moved, or, after a failure.
ClosedTenantHasNoKeys ==
    ~tenant /\ (\A c \in Containers : work[c].todo = {} /\ work[c].target = {}
                                      /\ ~At(c, "list"))
      => \A k \in Keys \ (late \cup crossed) :
            faults > 0 \/ \A s \in Schemes : row[<<k, s>>] # "active"

-----------------------------------------------------------------------------
(* What the code says, and a run refutes *)

\* _migrate_key_hash is "best-effort - failures are logged": a key that nobody
\* has deactivated is never refused for a row that lacks its record.
MoveIsHarmless == \A c \in Containers : \A k \in Keys :
    Refused(c, k) /\ pepper[c] = "known" /\ work[c].seen = "bare" => revoked[k] # Never
=============================================================================
