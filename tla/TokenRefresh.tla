---------------------------- MODULE TokenRefresh ----------------------------
(***************************************************************************)
(* The token store of the framework for ONE session key, replicated over   *)
(* server instances that share a persistence backend                       *)
(* (src/auth/store.rs over src/persistence.rs).  Every instance caches the  *)
(* session's token; `get_token` refreshes an expired one under two locks, a *)
(* process-local one and a lease in the backend, and picks up what a peer   *)
(* has refreshed instead of refreshing again.                              *)
(*                                                                         *)
(* Session keys are independent of one another, so one key is enough.  An   *)
(* action is what a task does between two awaits that another task of the   *)
(* same instance, or a peer, could observe.                                *)
(***************************************************************************)
EXTENDS Naturals, FiniteSets

CONSTANTS
    Instances,   \* server processes sharing the persistence backend
    Tasks,       \* requests calling get_token
    Home,        \* the instance a task runs on
    HasBackend,  \* FALSE: a single instance without persistence
    Rotation,    \* the answers Keycloak may give: TRUE rotates the refresh token
    Events,      \* what may happen beside get_token, from EventKinds
    MaxIssued,   \* bound: tokens Keycloak issues
    MaxExpiring, \* bound: only the first tokens issued expire
    MaxEpoch,    \* bound: removals per instance
    Free, Orphan,      \* lease values: nobody's, and a dead acquisition's
    NoToken, Unread    \* no record, and "the backend was not read yet"

EventKinds ==
    {"crash", "cancel", "lapse", "timeout", "backend", "upstream", "login", "remove"}

ASSUME ConstantsAssumption ==
    /\ Home \in [Tasks -> Instances]
    /\ HasBackend \in BOOLEAN
    /\ Rotation \subseteq BOOLEAN
    /\ Events \subseteq EventKinds
    /\ MaxIssued \in Nat \ {0} /\ MaxExpiring \in Nat
    /\ MaxEpoch \in Nat

ASSUME LeaseValuesAssumption ==
    Free \notin Tasks /\ Orphan \notin Tasks /\ Free # Orphan

VARIABLES
    cache,     \* TokenStore::tokens of each instance
    store,     \* the backend's record in NS_TOKENS
    dlock,     \* the backend's lease in NS_REFRESH_LOCK: whose acquisition
    mutation,  \* per instance: the mutation_lock and the write its holder owes
    epoch,     \* per instance: which Mutex refresh_locks holds
    issued,    \* Keycloak: tokens issued so far; the n-th is number n
    live,      \* Keycloak: refresh tokens it would still honour
    expired,   \* access tokens past their expiry (less TOKEN_EXPIRY_BUFFER)
    pc,        \* where a task is in get_token
    val,       \* the token a task carries over an await
    handle,    \* the epoch of the Mutex a task got from get_refresh_lock
    holding,   \* a task's lease: "lapsed" once its TTL has passed unnoticed
    wait       \* how a task's wait for the lease has gone so far

locks    == <<dlock, holding, wait>>
keycloak == <<issued, live>>
vars == <<cache, store, dlock, mutation, epoch, issued, live, expired,
          pc, val, handle, holding, wait>>

(***************************************************************************)
(* StoredToken: the access token's number, and its refresh token's; 0 when *)
(* the grant came without one.                                             *)
(***************************************************************************)
NoRefresh == 0
Token     == [at : Nat, rt : Nat]
OptToken  == Token \cup {NoToken}

ASSUME SentinelsAssumption ==
    NoToken \notin Token /\ Unread \notin Token /\ NoToken # Unread

Idle      == [op |-> "idle", tok |-> NoToken]
Starting  == {"boot", "load", "sweep"}
Removing  == {"removing", "removed", "purging", "purged"}
Mutations ==
    [op : {"idle", "refresh", "login"} \cup Removing \cup Starting, tok : OptToken]

\* What the holder of the mutation_lock owes; it carries no token.
Owes(op) == [op |-> op, tok |-> NoToken]

RawPoints   == {"first", "recheck", "material", "stored"}
AdoptPoints == {"adopt", "final"}
Upstream    == {"material", "post", "answered", "persist"}
Critical    == AdoptPoints \cup Upstream \cup
               {"recheck", "acquire", "poll", "stored", "release"}
Points      == Critical \cup {"idle", "first", "lookup", "local", "panicked"}

is_expired(tok) == tok.at \in expired

\* An expired token without refresh material is of no use to anybody.
Useless(tok) == tok # NoToken /\ is_expired(tok) /\ tok.rt = NoRefresh

-----------------------------------------------------------------------------
(***************************************************************************)
(* Reading a token.                                                        *)
(***************************************************************************)

\* load_token_from_backend: the record, or nothing when there is no backend
\* or it fails.
Loadable ==
    {IF HasBackend THEN store ELSE NoToken} \cup
    {tok \in {NoToken} : "backend" \in Events}

\* A cache miss in get_token_raw, and every adoption, reads the backend: the
\* answer is used in a later step.
LoadToken(t) ==
    /\ val[t] = Unread
    /\ \/ pc[t] \in RawPoints /\ cache[Home[t]] = NoToken
       \/ pc[t] \in AdoptPoints
    /\ \E tok \in Loadable : val' = [val EXCEPT ![t] = tok]
    /\ UNCHANGED <<cache, store, mutation, epoch, expired, pc, handle, locks, keycloak>>

\* get_token_raw has its answer: a cache hit, or the backend was asked.
RawReady(t) == val[t] # Unread \/ cache[Home[t]] # NoToken

\* get_token_raw's answer. A miss that was read through keeps the entry a
\* concurrent task put in the cache meanwhile (or_insert).
get_token_raw(t) ==
    IF val[t] # NoToken /\ cache[Home[t]] # NoToken
    THEN cache[Home[t]]
    ELSE val[t]

\* The write-back of get_token_raw; no mutation lock is held for it.
WriteBack(t) ==
    cache' = [cache EXCEPT ![Home[t]] = IF @ = NoToken THEN get_token_raw(t) ELSE @]

\* adopt_persisted_token answers with the record only when it is unexpired.
Adoptable(t) == val[t] # NoToken /\ ~is_expired(val[t])

Adopt(t) == cache' = [cache EXCEPT ![Home[t]] = val[t]]

-----------------------------------------------------------------------------
(***************************************************************************)
(* The lease of the backend: try_acquire_lock and release_lock.            *)
(***************************************************************************)

\* The acquisition in the backend is over: REFRESH_LOCK_WAIT exceeds
\* REFRESH_LOCK_TTL, so only from here on can a task blocked by it run out of
\* time.
LeaseEnds ==
    wait' = [u \in Tasks |-> IF wait[u] = "blocked" THEN "outlasted" ELSE wait[u]]

\* Mutant: release_lock deletes whatever is there.
ReleasedBlindly(t) == Free

\* release_lock is compare-and-delete.
ReleasedBy(t) == IF dlock = t THEN Free ELSE dlock

\* A dead acquisition stays in the backend under a UUID nobody will present.
Orphaned(dead) == IF dlock \in dead THEN Orphan ELSE dlock

\* The wait for the lease is over, or has not begun.
NotWaiting(t) == wait' = [wait EXCEPT ![t] = "fresh"]

Goto(t, p) == pc' = [pc EXCEPT ![t] = p]

\* The end of refresh_with_distributed_lock: release if holding, else return.
Finish(t) == Goto(t, IF holding[t] = "none" THEN "idle" ELSE "release")

Forget(t) == val' = [val EXCEPT ![t] = Unread]

-----------------------------------------------------------------------------
(***************************************************************************)
(* get_token.                                                              *)
(***************************************************************************)

GetToken(t) ==
    /\ pc[t] = "idle" /\ mutation[Home[t]].op \notin Starting
    /\ Goto(t, "first")
    /\ UNCHANGED <<cache, store, mutation, epoch, expired, val, handle, locks, keycloak>>

\* No token, a live one, or one without refresh material: the call returns.
FirstRead(t) ==
    /\ pc[t] = "first" /\ RawReady(t)
    /\ WriteBack(t)
    /\ LET tok == get_token_raw(t) IN
       Goto(t, IF tok # NoToken /\ is_expired(tok) /\ tok.rt # NoRefresh
               THEN "lookup" ELSE "idle")
    /\ Forget(t)
    /\ UNCHANGED <<store, mutation, epoch, expired, handle, locks, keycloak>>

\* get_refresh_lock hands out the Mutex refresh_locks has now.
GetRefreshLock(t) ==
    /\ pc[t] = "lookup"
    /\ handle' = [handle EXCEPT ![t] = epoch[Home[t]]]
    /\ Goto(t, "local")
    /\ UNCHANGED <<cache, store, mutation, epoch, expired, val, locks, keycloak>>

\* The same Mutex: same instance, same entry of refresh_locks.
SameMutex(t, u) == Home[t] = Home[u] /\ handle[t] = handle[u]

LocalAcquire(t) ==
    /\ pc[t] = "local"
    /\ \A u \in Tasks \ {t} : SameMutex(t, u) => pc[u] \notin Critical
    /\ Goto(t, "recheck")
    /\ UNCHANGED <<cache, store, mutation, epoch, expired, val, handle, locks, keycloak>>

\* The double check under the local lock, then refresh_with_distributed_lock
\* (which is do_refresh when there is no backend).
Recheck(t) ==
    /\ pc[t] = "recheck" /\ RawReady(t)
    /\ WriteBack(t)
    /\ LET tok == get_token_raw(t) IN
       Goto(t, IF tok # NoToken /\ ~is_expired(tok) THEN "idle"
               ELSE IF HasBackend THEN "acquire" ELSE "material")
    /\ Forget(t)
    /\ UNCHANGED <<store, mutation, epoch, expired, handle, locks, keycloak>>

\* Mutant: SET without NX.
AcquireAnyway(t) ==
    /\ pc[t] = "acquire"
    /\ dlock' = t
    /\ holding' = [holding EXCEPT ![t] = "held"]
    /\ NotWaiting(t)
    /\ Goto(t, "final")
    /\ UNCHANGED <<cache, store, mutation, epoch, expired, val, handle, keycloak>>

\* try_acquire_lock answers Ok(true): SET NX.
Acquire(t) ==
    /\ pc[t] = "acquire" /\ dlock = Free
    /\ dlock' = t
    /\ holding' = [holding EXCEPT ![t] = "held"]
    /\ NotWaiting(t)
    /\ Goto(t, "final")
    /\ UNCHANGED <<cache, store, mutation, epoch, expired, val, handle, keycloak>>

\* try_acquire_lock answers Ok(false): a peer holds the lease.
AcquireBusy(t) ==
    /\ pc[t] = "acquire" /\ dlock # Free
    /\ wait' = [wait EXCEPT ![t] = IF @ = "fresh" THEN "blocked" ELSE @]
    /\ Goto(t, "adopt")
    /\ UNCHANGED <<cache, store, dlock, mutation, epoch, expired, val, handle, holding,
                   keycloak>>

\* Mutant: a failing backend is polled again.
AcquireErrorRetries(t) ==
    /\ pc[t] = "acquire" /\ "backend" \in Events
    /\ Goto(t, "poll")
    /\ UNCHANGED <<cache, store, mutation, epoch, expired, val, handle, locks, keycloak>>

\* try_acquire_lock answers Err: refresh locally, without the lease.
AcquireError(t) ==
    /\ pc[t] = "acquire" /\ "backend" \in Events
    /\ NotWaiting(t)
    /\ Goto(t, "final")
    /\ UNCHANGED <<cache, store, dlock, mutation, epoch, expired, val, handle, holding,
                   keycloak>>

\* While waiting: adopt what the peer has persisted and return it, or poll.
WaitAdopt(t) ==
    /\ pc[t] = "adopt" /\ val[t] # Unread
    /\ IF Adoptable(t) THEN Adopt(t) /\ NotWaiting(t) /\ Goto(t, "idle")
                       ELSE UNCHANGED <<cache, wait>> /\ Goto(t, "poll")
    /\ Forget(t)
    /\ UNCHANGED <<store, dlock, mutation, epoch, expired, handle, holding, keycloak>>

PollAgain(t) ==
    /\ pc[t] = "poll"
    /\ Goto(t, "acquire")
    /\ UNCHANGED <<cache, store, mutation, epoch, expired, val, handle, locks, keycloak>>

\* The deadline of REFRESH_LOCK_WAIT has passed: refresh locally.
WaitTimeout(t) ==
    /\ pc[t] = "poll" /\ "timeout" \in Events /\ wait[t] = "outlasted"
    /\ NotWaiting(t)
    /\ Goto(t, "final")
    /\ UNCHANGED <<cache, store, dlock, mutation, epoch, expired, val, handle, holding,
                   keycloak>>

\* Mutant: no final check.
FinalCheckSkipped(t) ==
    /\ pc[t] = "final" /\ val[t] # Unread
    /\ Goto(t, "material")
    /\ Forget(t)
    /\ UNCHANGED <<cache, store, mutation, epoch, expired, handle, locks, keycloak>>

\* The final check before the work: a peer may have persisted a fresh token.
FinalCheck(t) ==
    /\ pc[t] = "final" /\ val[t] # Unread
    /\ IF Adoptable(t) THEN Adopt(t) /\ Finish(t)
                       ELSE cache' = cache /\ Goto(t, "material")
    /\ Forget(t)
    /\ UNCHANGED <<store, mutation, epoch, expired, handle, locks, keycloak>>

-----------------------------------------------------------------------------
(***************************************************************************)
(* refresh_token.                                                          *)
(***************************************************************************)

\* Mutant: a missing entry is not noticed.
MaterialUnchecked(t) ==
    /\ pc[t] = "material" /\ RawReady(t)
    /\ WriteBack(t)
    /\ Goto(t, "post") /\ val' = [val EXCEPT ![t] = get_token_raw(t)]
    /\ UNCHANGED <<store, mutation, epoch, expired, handle, locks, keycloak>>

\* The refresh token is taken from get_token_raw: the CACHED entry, if any.
Material(t) ==
    /\ pc[t] = "material" /\ RawReady(t)
    /\ WriteBack(t)
    /\ LET tok == get_token_raw(t) IN
       IF tok # NoToken /\ tok.rt # NoRefresh
       THEN Goto(t, "post") /\ val' = [val EXCEPT ![t] = tok]
       ELSE Finish(t) /\ Forget(t)
    /\ UNCHANGED <<store, mutation, epoch, expired, handle, locks, keycloak>>

\* Mutant: the presented refresh token is always kept.
RefreshedKeepsSpent(at, answered, spent) == [at |-> at, rt |-> spent]

\* The token built from the response: the old refresh token is kept when the
\* response carries none.
Refreshed(at, answered, spent) ==
    [at |-> at, rt |-> IF answered = NoRefresh THEN spent ELSE answered]

\* Keycloak honours the refresh token; rotating it spends the one presented.
KeycloakGrants(t) ==
    /\ pc[t] = "post" /\ val[t].rt \in live /\ issued < MaxIssued
    /\ issued' = issued + 1
    /\ \E rotated \in Rotation :
       LET answer == IF rotated THEN issued + 1 ELSE NoRefresh IN
       /\ live' = IF rotated THEN (live \ {val[t].rt}) \cup {answer} ELSE live
       /\ val' = [val EXCEPT ![t] = Refreshed(issued + 1, answer, val[t].rt)]
    /\ Goto(t, "answered")
    /\ UNCHANGED <<cache, store, mutation, epoch, expired, handle, locks>>

\* Mutant: a refused refresh puts the token it started from back.
RefusedRestores(t) ==
    /\ pc[t] = "post"
    /\ val[t].rt \notin live \/ issued = MaxIssued \/ "upstream" \in Events
    /\ store' = val[t]
    /\ Finish(t) /\ Forget(t)
    /\ UNCHANGED <<cache, mutation, epoch, expired, handle, locks, keycloak>>

\* The request fails: a spent refresh token (invalid_grant), an unreachable
\* Keycloak, or the bound on issued tokens. do_refresh turns it into None.
RefreshRefused(t) ==
    /\ pc[t] = "post"
    /\ val[t].rt \notin live \/ issued = MaxIssued \/ "upstream" \in Events
    /\ Finish(t) /\ Forget(t)
    /\ UNCHANGED <<cache, store, mutation, epoch, expired, handle, locks, keycloak>>

\* Keycloak has answered, but the answer is lost or cannot be read.
ResponseLost(t) ==
    /\ pc[t] = "answered" /\ "upstream" \in Events
    /\ Finish(t) /\ Forget(t)
    /\ UNCHANGED <<cache, store, mutation, epoch, expired, handle, locks, keycloak>>

\* store_token, first half: mutation lock taken, cache written.
StoreToken(t) ==
    LET i == Home[t] IN
    /\ pc[t] = "answered" /\ mutation[i] = Idle
    /\ cache' = [cache EXCEPT ![i] = val[t]]
    /\ mutation' = [mutation EXCEPT ![i] = [op |-> "refresh", tok |-> val[t]]]
    /\ Goto(t, "persist")
    /\ UNCHANGED <<store, epoch, expired, val, handle, locks, keycloak>>

\* What a write leaves in the backend: a failed one is only logged.
Written(tok) ==
    {IF HasBackend THEN tok ELSE store} \cup
    {old \in {store} : "backend" \in Events}

\* store_token, second half: the record is persisted, the lock dropped.
Persist(t) ==
    LET i == Home[t] IN
    /\ pc[t] = "persist"
    /\ store' \in Written(val[t])
    /\ mutation' = [mutation EXCEPT ![i] = Idle]
    /\ Goto(t, "stored")
    /\ Forget(t)
    /\ UNCHANGED <<cache, epoch, expired, handle, locks, keycloak>>

\* refresh_token reads the entry back; `expect("just stored")` panics when it
\* is gone: the guard is dropped, the lease is left to its TTL.
ReadBack(t) ==
    /\ pc[t] = "stored" /\ RawReady(t)
    /\ WriteBack(t)
    /\ Forget(t)
    /\ IF get_token_raw(t) # NoToken
       THEN Finish(t) /\ UNCHANGED <<dlock, holding>>
       ELSE /\ Goto(t, "panicked")
            /\ dlock' = Orphaned({t})
            /\ holding' = [holding EXCEPT ![t] = "none"]
    /\ UNCHANGED <<store, mutation, epoch, expired, handle, wait, keycloak>>

\* release_lock; when the backend fails the lease is left to its TTL.
Release(t) ==
    /\ pc[t] = "release"
    /\ holding' = [holding EXCEPT ![t] = "none"]
    /\ \/ /\ dlock' = ReleasedBy(t)
          /\ IF dlock = t THEN LeaseEnds ELSE wait' = wait
       \/ /\ "backend" \in Events
          /\ dlock' = Orphaned({t})
          /\ wait' = wait
    /\ Goto(t, "idle")
    /\ UNCHANGED <<cache, store, mutation, epoch, expired, val, handle, keycloak>>

-----------------------------------------------------------------------------
(***************************************************************************)
(* What happens around get_token.                                          *)
(***************************************************************************)

\* The TTL of the lease: of a dead acquisition always, of a working holder
\* only when it outlasts REFRESH_LOCK_TTL (an upstream call may: the store's HTTP
\* client sets no timeout).
LeaseLapses ==
    /\ dlock # Free
    /\ (dlock \in Tasks /\ holding[dlock] = "held") => "lapse" \in Events
    /\ dlock' = Free
    /\ holding' = [u \in Tasks |->
                     IF u = dlock /\ holding[u] = "held" THEN "lapsed" ELSE holding[u]]
    /\ LeaseEnds
    /\ UNCHANGED <<cache, store, mutation, epoch, expired, pc, val, handle, keycloak>>

\* Time passes: a token once issued expires.
AccessTokenExpires(n) ==
    /\ n \in (1..issued) \ expired /\ n <= MaxExpiring
    /\ expired' = expired \cup {n}
    /\ UNCHANGED <<cache, store, mutation, epoch, pc, val, handle, locks, keycloak>>

\* A new grant is stored under the key (callback_handler), or the client has
\* refreshed its own through the token endpoint, which spends a refresh token:
\* store_token, first half.
Login(i, withRefresh, spent) ==
    /\ "login" \in Events /\ issued < MaxIssued /\ mutation[i] = Idle
    /\ issued' = issued + 1
    /\ live' = (live \ spent) \cup (IF withRefresh THEN {issued + 1} ELSE {})
    /\ LET tok == [at |-> issued + 1,
                   rt |-> IF withRefresh THEN issued + 1 ELSE NoRefresh] IN
       /\ cache' = [cache EXCEPT ![i] = tok]
       /\ mutation' = [mutation EXCEPT ![i] = [op |-> "login", tok |-> tok]]
    /\ UNCHANGED <<store, epoch, expired, pc, val, handle, locks>>

\* remove_token, called by passthrough_token_handler to retire a superseded grant:
\* the cached entry goes first, under the mutation_lock.
RemoveToken(i) ==
    /\ "remove" \in Events /\ mutation[i] = Idle /\ epoch[i] < MaxEpoch
    /\ cache' = [cache EXCEPT ![i] = NoToken]
    /\ mutation' = [mutation EXCEPT ![i] = Owes("removing")]
    /\ UNCHANGED <<store, epoch, expired, pc, val, handle, locks, keycloak>>

\* Then, in a lock section of its own, the entry of refresh_locks: whoever looks the
\* Mutex up from here on gets another one.
RemoveMutex(i) ==
    /\ mutation[i].op = "removing"
    /\ epoch' = [epoch EXCEPT ![i] = @ + 1]
    /\ mutation' = [mutation EXCEPT ![i] = Owes("removed")]
    /\ UNCHANGED <<cache, store, expired, pc, val, handle, locks, keycloak>>

\* Mutant: expired is enough to be purged.
PurgeScanAll(i) ==
    /\ mutation[i] = Idle /\ epoch[i] < MaxEpoch
    /\ cache[i] # NoToken /\ is_expired(cache[i])
    /\ mutation' = [mutation EXCEPT ![i] = Owes("purging")]
    /\ UNCHANGED <<cache, store, epoch, expired, pc, val, handle, locks, keycloak>>

\* purge_expired collects the useless entries under a read guard.
PurgeScan(i) ==
    /\ mutation[i] = Idle /\ epoch[i] < MaxEpoch
    /\ Useless(cache[i])
    /\ mutation' = [mutation EXCEPT ![i] = Owes("purging")]
    /\ UNCHANGED <<cache, store, epoch, expired, pc, val, handle, locks, keycloak>>

\* It removes what it collected, whatever is there by now (an adoption takes no
\* mutation_lock): entry and Mutex, under both guards.
PurgeExpired(i) ==
    /\ mutation[i].op = "purging"
    /\ cache' = [cache EXCEPT ![i] = NoToken]
    /\ epoch' = [epoch EXCEPT ![i] = @ + 1]
    /\ mutation' = [mutation EXCEPT ![i] = Owes("purged")]
    /\ UNCHANGED <<store, expired, pc, val, handle, locks, keycloak>>

\* Second half of a login's store_token, of remove_token and purge_expired, and
\* the deletion of a useless record by load_persisted.
CommitMutation(i) ==
    /\ mutation[i].op \in {"login", "removed", "purged", "sweep"}
    /\ store' \in Written(mutation[i].tok)
    /\ mutation' = [mutation EXCEPT ![i] = Idle]
    /\ UNCHANGED <<cache, epoch, expired, pc, val, handle, locks, keycloak>>

\* The client of a login or of a removal hangs up: what is left of it is not done.
AbandonMutation(i) ==
    /\ "cancel" \in Events /\ mutation[i].op \in {"login", "removing", "removed"}
    /\ mutation' = [mutation EXCEPT ![i] = Idle]
    /\ UNCHANGED <<cache, store, epoch, expired, pc, val, handle, locks, keycloak>>

\* The request's future is dropped at an await (its client hung up): the guards
\* go with it, the lease is left to its TTL, a write not yet made is not made.
Cancel(t) ==
    /\ "cancel" \in Events /\ pc[t] \notin {"idle", "panicked"}
    /\ mutation' = [mutation EXCEPT ![Home[t]] = IF pc[t] = "persist" THEN Idle ELSE @]
    /\ dlock' = Orphaned({t})
    /\ holding' = [holding EXCEPT ![t] = "none"]
    /\ NotWaiting(t)
    /\ Goto(t, "idle")
    /\ Forget(t)
    /\ UNCHANGED <<cache, store, epoch, expired, handle, keycloak>>

\* The process dies, its tasks with it, and comes back.
Restart(i) ==
    LET dead == {t \in Tasks : Home[t] = i} IN
    /\ "crash" \in Events
    /\ cache' = [cache EXCEPT ![i] = NoToken]
    /\ mutation' = [mutation EXCEPT ![i] = Owes("boot")]
    /\ dlock' = Orphaned(dead)
    /\ pc' = [t \in Tasks |-> IF t \in dead THEN "idle" ELSE pc[t]]
    /\ val' = [t \in Tasks |-> IF t \in dead THEN Unread ELSE val[t]]
    /\ holding' = [t \in Tasks |-> IF t \in dead THEN "none" ELSE holding[t]]
    /\ wait' = [t \in Tasks |-> IF t \in dead THEN "fresh" ELSE wait[t]]
    /\ UNCHANGED <<store, epoch, expired, handle, keycloak>>

\* load_persisted reads the record before the instance serves; a useless one is
\* deleted in a step of its own.
LoadPersisted(i) ==
    /\ mutation[i].op = "boot"
    /\ LET found == IF HasBackend THEN store ELSE NoToken IN
       mutation' = [mutation EXCEPT ![i] =
                      IF found = NoToken THEN Idle
                      ELSE IF Useless(found) THEN Owes("sweep")
                      ELSE [op |-> "load", tok |-> found]]
    /\ UNCHANGED <<cache, store, epoch, expired, pc, val, handle, locks, keycloak>>

InsertPersisted(i) ==
    /\ mutation[i].op = "load"
    /\ cache' = [cache EXCEPT ![i] = mutation[i].tok]
    /\ mutation' = [mutation EXCEPT ![i] = Idle]
    /\ UNCHANGED <<store, epoch, expired, pc, val, handle, locks, keycloak>>

\* A record without refresh material is stored with the token's lifetime as TTL.
RecordEvicted ==
    /\ HasBackend /\ Useless(store)
    /\ store' = NoToken
    /\ UNCHANGED <<cache, mutation, epoch, expired, pc, val, handle, locks, keycloak>>

-----------------------------------------------------------------------------
\* A grant has just been stored by one of the instances.
Init ==
    LET first == [at |-> 1, rt |-> 1] IN
    /\ issued = 1 /\ live = {1} /\ expired = {}
    /\ \E i \in Instances : cache = [j \in Instances |-> IF j = i THEN first ELSE NoToken]
    /\ store = IF HasBackend THEN first ELSE NoToken
    /\ dlock = Free
    /\ mutation = [i \in Instances |-> Idle]
    /\ epoch = [i \in Instances |-> 0]
    /\ pc = [t \in Tasks |-> "idle"]
    /\ val = [t \in Tasks |-> Unread]
    /\ handle = [t \in Tasks |-> 0]
    /\ holding = [t \in Tasks |-> "none"]
    /\ wait = [t \in Tasks |-> "fresh"]

\* The steps a task takes by itself once called.
Step(t) ==
    \/ LoadToken(t) \/ FirstRead(t) \/ GetRefreshLock(t) \/ Recheck(t)
    \/ Acquire(t) \/ AcquireBusy(t) \/ AcquireError(t)
    \/ WaitAdopt(t) \/ PollAgain(t) \/ FinalCheck(t)
    \/ Material(t) \/ KeycloakGrants(t) \/ RefreshRefused(t) \/ ResponseLost(t)
    \/ StoreToken(t) \/ Persist(t) \/ ReadBack(t) \/ Release(t)

Next ==
    \/ \E t \in Tasks :
         GetToken(t) \/ LocalAcquire(t) \/ WaitTimeout(t) \/ Cancel(t) \/ Step(t)
    \/ \E i \in Instances :
         \/ \E withRefresh \in BOOLEAN, spent \in {{}} \cup {{r} : r \in live} :
                Login(i, withRefresh, spent)
         \/ RemoveToken(i) \/ RemoveMutex(i) \/ PurgeScan(i) \/ PurgeExpired(i)
         \/ CommitMutation(i) \/ AbandonMutation(i)
         \/ Restart(i) \/ LoadPersisted(i) \/ InsertPersisted(i)
    \/ \E n \in 1..MaxIssued : AccessTokenExpires(n)
    \/ LeaseLapses \/ RecordEvicted

Spec == Init /\ [][Next]_vars

\* tokio polls every runnable task, its Mutex is first come first served, the
\* deadline of a wait passes and a TTL runs out. That Keycloak's connection is
\* answered or fails is an assumption: the request has no timeout.
Fairness ==
    /\ \A t \in Tasks : WF_vars(Step(t) /\ pc[t] # "post")
    /\ \A t \in Tasks : WF_vars(KeycloakGrants(t) \/ RefreshRefused(t))
    /\ \A t \in Tasks : SF_vars(LocalAcquire(t)) /\ SF_vars(WaitTimeout(t))
    /\ \A i \in Instances :
         /\ WF_vars(RemoveMutex(i) \/ PurgeExpired(i) \/ CommitMutation(i))
         /\ WF_vars(LoadPersisted(i) \/ InsertPersisted(i))
    /\ WF_vars(LeaseLapses)

FairSpec == Spec /\ Fairness

-----------------------------------------------------------------------------
(***************************************************************************)
(* Properties.                                                             *)
(***************************************************************************)

\* Type invariant of the token store's state; a task that talks to Keycloak
\* or stores its answer carries a token.
TypeOK ==
    /\ cache \in [Instances -> OptToken]
    /\ store \in OptToken
    /\ dlock \in Tasks \cup {Free, Orphan}
    /\ mutation \in [Instances -> Mutations]
    /\ epoch \in [Instances -> Nat]
    /\ issued \in Nat
    /\ live \in SUBSET Nat
    /\ expired \in SUBSET Nat
    /\ pc \in [Tasks -> Points]
    /\ val \in [Tasks -> OptToken \cup {Unread}]
    /\ handle \in [Tasks -> Nat]
    /\ holding \in [Tasks -> {"none", "held", "lapsed"}]
    /\ wait \in [Tasks -> {"fresh", "blocked", "outlasted"}]
    /\ \A t \in Tasks : pc[t] \in {"post", "answered", "persist"} => val[t] \in Token

\* release_lock, lapse and crash together never take the lease from a task
\* whose TTL still runs: such a task owns the backend's lease, so there is at
\* most one, whatever late releases, timeouts and restarts do around it.
LeaseExclusion ==
    \A t \in Tasks : holding[t] = "held" => dlock = t /\ pc[t] \in Critical

\* The lease is what it promises to be: no lapse under a working holder, no
\* wait that gives up, no failing backend.
LeaseUnbroken == HasBackend /\ Events \cap {"lapse", "timeout", "backend"} = {}

\* refresh_with_distributed_lock serializes refreshes over all instances: with
\* an unbroken lease no two tasks are between reading the refresh token and
\* persisting the answer, crashes, logins and removals notwithstanding.
SerializedRefresh ==
    LeaseUnbroken =>
        \A t, u \in Tasks : pc[t] \in Upstream /\ pc[u] \in Upstream => t = u

\* No duplicate refresh: with an unbroken lease a refresh goes upstream only
\* while the shared record is gone or expired, so a peer's fresh token is
\* always adopted instead (no login may race it).
NoNeedlessRefresh ==
    LeaseUnbroken /\ "login" \notin Events =>
        \A t \in Tasks :
            pc[t] \in Upstream => store = NoToken \/ is_expired(store)

\* Whoever holds the refresh token Keycloak would honour: the backend, a cache,
\* or the task that is storing the answer.
Kept(r) ==
    \/ store # NoToken /\ store.rt = r
    \/ \E i \in Instances : cache[i] # NoToken /\ cache[i].rt = r
    \/ \E t \in Tasks : pc[t] \in {"answered", "persist"} /\ val[t].rt = r

\* A lapsed lease, a wait that timed out or a failing backend may cost an
\* extra refresh, never the grant: the refresh token Keycloak would honour is
\* always held somewhere, although several tasks may have presented its
\* predecessor (refresh_token, store_token). Keycloak rotates always or never: of
\* two answers to one refresh token, the one that did not rotate it may be stored
\* last and be adopted everywhere.
GrantNeverLost ==
    Events \subseteq {"lapse", "timeout", "backend"} /\ (\A a, b \in Rotation : a = b)
        => \A r \in live : Kept(r)

\* A refreshed record is never overwritten by an older one, although tasks
\* that lost their lease may still be about to persist (store_token). A
\* refresh token Keycloak does not rotate would let both succeed.
RecordNeverRegresses ==
    [][Events \subseteq {"crash", "lapse", "timeout", "backend"} /\ Rotation = {TRUE}
         => (store # NoToken /\ store' # NoToken => store'.at >= store.at)]_vars

\* Every get_token call returns: no holder's crash, lost lease, failing
\* backend or refused refresh makes it wait for ever.
CallsReturn ==
    \A t \in Tasks : (pc[t] # "idle") ~> (pc[t] \in {"idle", "panicked"})

\* The refresh path presents a refresh token Keycloak still honours: the
\* staleness of a cached token is bounded by its expiry, when the refresh path
\* re-reads persistence.
PresentsLiveRefreshToken ==
    \A t \in Tasks : pc[t] = "post" => val[t].rt \in live

\* refresh_token finds the entry it has just stored: its assertion holds.
JustStored == \A t \in Tasks : pc[t] # "panicked"

\* What it takes to break that assertion: somebody removes the grant (remove_token), or
\* logs in without refresh material, which expires and is purged. Else no crash, hang-up,
\* lost lease, lost answer or failing backend, no purge and no peer takes the entry away
\* under the call, however often its token expires before it is read back.
PanicOnlyIfReplaced == Events \cap {"login", "remove"} = {} => JustStored
=============================================================================
