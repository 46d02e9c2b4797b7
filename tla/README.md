# Verification of mcp-framework

TLA+ models of the parts of mcp-framework that keep state: what several server
instances share through a persistence backend, and what the requests of one
instance share in memory. TLC runs check them on small instances; TLAPS proofs
show their main properties for any number of instances, requests and updates.

## 1. Inventory

mcp-framework serves MCP over HTTP, stdio or an in-process loopback. Behind a
load balancer without sticky sessions every instance serves every session, so
its state is cached per instance and shared through `PersistenceBackend`
(`src/persistence.rs`; Redis in production).

| component | state | operations | what is hard | what makes it correct |
|---|---|---|---|---|
| token store (`auth/store.rs`) | `tokens` and `refresh_locks` per instance, `mutation_lock`, record and lease in the backend | `get_token`, `refresh_token`, `store_token`, `remove_token`, `purge_expired`, `load_persisted` | two layers of locks, one of them a lease with a TTL; every step is an await; Keycloak rotates refresh tokens | one refresh at a time, none that is not needed, the live refresh token is never lost, every call returns |
| session store (`session/mod.rs`) | `sessions` per replica, `mutation_lock`, record and lease | `get_or_create`, `get`, `update`, `remove`, `purge_expired`, `load_persisted` | every operation writes back what it has cached; expiry and purge race with renewals | the record is one atomic value: no lost update, no renewed record deleted (except by a starting replica, section 4) |
| persistence backend (`persistence.rs`, `persistence_redis.rs`) | records with a TTL, leases | `get`, `set`, `touch`, `delete`, `keys`, `try_acquire_lock`, `release_lock` | failures, TTLs | a lease has one owner, a release frees only its own |
| opaque tokens (`auth/store.rs`, `auth/proxy.rs`) | `OpaqueIndex`, one forward and two inverse records | store, resolve, rotate, remove | three records written one by one, cached by peers | a token serves the user it was minted for, the index is its own inverse, a rotated token stops resolving (not on a peer that has it cached, section 4) |
| bearer middleware (`auth/middleware.rs`) | none of its own | authenticate, adopt a grant, store | reads a token, awaits, then stores | an observed bearer never downgrades a grant |
| OAuth proxy, routes, registration | pending and proxied authorizations, client redirects, grant index | authorize, callback, token, register | single use across instances, lost merges | an authorization is taken once |
| session bindings (`auth/binding.rs`) | table per instance, record | `claim` | detached write-through, renewal, eviction at the cap | a settled session stays its owner's; one identity per session (with gaps, section 4) |
| JWKS validator (`auth/jwks.rs`) | key cache, cooldown | `validate`, `refresh_keys` | stale keys, failing fetches, the fetch lock | an outage costs one request a cooldown, bounded fetches |
| transport sessions (`transport/session_persistence.rs`) | record | load, store, delete | delete between read and touch | a deleted record does not come back |
| capability registry (`capability/registry.rs`) | tools, prompts, resources, version, peers | add, remove, notify | the version hash is computed over three awaits | the version that settles is the hash of the content |
| handler, filter, validator (`capability/handler.rs`, `filter.rs`) | none of its own | list, call, get, read | every await lets the registry and the session's token change | a tool runs as it was checked, a listing shows what a call would reach |
| protocol lifecycle (`transport/protocol.rs`) | the ceiling, settled at boot | negotiate, repair `initialize` | header and body are rewritten separately | the ceiling is respected, the repair breaks no agreement |
| sanitize, metrics, audit, config, metadata, stdio, loopback, runner | counters, configuration | | | see section 6 |

The components meet in three places. The middleware, the token endpoint and
capability filters call the token store; tools call the session store; both
stores share the backend and hold, per instance, a `mutation_lock` that orders
a write of the cache with the write of the record.

## 2. Modules

| module | models |
|---|---|
| `TokenRefresh` | the token store for one session key over several instances |
| `TokenRefreshProofs` | its theorems |
| `AtomicSession` | what a session promises: one value that updates extend |
| `SessionStore` | the session store for one session id over several replicas |
| `SessionStoreProofs` | its theorems, the refinement of `AtomicSession` among them |
| `OpaqueTokens`, `OpaqueTokensProofs` | opaque mode: index, mapping and inverse records, logins, uses, rotations, purges and boots |
| `PassthroughGrant`, `PassthroughGrantProofs` | passthrough mode: bearer middleware and token endpoint over one token store |
| `AuthModes`, `AuthModesProofs` | opaque and passthrough mode side by side |
| `SessionBindings` | which identity a protocol session belongs to |
| `BearerValidation` | JWKS cache and introspection for bearers the server did not issue |
| `BearerProofs` | the theorems of SessionBindings and BearerValidation |
| `OAuthFlow`, `OAuthFlowProofs` | registration, authorization, login and callback |
| `TransportSession` | recovery of protocol sessions over the Redis backend |
| `CapabilityRegistry` | dynamic capabilities, the version hash, notification of peers |
| `ToolDispatch` | the dynamic handler between filter, validator, registry and inner handler |
| `ProtocolLifecycle` | the version ceiling and the repair of `initialize` |
| `ServerState` | the seven components from SessionBindings to ProtocolLifecycle side by side |
| `ServerProofs` | the theorems of TransportSession, CapabilityRegistry, ToolDispatch, ProtocolLifecycle and ServerState |
| `MCTokenRefresh`, `MCSessionStore`, `MCPassthrough` | small instances for TLC |
| `MCAuthModes`, `MCServerState` | small instances of the compositions |

In the token store and the session store keys are independent of one another
(separate entries, records and leases; only the `mutation_lock` is shared), so
each of their modules has one.

### TokenRefresh

Variables are the fields of `TokenStore` (`cache`, `mutation`, `epoch` for the
identity of the Mutex in `refresh_locks`), the backend's record and lease
(`store`, `dlock`), Keycloak (`issued`, `live`), time (`expired`) and, per
task, what its `get_token` future holds over an await (`pc`, `val`, `handle`,
`holding`, `wait`). A token is the number of its access token and of its
refresh token; 0 is no refresh token.

An action is what a task does between two awaits that somebody else could
observe. `get_token` is `GetToken`, `FirstRead`, `GetRefreshLock` (the lookup of the
Mutex, a lock section of its own), `LocalAcquire`, `Recheck`;
`refresh_with_distributed_lock` is `Acquire`, `AcquireBusy`, `AcquireError`,
`WaitAdopt`, `PollAgain`, `WaitTimeout`, `FinalCheck`, `Release`;
`refresh_token` is `Material`, Keycloak's `KeycloakGrants`, `RefreshRefused`
and `ResponseLost`, then `StoreToken`, `Persist` (the two halves of
`store_token`) and `ReadBack`. `LoadToken` is the read of the backend in
`get_token_raw` and `adopt_persisted_token`, split from the use of its answer.
Around them `Login`; `RemoveToken` and `RemoveMutex`, the two lock sections of
`remove_token` (the cached entry goes first, the entry of `refresh_locks` an
await later); `PurgeScan` and `PurgeExpired`, which removes what was collected,
both entries under both guards; `CommitMutation`, the record that follows a
login, a removal or a purge; `AbandonMutation` and `Cancel` (the future of a
login or removal, of a request, is dropped), `Restart`, `LoadPersisted`,
`InsertPersisted`, `AccessTokenExpires`, `RecordEvicted` and `LeaseLapses`.

`Events` names what may happen: `crash`, `cancel`, `lapse` (the TTL of the
lease passes under a working holder), `timeout` (a wait for the lease gives
up), `backend` and `upstream` (calls fail), `login`, `remove`. A wait can give
up only after some lease has ended under it, because `REFRESH_LOCK_WAIT`
exceeds `REFRESH_LOCK_TTL` (`wait` records this). A store without refresh
configuration never refreshes and is not modelled. A corrupted record is a
failed read.

### SessionStore

A replica runs one operation at a time, because every operation holds the
`mutation_lock` from start to end. An operation is `Update`, `Access`,
`Remove` or `PurgeExpired`, then `Acquire` (or `AcquireError`, `WaitTimeout`),
`Load` and perhaps `Expire`, one of `GetOrCreate`, `Get`, `ApplyUpdate`,
`ApplyRemove`, `NothingToWrite`, then `Persist` or `Delete`, and `Release`.
`Crash` is followed by `LoadPersisted`, `CleanPersisted`, `InsertPersisted`,
which take no lease. `CacheAges`, `RecordExpires`, `RecordEvicted` and
`LeaseLapses` are time. Session data is the set of updates applied to the
default, which is what a lost update can be seen in. `past` and `acked` are
ghosts for `AtomicSession`. A store without a backend is a single replica
ordered by its `mutation_lock` and is not modelled.

`AtomicSession` has one value. `Extend` adds one update to the current value
(or to a value the session has had, or the default, if there is none),
`Touch` writes a value the session has had, `Return` acknowledges an update
that is in the value, `Clear` ends the session.

### OpaqueTokens

Each instance has the three maps of `OpaqueIndex` (`opAcc`, `opRef`, `opMap`);
the backend has the forward record of a session (`opFwd`) and the inverse
record of each token (`opInv`). A mutation changes the index under its lock
and leaves a list of backend operations that `OpWork` makes one at a time.
`opaque_token_handler` and `handle_opaque_refresh` with `build_opaque_response`
are the token endpoint; `resolve_opaque`, `expire_opaque_access`,
`load_inverse`, `load_opaque_mapping`, `hydrate_opaque` and
`bearer_auth_middleware` are a use of a token, by the index or by the backend;
`purge_expired`, `recover_opaques` and `remove_opaque_for_session` remove;
`load_tokens`, `load_opaque_keys`, `load_opaque`, `delete_orphan` and
`load_done` are a boot. `OpHangUp`, `OpLapse`, `OpGrantDies` and `OpCrash` are
what happens to them. Whether the grant behind a session can be refreshed is
TokenRefresh; here it works or is dead.

### PassthroughGrant

`ptStore` is the token store of one instance, by session key; `ptIndex` the
index of grants by their refresh token. `passthrough_token_handler`,
`retire_grant`, `grant_store` and `index_grant_refresh` are `/oauth/token`.
`peek_session`, `peek_grant`, `validate_bearer`, `decide`, `get_token` and
`refresh_store` are the passthrough branch of the middleware, one action for
each await; `principal_ok` and `replacement` are its decisions. The
authorization server (`PtIssue`, `PtGrant`, `PtExpire`) honours the refresh
token it issued last. Tokens are JWTs with stable claims or opaque strings
(`ptClaims`), which decides how a key is derived.

### SessionBindings

`bindings` is the table of an instance, `bindRecord` the record in the backend,
`bindWrites` the write-throughs that `claim` has spawned and not awaited.
`authorize_as_resource_server` is the arrival and the hot path, `claim_cold`
the read of the backend, `claim_peer` and `claim_own` its outcomes with
`remember` and its eviction (`Survivors`), `claim_write` a detached write.
`Settled(s, x)` says that everything that decides a claim of s names x: the
record, each live entry, the writes and the claims under way.

### BearerValidation

`jwKeys`, `jwFetched`, `jwAttempted`, `jwError` and `jwLock` are `KeyCache` and
the fetch lock; `jwDenied` is the latch that stops introspection after a
refusal. `jwks_validate`, `refresh_keys`, `fetch_keys` and
`lookup_after_refresh` are `JwksValidator::validate`; `introspect_access_token`
and `introspection_answer` are the fallback. `JwRotate` changes what the issuer
publishes, `JwTick` is time, `JwFinish` ends or drops a request at any await.

### OAuthFlow

Registered clients and parked authorizations are cached per instance
(`ofClients`, `ofProxied`) and persisted (`ofRegistry`, `ofParked`); pending
logins (`ofPending`) are in memory. `register_handler` and
`register_client_redirects`; `authorize_handler`, `client_redirects`,
`cache_client`, `park_authorization`, `refuse_redirect` and
`store_proxied_authorization`; `login_handler`; `callback_handler`,
`peek_parked`, `take_proxied_authorization`, `forward_proxied_callback`,
`login_callback` and `exchange_code` are the handlers, cut at their awaits.
Backend calls fail (`ok`), authorizations expire, requests hang up, instances
crash. The sets of history variables (`ofAsked`, `ofRegistered`, `ofCodes`,
`ofAnswers`, ...) record what was asked and answered.

### TransportSession

`tsLeft` is the remaining ttl of a key, `tsIndex` the namespace index. `store`,
`delete`, `load_get` and `load_touch` over `redis_set`, `redis_delete` and
`touch`; `tsTouches` tells a backend with `touch` from one with the default.

### CapabilityRegistry

`cpItems`, `cpVersion`, `cpPeers` have a lock each in the code and are changed
in separate steps. A task is one call: `add_item` or `remove_item`, then
`CpHashNext` over the three maps and `recompute_version`, then `CpLockPeers`,
`notify_peer` for each connection, `drop_peer` for each one noted as gone (the
highest index first, by `swap_remove`) and `notify_peers`, which frees the lock.
`register_peer`, `on_initialized`, `notify_if_changed`, `save_version` and
`tell_peer` are a connection's start, `load_persisted_versions` a restart. A
failed send does not close the connection: `notify_peer` notes it for removal
as the code does, `tell_peer` only logs it. `cpFailed` is history: the open
connections that a failed send took off the list.
The hash is the sequence of sorted names itself (`CpInOrder`): without
collisions.

### ToolDispatch

A request is one slot (`tdCall`) that carries the credential the validator was
shown (`checked`) and the one the tool gets (`given`). A listing is
`TdResolve`, `TdInnerList`, `list_items`; a use is `TdResolve`, `TdValidate`,
`query_filter`, `contains_tool`, `tool_context`, `try_dispatch`. `TdRegister`,
`TdStoreToken` and `TdRemoveToken` come in between.

### ProtocolLifecycle

`PlBoot` settles the ceiling from the builder and the environment and caps what
the handler supports; `normalize_protocol_lifecycle` passes or rewrites a
request. Revisions are numbers in the order of their dates.

### Compositions

`AuthModes` has the variables of both token modes; a deployment runs one, so a
behaviour chooses a `focus`, moves that mode and leaves the other at its start.
`ServerState` interleaves its seven components freely: each step is a step of
one and leaves the variables of the others alone. They share none, so a
behaviour of the composition is a behaviour of every component (`ServerComposed`
and `AuthComposed` prove it), and the properties of a component, which speak of
its variables only, need no product of state spaces: `MCServerState` restricts
`ServerState` to behaviours that move one component, its `focus`, for as long as
they last.
Where components do share state, they are in one module: the middleware and the
token endpoint (PassthroughGrant), the token endpoint, the index and the boot
(OpaqueTokens), keys and introspection (BearerValidation), the two OAuth flows
behind one callback (OAuthFlow), handler, token and registry (ToolDispatch).

## 3. Runs

| run | checks | shows |
|---|---|---|
| `refresh_serialized` | `SerializedRefresh`, `NoNeedlessRefresh` | three tasks on two instances, with removals; requests dropped between two steps are left to the theorem `RefreshSerialized` |
| `refresh_faults` | `TypeOK`, `LeaseExclusion` | two tasks of one instance and a peer without tasks; logins, removals, purges, dropped requests, lapses, timeouts, a failing Keycloak |
| `refresh_degraded` | `GrantNeverLost`, `PanicOnlyIfReplaced`, `RecordNeverRegresses` | three tasks, leases lapse, waits give up, the backend fails |
| `refresh_liveness` | `CallsReturn` | three tasks, crash and start, dropped request, timeout, failing backend |
| `refresh_stale` | `PresentsLiveRefreshToken` violated | finding 1 |
| `refresh_panic` | `JustStored` violated | finding 2 |
| `session_atomic` | `NoLostUpdate`, `ExpireSparesLiveRecord`, `AtomicRecord` | two replicas, two updates, crash, removal, expiry |
| `session_faults` | `TypeOK`, `LeaseOwned`, `OperationsReturn` | two replicas, crash, lapse, timeout, failing backend |
| `session_revived` | `StartsFromDefault` violated | finding 3 |
| `auth_modes` | `IndexCoherent`, `OpaqueIsolation`, `MappingResolvable`; `OnlyVouched`, `UnracedServedAsSelf`, `UnknownBearerOnlyAdvances`; `AuthTypeOK` | opaque mode on two instances, three token pairs and one interruption; passthrough mode with two users, one session and a forged bearer |
| `passthrough_downgrade` | `BearerNeverDowngrades` violated | finding 4 |
| `server_state` | `TableBounded`, `SettledSessionKept` | two instances, two sessions, two identities, two delayed writes, one fault |
| | `AcceptedIsVouched`, `IssuerNotHammered`, `StaleKeysOnlyInOutage`, `OutageCostsOneRequest` | two keys that rotate, every policy, two requests |
| | `CodeOnlyToAllowed`, `CodeUsedOnce`, `RegisteredIsKnown` | two clients, three URIs, two instances, one fault |
| | `DeletedStaysDeleted`, `IndexCoversKeys` | two sessions, two loads, with and without `touch` |
| | `QuietPeersAreCurrent`, `UnracedVersionCurrent` | two connections of one session, two overlapping changes |
| | `RunsAsChecked`, `ListedAsDispatched` | two calls, tools, prompts and resources, with and without validator |
| | `CeilingRespected`, `RepairKeepsAgreement`; `ServerTypeOK` | every configuration and every request over four dates; the types of all seven components |

Bounds. `MaxIssued` bounds the tokens Keycloak issues: 2 lets a token be
refreshed once by each of the contenders that believe it expired, 3 (in
`refresh_degraded` and `refresh_stale`) lets a peer be two rotations behind, or a
second call find what a first one refreshed. `MaxExpiring` bounds which of them
expire; only `refresh_faults` lets the last one expire, which is what a purge and
a useless record need. `MaxEpoch` is 1: two Mutexes for one key are enough for two
tasks to hold different ones. Two updates of a session are the least that can
lose one.

In `auth_modes` three pairs are a login of each user and one rotation, or a
login and two rotations; one slot mints and purges on one instance while the
other uses and rotates on the second, and one event (hang-up, crash, lapse or
dead grant) hits any of it. `PtMaxVer` gives one user a second token, so that a
bearer may be old, and the other none.

In `server_state` a binding table of one entry makes every second session an
eviction, a ttl of two ticks has a fresh half and one past half-life, and two
delayed writes can race; `JwCooldown` 1 below `JwTtl` 2 lets keys be stale while
the cooldown runs; one authorization state is taken by callbacks on both
instances and one cached client makes the second a miss; two changes of one tool
are the least whose hashes can overlap; one refresh is the least that can come
between check and call. The slots `r1` and `r2` of these components are
interchangeable (`SYMMETRY`; the action properties quantify over all slots, and
no liveness property is checked with it). Deadlock is checked everywhere: time
and new calls always leave a step.

Fairness. tokio polls every runnable task (`WF` of a task's own steps), its
`Mutex` is fair and the deadline of a wait passes (`SF` of `LocalAcquire` and
`WaitTimeout`: both may be disabled and enabled again while others hold the
lock), and a TTL runs out (`WF` of `LeaseLapses`). That Keycloak's connection
is answered or fails is an assumption and not a property of the code:
`TokenStore::new` builds its HTTP client without a timeout, and a connection
that hangs holds the session's Mutex.

Mutants. Every property of a passing run is violated when one definition is
replaced by a plausible bug (the definitions marked `Mutant`): a lock taken
without NX, a release that does not compare, a skipped re-check, a refresh
token kept although it was rotated, a merge that prefers the cache or the inner
handler, a record of another identity that is not compared.

## 4. Findings

1. `adopt_persisted_token` (store.rs:1205) ignores a record whose access token
   has expired, and `refresh_token` (store.rs:503) takes the refresh token from
   the cache. An instance that missed two rotations presents a spent refresh
   token while a live one is persisted. docs/sessions.md:75 calls the staleness
   bounded: "on expiry the refresh path re-reads persistence".
2. `refresh_token` reads back what it has stored after the `mutation_lock` is
   free; `remove_token` may come between and `expect("just stored")`
   (store.rs:578) panics.
3. `get_or_create`, `get` and `update` fall back to the replica's cache when the
   record is gone, so a session removed by a peer returns with its data.
   mod.rs:198: "without writing a stale replica cache".
4. In passthrough mode a grant t1+rt1 is stored under the grant's key and copied
   to the session's entry on first use. When t1 expires the server refreshes
   the session's entry to t2+rt2 and leaves the grant's key alone. The client
   knows only t1, comes back with it, matches the grant's key and has t1+rt1
   written over t2+rt2 (middleware.rs:421); the next refresh sends the spent
   rt1. docs/sessions.md:36: "an observed bearer never downgrades proxy-issued
   grant material".

Observations the models show and no run is spent on:

- `SessionStore::load_persisted` (mod.rs:397) deletes without the lease what it
  has read as expired an await earlier: a session that a peer has touched or
  updated in between is lost. mod.rs:123 calls the lease "used by every operation
  that can write a session record"; the same loss is ruled out for the purge at
  mod.rs:354. `NoLostUpdate` names this delete as the one exception.
- A peer that has used an opaque access token before it was rotated accepts it
  from its index until its lifetime ends (store.rs:1312), without asking for the
  forward mapping. store.rs:1265: "a rotated access token stops being accepted
  even before its stale inverse entry is deleted", which is so only for readers
  that go through the inverse entry. `IndexCoherent` is about one instance's
  index and does not see it.
- Two instances that see a protocol session for the first time, one after the
  other but before the detached write of the first (binding.rs:139), bind it to
  two identities and serve both (binding.rs:132). binding.rs:25: "every later
  request must present the same identity or be refused". `SettledSessionKept`
  says from when on the promise holds.
- A request past half-life finds the record and extends the local entry by a
  whole ttl (binding.rs:105); nothing extends the record. It lapses while the
  instance still enforces the binding, and with no concurrency at all a peer then
  binds the session to the next identity that asks. docs/auth.md:89: "so a peer
  instance behind a round-robin load balancer enforces the same binding".
- When the keys are past their ttl and the fetch fails, `refresh_keys().await?`
  (jwks.rs:220) rejects the request as unavailable before the second lookup,
  although the key is held. jwks.rs:221: "a key we still hold beats rejecting a
  token the issuer really did sign". `OutageCostsOneRequest` bounds it: the next
  requests are served from the held keys until the cooldown has passed.
- The deadline of the wait for the refresh lease is absolute (store.rs:1137): a
  waiter that loses a crashed holder's lease to a live peer gives up while that
  peer refreshes. `GrantNeverLost` says what that may not cost.
- A parked authorization is single use on one instance that serves its callbacks
  one at a time. When a peer serves a repeated callback meanwhile, or the delete
  fails, it is taken again (store.rs:894); the authorization server then refuses
  the second use of the code.
- A second registration of a client id on a peer overwrites the URIs of the
  first: the merge is with the local copy (store.rs:910).
- A booting instance lists the tokens and then the mappings; a login in between
  looks like an orphan and is deleted (store.rs:1683).
- If Keycloak answered two presentations of one refresh token, one with a new
  refresh token and one without, the answer without could be stored last and be
  adopted by the instance that has the other: the new refresh token is lost. A
  realm rotates always or never, and `GrantNeverLost` says so; the attempt to
  prove it without that showed the case.
- In passthrough mode a request that another one overtakes, by writing the entry
  of the session between its read of the store and its end, may be served with
  what the other wrote: that of another principal, when two users name one
  protocol session (middleware.rs:463). `UnracedServedAsSelf` and
  `UnknownBearerOnlyAdvances` are stated for requests nobody overtook.
- Two computations of the registry's version may overlap and the older hash be
  stored last (registry.rs:149). `UnracedVersionCurrent` holds from the next
  computation that runs alone.
- Any failed send takes a peer off the list, also one whose transport is open
  (registry.rs:571); it is told nothing more. The first notification of a
  returning session is sent once and its failure only logged (registry.rs:217),
  after its version was recorded as seen. `QuietPeersAreCurrent` speaks of
  connections to which no send has failed.
- The opaque mapping of a session and its two inverse entries are three writes
  (store.rs:1268): a crash between them leaves a token that only the instance
  that minted it can resolve. `MappingResolvable` excludes the crash.
- Without a backend, a removal hands later calls another Mutex (store.rs:1511),
  and a refresh that is still under the old one may overlap with theirs.
  The theorem `MutexIsEnough` excludes removals and logins.
- The namespace index of Redis keeps the members of records that expired
  (persistence_redis.rs:78). `IndexCoversKeys` is the other direction.
- An item the inner handler itself lists twice stays twice in a listing
  (handler.rs:43). The model's inner list is a set.
- A header that already names the fallback version beside a modern body, which
  disagreed, agrees after the repair (protocol.rs:209). `RepairKeepsAgreement`
  is stated for every other header.

Not every loss is a finding. A lost answer of Keycloak or a crash between
rotation and `store_token` loses the grant whatever the code does;
`GrantNeverLost` is stated without those events. `CodeUsedOnce`,
`RegisteredIsKnown`, `MappingResolvable`, `UnracedServedAsSelf`,
`UnknownBearerOnlyAdvances`, `UnracedVersionCurrent`, `QuietPeersAreCurrent`,
`NoLostUpdate` and `SettledSessionKept` (which excludes a claim that fails open
because the backend does) name in their hypotheses what is listed above and hold
in every other case.

## 5. Proofs

The theorems hold for any sets of instances, tasks and updates. They assume
`ConstantsAssumption`, `LeaseValuesAssumption`, `SentinelsAssumption`,
`SessionConstantsAssumption`, `OpAssumption`, `OfAssumption`, `PtAssumption` and
`CpAssumption`: sentinels differ from the values they stand beside, bounds are
numbers. `BindAssumption` adds a finite set of sessions and a capacity of at
least one, `JwAssumption` a cooldown shorter than the ttl, `TsAssumption` a ttl
that is not zero, `TdAssumption` the shape of the requests, `PlAssumption` that
revisions are positive numbers and the fallback is older than the modern one. TLC
evaluates each on the runs of its module.

`TokenRefreshProofs`
- `TypeCorrect`: `TypeOK`. It is inductive: the conjunct on `val` needs the
  check of `Material`.
- `LeaseExcludes`: `LeaseExclusion`, by `LeaseInv`: a held lease is the
  backend's and its holder is past `Acquire`.
- `RefreshSerialized`: `SerializedRefresh`. `OwnerInv` adds, for an unbroken
  lease, that every task past `Acquire` holds a lease; with `LeaseInv` two such
  tasks own the same one.
- `RefreshNeeded`: `NoNeedlessRefresh`, by `FreshInv`: what a lease holder read
  for its final check is still what the backend has, or the record has been
  removed, because only the holder stores and a token stays expired.
- `GrantSurvives`, `RecordAdvances`: `GrantNeverLost` and `RecordNeverRegresses`,
  where several tasks do refresh at once. With rotation they follow from
  `GrantInv`: a token and its refresh token have the same number and only the
  last is unexpired, because what is presented was found expired under the local
  lock (`PairedInv`, `EntryInv`); and until a task has persisted an answer nobody
  else has seen it (`PrivateInv`), so what is persisted is the newest there is.
  An adoption then only replaces the newest token by itself. Without rotation
  every token carries the first refresh token (`UnrotatedInv`).
- `PanicNeedsReplacement`: `PanicOnlyIfReplaced`, by `EntryKept`: without logins and
  removals every token in the system has a refresh token, so no purge ever finds
  one to remove, and an entry that is stored is there until the call reads it
  back; a restart takes the calls with it. So finding 2 needs a login or a removal.
- `MutexIsEnough`: `MutexSuffices`, by `SoloInv`: the Mutex is never replaced, so
  (`LocalExcludes`, a lemma: whoever has the same Mutex excludes the others) only one
  call is past it; what it found expired behind the Mutex is still the entry when it
  goes upstream, and while no answer is on its way to the cache the refresh token
  Keycloak honours is that of the entry.
- `RecordIsLive`: `RecordWouldDo`. When nothing happens beside `get_token`, a
  refresh that goes upstream would find an expired token with a live refresh
  token in the shared record. `QuietInv`: every token has refresh material, so
  nothing is purged or evicted, and the live refresh token is the record's or in
  the hands of the task that is about to persist it, of which there is one at
  most (`SerializedRefresh`). Finding 1 is thus the choice of the cached entry
  and nothing else: presenting the record's refresh token would always do.

`SessionStoreProofs`
- `TypeCorrect`, `LeaseIsOwned`: as above.
- `RecordIsAtomic`: with an unbroken lease `Spec` implements `AtomicSession`.
  `RecordInv` says that the record is one of its past values and contains the
  acknowledged updates. `HandInv` says of a replica that what it has read is the
  record unless that has gone, that what it has cached is a past value, and that
  what it is about to persist is what an atomic operation on the record would
  give. `AtomInv` is both, under an unbroken lease. Each action is then a step
  of `AtomicSession` or a stutter.
- `UpdatesKept`, `LiveRecordSpared`: `NoLostUpdate` and
  `ExpireSparesLiveRecord`, from the same invariants. `GoesOnlyBy` sorts out every
  step under which the record goes: its expiry, `remove`, or the delete of a
  starting replica.
- `DefaultUnlessOutlived`: `StartsFromDefault` where no cached copy can outlive
  the record (`NoCopyOutlives`): sessions do not expire, no write is lost, and
  only a single replica may remove. `CopyInv`: while there is no record, a
  replica has cached at most what it is about to persist. Crashes, lapsed leases
  and waits that give up are allowed. Each hypothesis is needed: TLC violates
  `StartsFromDefault` with two replicas and a removal (finding 3), and on a
  single replica with expiry or with a failing backend.

`BearerProofs`, SessionBindings
- `SettledStaysOwned`: `SettledSessionKept`. What decides a claim is spread over the
  tables, the record, the delayed writes and the claims under way; `Settled` is
  their conjunction, and each step of a request (`SettledRequestStep`) and each
  write, tick, crash or eviction (`SettledOtherStep`) that leaves the record alive
  keeps it. `BindBusy` says that a request under way carries what it was decided by.
- `TableStaysBounded`: `TableBounded`, by counting what `remember` keeps.

`BearerProofs`, BearerValidation
- `TokensAreVouched`: `AcceptedIsVouched`, by `JwVouched`, which adds what a
  request carries before it is accepted.
- `FetchesAreSpaced`, `StaleOnlyInOutage`, `OutageIsRationed`: the action properties
  `IssuerNotHammered`, `StaleKeysOnlyInOutage`, `OutageCostsOneRequest`. They rest
  on `JwLocked` (a request that fetches holds the lock), `JwStamped` (an attempt is
  stamped when it is answered) and `JwDated` (a fetch that succeeded dates the
  keys). `JwCacheStep` sorts every step of a request by what it does to the cache;
  `JwHeldServes`: with the key held, every step but a failed fetch finds it.

`OpaqueTokensProofs`
- `IndexAlwaysCoherent`, `OpaqueServedAsOwner`: `IndexCoherent` and
  `OpaqueIsolation`. Neither is inductive: an index is filled from records, which
  are written from lists, which were made from an index. `OpInv` says that there
  is a function giving each pair of tokens one home, the session it was minted
  for, and that wherever a pair meets a session (index, record, request, list,
  boot) it is that one. A mint extends the function, nothing else changes it.
- `MappingAlwaysResolvable`: `MappingResolvable`, by `OpQuietInv`: before the
  first interruption the forward mapping is first in its list, a pair whose
  forward mapping is not written is in no other list, and an inverse entry is
  deleted only after the forward mapping has left its pair for good.
- `OpTypeCorrect`: the types; of a request, the fields and what it carries at each
  step (`OpCarries`); of requests and boots, the lists of backend operations they
  still owe (`OpOps`).

`PassthroughGrantProofs`
- `StoredIsVouched`: `OnlyVouched`, by `PtInv`: what a request carries at each
  await was vouched for before it can be stored.
- `ServedAsSelf`, `UnknownAdvances`: the action properties `UnracedServedAsSelf`
  and `UnknownBearerOnlyAdvances`. `PtInv` relates what a request has read to what
  the store holds, until another request writes the entry.
- `DowngradeNeedsCopy`: `DowngradesOnlyByCopy`, the reach of finding 4. A bearer
  nobody raced downgrades a grant only in a session with a protocol id, by
  copying an entry of its grant's key that fell behind. `PtHomely`: without a
  protocol id the key of the session is that of the grant, so what a request
  finds is what it has seen, and copying it changes nothing.
- `PtTypeCorrect`: the types.

`AuthModesProofs`
- `AuthComposed`: `AuthSpec` implements `OpSpec` and `PtSpec`.
- `AuthTypeCorrect`: `AuthTypeOK`, from that and the types of both modes.

`OAuthFlowProofs`
- `CodesOnlyWhereAllowed`: `CodeOnlyToAllowed`, by `OfLegitInv`: every copy of a
  client's URIs is a part of what it registered, and every parked redirect_uri,
  in memory, in the backend or in a request, is one its authorization asked for
  and was allowed.
- `RegisteredAlwaysKnown`: `RegisteredIsKnown`, by `OfKnownInv`: of a client with
  one registration each copy is complete, and the record or the request that
  writes it is there.
- `CodesUsedOnce`: `CodeUsedOnce`, by `OfOnceInv`: a state belongs to one of the
  two flows; while one instance serves it one request handles it, and once it is
  answered nothing is left that could answer it again.
- `OfTypeCorrect`: the types, with the fields of a request and what it carries at
  each await (`OfCarries`).

`ServerProofs`, TransportSession
- `EndedStaysEnded`, `KeysAreIndexed`: `DeletedStaysDeleted` and
  `IndexCoversKeys`, together with the type invariant and `TsReading` (a load that
  has read carries a session).

`ServerProofs`, CapabilityRegistry
- `VersionIsCurrent`: `UnracedVersionCurrent`, by `CpVersionOK`: what a
  computation that runs alone has hashed so far is what is registered.
- `PeersAreCurrent`: `QuietPeersAreCurrent`, by `CpToldOK`: what an open
  connection to which no send has failed has not been told, a task under way will
  tell it, because it is in the list beyond the task's position or the task has
  not taken the list's lock yet; and the indices noted for removal are ascending
  and name closed or failed connections, so that `swap_remove` from the highest
  down removes these only.
- `RegistryTypeCorrect`: the types.

`ServerProofs`, ToolDispatch
- `ToolRunsAsChecked`, `ListingMatchesDispatch`: `RunsAsChecked` and
  `ListedAsDispatched`, by `TdReady`: by the position of a request, it has been asked,
  what it lists carries its source, it passed the query filter, and it was given what
  was checked. `TdMerged` is what `merge_registry_items` returns; only `list_items`
  takes a request from the merge to its listing (`TdListsByMerging`).

`ServerProofs`, ProtocolLifecycle
- `CeilingHolds`, `RepairIsFaithful`: `CeilingRespected` and
  `RepairKeepsAgreement`, from what `cap_protocol_versions` (`CapLeaves`) and
  `normalize_initialize` (`RepairOfOne`) do to any argument; `PlBooted` and
  `PlRepaired` tie the state to them.

`ServerProofs`, ServerState
- `ServerComposed`: `ServerSpec` implements the specification of each of its
  seven components, so the theorems above hold side by side.
- `ServerTypeCorrect`: `ServerTypeOK`, from that and the types of each.

Only model-checked: `CallsReturn` and `OperationsReturn`, because liveness under
fairness is out of the prover's reach. Every other property of a passing run is a
theorem. The four violated properties of section 4 are false;
`PanicNeedsReplacement`, `RecordIsLive`, `UpdatesKept`, `SettledStaysOwned`,
`OutageIsRationed`, `DefaultUnlessOutlived` and `DowngradeNeedsCopy` prove how
far the violations and the observations reach. `RecordWouldDo`, `MutexSuffices`
and `DowngradesOnlyByCopy` are stated with their proofs and are in no run; TLC
agreed to each on an instance of the runs' size.

## 6. Not modelled

- A backend that keeps the trait's default locks (they always acquire): it
  behaves as one whose leases lapse at once, for which only the properties of
  `refresh_faults` and `refresh_degraded` hold.
- Dropping the future of a session operation. Tools run in tasks of the rmcp
  service, which a client's disconnect does not drop.
- The claims decoder, serialization, logging; the legacy `remaining_ttl_secs`.
- The basic-auth branch of the middleware and the rewriting and forwarding of
  upstream requests and answers: they keep no state.
- Sanitizing of schemas and results (`capability/sanitize.rs`): recursion over
  JSON trees without state; a bounded model would repeat its unit tests.
- Loopback (`transport/loopback.rs`): one client of the same stores over a pipe of
  rmcp. Stdio and `runner.rs`: construction and process start.
- Metrics, audit, configuration, metadata: counters and text that no decision
  depends on.
- rmcp, Keycloak and Redis themselves, beyond what the code's calls can observe
  of them.

## 7. What is left

- Liveness of the fetch lock in BearerValidation and of the notification of peers,
  under the fairness of tokio's locks, as runs.
- The races without a property in PROJECT.json (an unlocked write-back against
  `remove_token`, a boot that takes a login for an orphan): the
  code promises nothing about them that could be stated.
- The stores for several keys at once, where the `mutation_lock` they share could
  make one key wait for another.
