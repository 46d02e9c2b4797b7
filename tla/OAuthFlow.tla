------------------------------ MODULE OAuthFlow ------------------------------
(***************************************************************************)
(* The authorization leg in the proxying modes: dynamic registration       *)
(* (auth/registration.rs), /oauth/authorize (auth/proxy.rs), its           *)
(* redirect_uri check (auth/redirect.rs), the server's own /oauth/login,   *)
(* and the /oauth/callback that serves both (auth/routes.rs), over the     *)
(* caches and the backend of auth/store.rs.                                *)
(*                                                                         *)
(* The two flows are told apart by the state the server minted.  Registered*)
(* clients and parked authorizations are shared through the backend, the   *)
(* pending logins live in one process.  Every await is a step; callbacks   *)
(* may be late, repeated and served anywhere.                              *)
(***************************************************************************)
EXTENDS Integers, FiniteSets

CONSTANTS
    OfInstances,   \* the server processes
    OfClients,     \* client ids
    OfNamed,       \* the ids that are a client_name: a fallback hands them out again
    OfUris,        \* redirect URIs, records [scheme, host, fragment]
    OfPublic,      \* the origin of public_url, a record [scheme, host]
    OfAllowlist,   \* allowed_redirect_uris
    OfStates,      \* server-minted states (fresh UUIDs)
    OfRequests,    \* request slots
    OfArrivals,    \* OfArrivals[r]: the <<kind, instance>> slot r may carry
    OfRegisters,   \* bound: <<client, URIs>> a registration may be for
    OfAsks,        \* bound: <<client, URI>> an authorization may be for
    OfNone,        \* nothing
    OfMaxCached,   \* MAX_CACHED_CLIENTS
    OfMaxFaults    \* bound: failed backend calls, hang-ups and crashes

OfKinds == {"register", "authorize", "login", "callback"}

ASSUME OfAssumption ==
    /\ OfNone \notin OfInstances /\ OfNone \notin OfClients /\ OfNone \notin OfStates
    /\ OfNone \notin OfUris /\ (\A uris \in SUBSET OfUris : uris # OfNone)
    /\ OfNone \notin OfClients \X OfUris /\ OfNone # <<"login", OfNone>> /\ OfNone # "many"
    /\ OfNamed \subseteq OfClients /\ OfAllowlist \subseteq OfUris
    /\ OfArrivals \in [OfRequests -> SUBSET (OfKinds \X OfInstances)]
    /\ OfRegisters \subseteq OfClients \X SUBSET OfUris
    /\ OfAsks \subseteq OfClients \X OfUris
    /\ OfMaxCached \in Nat /\ OfMaxFaults \in Nat

VARIABLES
    ofClients,     \* ofClients[i][c]: client_redirects, or OfNone
    ofRegistry,    \* backend NS_OAUTH_CLIENTS
    ofProxied,     \* ofProxied[i][s]: proxied_auths, the parked redirect_uri
    ofParked,      \* backend NS_PROXIED_AUTH
    ofPending,     \* ofPending[i]: the states of pending_auths
    ofOld,         \* states whose time is over
    ofReq,         \* the requests
    ofAsked,       \* history, ofAsked[s]: <<client, uri>> or <<"login", OfNone>>
    ofIssued,      \* states that reached the browser
    ofRegistered,  \* history: <<client, uri>> ever registered
    ofWrites,      \* history, ofWrites[c]: registrations of c, all persisted
    ofCodes,       \* history: <<state, uri>> of the codes forwarded
    ofAnswers,     \* history, ofAnswers[s]: codes of s used, by whatever flow
    ofSole,        \* history, ofSole[s]: the only instance to serve callbacks of s, one
                   \* at a time; or "many" (then, and when a delete failed)
    ofFaults       \* faults so far

ofCaches == <<ofClients, ofProxied, ofPending>>
ofBackend == <<ofRegistry, ofParked>>
ofHistory == <<ofAsked, ofIssued, ofRegistered, ofWrites, ofCodes, ofAnswers,
               ofSole>>
ofVars == <<ofCaches, ofBackend, ofOld, ofReq, ofHistory, ofFaults>>

OfIdle == [pc |-> "idle", inst |-> OfNone, kind |-> "none", client |-> OfNone,
           uri |-> OfNone, uris |-> {}, state |-> OfNone, answer |-> "none"]

OfInit ==
    /\ ofClients = [i \in OfInstances |-> [c \in OfClients |-> OfNone]]
    /\ ofRegistry = [c \in OfClients |-> OfNone]
    /\ ofProxied = [i \in OfInstances |-> [s \in OfStates |-> OfNone]]
    /\ ofParked = [s \in OfStates |-> OfNone]
    /\ ofPending = [i \in OfInstances |-> {}]
    /\ ofOld = {}
    /\ ofReq = [r \in OfRequests |-> OfIdle]
    /\ ofAsked = [s \in OfStates |-> OfNone]
    /\ ofIssued = {}
    /\ ofRegistered = {}
    /\ ofWrites = [c \in OfClients |-> 0]
    /\ ofCodes = {}
    /\ ofAnswers = [s \in OfStates |-> 0]
    /\ ofSole = [s \in OfStates |-> OfNone]
    /\ ofFaults = 0

OfSet(r, q) == ofReq' = [ofReq EXCEPT ![r] = q]
OfGoto(r, pc) == ofReq' = [ofReq EXCEPT ![r].pc = pc]
OfFault == ofFaults < OfMaxFaults /\ ofFaults' = ofFaults + 1
OfArrive(r, kind, i) == ofReq[r].pc = "idle" /\ <<kind, i>> \in OfArrivals[r]
OfFresh(s) == ofAsked[s] = OfNone

-----------------------------------------------------------------------------
(* Registration.                                                           *)

OfCached(i) == {c \in OfClients : ofClients[i][c] # OfNone}

\* The cache takes an entry when it has room (or has the client already).
OfCacheInsert(i, c, uris, again) ==
    ofClients' = IF Cardinality(OfCached(i)) < OfMaxCached \/ (again /\ c \in OfCached(i))
                 THEN [ofClients EXCEPT ![i][c] = uris] ELSE ofClients

\* An id to hand out: fresh, Keycloak's or one's own, or, when Keycloak cannot be
\* reached or refuses, the client's name.
build_fallback_registration(c) == c \in OfNamed \/ ofWrites[c] = 0

\* register_handler up to remember_registration: an
\* answer that does not parse registers nothing.  register_client_redirects merges
\* with what this instance has in its cache.
register_handler(r, i, c, uris) ==
    LET merged == uris \cup (IF c \in OfCached(i) THEN ofClients[i][c] ELSE {})
    IN
    /\ OfArrive(r, "register", i)
    /\ build_fallback_registration(c)
    /\ OfCacheInsert(i, c, merged, TRUE)
    /\ ofRegistered' = ofRegistered \cup ({c} \X uris)
    /\ ofWrites' = [ofWrites EXCEPT ![c] = IF @ = 2 THEN 2 ELSE @ + 1]
    /\ OfSet(r, [OfIdle EXCEPT !.pc = "record", !.inst = i, !.kind = "register",
                        !.client = c, !.uris = merged])
    /\ UNCHANGED <<ofProxied, ofPending, ofBackend, ofOld, ofAsked, ofIssued, ofCodes,
                   ofAnswers, ofSole, ofFaults>>

\* Mutant: a registration the cache has taken is not persisted.
register_client_redirects_cached_only(r, ok) ==
    LET q == ofReq[r]
    IN
    /\ q.pc = "record"
    /\ IF q.client \in OfCached(q.inst) THEN UNCHANGED ofRegistry
       ELSE ofRegistry' = [ofRegistry EXCEPT ![q.client] = q.uris]
    /\ OfSet(r, OfIdle)
    /\ UNCHANGED <<ofCaches, ofParked, ofOld, ofHistory, ofFaults>>

\* The merged list is persisted; a failure is logged and forgotten.
register_client_redirects(r, ok) ==
    LET q == ofReq[r]
    IN
    /\ q.pc = "record"
    /\ IF ok THEN ofRegistry' = [ofRegistry EXCEPT ![q.client] = q.uris]
                  /\ UNCHANGED <<ofFaults, ofWrites>>
       ELSE OfFault /\ UNCHANGED ofRegistry
                /\ ofWrites' = [ofWrites EXCEPT ![q.client] = 2]
    /\ OfSet(r, OfIdle)
    /\ UNCHANGED <<ofCaches, ofParked, ofOld, ofAsked, ofIssued, ofRegistered, ofCodes,
                   ofAnswers, ofSole>>

-----------------------------------------------------------------------------
(* /oauth/authorize.                                                       *)

is_loopback(u) == u.scheme = "http" /\ u.host \in {"localhost", "127.0.0.1", "[::1]"}

\* Mutant: a client that is not known here is not held to any list.
redirect_uri_allowed_if_unknown(u, registered) ==
    /\ u.scheme # "unparsable" /\ ~u.fragment
    /\ \/ IF registered = OfNone THEN TRUE ELSE u \in registered
       \/ is_loopback(u)
       \/ OfPublic = [scheme |-> u.scheme, host |-> u.host]
       \/ u \in OfAllowlist

redirect_uri_allowed(u, registered) ==
    /\ u.scheme # "unparsable" /\ ~u.fragment
    /\ \/ registered # OfNone /\ u \in registered
       \/ is_loopback(u)
       \/ OfPublic = [scheme |-> u.scheme, host |-> u.host]
       \/ u \in OfAllowlist

\* client_redirects: the cache first.
authorize_handler(r, i, c, u) ==
    LET q == [OfIdle EXCEPT !.inst = i, !.kind = "authorize", !.client = c, !.uri = u]
    IN
    /\ OfArrive(r, "authorize", i)
    /\ \E s \in OfStates : OfFresh(s)
    /\ OfSet(r, IF c \in OfCached(i)
                THEN [q EXCEPT !.pc = "decide", !.uris = ofClients[i][c]]
                ELSE [q EXCEPT !.pc = "lookup"])
    /\ UNCHANGED <<ofCaches, ofBackend, ofOld, ofHistory, ofFaults>>

\* ... then the backend.  A failure and an unknown client are both "unknown here".
client_redirects(r, ok) ==
    LET q == ofReq[r]
        found == IF ok THEN ofRegistry[q.client] ELSE OfNone
    IN
    /\ q.pc = "lookup"
    /\ IF ok THEN UNCHANGED ofFaults ELSE OfFault
    /\ OfSet(r, [q EXCEPT !.pc = IF found = OfNone THEN "decide" ELSE "fill", !.uris = found])
    /\ UNCHANGED <<ofCaches, ofBackend, ofOld, ofHistory>>

\* What the backend answered is cached, if there is room.
cache_client(r) ==
    /\ ofReq[r].pc = "fill"
    /\ OfCacheInsert(ofReq[r].inst, ofReq[r].client, ofReq[r].uris, FALSE)
    /\ OfGoto(r, "decide")
    /\ UNCHANGED <<ofProxied, ofPending, ofBackend, ofOld, ofHistory, ofFaults>>

\* The check, and the local half of store_proxied_authorization (which drops the
\* entries whose time is over); otherwise 400 and nothing is parked.
park_authorization(r, s) ==
    LET q == ofReq[r]
    IN
    /\ q.pc = "decide" /\ redirect_uri_allowed(q.uri, q.uris)
    /\ OfFresh(s)
    /\ ofAsked' = [ofAsked EXCEPT ![s] = <<q.client, q.uri>>]
    /\ ofProxied' = [ofProxied EXCEPT ![q.inst] = [x \in OfStates |->
           IF x = s THEN q.uri ELSE IF x \in ofOld THEN OfNone ELSE @[x]]]
    /\ OfSet(r, [q EXCEPT !.pc = "park", !.state = s])
    /\ UNCHANGED <<ofClients, ofPending, ofBackend, ofOld, ofIssued, ofRegistered, ofWrites,
                   ofCodes, ofAnswers, ofSole, ofFaults>>

refuse_redirect(r) ==
    /\ ofReq[r].pc = "decide" /\ ~redirect_uri_allowed(ofReq[r].uri, ofReq[r].uris)
    /\ OfSet(r, OfIdle)
    /\ UNCHANGED <<ofCaches, ofBackend, ofOld, ofHistory, ofFaults>>

\* The backend half; then the browser is sent to Keycloak with the state.
store_proxied_authorization(r, ok) ==
    LET q == ofReq[r]
    IN
    /\ q.pc = "park"
    /\ IF ok THEN ofParked' = [ofParked EXCEPT ![q.state] = q.uri] /\ UNCHANGED ofFaults
       ELSE OfFault /\ UNCHANGED ofParked
    /\ ofIssued' = ofIssued \cup {q.state}
    /\ OfSet(r, OfIdle)
    /\ UNCHANGED <<ofCaches, ofRegistry, ofOld, ofAsked, ofRegistered, ofWrites, ofCodes,
                   ofAnswers, ofSole>>

\* The pending logins of i with s among them and without those whose time is over.
store_pending_auth(i, s) == [ofPending EXCEPT ![i] = (@ \ ofOld) \cup {s}]

\* login_handler: the server's own login, pending on this instance only.
login_handler(r, i, s) ==
    /\ OfArrive(r, "login", i) /\ OfFresh(s)
    /\ ofAsked' = [ofAsked EXCEPT ![s] = <<"login", OfNone>>]
    /\ ofPending' = store_pending_auth(i, s)
    /\ ofIssued' = ofIssued \cup {s}
    /\ UNCHANGED <<ofClients, ofProxied, ofBackend, ofOld, ofReq, ofRegistered, ofWrites,
                   ofCodes, ofAnswers, ofSole, ofFaults>>

-----------------------------------------------------------------------------
(* /oauth/callback.                                                        *)

OfHandling(s) == {r \in OfRequests : ofReq[r].kind = "callback" /\ ofReq[r].state = s}
OfSoleAfter(s, i) == IF ofSole[s] \in {OfNone, i} /\ OfHandling(s) = {} THEN i ELSE "many"

\* Mutant: the local entry is read, not removed.
callback_handler_peeks(r, i, s, a) ==
    LET q == [OfIdle EXCEPT !.inst = i, !.kind = "callback", !.state = s, !.answer = a,
                        !.uri = ofProxied[i][s]]
    IN
    /\ OfArrive(r, "callback", i) /\ s \in ofIssued
    /\ ofSole' = [ofSole EXCEPT ![s] = OfSoleAfter(s, i)]
    /\ OfSet(r, [q EXCEPT !.pc = IF ofProxied[i][s] = OfNone THEN "peek" ELSE "forget"])
    /\ UNCHANGED <<ofCaches, ofBackend, ofOld, ofAsked, ofIssued, ofRegistered, ofWrites,
                   ofCodes, ofAnswers, ofFaults>>

\* callback_handler, first step of take_proxied_authorization: the local entry is
\* removed under its lock.
callback_handler(r, i, s, a) ==
    LET q == [OfIdle EXCEPT !.inst = i, !.kind = "callback", !.state = s, !.answer = a,
                        !.uri = ofProxied[i][s]]
    IN
    /\ OfArrive(r, "callback", i) /\ s \in ofIssued
    /\ ofSole' = [ofSole EXCEPT ![s] = OfSoleAfter(s, i)]
    /\ ofProxied' = [ofProxied EXCEPT ![i][s] = OfNone]
    /\ OfSet(r, [q EXCEPT !.pc = IF ofProxied[i][s] = OfNone THEN "peek" ELSE "forget"])
    /\ UNCHANGED <<ofClients, ofPending, ofBackend, ofOld, ofAsked, ofIssued, ofRegistered,
                   ofWrites, ofCodes, ofAnswers, ofFaults>>

\* The entry may have been parked by a peer.
peek_parked(r, ok) ==
    LET q == ofReq[r]
    IN
    /\ q.pc = "peek"
    /\ IF ok THEN UNCHANGED ofFaults ELSE OfFault
    /\ IF ok /\ ofParked[q.state] # OfNone
       THEN OfSet(r, [q EXCEPT !.pc = "delete", !.uri = ofParked[q.state]])
       ELSE OfGoto(r, "login")
    /\ UNCHANGED <<ofCaches, ofBackend, ofOld, ofHistory>>

\* The backend entry is deleted, the outcome is ignored; a local entry whose time
\* is over counts as none, what a peer parked is bounded by the backend's TTL.
take_proxied_authorization(r, ok) ==
    LET q == ofReq[r]
    IN
    /\ q.pc \in {"forget", "delete"}
    /\ IF ok THEN ofParked' = [ofParked EXCEPT ![q.state] = OfNone]
                  /\ UNCHANGED <<ofFaults, ofSole>>
       ELSE OfFault /\ UNCHANGED ofParked /\ ofSole' = [ofSole EXCEPT ![q.state] = "many"]
    /\ OfGoto(r, IF q.pc = "forget" /\ q.state \in ofOld THEN "login" ELSE "forward")
    /\ UNCHANGED <<ofCaches, ofRegistry, ofOld, ofAsked, ofIssued, ofRegistered, ofWrites,
                   ofCodes, ofAnswers>>

\* forward_proxied_callback: the code, or Keycloak's error, goes to the parked
\* redirect_uri; an answer with neither is 400, which is like an error here.
forward_proxied_callback(r) ==
    LET q == ofReq[r]
    IN
    /\ q.pc = "forward"
    /\ IF q.answer = "code"
       THEN /\ ofCodes' = ofCodes \cup {<<q.state, q.uri>>}
            /\ ofAnswers' = [ofAnswers EXCEPT ![q.state] = IF @ = 2 THEN 2 ELSE @ + 1]
       ELSE UNCHANGED <<ofCodes, ofAnswers>>
    /\ OfSet(r, OfIdle)
    /\ UNCHANGED <<ofCaches, ofBackend, ofOld, ofAsked, ofIssued, ofRegistered, ofWrites,
                   ofSole, ofFaults>>

\* login_callback up to the exchange: no code, a state that is not pending here, or
\* one whose time is over is 400; the pending entry is taken under its lock.
login_callback(r) ==
    LET q == ofReq[r]
        pending == q.state \in ofPending[q.inst]
    IN
    /\ q.pc = "login"
    /\ ofPending' = IF q.answer = "code" THEN [ofPending EXCEPT ![q.inst] = @ \ {q.state}]
                    ELSE ofPending
    /\ IF q.answer = "code" /\ pending /\ q.state \notin ofOld THEN OfGoto(r, "exchange")
       ELSE OfSet(r, OfIdle)
    /\ UNCHANGED <<ofClients, ofProxied, ofBackend, ofOld, ofHistory, ofFaults>>

\* The server exchanges the code and stores the token (module TokenRefresh), or
\* Keycloak refuses.
exchange_code(r, ok) ==
    LET q == ofReq[r]
    IN
    /\ q.pc = "exchange"
    /\ ofAnswers' = IF ok THEN [ofAnswers EXCEPT ![q.state] = IF @ = 2 THEN 2 ELSE @ + 1]
                    ELSE ofAnswers
    /\ OfSet(r, OfIdle)
    /\ UNCHANGED <<ofCaches, ofBackend, ofOld, ofAsked, ofIssued, ofRegistered, ofWrites,
                   ofCodes, ofSole, ofFaults>>

-----------------------------------------------------------------------------
(* Time, hang-ups and crashes.                                             *)

\* PROXIED_AUTH_TIMEOUT (or the pending login's) is over: the backend drops its
\* entry, the maps keep theirs until they are looked at.
OfExpire(s) ==
    /\ s \in ofIssued \ ofOld
    /\ ofOld' = ofOld \cup {s}
    /\ ofParked' = [ofParked EXCEPT ![s] = OfNone]
    /\ UNCHANGED <<ofCaches, ofRegistry, ofReq, ofHistory, ofFaults>>

\* purge_expired, from the background task: the parked entries whose time is over go.
OfPurge(i) ==
    /\ \E s \in ofOld : ofProxied[i][s] # OfNone
    /\ ofProxied' = [ofProxied EXCEPT ![i] = [s \in OfStates |->
           IF s \in ofOld THEN OfNone ELSE @[s]]]
    /\ UNCHANGED <<ofClients, ofPending, ofBackend, ofOld, ofReq, ofHistory, ofFaults>>

OfDrop(gone) ==
    /\ ofReq' = [r \in OfRequests |-> IF r \in gone THEN OfIdle ELSE ofReq[r]]
    /\ ofWrites' = [c \in OfClients |->
           IF \E r \in gone : ofReq[r].pc = "record" /\ ofReq[r].client = c THEN 2
           ELSE ofWrites[c]]

OfHangUp(r) ==
    /\ ofReq[r].pc # "idle" /\ OfFault
    /\ OfDrop({r})
    /\ UNCHANGED <<ofCaches, ofBackend, ofOld, ofAsked, ofIssued, ofRegistered, ofCodes,
                   ofAnswers, ofSole>>

OfCrash(i) ==
    /\ OfFault
    /\ OfDrop({r \in OfRequests : ofReq[r].inst = i})
    /\ ofClients' = [ofClients EXCEPT ![i] = [c \in OfClients |-> OfNone]]
    /\ ofProxied' = [ofProxied EXCEPT ![i] = [s \in OfStates |-> OfNone]]
    /\ ofPending' = [ofPending EXCEPT ![i] = {}]
    /\ UNCHANGED <<ofBackend, ofOld, ofAsked, ofIssued, ofRegistered, ofCodes, ofAnswers,
                   ofSole>>

OfNext ==
    \/ \E r \in OfRequests :
           \/ \E i \in OfInstances, x \in OfRegisters : register_handler(r, i, x[1], x[2])
           \/ \E i \in OfInstances, x \in OfAsks : authorize_handler(r, i, x[1], x[2])
           \/ \E i \in OfInstances, s \in OfStates :
                  \/ login_handler(r, i, s)
                  \/ \E a \in {"code", "error"} : callback_handler(r, i, s, a)
           \/ \E ok \in BOOLEAN :
                  \/ register_client_redirects(r, ok) \/ client_redirects(r, ok)
                  \/ store_proxied_authorization(r, ok) \/ peek_parked(r, ok)
                  \/ take_proxied_authorization(r, ok) \/ exchange_code(r, ok)
           \/ \E s \in OfStates : park_authorization(r, s)
           \/ refuse_redirect(r) \/ cache_client(r)
           \/ forward_proxied_callback(r) \/ login_callback(r) \/ OfHangUp(r)
    \/ \E s \in OfStates : OfExpire(s)
    \/ \E i \in OfInstances : OfPurge(i) \/ OfCrash(i)

OfSpec == OfInit /\ [][OfNext]_ofVars

-----------------------------------------------------------------------------
\* A client's redirect URIs, as a cache or the backend answers.
OfLists == (SUBSET OfUris) \cup {OfNone}
OfCallbackPcs == {"peek", "forget", "delete", "forward", "login", "exchange"}
OfAuthorizePcs == {"lookup", "fill", "decide", "park"}
OfRequest ==
    [pc : {"idle", "record"} \cup OfAuthorizePcs \cup OfCallbackPcs,
     inst : OfInstances \cup {OfNone},
     kind : {"none", "register", "authorize", "callback"},
     client : OfClients \cup {OfNone}, uri : OfUris \cup {OfNone}, uris : OfLists,
     state : OfStates \cup {OfNone}, answer : {"none", "code", "error"}]

\* What a request carries at each position.
OfCarries(q) ==
    /\ q.pc # "idle" => q.inst \in OfInstances
    /\ q.pc = "record" => q.client \in OfClients /\ q.uris \in SUBSET OfUris
    /\ q.pc \in OfAuthorizePcs => q.client \in OfClients /\ q.uri \in OfUris
    /\ q.pc = "fill" => q.uris \in SUBSET OfUris
    /\ q.pc = "park" => q.state \in OfStates
    /\ q.kind = "callback" <=> q.pc \in OfCallbackPcs
    /\ q.pc \in OfCallbackPcs => q.state \in OfStates
    /\ q.pc \in {"forget", "delete", "forward"} => q.uri \in OfUris

OfTypeOK ==
    /\ ofClients \in [OfInstances -> [OfClients -> OfLists]]
    /\ ofRegistry \in [OfClients -> OfLists]
    /\ ofProxied \in [OfInstances -> [OfStates -> OfUris \cup {OfNone}]]
    /\ ofParked \in [OfStates -> OfUris \cup {OfNone}]
    /\ ofPending \in [OfInstances -> SUBSET OfStates]
    /\ ofOld \subseteq OfStates /\ ofIssued \subseteq OfStates
    /\ ofSole \in [OfStates -> OfInstances \cup {OfNone, "many"}]
    /\ ofRegistered \subseteq OfClients \X OfUris
    /\ ofCodes \subseteq OfStates \X OfUris
    /\ ofWrites \in [OfClients -> 0 .. 2] /\ ofAnswers \in [OfStates -> 0 .. 2]
    /\ ofFaults \in 0 .. OfMaxFaults
    /\ ofReq \in [OfRequests -> OfRequest] /\ \A r \in OfRequests : OfCarries(ofReq[r])

\* A URI that may receive a code whoever asks: this machine, the public origin or
\* the configured list.
OfOpen(u) ==
    \/ u.scheme = "http" /\ u.host \in {"localhost", "127.0.0.1", "[::1]"}
    \/ u.scheme = OfPublic.scheme /\ u.host = OfPublic.host
    \/ u \in OfAllowlist

\* A code goes only to the redirect_uri of the authorization it answers, which the
\* asking client had registered or which is open to all, whatever instance parked
\* it and whatever instance serves the callback (redirect.rs: without the check
\* /oauth/authorize "would be an open redirector that hands out codes").
CodeOnlyToAllowed ==
    \A x \in ofCodes :
        /\ ofAsked[x[1]] \in OfClients \X OfUris /\ x[2] = ofAsked[x[1]][2]
        /\ ofAsked[x[1]] \in ofRegistered \/ OfOpen(x[2])

\* A code is used once, by one of the two flows, however often its callback comes
\* back, late or early, as long as one instance serves them one at a time and the
\* backend deletes what it is told to (store.rs take_proxied_authorization: "Take
\* (single use)"; the README says what happens otherwise).
CodeUsedOnce == \A s \in OfStates : ofSole[s] = "many" \/ ofAnswers[s] <= 1

\* A client that registered once, its registration persisted, is known with its
\* URIs to every instance from then on: what client_redirects would find there has
\* them, though the cache is full, the instance restarted, a lookup was under way
\* or the client asked before it registered (store.rs register_client_redirects).
RegisteredIsKnown ==
    \A c \in OfClients, i \in OfInstances :
        LET found == IF c \in OfCached(i) THEN ofClients[i][c] ELSE ofRegistry[c] IN
        (ofWrites[c] = 1 /\ \A r \in OfRequests : ~(ofReq[r].pc = "record" /\ ofReq[r].client = c))
            => found # OfNone /\ \A u \in OfUris : <<c, u>> \in ofRegistered => u \in found
=============================================================================
