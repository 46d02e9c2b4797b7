-------------------------- MODULE PassthroughGrant --------------------------
(***************************************************************************)
(* Passthrough mode: the bearer middleware (auth/middleware.rs) and the    *)
(* token endpoint (auth/proxy.rs passthrough_token_handler) share the      *)
(* token store of one instance.                                            *)
(*                                                                         *)
(* /oauth/token stores a grant (access token and refresh token) under a    *)
(* key derived from the credential.  A request reads the entry of its      *)
(* session, perhaps adopts the grant's, has an unknown bearer validated,   *)
(* writes the entry of its session and, when the bearer has expired, has   *)
(* the store refresh it.  Each of these is a step: others come in between. *)
(*                                                                         *)
(* An access token is a user and a version (iat grows with it); a refresh  *)
(* token is the version of the access token it was issued with, and the    *)
(* authorization server honours only the last one.  Tokens are JWTs with   *)
(* stable claims or opaque strings, as the deployment has it.              *)
(***************************************************************************)
EXTENDS Integers, FiniteSets

CONSTANTS
    PtUsers,       \* principals (one SSO session each)
    PtSessions,    \* protocol session ids a client may send
    PtRequests,    \* slots for requests and token exchanges
    PtArrivals,    \* bound: the arrivals a slot takes: <<u, session, genuine>> is
                   \* a bearer of u with that session id, or with none;
                   \* <<u, "/oauth/token", TRUE>> an exchange
    PtMaxVer       \* bound: PtMaxVer[u] access tokens are issued to u

ASSUME PtAssumption ==
    /\ PtArrivals \in [PtRequests ->
           SUBSET (PtUsers \X (PtSessions \cup {"none", "/oauth/token"}) \X BOOLEAN)]
    /\ PtMaxVer \in [PtUsers -> Nat \ {0}]

VARIABLES
    ptClaims,     \* are access and refresh tokens JWTs with sid or sub?
    ptStore,      \* TokenStore.tokens
    ptIndex,      \* grant_refresh_index
    ptVer,        \* authorization server: versions issued to u
    ptRt,         \* authorization server: the refresh token of u it honours
    ptDead,       \* versions of u up to this one have expired
    ptHeld,       \* the versions and refresh tokens u's client was given
    ptReq         \* the requests

ptVars == <<ptClaims, ptStore, ptIndex, ptVer, ptRt, ptDead, ptHeld, ptReq>>
ptServer == <<ptVer, ptRt, ptHeld>>

Vers == UNION {0 .. PtMaxVer[u] : u \in PtUsers}
NoEntry == [user |-> "none", ver |-> 0, genuine |-> FALSE, rt |-> 0]
Entry(u, v, g, rt) == [user |-> u, ver |-> v, genuine |-> g, rt |-> rt]

\* Keys: derived from claims, derived from the bytes, given by the protocol.
\* The bytes of a forged token are those of no issued one.
credential_session_key(u, v, genuine) ==
    IF ptClaims THEN <<"claims", u, 0>> ELSE <<"bytes", u, IF genuine THEN v ELSE 0>>
resolve_or_derive_session_id(u, v, genuine, session) ==
    IF session = "none" THEN credential_session_key(u, v, genuine) ELSE <<"mcp", session, 0>>
PtKeys == ({"claims"} \X PtUsers \X {0}) \cup ({"bytes"} \X PtUsers \X Vers)
              \cup ({"mcp"} \X PtSessions \X {0})
NoKey == <<"none", "none", 0>>

PtIdle == [pc |-> "idle", tok |-> NoEntry, key |-> NoKey, seen |-> NoEntry,
           found |-> NoEntry, spent |-> 0, raced |-> FALSE]

PtInit ==
    /\ ptClaims \in BOOLEAN
    /\ ptStore = [k \in PtKeys |-> NoEntry]
    /\ ptIndex = [k \in PtKeys |-> NoKey]
    /\ ptVer = [u \in PtUsers |-> 0]
    /\ ptRt = [u \in PtUsers |-> 0]
    /\ ptDead = [u \in PtUsers |-> 0]
    /\ ptHeld = [u \in PtUsers |-> {}]
    /\ ptReq = [r \in PtRequests |-> PtIdle]

\* r writes e under k.  History: the others that have read k since are raced.
PtWrite(r, k, e, q) ==
    /\ ptStore' = [ptStore EXCEPT ![k] = e]
    /\ ptReq' = [x \in PtRequests |->
                    IF x = r THEN q
                    ELSE [ptReq[x] EXCEPT !.raced = @ \/ (ptReq[x].key = k /\ ptStore[k] # e)]]
PtSet(r, q) == ptReq' = [ptReq EXCEPT ![r] = q]
PtGoto(r, pc) == ptReq' = [ptReq EXCEPT ![r].pc = pc]
PtServed(e) == [PtIdle EXCEPT !.pc = "served", !.tok = e]
PtRefuse(r) == PtSet(r, PtIdle)    \* 401

-----------------------------------------------------------------------------
(* The authorization server.  Outside the proxy it issues a bring-your-own *)
(* access token to the client; tokens expire, oldest first.                *)
PtIssue(u) ==
    /\ ptVer[u] < PtMaxVer[u]
    /\ ptVer' = [ptVer EXCEPT ![u] = @ + 1]
    /\ ptHeld' = [ptHeld EXCEPT ![u] = @ \cup {<<"at", ptVer[u] + 1>>}]
    /\ UNCHANGED <<ptClaims, ptStore, ptIndex, ptRt, ptDead, ptReq>>

PtExpire(u) ==
    /\ ptDead[u] < ptVer[u]
    /\ ptDead' = [ptDead EXCEPT ![u] = @ + 1]
    /\ UNCHANGED <<ptClaims, ptStore, ptIndex, ptVer, ptRt, ptHeld, ptReq>>

\* The grant of u is (re)issued: version and refresh token advance.
PtGrant(u) ==
    /\ ptVer[u] < PtMaxVer[u]
    /\ ptVer' = [ptVer EXCEPT ![u] = @ + 1]
    /\ ptRt' = [ptRt EXCEPT ![u] = ptVer[u] + 1]

-----------------------------------------------------------------------------
(* passthrough_token_handler.  The exchange is forwarded, as a code or as  *)
(* a refresh grant; what the server refuses is passed on and nothing is    *)
(* stored.                                                                 *)
passthrough_token_handler(r, u, spent) ==
    /\ ptReq[r].pc = "idle"
    /\ <<u, "/oauth/token", TRUE>> \in PtArrivals[r]
    /\ spent = 0 \/ (<<"rt", spent>> \in ptHeld[u] /\ spent = ptRt[u])
    /\ PtGrant(u)
    /\ ptHeld' = [ptHeld EXCEPT ![u] = @ \cup {<<"at", ptVer[u] + 1>>, <<"rt", ptVer[u] + 1>>}]
    /\ LET v == ptVer[u] + 1
       IN  PtSet(r, [PtIdle EXCEPT !.pc = IF spent = 0 THEN "grant_store" ELSE "retire",
                         !.tok = Entry(u, v, TRUE, v), !.spent = spent,
                         !.key = credential_session_key(u, v, TRUE)])
    /\ UNCHANGED <<ptClaims, ptStore, ptIndex, ptDead>>

resolve_grant_refresh(u, spent) == ptIndex[credential_session_key(u, spent, TRUE)]
remove_grant_refresh(u, spent) ==
    ptIndex' = [ptIndex EXCEPT ![credential_session_key(u, spent, TRUE)] = NoKey]

\* Retire the superseded grant: the entry the spent refresh token leads to,
\* unless it is the one about to be written, and its index entry.  One step: the
\* index entry of a spent refresh token is read only by an exchange that spends it,
\* and the authorization server honours it once.
retire_grant(r) ==
    LET q == ptReq[r]
        old_key == resolve_grant_refresh(q.tok.user, q.spent)
    IN
    /\ q.pc = "retire"
    /\ IF old_key \notin {NoKey, q.key}
       THEN PtWrite(r, old_key, NoEntry, [q EXCEPT !.pc = "grant_store"])
       ELSE PtGoto(r, "grant_store") /\ UNCHANGED ptStore
    /\ remove_grant_refresh(q.tok.user, q.spent)
    /\ UNCHANGED <<ptClaims, ptServer, ptDead>>

grant_store(r) ==
    LET q == ptReq[r]
    IN
    /\ q.pc = "grant_store"
    /\ PtWrite(r, q.key, q.tok, [q EXCEPT !.pc = "grant_index"])
    /\ UNCHANGED <<ptClaims, ptIndex, ptServer, ptDead>>

index_grant_refresh(r) ==
    LET q == ptReq[r]
    IN
    /\ q.pc = "grant_index"
    /\ ptIndex' = [ptIndex EXCEPT ![credential_session_key(q.tok.user, q.tok.rt, TRUE)] = q.key]
    /\ PtSet(r, PtIdle)
    /\ UNCHANGED <<ptClaims, ptStore, ptServer, ptDead>>

-----------------------------------------------------------------------------
(* bearer_auth_middleware, passthrough branch.                             *)

\* A bearer arrives, genuine or forged (it then claims the newest version), with
\* a protocol session id or without: the session's entry is read.
peek_session(r, u, v, genuine, session) ==
    LET key == resolve_or_derive_session_id(u, v, genuine, session)
    IN
    /\ ptReq[r].pc = "idle"
    /\ <<u, session, genuine>> \in PtArrivals[r]
    /\ IF genuine THEN <<"at", v>> \in ptHeld[u] ELSE v = PtMaxVer[u]
    /\ PtSet(r, [PtIdle EXCEPT !.pc = "peek_grant", !.tok = Entry(u, v, genuine, 0),
                               !.key = key, !.seen = ptStore[key]])
    /\ UNCHANGED <<ptClaims, ptStore, ptIndex, ptServer, ptDead>>

SameToken(a, b) == a.user = b.user /\ a.ver = b.ver /\ a.genuine = b.genuine

\* Claims are read without checking the signature; opaque tokens have none.
same_principal(a, b) == ptClaims /\ a.user = b.user
jwt_is_strictly_newer(a, b) == ptClaims /\ a.ver > b.ver
is_expired(e) == e # NoEntry /\ e.ver <= ptDead[e.user]

\* Mutant: the principal of a session is not compared.
principal_ok_always(q, grant) == TRUE

\* A bearer the store does not know may not change the principal of a session.
principal_ok(q, grant) ==
    \/ q.seen = NoEntry
    \/ SameToken(q.seen, q.tok)
    \/ grant # NoEntry
    \/ same_principal(q.tok, q.seen)

\* The session's entry matches, or the grant's is read and matches; otherwise
\* the bearer is unknown and has to be validated, once its principal is the
\* one the session has.
peek_grant(r) ==
    LET q == ptReq[r]
        grant_key == credential_session_key(q.tok.user, q.tok.ver, q.tok.genuine)
        stored == ptStore[grant_key]
        grant == IF ~SameToken(q.seen, q.tok) /\ grant_key # q.key /\ SameToken(stored, q.tok)
                 THEN stored ELSE NoEntry
        found == IF SameToken(q.seen, q.tok) THEN q.seen ELSE grant
    IN
    /\ q.pc = "peek_grant"
    /\ \/ ~principal_ok(q, grant) /\ PtRefuse(r)
       \/ /\ principal_ok(q, grant)
          /\ PtSet(r, [q EXCEPT !.found = found,
                                !.pc = IF found # NoEntry THEN "decide" ELSE "validate"])
    /\ UNCHANGED <<ptClaims, ptStore, ptIndex, ptServer, ptDead>>

\* Mutant: a bearer of the session's principal is taken as valid.
validate_bearer_trusting(r) ==
    LET q == ptReq[r]
    IN
    /\ q.pc = "validate"
    /\ \/ (q.tok.genuine \/ q.seen # NoEntry) /\ PtGoto(r, "decide")
       \/ PtRefuse(r)
    /\ UNCHANGED <<ptClaims, ptStore, ptIndex, ptServer, ptDead>>

\* validate_unknown_bearer (module BearerValidation): a forged bearer is
\* refused, a genuine one is accepted or, in an outage, refused.
validate_bearer(r) ==
    /\ ptReq[r].pc = "validate"
    /\ \/ ptReq[r].tok.genuine /\ PtGoto(r, "decide")
       \/ PtRefuse(r)
    /\ UNCHANGED <<ptClaims, ptStore, ptIndex, ptServer, ptDead>>

\* Mutant: an unknown bearer replaces whatever the session holds.
replacement_overwrites(q) ==
    IF q.found # NoEntry THEN Entry(q.tok.user, q.tok.ver, q.tok.genuine, q.found.rt)
    ELSE Entry(q.tok.user, q.tok.ver, q.tok.genuine, 0)

\* What the store should hold: the known entry's material; or, over an entry
\* with refresh material, the bearer only if it is newer and with that
\* material; or the bearer alone.  NoEntry leaves the store as it is.
replacement(q) ==
    CASE q.found # NoEntry -> Entry(q.tok.user, q.tok.ver, q.tok.genuine, q.found.rt)
      [] q.found = NoEntry /\ q.seen.rt # 0 ->
             IF jwt_is_strictly_newer(q.tok, q.seen)
             THEN Entry(q.tok.user, q.tok.ver, q.tok.genuine, q.seen.rt) ELSE NoEntry
      [] OTHER -> Entry(q.tok.user, q.tok.ver, q.tok.genuine, 0)

\* Decide, write the session's entry, and serve a bearer that has not expired.
decide(r) ==
    LET q == ptReq[r]
        has_refresh == q.found.rt # 0 \/ q.seen.rt # 0
        next == IF is_expired(q.tok) THEN [q EXCEPT !.pc = "get_token", !.seen = NoEntry, !.found = NoEntry]
                ELSE PtServed(q.tok)
        new == replacement(q)
    IN
    /\ q.pc = "decide"
    /\ \/ is_expired(q.tok) /\ ~has_refresh /\ PtRefuse(r) /\ UNCHANGED ptStore
       \/ /\ ~is_expired(q.tok) \/ has_refresh
          /\ IF ~SameToken(q.seen, q.tok) /\ new # NoEntry
             THEN PtWrite(r, q.key, new, next)
             ELSE PtSet(r, next) /\ UNCHANGED ptStore
    /\ UNCHANGED <<ptClaims, ptIndex, ptServer, ptDead>>

\* get_token: an entry that is still good is served, one without refresh
\* material is not; otherwise, one refresh at a time per session, the refresh
\* token is sent.  The server honours only the current one.
get_token(r) ==
    LET q == ptReq[r]
        e == ptStore[q.key]
        refreshing == \E x \in PtRequests : ptReq[x].pc = "refresh" /\ ptReq[x].key = q.key
    IN
    /\ q.pc = "get_token"
    /\ \/ /\ e # NoEntry /\ ~is_expired(e)
          /\ PtSet(r, PtServed(e))
          /\ UNCHANGED <<ptVer, ptRt>>
       \/ /\ e = NoEntry \/ (is_expired(e) /\ e.rt = 0)
          /\ PtRefuse(r) /\ UNCHANGED <<ptVer, ptRt>>
       \/ /\ e # NoEntry /\ is_expired(e) /\ e.rt # 0 /\ ~refreshing
          /\ \/ /\ e.rt = ptRt[e.user] /\ PtGrant(e.user)
                /\ PtSet(r, [q EXCEPT !.pc = "refresh",
                             !.tok = Entry(e.user, ptVer[e.user] + 1, TRUE, ptVer[e.user] + 1)])
             \/ /\ e.rt # ptRt[e.user]
                /\ PtRefuse(r) /\ UNCHANGED <<ptVer, ptRt>>
    /\ UNCHANGED <<ptClaims, ptStore, ptIndex, ptHeld, ptDead>>

\* refresh_token stores the answer under the session it refreshed.
refresh_store(r) ==
    LET q == ptReq[r]
    IN
    /\ q.pc = "refresh"
    /\ PtWrite(r, q.key, q.tok, PtServed(q.tok))
    /\ UNCHANGED <<ptClaims, ptIndex, ptServer, ptDead>>

\* The handler has answered, or the client hung up at an await after the request
\* changed something (before that, hanging up is like being refused).
PtFinish(r) ==
    /\ ptReq[r].pc \in {"served", "retire", "grant_store", "grant_index", "get_token", "refresh"}
    /\ PtSet(r, PtIdle)
    /\ UNCHANGED <<ptClaims, ptStore, ptIndex, ptServer, ptDead>>

PtNext ==
    \/ \E u \in PtUsers : PtIssue(u) \/ PtExpire(u)
    \/ \E r \in PtRequests :
           \/ \E u \in PtUsers, spent \in Vers : passthrough_token_handler(r, u, spent)
           \/ \E u \in PtUsers, v \in Vers \ {0}, g \in BOOLEAN,
                 session \in PtSessions \cup {"none"} : peek_session(r, u, v, g, session)
           \/ retire_grant(r) \/ grant_store(r) \/ index_grant_refresh(r)
           \/ peek_grant(r) \/ validate_bearer(r) \/ decide(r)
           \/ get_token(r) \/ refresh_store(r) \/ PtFinish(r)

PtSpec == PtInit /\ [][PtNext]_ptVars

-----------------------------------------------------------------------------
PtEntries == [user : PtUsers, ver : Vers, genuine : BOOLEAN, rt : Vers] \cup {NoEntry}
PtTypeOK ==
    /\ ptClaims \in BOOLEAN
    /\ ptStore \in [PtKeys -> PtEntries]
    /\ ptIndex \in [PtKeys -> PtKeys \cup {NoKey}]
    /\ ptVer \in [PtUsers -> Vers] /\ ptRt \in [PtUsers -> Vers] /\ ptDead \in [PtUsers -> Vers]
    /\ ptHeld \in [PtUsers -> SUBSET ({"at", "rt"} \X Vers)]
    /\ \A r \in PtRequests : ptReq[r].tok \in PtEntries /\ ptReq[r].key \in PtKeys \cup {NoKey}

\* Only what was vouched for enters the store or reaches a handler: no entry
\* holds, and no request is served with, a bearer that is not genuine, although
\* keys, principals and order are read from unverified claims (docs/sessions.md
\* "decided independently by validate_unknown_bearer before any of that state is
\* written").
OnlyVouched ==
    /\ \A k \in PtKeys : ptStore[k] # NoEntry => ptStore[k].genuine
    /\ \A r \in PtRequests : ptReq[r].pc = "served" => ptReq[r].tok.genuine

\* A request is served with a token of its own principal, even when the store
\* refreshes for it; requests of other users may name the same protocol session,
\* as long as they do not write it between this request's read and its end
\* (middleware.rs principal check, store.rs get_token).
UnracedServedAsSelf ==
    [][\A r \in PtRequests :
           (ptReq[r].pc \in {"decide", "get_token", "refresh"}
               /\ ptReq'[r].pc \in {"served", "refresh"} /\ ~ptReq[r].raced)
               => ptReq'[r].tok.user = ptReq[r].tok.user]_ptVars

\* A bearer the store does not know can only advance a grant: when it writes the
\* entry it has read, the refresh token stays and the access token gets newer
\* (middleware.rs "may only advance it").
UnknownBearerOnlyAdvances ==
    [][\A r \in PtRequests :
           LET q == ptReq[r]
           IN  (q.pc = "decide" /\ q.found = NoEntry /\ q.seen.rt # 0 /\ ~q.raced
                   /\ ptReq'[r].pc # "decide" /\ ptStore'[q.key] # ptStore[q.key])
               => /\ ptStore'[q.key].rt = ptStore[q.key].rt
                  /\ ptStore'[q.key].ver > ptStore[q.key].ver]_ptVars

\* "an observed bearer never downgrades proxy-issued grant material"
\* (docs/sessions.md:36, middleware.rs decide): the write of the middleware
\* never puts an older refresh token, or none, where a newer one is held.
BearerNeverDowngrades ==
    [][\A r \in PtRequests :
           LET q == ptReq[r]
           IN  (q.pc = "decide" /\ ptReq'[r].pc # "decide" /\ ptStore[q.key].user = q.tok.user)
               => ptStore'[q.key].rt >= ptStore[q.key].rt]_ptVars
=============================================================================
