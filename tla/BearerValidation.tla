-------------------------- MODULE BearerValidation --------------------------
(***************************************************************************)
(* Validation of a bearer the server did not issue: the issuer's published *)
(* keys and their cache (auth/jwks.rs), and token introspection with its   *)
(* latch (auth/store.rs validate_unknown_bearer, introspect_access_token). *)
(*                                                                         *)
(* Requests share the key cache.  A miss takes the fetch lock, checks the  *)
(* cooldown and fetches; the issuer may be down, may rotate its keys at    *)
(* any time, and a request may be dropped at any await.  A token is what   *)
(* the code tells apart: its header (a JWT or not, an accepted algorithm   *)
(* or not, the kid) and whether decode accepts it with that key.           *)
(***************************************************************************)
EXTENDS Integers, FiniteSets

CONSTANTS
    JwKids,       \* key ids the issuer may publish
    JwRequests,   \* request slots
    JwArrivals,   \* bound: the tokens that may arrive
    JwTtl,        \* JWKS_CACHE_TTL, in clock ticks
    JwCooldown    \* JWKS_REFRESH_COOLDOWN, in clock ticks

ASSUME JwAssumption ==
    /\ JwCooldown \in Nat \ {0}
    /\ JwTtl \in Nat
    /\ JwCooldown < JwTtl

VARIABLES
    jwPolicy,      \* the validation in force: UnknownTokenValidation or mode
    jwPublished,   \* the keys the issuer publishes now
    jwKeys,        \* KeyCache.keys
    jwFetched,     \* ticks since fetched_at; JwTtl = stale or never fetched
    jwAttempted,   \* ticks since attempted_at; JwCooldown = elapsed or never
    jwError,       \* KeyCache.last_error is set
    jwLock,        \* fetch_lock: a set with the holder, or empty
    jwDenied,      \* introspection_not_permitted
    jwReq,         \* the requests
    jwLastDone     \* history: ticks since a fetch last ended with an answer

jwVars == <<jwPolicy, jwPublished, jwKeys, jwFetched, jwAttempted, jwError, jwLock,
            jwDenied, jwReq, jwLastDone>>
jwCache == <<jwKeys, jwFetched, jwAttempted, jwError>>
jwRest == <<jwPolicy, jwPublished, jwDenied, jwLastDone>>

JwPolicies == {"reject", "jwks", "introspection", "jwks_then_introspection",
               "resource_server"}
allows_jwks == jwPolicy \in {"jwks", "jwks_then_introspection"}
allows_introspection == jwPolicy \in {"introspection", "jwks_then_introspection"}

\* header: not a JWT, an algorithm that is not accepted, or a kid; genuine:
\* signature, iss, exp, nbf and aud hold.
JwTokens == [kid : JwKids \cup {"not_a_jwt", "bad_alg"}, genuine : BOOLEAN]

ASSUME JwArrivalsAssumption == JwArrivals \subseteq JwTokens

JwNoToken == [kid |-> "not_a_jwt", genuine |-> FALSE]

\* History: stale, the keys the token was accepted with had outlived
\* JWKS_CACHE_TTL; judged, a key the server holds has rejected the token.
JwIdle == [pc |-> "idle", tok |-> JwNoToken, stale |-> FALSE, judged |-> FALSE]

JwInit ==
    /\ jwPolicy \in JwPolicies
    /\ \E k \in JwKids : jwPublished = {k}
    /\ jwKeys = {} /\ jwFetched = JwTtl /\ jwAttempted = JwCooldown /\ jwError = FALSE
    /\ jwLock = {}
    /\ jwDenied = FALSE
    /\ jwReq = [r \in JwRequests |-> JwIdle]
    /\ jwLastDone = JwCooldown

JwGoto(r, pc) == jwReq' = [jwReq EXCEPT ![r].pc = pc]

-----------------------------------------------------------------------------
\* Mutant: every rejection may be put to the authorization server.
jwks_rejected_always_falls_back(r, rejection) ==
    jwReq' = [jwReq EXCEPT ![r].pc = IF allows_introspection THEN "introspect" ELSE rejection,
                           ![r].judged = rejection = "invalid"]

\* A token the issuer's keys rejected gets no second chance; one that is no JWT, of
\* an algorithm or a key that is not accepted, or met without keys, may.
may_fall_back(rejection) == rejection # "invalid"

\* What follows a JWKS rejection: a second chance when the policy allows it.
jwks_rejected(r, rejection) ==
    jwReq' = [jwReq EXCEPT ![r].pc = IF may_fall_back(rejection) /\ allows_introspection
                                     THEN "introspect" ELSE rejection,
                           ![r].judged = rejection = "invalid"]

\* The key is at hand: decode the token with it.
JwDecode(r, tok) ==
    IF tok.genuine
    THEN jwReq' = [jwReq EXCEPT ![r].pc = "accepted_jwks", ![r].stale = jwFetched >= JwTtl]
    ELSE jwks_rejected(r, "invalid")

is_stale == jwFetched >= JwTtl
cooldown_elapsed == jwAttempted >= JwCooldown
cached_key(kid) == ~is_stale /\ kid \in jwKeys

\* A bearer arrives in resource-server mode: the keys alone decide.
validate_bearer_via_jwks(r, tok) ==
    /\ jwReq[r].pc = "idle" /\ jwPolicy = "resource_server"
    /\ jwReq' = [jwReq EXCEPT ![r].tok = tok, ![r].pc = "validate"]
    /\ UNCHANGED <<jwRest, jwCache, jwLock>>

\* A bearer the proxy has not issued arrives.
validate_unknown_bearer(r, tok) ==
    /\ jwReq[r].pc = "idle" /\ jwPolicy # "resource_server"
    /\ jwReq' = [jwReq EXCEPT ![r].tok = tok,
           ![r].pc = CASE jwPolicy = "reject" -> "rejected"
                       [] ~allows_jwks -> "introspect"
                       [] OTHER -> "validate"]
    /\ UNCHANGED <<jwRest, jwCache, jwLock>>

\* JwksValidator::validate up to its first await: the header and the cache.
jwks_validate(r) ==
    LET tok == jwReq[r].tok
    IN
    /\ jwReq[r].pc = "validate"
    /\ \/ tok.kid \notin JwKids /\ jwks_rejected(r, "rejected")
       \/ tok.kid \in JwKids /\ cached_key(tok.kid) /\ JwDecode(r, tok)
       \/ tok.kid \in JwKids /\ ~cached_key(tok.kid) /\ JwGoto(r, "refresh")
    /\ UNCHANGED <<jwRest, jwCache, jwLock>>

\* Mutant: during the cooldown the error is replayed to everyone.
refresh_keys_replay_all(r) ==
    /\ jwReq[r].pc = "refresh"
    /\ jwLock = {}
    /\ \/ /\ ~cooldown_elapsed
          /\ IF jwError THEN jwks_rejected(r, "unavailable") ELSE JwGoto(r, "lookup")
          /\ UNCHANGED jwLock
       \/ cooldown_elapsed /\ JwGoto(r, "fetch") /\ jwLock' = {r}
    /\ UNCHANGED <<jwRest, jwCache>>

\* refresh_keys: take the lock, then look at the cooldown.  Inside it nothing is
\* fetched, and the last error is replayed only to a server without any key.
refresh_keys(r) ==
    /\ jwReq[r].pc = "refresh"
    /\ jwLock = {}
    /\ \/ /\ ~cooldown_elapsed
          /\ IF jwError /\ jwKeys = {} THEN jwks_rejected(r, "unavailable")
                                       ELSE JwGoto(r, "lookup")
          /\ UNCHANGED jwLock
       \/ cooldown_elapsed /\ JwGoto(r, "fetch") /\ jwLock' = {r}
    /\ UNCHANGED <<jwRest, jwCache>>

\* Mutant: the attempt is stamped only when it succeeds.
fetch_keys_failed_unstamped(r) ==
    /\ jwError' = TRUE
    /\ jwks_rejected(r, "unavailable")
    /\ UNCHANGED <<jwKeys, jwFetched, jwAttempted>>

\* The fetch failed: the keys already held are kept, this request is refused.
fetch_keys_failed(r) ==
    /\ jwAttempted' = 0
    /\ jwError' = TRUE
    /\ jwks_rejected(r, "unavailable")
    /\ UNCHANGED <<jwKeys, jwFetched>>

\* Mutant: a successful fetch does not clear the age of the keys it replaces.
fetch_keys_ok_undated(r) ==
    /\ jwKeys' = jwPublished
    /\ jwAttempted' = 0
    /\ jwError' = FALSE
    /\ JwGoto(r, "lookup")
    /\ UNCHANGED jwFetched

\* The fetch succeeded: the published keys replace the cache.
fetch_keys_ok(r) ==
    /\ jwKeys' = jwPublished
    /\ jwFetched' = 0
    /\ jwAttempted' = 0
    /\ jwError' = FALSE
    /\ JwGoto(r, "lookup")

\* The answer of the issuer arrives and the lock is released.
fetch_keys(r) ==
    /\ jwReq[r].pc = "fetch"
    /\ \/ jwPublished # {} /\ fetch_keys_ok(r)
       \/ fetch_keys_failed(r)
    /\ jwLock' = {}
    /\ jwLastDone' = 0
    /\ UNCHANGED <<jwPolicy, jwPublished, jwDenied>>

\* The second lookup ignores the ttl.
lookup_after_refresh(r) ==
    LET tok == jwReq[r].tok
    IN
    /\ jwReq[r].pc = "lookup"
    /\ IF tok.kid \in jwKeys THEN JwDecode(r, tok) ELSE jwks_rejected(r, "rejected")
    /\ UNCHANGED <<jwRest, jwCache, jwLock>>

\* introspect_access_token.  The authorization server knows nothing of
\* audiences: any token may be active.  401 and 403 are latched for good.
introspect_access_token(r) ==
    /\ jwReq[r].pc = "introspect"
    /\ \/ jwDenied /\ JwGoto(r, "rejected") /\ UNCHANGED jwDenied
       \/ ~jwDenied /\ JwGoto(r, "asking") /\ UNCHANGED jwDenied
    /\ UNCHANGED <<jwPolicy, jwPublished, jwLastDone, jwCache, jwLock>>

introspection_answer(r) ==
    /\ jwReq[r].pc = "asking"
    /\ \/ JwGoto(r, "accepted_introspection") /\ UNCHANGED jwDenied
       \/ JwGoto(r, "rejected") /\ UNCHANGED jwDenied
       \/ JwGoto(r, "unavailable") /\ UNCHANGED jwDenied
       \/ JwGoto(r, "rejected") /\ jwDenied' = TRUE
    /\ UNCHANGED <<jwPolicy, jwPublished, jwLastDone, jwCache, jwLock>>

\* The request is over, or dropped at an await: the lock guard goes with it, and
\* a fetch that has not been answered is not stamped.
JwFinish(r) ==
    /\ jwReq[r].pc # "idle"
    /\ jwReq' = [jwReq EXCEPT ![r] = JwIdle]
    /\ jwLock' = jwLock \ {r}
    /\ UNCHANGED <<jwRest, jwCache>>

\* The issuer rotates: a new key beside the old one, the old one gone, or
\* (briefly) no usable key at all.
JwRotate(keys) ==
    /\ keys # jwPublished
    /\ jwPublished' = keys
    /\ UNCHANGED <<jwPolicy, jwKeys, jwFetched, jwAttempted, jwError, jwLock, jwDenied,
                   jwReq, jwLastDone>>

\* Time passes, but not between a refresh and the lookup that follows it: only
\* an uncontended read lock separates them.
JwTick ==
    LET older(t, cap) == IF t < cap THEN t + 1 ELSE cap
    IN
    /\ \A r \in JwRequests : jwReq[r].pc # "lookup"
    /\ jwFetched' = older(jwFetched, JwTtl)
    /\ jwAttempted' = older(jwAttempted, JwCooldown)
    /\ jwLastDone' = older(jwLastDone, JwCooldown)
    /\ UNCHANGED <<jwPolicy, jwPublished, jwKeys, jwError, jwLock, jwDenied, jwReq>>

JwNext ==
    \/ \E r \in JwRequests :
           \/ \E tok \in JwArrivals :
                  validate_bearer_via_jwks(r, tok) \/ validate_unknown_bearer(r, tok)
           \/ jwks_validate(r) \/ refresh_keys(r) \/ fetch_keys(r)
           \/ lookup_after_refresh(r) \/ introspect_access_token(r)
           \/ introspection_answer(r) \/ JwFinish(r)
    \/ \E keys \in SUBSET JwKids : JwRotate(keys)
    \/ JwTick

JwSpec == JwInit /\ [][JwNext]_jwVars

-----------------------------------------------------------------------------
JwTypeOK ==
    /\ jwPolicy \in JwPolicies
    /\ jwPublished \subseteq JwKids
    /\ jwKeys \subseteq JwKids
    /\ jwFetched \in 0 .. JwTtl
    /\ jwAttempted \in 0 .. JwCooldown
    /\ jwError \in BOOLEAN
    /\ jwLock \subseteq JwRequests
    /\ jwDenied \in BOOLEAN
    /\ jwReq \in [JwRequests -> [pc : {"idle", "validate", "refresh", "fetch", "lookup",
                                       "introspect", "asking", "accepted_jwks",
                                       "accepted_introspection", "rejected", "invalid",
                                       "unavailable"},
                                 tok : JwTokens, stale : BOOLEAN, judged : BOOLEAN]]
    /\ jwLastDone \in 0 .. JwCooldown

\* The issuer is never hammered: a fetch starts only when none is under way and
\* the last one that was answered, well or badly, ended a cooldown ago
\* (jwks.rs refresh_keys; a fetch whose request was dropped is not counted).
IssuerNotHammered ==
    [][\A r \in JwRequests :
           (jwReq[r].pc # "fetch" /\ jwReq'[r].pc = "fetch")
               => /\ \A q \in JwRequests : jwReq[q].pc # "fetch"
                  /\ jwLastDone = JwCooldown]_jwVars

\* Keys past their ttl serve only while the issuer cannot be reached: a token is
\* accepted with them only if the last fetch that was answered failed
\* (jwks.rs validate: "a key we still hold beats rejecting a token the issuer
\* really did sign").
StaleKeysOnlyInOutage ==
    [][\A r \in JwRequests :
           (~jwReq[r].stale /\ jwReq'[r].stale) => jwError]_jwVars

\* An outage of the issuer costs one request a cooldown: the JWKS check turns a
\* genuine token of a key the server holds away only when that request's own fetch
\* fails, a cooldown after the last answer; whoever waited for the lock or comes
\* within the cooldown is served with the keys held (jwks.rs refresh_keys).
OutageCostsOneRequest ==
    [][\A r \in JwRequests :
           (/\ jwReq[r].tok.genuine /\ jwReq[r].tok.kid \in jwKeys
            /\ jwReq[r].pc \in {"validate", "refresh", "fetch", "lookup"}
            /\ jwReq'[r].pc \in {"rejected", "invalid", "unavailable", "introspect"})
               => jwReq[r].pc = "fetch" /\ jwLastDone = JwCooldown]_jwVars

\* What is accepted was vouched for: by the keys only a genuine token, by
\* introspection only under a policy that has it, and never a token whose
\* signature or claims the keys the server holds have rejected
\* (jwks.rs may_fall_back, store.rs validate_bearer_via_jwks).
AcceptedIsVouched ==
    \A r \in JwRequests :
        /\ jwReq[r].pc = "accepted_jwks" => jwReq[r].tok.genuine
        /\ jwReq[r].pc = "accepted_introspection" => allows_introspection /\ ~jwReq[r].judged
=============================================================================
