---------------------------- MODULE BearerProofs ----------------------------
(***************************************************************************)
(* The two tables bearer authentication consults: the key cache of the     *)
(* JWKS validator, and the session bindings of the resource server.        *)
(*                                                                         *)
(* For any keys, tokens, requests, ttl and cooldown, and any behaviour of  *)
(* the issuer: what is accepted was vouched for, the issuer is asked once  *)
(* a cooldown, keys past their ttl serve only in an outage, and an outage  *)
(* costs a holder of keys one request a cooldown.  For any instances,      *)
(* sessions, identities and requests, any capacity and any schedule of     *)
(* faults: a settled session stays its owner's while its record lives and  *)
(* no claim fails open, and the table stays within its capacity.           *)
(***************************************************************************)
EXTENDS BearerValidation, SessionBindings, FiniteSetTheorems, TLAPS

-----------------------------------------------------------------------------
(* The JWKS validator.                                                     *)

\* What a request may have come to, by its position.
JwVouched ==
    \A r \in JwRequests :
        /\ jwReq[r].pc \in {"idle", "validate", "refresh", "fetch", "lookup"} =>
               ~jwReq[r].judged /\ ~jwReq[r].stale
        /\ jwReq[r].pc = "accepted_jwks" => jwReq[r].tok.genuine
        /\ jwReq[r].pc \in {"introspect", "asking", "accepted_introspection"} =>
               allows_introspection /\ ~jwReq[r].judged

\* The request that fetches holds the lock, and the cooldown was over when it took it.
JwLocked ==
    \A r \in JwRequests :
        jwReq[r].pc = "fetch" => jwLock = {r} /\ jwAttempted = JwCooldown

\* The age of the last attempt is that of the last answer.
JwStamped == jwLastDone = jwAttempted

\* Without an error the keys are as young as the last attempt, or nothing has been
\* attempted for a cooldown; a lookup meets keys past their ttl only in an outage.
JwDated ==
    /\ (~jwError /\ jwAttempted < JwCooldown) => jwFetched <= jwAttempted
    /\ \A r \in JwRequests : (jwReq[r].pc = "lookup" /\ jwFetched >= JwTtl) => jwError

JwInv == JwTypeOK /\ JwVouched /\ JwLocked /\ JwStamped /\ JwDated

JwPcs == {"idle", "validate", "refresh", "fetch", "lookup", "introspect", "asking",
          "accepted_jwks", "accepted_introspection", "rejected", "invalid", "unavailable"}
JwRequest == [pc : JwPcs, tok : JwTokens, stale : BOOLEAN, judged : BOOLEAN]

\* The steps of one request.
JwStep(r) ==
    \/ \E tok \in JwArrivals : validate_bearer_via_jwks(r, tok) \/ validate_unknown_bearer(r, tok)
    \/ jwks_validate(r) \/ refresh_keys(r) \/ fetch_keys(r) \/ lookup_after_refresh(r)
    \/ introspect_access_token(r) \/ introspection_answer(r) \/ JwFinish(r)

\* The requests are typed.
LEMMA JwReqTyped == JwTypeOK => jwReq \in [JwRequests -> JwRequest]
  BY DEF JwTypeOK, JwRequest, JwPcs

\* How a step changes the request that takes it, and that it changes no other.
LEMMA JwRequestStep ==
    ASSUME JwInv, NEW r \in JwRequests, JwStep(r)
    PROVE  /\ jwReq' = [jwReq EXCEPT ![r] = jwReq'[r]]
           /\ jwReq'[r] \in JwRequest
           /\ jwReq'[r].pc \in {"idle", "validate", "refresh", "fetch", "lookup"} =>
                  ~jwReq'[r].judged /\ ~jwReq'[r].stale
           /\ jwReq'[r].pc = "accepted_jwks" => jwReq'[r].tok.genuine
           /\ jwReq'[r].pc \in {"introspect", "asking", "accepted_introspection"} =>
                  allows_introspection /\ ~jwReq'[r].judged
           /\ (~jwReq[r].stale /\ jwReq'[r].stale) =>
                  jwReq[r].pc \in {"validate", "lookup"} /\ jwFetched >= JwTtl
                  /\ jwReq[r].pc = "lookup"
           /\ jwPolicy' = jwPolicy /\ jwPublished' = jwPublished /\ jwDenied' \in BOOLEAN
  <1> DEFINE Goal == /\ jwReq' = [jwReq EXCEPT ![r] = jwReq'[r]]
                     /\ jwReq'[r] \in JwRequest
                     /\ jwReq'[r].pc \in {"idle", "validate", "refresh", "fetch", "lookup"} =>
                            ~jwReq'[r].judged /\ ~jwReq'[r].stale
                     /\ jwReq'[r].pc = "accepted_jwks" => jwReq'[r].tok.genuine
                     /\ jwReq'[r].pc \in {"introspect", "asking", "accepted_introspection"} =>
                            allows_introspection /\ ~jwReq'[r].judged
                     /\ (~jwReq[r].stale /\ jwReq'[r].stale) =>
                            jwReq[r].pc \in {"validate", "lookup"} /\ jwFetched >= JwTtl
                            /\ jwReq[r].pc = "lookup"
                     /\ jwPolicy' = jwPolicy /\ jwPublished' = jwPublished
                     /\ jwDenied' \in BOOLEAN
  <1> USE DEF jwRest, JwGoto
  <1>0. /\ jwReq \in [JwRequests -> JwRequest] /\ jwReq[r] \in JwRequest
        /\ jwFetched \in 0 .. JwTtl /\ JwTtl \in Nat /\ jwDenied \in BOOLEAN
        /\ jwPolicy \in JwPolicies
    BY JwReqTyped, JwAssumption DEF JwInv, JwTypeOK
  <1>v. /\ jwReq[r].pc \in {"idle", "validate", "refresh", "fetch", "lookup"} =>
               ~jwReq[r].judged /\ ~jwReq[r].stale
        /\ jwReq[r].pc = "accepted_jwks" => jwReq[r].tok.genuine
        /\ jwReq[r].pc \in {"introspect", "asking", "accepted_introspection"} =>
               allows_introspection /\ ~jwReq[r].judged
    BY DEF JwInv, JwVouched
  <1>1. ASSUME NEW tok \in JwArrivals, validate_bearer_via_jwks(r, tok) PROVE Goal
    BY <1>0, <1>v, <1>1, JwArrivalsAssumption DEF validate_bearer_via_jwks, JwRequest, JwPcs
  <1>2. ASSUME NEW tok \in JwArrivals, validate_unknown_bearer(r, tok) PROVE Goal
    BY <1>0, <1>v, <1>2, JwArrivalsAssumption
    DEF validate_unknown_bearer, JwRequest, JwPcs, JwPolicies, allows_jwks, allows_introspection
  <1>3. CASE jwks_validate(r)
    BY <1>0, <1>v, <1>3
    DEF jwks_validate, jwks_rejected, JwDecode, may_fall_back, cached_key, is_stale, JwRequest, JwPcs
  <1>4. CASE refresh_keys(r)
    BY <1>0, <1>v, <1>4 DEF refresh_keys, jwks_rejected, may_fall_back, JwRequest, JwPcs
  <1>5. CASE fetch_keys(r)
    BY <1>0, <1>v, <1>5
    DEF fetch_keys, fetch_keys_ok, fetch_keys_failed, jwks_rejected, may_fall_back, JwRequest, JwPcs
  <1>6. CASE lookup_after_refresh(r)
    BY <1>0, <1>v, <1>6 DEF lookup_after_refresh, jwks_rejected, JwDecode, may_fall_back, JwRequest, JwPcs
  <1>7. CASE introspect_access_token(r)
    BY <1>0, <1>v, <1>7 DEF introspect_access_token, JwRequest, JwPcs
  <1>8. CASE introspection_answer(r)
    <2>1. PICK pc \in {"accepted_introspection", "rejected", "unavailable"} :
              jwReq' = [jwReq EXCEPT ![r].pc = pc]
      BY <1>8 DEF introspection_answer
    <2>2. /\ jwReq[r].pc = "asking" /\ jwPolicy' = jwPolicy /\ jwPublished' = jwPublished
          /\ jwDenied' \in BOOLEAN
      BY <1>0, <1>8 DEF introspection_answer
    <2> QED BY <1>0, <1>v, <2>1, <2>2 DEF JwRequest, JwPcs
  <1>9. CASE JwFinish(r)
    BY <1>0, <1>v, <1>9 DEF JwFinish, JwIdle, JwNoToken, JwTokens, JwRequest, JwPcs
  <1> QED BY <1>1, <1>2, <1>3, <1>4, <1>5, <1>6, <1>7, <1>8, <1>9 DEF JwStep

\* How a step changes the cache and the lock: not at all; it takes the lock; it is
\* over; or it brings the issuer's answer.
JwSame ==
    /\ jwKeys' = jwKeys /\ jwFetched' = jwFetched /\ jwAttempted' = jwAttempted
    /\ jwError' = jwError /\ jwLastDone' = jwLastDone
JwQuiet(r) ==
    /\ JwSame /\ jwLock' = jwLock
    /\ jwReq[r].pc # "fetch" /\ jwReq'[r].pc # "fetch"
    /\ jwReq'[r].pc = "lookup" => jwReq[r].pc = "refresh" /\ ~cooldown_elapsed
JwTakes(r) ==
    /\ JwSame /\ jwLock = {} /\ jwLock' = {r} /\ cooldown_elapsed
    /\ jwReq[r].pc = "refresh" /\ jwReq'[r].pc = "fetch"
JwEnds(r) == JwSame /\ jwLock' = jwLock \ {r} /\ jwReq'[r].pc = "idle"
JwAnswered(r) ==
    /\ jwReq[r].pc = "fetch" /\ jwLock' = {} /\ jwAttempted' = 0 /\ jwLastDone' = 0
    /\ \/ /\ jwFetched' = 0 /\ jwError' = FALSE /\ jwKeys' = jwPublished
          /\ jwReq'[r].pc = "lookup"
       \/ /\ jwFetched' = jwFetched /\ jwError' = TRUE /\ jwKeys' = jwKeys
          /\ jwReq'[r].pc \notin {"fetch", "lookup"}

\* A step of a request leaves the key cache alone, takes or gives back the fetch lock, or stores
\* an answer.
LEMMA JwCacheStep ==
    ASSUME JwInv, NEW r \in JwRequests, JwStep(r)
    PROVE  JwQuiet(r) \/ JwTakes(r) \/ JwEnds(r) \/ JwAnswered(r)
  <1> USE DEF jwRest, jwCache, JwGoto, JwRequest
  <1>0. jwReq \in [JwRequests -> JwRequest] /\ jwReq[r] \in JwRequest
    BY JwReqTyped DEF JwInv
  <1>1. ASSUME NEW tok \in JwArrivals, validate_bearer_via_jwks(r, tok) PROVE JwQuiet(r)
    BY <1>0, <1>1 DEF validate_bearer_via_jwks, JwQuiet, JwSame
  <1>2. ASSUME NEW tok \in JwArrivals, validate_unknown_bearer(r, tok) PROVE JwQuiet(r)
    BY <1>0, <1>2 DEF validate_unknown_bearer, JwQuiet, JwSame
  <1>3. CASE jwks_validate(r)
    <2>1. JwSame /\ jwLock' = jwLock
      BY <1>3 DEF jwks_validate, JwSame
    <2>2. jwReq[r].pc = "validate" /\ jwReq'[r].pc \notin {"fetch", "lookup"}
      BY <1>0, <1>3 DEF jwks_validate, jwks_rejected, JwDecode
    <2> QED BY <2>1, <2>2 DEF JwQuiet
  <1>4. CASE refresh_keys(r)
    <2>1. JwSame
      BY <1>4 DEF refresh_keys, JwSame
    <2>2. CASE ~cooldown_elapsed
      <3>1. /\ jwLock' = jwLock /\ jwReq[r].pc = "refresh"
            /\ jwReq'[r].pc # "fetch"
        BY <1>0, <1>4, <2>2 DEF refresh_keys, jwks_rejected, may_fall_back
      <3> QED BY <2>1, <2>2, <3>1 DEF JwQuiet
    <2>3. CASE cooldown_elapsed
      <3>1. jwLock = {} /\ jwLock' = {r} /\ jwReq[r].pc = "refresh" /\ jwReq'[r].pc = "fetch"
        BY <1>0, <1>4, <2>3 DEF refresh_keys
      <3> QED BY <2>1, <2>3, <3>1 DEF JwTakes
    <2> QED BY <2>2, <2>3
  <1>5. CASE fetch_keys(r)
    <2>1. jwReq[r].pc = "fetch" /\ jwLock' = {} /\ jwLastDone' = 0
      BY <1>5 DEF fetch_keys
    <2>2. CASE fetch_keys_ok(r)
      BY <1>0, <2>1, <2>2 DEF fetch_keys_ok, JwAnswered
    <2>3. CASE fetch_keys_failed(r)
      BY <1>0, <2>1, <2>3 DEF fetch_keys_failed, jwks_rejected, JwAnswered
    <2> QED BY <1>5, <2>2, <2>3 DEF fetch_keys
  <1>6. CASE lookup_after_refresh(r)
    <2>1. JwSame /\ jwLock' = jwLock
      BY <1>6 DEF lookup_after_refresh, JwSame
    <2>2. jwReq[r].pc = "lookup" /\ jwReq'[r].pc \notin {"fetch", "lookup"}
      BY <1>0, <1>6 DEF lookup_after_refresh, jwks_rejected, JwDecode
    <2> QED BY <2>1, <2>2 DEF JwQuiet
  <1>7. CASE introspect_access_token(r)
    BY <1>0, <1>7 DEF introspect_access_token, JwQuiet, JwSame
  <1>8. CASE introspection_answer(r)
    <2>1. JwSame /\ jwLock' = jwLock /\ jwReq[r].pc = "asking"
      BY <1>8 DEF introspection_answer, JwSame
    <2>2. PICK pc \in {"accepted_introspection", "rejected", "unavailable"} :
              jwReq' = [jwReq EXCEPT ![r].pc = pc]
      BY <1>8 DEF introspection_answer
    <2> QED BY <1>0, <2>1, <2>2 DEF JwQuiet
  <1>9. CASE JwFinish(r)
    BY <1>0, <1>9 DEF JwFinish, JwIdle, JwEnds, JwSame
  <1> QED BY <1>1, <1>2, <1>3, <1>4, <1>5, <1>6, <1>7, <1>8, <1>9 DEF JwStep

-----------------------------------------------------------------------------
\* Init establishes the invariant: an empty cache and no request.
LEMMA JwInitInv == JwInit => JwInv
  <1> SUFFICES ASSUME JwInit PROVE JwInv
    OBVIOUS
  <1>1. JwTypeOK
    <2>1. JwIdle \in JwRequest
      BY DEF JwIdle, JwNoToken, JwTokens, JwRequest, JwPcs
    <2>2. jwReq \in [JwRequests -> JwRequest]
      BY <2>1 DEF JwInit
    <2>3. jwPublished \subseteq JwKids /\ jwKeys \subseteq JwKids /\ jwLock \subseteq JwRequests
      BY DEF JwInit
    <2>4. jwPolicy \in JwPolicies /\ jwError \in BOOLEAN /\ jwDenied \in BOOLEAN
      BY DEF JwInit
    <2>5. /\ jwFetched \in 0 .. JwTtl /\ jwAttempted \in 0 .. JwCooldown
          /\ jwLastDone \in 0 .. JwCooldown
      BY JwAssumption DEF JwInit
    <2> QED BY <2>2, <2>3, <2>4, <2>5 DEF JwTypeOK, JwRequest, JwPcs
  <1>2. JwVouched /\ JwLocked
    BY DEF JwInit, JwVouched, JwLocked, JwIdle
  <1>3. JwStamped /\ JwDated
    BY JwAssumption DEF JwInit, JwStamped, JwDated, JwIdle
  <1> QED BY <1>1, <1>2, <1>3 DEF JwInv

\* A step of one request keeps the invariant.
LEMMA JwStepInv ==
    ASSUME JwInv, NEW r \in JwRequests, JwStep(r)
    PROVE  JwInv'
  <1>0. /\ jwReq \in [JwRequests -> JwRequest]
        /\ jwFetched \in 0 .. JwTtl /\ jwAttempted \in 0 .. JwCooldown
        /\ jwLastDone \in 0 .. JwCooldown /\ jwKeys \subseteq JwKids /\ jwError \in BOOLEAN
        /\ jwLock \subseteq JwRequests /\ jwPublished \subseteq JwKids
        /\ jwPolicy \in JwPolicies /\ JwTtl \in Nat /\ JwCooldown \in Nat
        /\ 0 < JwCooldown /\ JwCooldown < JwTtl
    BY JwReqTyped, JwAssumption DEF JwInv, JwTypeOK
  <1>1. /\ jwReq' = [jwReq EXCEPT ![r] = jwReq'[r]]
        /\ jwReq'[r] \in JwRequest
        /\ jwPolicy' = jwPolicy /\ jwPublished' = jwPublished /\ jwDenied' \in BOOLEAN
    BY JwRequestStep
  <1>2. /\ \A q \in JwRequests \ {r} : jwReq'[q] = jwReq[q]
        /\ jwReq' \in [JwRequests -> JwRequest]
    BY <1>0, <1>1
  <1>3. JwQuiet(r) \/ JwTakes(r) \/ JwEnds(r) \/ JwAnswered(r)
    BY JwCacheStep
  <1>4. JwTypeOK'
    <2>1. /\ jwKeys' \subseteq JwKids /\ jwFetched' \in 0 .. JwTtl
          /\ jwAttempted' \in 0 .. JwCooldown /\ jwError' \in BOOLEAN
          /\ jwLock' \subseteq JwRequests /\ jwLastDone' \in 0 .. JwCooldown
      <3>1. CASE JwQuiet(r) \/ JwTakes(r) \/ JwEnds(r)
        <4>1. JwSame
          BY <3>1 DEF JwQuiet, JwTakes, JwEnds
        <4>2. jwLock' \subseteq JwRequests
          BY <1>0, <3>1 DEF JwQuiet, JwTakes, JwEnds
        <4> QED BY <1>0, <4>1, <4>2 DEF JwSame
      <3>2. CASE JwAnswered(r)
        <4>1. jwKeys' \subseteq JwKids /\ jwError' \in BOOLEAN /\ jwLock' \subseteq JwRequests
          BY <1>0, <3>2 DEF JwAnswered
        <4>2. /\ jwFetched' \in 0 .. JwTtl /\ jwAttempted' \in 0 .. JwCooldown
              /\ jwLastDone' \in 0 .. JwCooldown
          BY <1>0, <3>2 DEF JwAnswered
        <4> QED BY <4>1, <4>2
      <3> QED BY <1>3, <3>1, <3>2
    <2>2. jwReq' \in [JwRequests -> JwRequest]
      BY <1>2
    <2> QED BY <1>0, <1>1, <2>1, <2>2 DEF JwTypeOK, JwRequest, JwPcs
  <1>5. JwVouched'
    <2>1. allows_introspection' = allows_introspection
      BY <1>1 DEF allows_introspection
    <2> QED BY <1>2, <2>1, JwRequestStep DEF JwInv, JwVouched
  <1>6. JwLocked'
    <2>1. \A q \in JwRequests :
              jwReq[q].pc = "fetch" => jwLock = {q} /\ jwAttempted = JwCooldown
      BY DEF JwInv, JwLocked
    <2>2. JwTakes(r) => jwAttempted' = JwCooldown
      BY <1>0 DEF JwTakes, JwSame, cooldown_elapsed
    <2> QED BY <1>2, <1>3, <2>1, <2>2 DEF JwLocked, JwQuiet, JwTakes, JwEnds, JwAnswered, JwSame
  <1>7. JwStamped'
    BY <1>3 DEF JwInv, JwStamped, JwQuiet, JwTakes, JwEnds, JwAnswered, JwSame
  <1>8. JwDated'
    <2>1. /\ (~jwError /\ jwAttempted < JwCooldown) => jwFetched <= jwAttempted
          /\ \A q \in JwRequests : (jwReq[q].pc = "lookup" /\ jwFetched >= JwTtl) => jwError
      BY DEF JwInv, JwDated
    <2>2. CASE JwSame /\ (jwReq'[r].pc = "lookup" => ~cooldown_elapsed)
      BY <1>0, <1>2, <2>1, <2>2 DEF JwDated, JwSame, cooldown_elapsed
    <2>3. CASE JwAnswered(r)
      BY <1>0, <1>2, <2>1, <2>3 DEF JwDated, JwAnswered
    <2> QED BY <1>3, <2>2, <2>3 DEF JwQuiet, JwTakes, JwEnds
  <1> QED BY <1>4, <1>5, <1>6, <1>7, <1>8 DEF JwInv

\* Time and a rotation of the keys keep it.
LEMMA JwAround ==
    ASSUME JwInv, JwTick \/ (\E keys \in SUBSET JwKids : JwRotate(keys)) \/ UNCHANGED jwVars
    PROVE  JwInv'
  <1>1. CASE JwTick
    <2>0. /\ jwFetched \in 0 .. JwTtl /\ jwAttempted \in 0 .. JwCooldown
          /\ jwLastDone \in 0 .. JwCooldown /\ JwTtl \in Nat /\ JwCooldown \in Nat
          /\ JwCooldown < JwTtl
      BY JwAssumption DEF JwInv, JwTypeOK
    <2>1. UNCHANGED <<jwPolicy, jwPublished, jwKeys, jwError, jwLock, jwDenied, jwReq>>
      BY <1>1 DEF JwTick
    <2>2. /\ jwFetched' = IF jwFetched < JwTtl THEN jwFetched + 1 ELSE JwTtl
          /\ jwAttempted' = IF jwAttempted < JwCooldown THEN jwAttempted + 1 ELSE JwCooldown
          /\ jwLastDone' = IF jwLastDone < JwCooldown THEN jwLastDone + 1 ELSE JwCooldown
          /\ \A r \in JwRequests : jwReq[r].pc # "lookup"
      BY <1>1 DEF JwTick
    <2>3. JwTypeOK'
      BY <2>0, <2>1, <2>2 DEF JwInv, JwTypeOK
    <2>4. JwVouched' /\ JwLocked'
      BY <2>0, <2>1, <2>2 DEF JwInv, JwVouched, JwLocked, allows_introspection
    <2>5. JwStamped' /\ JwDated'
      BY <2>0, <2>1, <2>2 DEF JwInv, JwStamped, JwDated
    <2> QED BY <2>3, <2>4, <2>5 DEF JwInv
  <1>2. CASE \E keys \in SUBSET JwKids : JwRotate(keys)
    BY <1>2 DEF JwRotate, JwInv, JwTypeOK, JwVouched, JwLocked, JwStamped, JwDated,
                allows_introspection
  <1>3. CASE UNCHANGED jwVars
    BY <1>3 DEF jwVars, JwInv, JwTypeOK, JwVouched, JwLocked, JwStamped, JwDated,
                allows_introspection
  <1> QED BY <1>1, <1>2, <1>3

\* Every step is one of a request, or time, rotation or a stutter.
LEMMA JwSplits ==
    ASSUME [JwNext]_jwVars
    PROVE  \/ \E r \in JwRequests : JwStep(r)
           \/ JwTick \/ (\E keys \in SUBSET JwKids : JwRotate(keys)) \/ UNCHANGED jwVars
  BY DEF JwNext, JwStep

\* It holds in every state.
LEMMA JwAlways == JwSpec => []JwInv
  <1>1. JwInv /\ [JwNext]_jwVars => JwInv'
    BY JwSplits, JwStepInv, JwAround
  <1> QED BY <1>1, JwInitInv, PTL DEF JwSpec

\* What is accepted was vouched for, and never after the keys have rejected it
\* (jwks.rs validate, store.rs validate_unknown_bearer).
THEOREM TokensAreVouched == JwSpec => []AcceptedIsVouched
  <1>1. JwInv => AcceptedIsVouched
    BY DEF JwInv, JwVouched, AcceptedIsVouched
  <1> QED BY <1>1, JwAlways, PTL

\* A request that is not at the step leaves its record alone.
LEMMA JwNobody ==
    ASSUME JwTick \/ (\E keys \in SUBSET JwKids : JwRotate(keys)) \/ UNCHANGED jwVars
    PROVE  jwReq' = jwReq
  BY DEF JwTick, JwRotate, jwVars

\* The request whose record changes is the one that stepped.
LEMMA JwMover ==
    ASSUME JwInv, NEW x \in JwRequests, JwStep(x), NEW r \in JwRequests, jwReq'[r] # jwReq[r]
    PROVE  x = r
  <1>1. jwReq' = [jwReq EXCEPT ![x] = jwReq'[x]]
    BY JwRequestStep
  <1>2. jwReq \in [JwRequests -> JwRequest]
    BY JwReqTyped DEF JwInv
  <1> QED BY <1>1, <1>2

\* A fetch starts only when none is under way and a cooldown after the last one that
\* was answered (jwks.rs refresh_keys).
THEOREM FetchesAreSpaced == JwSpec => IssuerNotHammered
  <1> DEFINE Spaced == \A r \in JwRequests :
                 (jwReq[r].pc # "fetch" /\ jwReq'[r].pc = "fetch")
                     => /\ \A q \in JwRequests : jwReq[q].pc # "fetch"
                        /\ jwLastDone = JwCooldown
  <1>1. ASSUME JwInv, [JwNext]_jwVars PROVE Spaced
    <2> SUFFICES ASSUME NEW r \in JwRequests, jwReq[r].pc # "fetch", jwReq'[r].pc = "fetch"
                 PROVE  /\ \A q \in JwRequests : jwReq[q].pc # "fetch"
                        /\ jwLastDone = JwCooldown
      OBVIOUS
    <2>1. PICK x \in JwRequests : JwStep(x)
      BY <1>1, JwSplits, JwNobody
    <2>2. x = r
      BY <1>1, <2>1, JwMover
    <2>3. jwLock = {} /\ cooldown_elapsed
      BY <1>1, <2>1, <2>2, JwCacheStep DEF JwQuiet, JwTakes, JwEnds, JwAnswered
    <2> QED BY <1>1, <2>3, JwAssumption DEF JwInv, JwTypeOK, JwLocked, JwStamped, cooldown_elapsed
  <1>2. JwInv /\ [JwNext]_jwVars => [Spaced]_jwVars
    BY <1>1
  <1> QED BY <1>2, JwAlways, PTL DEF JwSpec, IssuerNotHammered

\* Keys past their ttl accept a token only when the last answered fetch failed
\* (jwks.rs validate).
THEOREM StaleOnlyInOutage == JwSpec => StaleKeysOnlyInOutage
  <1> DEFINE Outage == \A r \in JwRequests : (~jwReq[r].stale /\ jwReq'[r].stale) => jwError
  <1>1. ASSUME JwInv, [JwNext]_jwVars PROVE Outage
    <2> SUFFICES ASSUME NEW r \in JwRequests, ~jwReq[r].stale, jwReq'[r].stale PROVE jwError
      OBVIOUS
    <2>1. PICK x \in JwRequests : JwStep(x)
      BY <1>1, JwSplits, JwNobody
    <2>2. x = r
      BY <1>1, <2>1, JwMover
    <2>3. jwReq[r].pc = "lookup" /\ jwFetched >= JwTtl
      BY <1>1, <2>1, <2>2, JwRequestStep
    <2> QED BY <1>1, <2>3 DEF JwInv, JwDated
  <1>2. JwInv /\ [JwNext]_jwVars => [Outage]_jwVars
    BY <1>1
  <1> QED BY <1>2, JwAlways, PTL DEF JwSpec, StaleKeysOnlyInOutage

KeyHeld(r) == jwReq[r].tok.genuine /\ jwReq[r].tok.kid \in jwKeys
Checking(r) == jwReq[r].pc \in {"validate", "refresh", "fetch", "lookup"}
TurnedAway(r) == jwReq'[r].pc \in {"rejected", "invalid", "unavailable", "introspect"}

\* Whoever does not fetch finds the key that is held, or goes on to fetch.
LEMMA JwHeldServes ==
    ASSUME JwInv, NEW r \in JwRequests, JwStep(r), KeyHeld(r), Checking(r), TurnedAway(r)
    PROVE  jwReq[r].pc = "fetch"
  <1> USE DEF KeyHeld, Checking, TurnedAway, JwGoto
  <1>0. jwReq \in [JwRequests -> JwRequest] /\ jwKeys \subseteq JwKids
    BY JwReqTyped DEF JwInv, JwTypeOK
  <1>1. CASE jwks_validate(r)
    BY <1>0, <1>1 DEF jwks_validate, JwDecode, JwRequest
  <1>2. CASE refresh_keys(r)
    BY <1>0, <1>2 DEF refresh_keys, JwRequest
  <1>3. CASE fetch_keys(r)
    BY <1>3 DEF fetch_keys
  <1>4. CASE lookup_after_refresh(r)
    BY <1>0, <1>4 DEF lookup_after_refresh, JwDecode, JwRequest
  <1>5. CASE JwFinish(r)
    BY <1>0, <1>5 DEF JwFinish, JwIdle
  <1>6. CASE introspect_access_token(r) \/ introspection_answer(r)
    BY <1>6 DEF introspect_access_token, introspection_answer
  <1>7. ASSUME NEW tok \in JwArrivals,
               validate_bearer_via_jwks(r, tok) \/ validate_unknown_bearer(r, tok)
        PROVE  FALSE
    BY <1>7 DEF validate_bearer_via_jwks, validate_unknown_bearer
  <1> QED BY <1>1, <1>2, <1>3, <1>4, <1>5, <1>6, <1>7 DEF JwStep

\* An outage turns a genuine token of a key that is held away once a cooldown: only in
\* the request whose own fetch fails (jwks.rs refresh_keys).
THEOREM OutageIsRationed == JwSpec => OutageCostsOneRequest
  <1> DEFINE Rationed == \A r \in JwRequests :
                 (/\ jwReq[r].tok.genuine /\ jwReq[r].tok.kid \in jwKeys
                  /\ jwReq[r].pc \in {"validate", "refresh", "fetch", "lookup"}
                  /\ jwReq'[r].pc \in {"rejected", "invalid", "unavailable", "introspect"})
                     => jwReq[r].pc = "fetch" /\ jwLastDone = JwCooldown
  <1>1. ASSUME JwInv, [JwNext]_jwVars PROVE Rationed
    <2> SUFFICES ASSUME NEW r \in JwRequests, KeyHeld(r), Checking(r), TurnedAway(r)
                 PROVE  jwReq[r].pc = "fetch" /\ jwLastDone = JwCooldown
      BY DEF KeyHeld, Checking, TurnedAway
    <2>1. PICK x \in JwRequests : JwStep(x)
      BY <1>1, JwSplits, JwNobody DEF Checking, TurnedAway
    <2>2. x = r
      BY <1>1, <2>1, JwMover DEF Checking, TurnedAway
    <2>3. jwReq[r].pc = "fetch"
      BY <1>1, <2>1, <2>2, JwHeldServes
    <2> QED BY <1>1, <2>3 DEF JwInv, JwLocked, JwStamped
  <1>2. JwInv /\ [JwNext]_jwVars => [Rationed]_jwVars
    BY <1>1
  <1> QED BY <1>2, JwAlways, PTL DEF JwSpec, OutageCostsOneRequest

-----------------------------------------------------------------------------
(* Session bindings.  What a claim is decided by is typed while it is under *)
(* way; SettledSessionKept then holds step by step, because remember never  *)
(* enters anybody but the identity the claim was decided for.               *)

\* A request that is under way has an instance, a session and an identity.
BindBusy ==
    \A r \in BindRequests : bindReq[r].pc \notin {"idle", "refused"} =>
        /\ bindReq[r].inst \in BindInstances
        /\ bindReq[r].session \in BindSessions
        /\ bindReq[r].who \in BindIdentities
        /\ bindReq[r].pc \in {"peer", "own"} => bindReq[r].peer \in BindIdentities
        /\ bindReq[r].pc = "own" => bindReq[r].peer = bindReq[r].who

BindInv == BindTypeOK /\ BindBusy

\* A full binding and an empty one are bindings.
LEMMA BindingTyped ==
    /\ Unbound \in Binding
    /\ \A y \in BindIdentities : BindingOf(y) \in Binding
  BY BindAssumption DEF Unbound, Binding, BindingOf

\* What remember leaves in the table of i: each entry is new, old or empty.
LEMMA BindRememberEntries ==
    ASSUME BindTypeOK, NEW i \in BindInstances, NEW s \in BindSessions,
           NEW y \in BindIdentities, remember(i, s, y)
    PROVE  /\ bindings' \in [BindInstances -> [BindSessions -> Binding]]
           /\ \A j \in BindInstances, x \in BindSessions :
                  \/ j = i /\ x = s /\ bindings'[j][x] = BindingOf(y)
                  \/ bindings'[j][x] = bindings[j][x]
                  \/ bindings'[j][x] = Unbound
  <1>1. PICK keep \in Survivors(bindings[i], s) :
          bindings' = [bindings EXCEPT ![i] =
            [x \in BindSessions |-> IF x = s THEN BindingOf(y)
                                    ELSE IF x \in keep THEN bindings[i][x]
                                    ELSE Unbound]]
    BY DEF remember
  <1>2. bindings \in [BindInstances -> [BindSessions -> Binding]]
    BY DEF BindTypeOK
  <1> QED BY <1>1, <1>2, BindingTyped

-----------------------------------------------------------------------------
\* Init establishes it: no table has an entry.
LEMMA BindInitInv == BindInit => BindInv
  BY BindingTyped, BindAssumption
  DEF BindInit, BindInv, BindTypeOK, BindBusy, BindIdle, BindRequest, Unbound

\* An entry that gets older is still a binding, of the same identity.
LEMMA BindOlderTyped ==
    ASSUME NEW e \in Binding
    PROVE  Older(e) \in Binding /\ Older(e).identity = e.identity
  BY BindAssumption DEF Binding, Older

\* A request's own steps keep it.
LEMMA BindRequestStep ==
    ASSUME BindInv, NEW r \in BindRequests,
           \/ \E a \in BindArrivals : authorize_as_resource_server(r, a[1], a[2], a[3])
           \/ claim_cold(r) \/ claim_peer(r) \/ claim_own(r) \/ BindFinish(r)
    PROVE  BindInv'
  <1> USE DEF BindInv
  <1>1. CASE \E a \in BindArrivals : authorize_as_resource_server(r, a[1], a[2], a[3])
    <2>1. PICK i \in BindInstances, s \in BindSessions, y \in BindIdentities :
              authorize_as_resource_server(r, i, s, y)
      BY <1>1, BindAssumption
    <2>2. bindReq' \in [BindRequests -> BindRequest]
      BY <2>1 DEF authorize_as_resource_server, BindRefuse, BindIdle, BindRequest, BindTypeOK
    <2>3. /\ \A q \in BindRequests \ {r} : bindReq'[q] = bindReq[q]
          /\ bindReq'[r].pc \in {"served", "cold", "refused"}
          /\ bindReq'[r].pc # "refused" =>
                bindReq'[r].inst = i /\ bindReq'[r].session = s /\ bindReq'[r].who = y
      BY <2>1 DEF BindTypeOK, authorize_as_resource_server, BindRefuse, BindIdle
    <2>4. BindTypeOK'
      BY <2>1, <2>2 DEF BindTypeOK, authorize_as_resource_server
    <2> QED BY <2>3, <2>4 DEF BindBusy
  <1>2. CASE claim_cold(r)
    <2> DEFINE q == bindReq[r]
    <2>1. /\ q.pc = "cold" /\ q.inst \in BindInstances /\ q.session \in BindSessions
          /\ q.who \in BindIdentities /\ q \in BindRequest
          /\ bindRecord[q.session] \in Binding
      BY <1>2 DEF claim_cold, BindBusy, BindTypeOK
    <2>2. PICK pc \in {"peer", "own"}, y \in BindIdentities :
              /\ bindReq' = [bindReq EXCEPT ![r].pc = pc, ![r].peer = y]
              /\ pc = "own" => y = q.who
      BY <1>2, <2>1 DEF claim_cold, Live, Binding
    <2>3. /\ bindReq' \in [BindRequests -> BindRequest]
          /\ \A x \in BindRequests \ {r} : bindReq'[x] = bindReq[x]
          /\ bindReq'[r].pc = pc /\ bindReq'[r].peer = y /\ bindReq'[r].inst = q.inst
          /\ bindReq'[r].session = q.session /\ bindReq'[r].who = q.who
      BY <2>1, <2>2 DEF BindTypeOK, BindRequest
    <2>4. BindTypeOK'
      BY <1>2, <2>3 DEF BindTypeOK, claim_cold, BindFault
    <2> QED BY <2>1, <2>2, <2>3, <2>4 DEF BindBusy
  <1>3. CASE claim_peer(r) \/ claim_own(r)
    <2> DEFINE q == bindReq[r]
    <2>1. /\ q.pc \in {"peer", "own"} /\ q.inst \in BindInstances /\ q.session \in BindSessions
          /\ q.who \in BindIdentities /\ q.peer \in BindIdentities /\ q \in BindRequest
          /\ q.pc = "own" => q.peer = q.who
          /\ remember(q.inst, q.session, q.peer)
      BY <1>3 DEF claim_peer, claim_own, BindBusy, BindTypeOK
    <2>2. bindings' \in [BindInstances -> [BindSessions -> Binding]]
      BY <2>1, BindRememberEntries
    <2>3. /\ bindReq' \in [BindRequests -> BindRequest]
          /\ \A x \in BindRequests \ {r} : bindReq'[x] = bindReq[x]
          /\ \/ bindReq'[r].pc = "refused"
             \/ /\ bindReq'[r].pc = "served" /\ bindReq'[r].inst = q.inst
                /\ bindReq'[r].session = q.session /\ bindReq'[r].who = q.who
      <3>1. bindReq \in [BindRequests -> BindRequest]
        BY DEF BindTypeOK
      <3>2. \/ bindReq' = [bindReq EXCEPT ![r].pc = "served", ![r].peer = NoOne]
            \/ bindReq' = [bindReq EXCEPT ![r] = [BindIdle EXCEPT !.pc = "refused"]]
        BY <1>3 DEF claim_peer, claim_own, BindGoto, BindRefuse
      <3>3. CASE bindReq' = [bindReq EXCEPT ![r].pc = "served", ![r].peer = NoOne]
        BY <2>1, <3>1, <3>3 DEF BindRequest
      <3>4. CASE bindReq' = [bindReq EXCEPT ![r] = [BindIdle EXCEPT !.pc = "refused"]]
        BY <3>1, <3>4 DEF BindRequest, BindIdle
      <3> QED BY <3>2, <3>3, <3>4
    <2>4. bindWrites' \subseteq [inst : BindInstances, session : BindSessions,
                                 who : BindIdentities]
      BY <1>3, <2>1 DEF claim_peer, claim_own, BindTypeOK
    <2>5. BindTypeOK'
      BY <1>3, <2>2, <2>3, <2>4 DEF BindTypeOK, claim_peer, claim_own
    <2> QED BY <2>1, <2>3, <2>5 DEF BindBusy
  <1>4. CASE BindFinish(r)
    BY <1>4 DEF BindFinish, BindIdle, BindTypeOK, BindRequest, BindBusy
  <1> QED BY <1>1, <1>2, <1>3, <1>4

\* So do the detached writes, crashes and time.
LEMMA BindOtherStep ==
    ASSUME BindInv,
           \/ \E w \in bindWrites : claim_write(w)
           \/ \E i \in BindInstances : BindCrash(i)
           \/ BindTick \/ UNCHANGED bindVars
    PROVE  BindInv'
  <1> USE DEF BindInv
  <1>1. ASSUME NEW w \in bindWrites, claim_write(w) PROVE BindInv'
    <2>1. w.session \in BindSessions /\ w.who \in BindIdentities
      BY DEF BindTypeOK
    <2>2. bindRecord' \in [BindSessions -> Binding]
      BY <1>1, <2>1, BindingTyped DEF claim_write, BindTypeOK
    <2>3. bindWrites' \subseteq bindWrites /\ bindFaults' \in Nat
          /\ bindings' = bindings /\ bindReq' = bindReq
      BY <1>1 DEF claim_write, BindFault, BindTypeOK
    <2> QED BY <2>2, <2>3 DEF BindTypeOK, BindBusy
  <1>2. ASSUME NEW i \in BindInstances, BindCrash(i) PROVE BindInv'
    <2>1. bindings' \in [BindInstances -> [BindSessions -> Binding]]
      BY <1>2, BindingTyped DEF BindCrash, BindTypeOK
    <2>2. /\ bindReq' \in [BindRequests -> BindRequest]
          /\ \A r \in BindRequests : bindReq'[r] = bindReq[r] \/ bindReq'[r].pc = "idle"
      BY <1>2 DEF BindCrash, BindTypeOK, BindIdle, BindRequest
    <2>3. bindRecord' = bindRecord /\ bindFaults' \in Nat /\ bindWrites' \subseteq bindWrites
      BY <1>2 DEF BindCrash, BindFault, BindTypeOK
    <2> QED BY <2>1, <2>2, <2>3 DEF BindTypeOK, BindBusy
  <1>3. CASE BindTick
    <2>1. bindings' \in [BindInstances -> [BindSessions -> Binding]]
      BY <1>3, BindOlderTyped DEF BindTick, BindTypeOK
    <2>2. bindRecord' \in [BindSessions -> Binding]
      BY <1>3, BindOlderTyped, BindingTyped DEF BindTick, BindTypeOK
    <2> QED BY <1>3, <2>1, <2>2 DEF BindTick, BindTypeOK, BindBusy
  <1>4. CASE UNCHANGED bindVars
    BY <1>4 DEF bindVars, BindTypeOK, BindBusy
  <1> QED BY <1>1, <1>2, <1>3, <1>4

\* Every step keeps it.
LEMMA BindInvStep == BindInv /\ [BindNext]_bindVars => BindInv'
  BY BindRequestStep, BindOtherStep DEF BindNext

\* It holds in every state.
LEMMA BindAlways == BindSpec => []BindInv
  BY BindInitInv, BindInvStep, PTL DEF BindSpec

-----------------------------------------------------------------------------
(***************************************************************************)
(* A settled session.                                                      *)
(***************************************************************************)

Kept(s, x) ==
    /\ Settled(s, x)'
    /\ \A r \in BindRequests :
           Admitted(r) /\ bindReq'[r].session = s => bindReq'[r].who = x

\* A request settles nothing else, and is admitted as the owner or not at all.
LEMMA SettledRequestStep ==
    ASSUME BindInv, NEW r \in BindRequests, NEW s \in BindSessions, NEW x \in BindIdentities,
           Settled(s, x), ~FailsOpen(s),
           \/ \E a \in BindArrivals : authorize_as_resource_server(r, a[1], a[2], a[3])
           \/ claim_cold(r) \/ claim_peer(r) \/ claim_own(r) \/ BindFinish(r)
    PROVE  Kept(s, x)
  <1> USE DEF BindInv
  <1>s. /\ Live(bindRecord[s]) /\ bindRecord[s].identity = x
        /\ \A i \in BindInstances : Live(bindings[i][s]) => bindings[i][s].identity = x
        /\ \A w \in bindWrites : w.session = s => w.who = x
        /\ \A q \in BindRequests :
               bindReq[q].session = s /\ bindReq[q].pc \in {"peer", "own"} => bindReq[q].peer = x
    BY DEF Settled
  <1>kept. ASSUME bindRecord' = bindRecord,
                  \A i \in BindInstances : Live(bindings'[i][s]) => bindings'[i][s].identity = x,
                  \A w \in bindWrites' : w.session = s => w.who = x,
                  \A q \in BindRequests \ {r} : bindReq'[q] = bindReq[q],
                  bindReq'[r].session = s =>
                    /\ bindReq'[r].pc \in {"peer", "own"} => bindReq'[r].peer = x
                    /\ bindReq'[r].pc = "served" => bindReq'[r].who = x
           PROVE  Kept(s, x)
    BY <1>s, <1>kept DEF Kept, Settled, Admitted, Live
  <1>1. CASE \E a \in BindArrivals : authorize_as_resource_server(r, a[1], a[2], a[3])
    <2>1. PICK i \in BindInstances, t \in BindSessions, y \in BindIdentities :
              authorize_as_resource_server(r, i, t, y)
      BY <1>1, BindAssumption
    <2>2. UNCHANGED <<bindings, bindRecord, bindWrites>>
      BY <2>1 DEF authorize_as_resource_server
    <2>3. /\ \A q \in BindRequests \ {r} : bindReq'[q] = bindReq[q]
          /\ bindReq'[r].pc \in {"served", "cold", "refused"}
          /\ bindReq'[r].pc = "served" =>
                /\ bindReq'[r].session = t /\ bindReq'[r].who = y
                /\ Live(bindings[i][t]) /\ bindings[i][t].identity = y
      BY <2>1 DEF BindTypeOK, authorize_as_resource_server, BindRefuse, BindIdle
    <2> QED BY <1>s, <1>kept, <2>2, <2>3
  <1>2. CASE claim_cold(r)
    <2>1. UNCHANGED <<bindings, bindRecord, bindWrites>> /\ bindReq[r].pc = "cold"
      BY <1>2 DEF claim_cold
    <2>2. /\ \A q \in BindRequests \ {r} : bindReq'[q] = bindReq[q]
          /\ bindReq'[r].session = bindReq[r].session
          /\ \/ bindReq'[r].pc = "own"
             \/ /\ bindReq'[r].pc = "peer"
                /\ bindReq'[r].peer = bindRecord[bindReq[r].session].identity
      BY <1>2 DEF claim_cold, BindTypeOK, BindRequest
    <2>3. bindReq'[r].session = s => bindReq'[r].pc = "peer" /\ bindReq'[r].peer = x
      BY <1>s, <2>1, <2>2 DEF FailsOpen
    <2> QED BY <1>s, <1>kept, <2>1, <2>2, <2>3
  <1>3. CASE claim_peer(r) \/ claim_own(r)
    <2> DEFINE q == bindReq[r]
    <2>1. /\ q.pc \in {"peer", "own"} /\ q.inst \in BindInstances /\ q.session \in BindSessions
          /\ q.who \in BindIdentities /\ q.peer \in BindIdentities
          /\ q.pc = "own" => q.peer = q.who
          /\ remember(q.inst, q.session, q.peer) /\ bindRecord' = bindRecord
      BY <1>3 DEF claim_peer, claim_own, BindBusy
    <2>2. q.session = s => q.peer = x
      BY <1>s, <2>1
    <2>3. \A j \in BindInstances :
              Live(bindings'[j][s]) => bindings'[j][s].identity = x
      <3>1. \A j \in BindInstances :
                \/ j = q.inst /\ s = q.session /\ bindings'[j][s] = BindingOf(q.peer)
                \/ bindings'[j][s] = bindings[j][s]
                \/ bindings'[j][s] = Unbound
        BY <2>1, BindRememberEntries
      <3> QED BY <1>s, <2>2, <3>1 DEF BindingOf, Unbound, Live
    <2>4. /\ \A z \in BindRequests \ {r} : bindReq'[z] = bindReq[z]
          /\ \/ bindReq'[r].pc = "refused"
             \/ /\ bindReq'[r].pc = "served" /\ bindReq'[r].session = q.session
                /\ bindReq'[r].who = q.who /\ q.peer = q.who
      BY <1>3, <2>1 DEF claim_peer, claim_own, BindGoto, BindRefuse, BindIdle, BindTypeOK, BindRequest
    <2>5. \A w \in bindWrites' : w.session = s => w.who = x
      BY <1>3, <1>s, <2>1, <2>2 DEF claim_peer, claim_own
    <2> QED BY <1>kept, <2>1, <2>2, <2>3, <2>4, <2>5
  <1>4. CASE BindFinish(r)
    <2>1. /\ UNCHANGED <<bindings, bindRecord, bindWrites>>
          /\ \A q \in BindRequests \ {r} : bindReq'[q] = bindReq[q]
          /\ bindReq'[r].pc = "idle"
      BY <1>4 DEF BindFinish, BindIdle, BindTypeOK
    <2> QED BY <1>s, <1>kept, <2>1
  <1> QED BY <1>1, <1>2, <1>3, <1>4

\* A detached write publishes the owner again, a crash forgets, time ages.
LEMMA SettledOtherStep ==
    ASSUME BindInv, NEW s \in BindSessions, NEW x \in BindIdentities,
           Settled(s, x), Live(bindRecord'[s]),
           \/ \E w \in bindWrites : claim_write(w)
           \/ \E i \in BindInstances : BindCrash(i)
           \/ BindTick \/ UNCHANGED bindVars
    PROVE  Kept(s, x)
  <1> USE DEF BindInv
  <1>s. /\ Live(bindRecord[s]) /\ bindRecord[s].identity = x
        /\ \A i \in BindInstances : Live(bindings[i][s]) => bindings[i][s].identity = x
        /\ \A w \in bindWrites : w.session = s => w.who = x
        /\ \A q \in BindRequests :
               bindReq[q].session = s /\ bindReq[q].pc \in {"peer", "own"} => bindReq[q].peer = x
    BY DEF Settled
  <1>kept. ASSUME bindRecord'[s].identity = x,
                  \A i \in BindInstances : Live(bindings'[i][s]) => bindings'[i][s].identity = x,
                  bindWrites' \subseteq bindWrites,
                  \A q \in BindRequests : bindReq'[q] = bindReq[q] \/ bindReq'[q].pc = "idle"
           PROVE  Kept(s, x)
    BY <1>s, <1>kept DEF Kept, Settled, Admitted, Live
  <1>1. ASSUME NEW w \in bindWrites, claim_write(w) PROVE Kept(s, x)
    <2>1. /\ bindings' = bindings /\ bindReq' = bindReq /\ bindWrites' \subseteq bindWrites
          /\ \/ bindRecord' = bindRecord
             \/ bindRecord' = [bindRecord EXCEPT ![w.session] = BindingOf(w.who)]
      BY <1>1 DEF claim_write
    <2>2. bindRecord'[s].identity = x
      BY <1>s, <2>1 DEF BindingOf, BindTypeOK
    <2> QED BY <1>s, <1>kept, <2>1, <2>2
  <1>2. ASSUME NEW i \in BindInstances, BindCrash(i) PROVE Kept(s, x)
    <2>1. /\ \A j \in BindInstances :
                 bindings'[j][s] = bindings[j][s] \/ bindings'[j][s] = Unbound
          /\ bindRecord' = bindRecord /\ bindWrites' \subseteq bindWrites
          /\ \A q \in BindRequests : bindReq'[q] = bindReq[q] \/ bindReq'[q].pc = "idle"
      BY <1>2 DEF BindCrash, BindTypeOK, BindIdle
    <2>2. ~Live(Unbound)
      BY DEF Live, Unbound
    <2> QED BY <1>s, <1>kept, <2>1, <2>2
  <1>3. CASE BindTick
    <2>1. /\ \A j \in BindInstances : bindings'[j][s] = Older(bindings[j][s])
          /\ bindRecord'[s] = Unbound \/ bindRecord'[s] = Older(bindRecord[s])
          /\ bindWrites' = bindWrites /\ bindReq' = bindReq
      BY <1>3 DEF BindTick
    <2>2. ~Live(Unbound)
      BY DEF Live, Unbound
    <2>3. \A e \in Binding : Older(e).identity = e.identity /\ (Live(Older(e)) => Live(e))
      BY BindAssumption DEF Older, Live, Binding
    <2>4. bindRecord[s] \in Binding /\ \A j \in BindInstances : bindings[j][s] \in Binding
      BY DEF BindTypeOK
    <2> QED BY <1>s, <1>kept, <2>1, <2>2, <2>3, <2>4
  <1>4. CASE UNCHANGED bindVars
    BY <1>4, <1>s, <1>kept DEF bindVars
  <1> QED BY <1>1, <1>2, <1>3, <1>4

\* A settled session stays its owner's while the record lives, unless a claim fails
\* open: for any instances, requests, capacity, crashes and lost writes (binding.rs
\* claim).
THEOREM SettledStaysOwned == BindSpec => SettledSessionKept
  <1> DEFINE Stays == \A s \in BindSessions, x \in BindIdentities :
                Settled(s, x) /\ Live(bindRecord'[s]) /\ ~FailsOpen(s) =>
                    /\ Settled(s, x)'
                    /\ \A r \in BindRequests :
                           Admitted(r) /\ bindReq'[r].session = s => bindReq'[r].who = x
  <1>1. ASSUME BindInv, [BindNext]_bindVars PROVE Stays
    <2> SUFFICES ASSUME NEW s \in BindSessions, NEW x \in BindIdentities,
                        Settled(s, x), Live(bindRecord'[s]), ~FailsOpen(s)
                 PROVE  Kept(s, x)
      BY DEF Kept
    <2> QED BY <1>1, SettledRequestStep, SettledOtherStep DEF BindNext
  <1>2. BindInv /\ [BindNext]_bindVars => [Stays]_bindVars
    BY <1>1
  <1> QED BY <1>2, BindAlways, PTL DEF BindSpec, SettledSessionKept

-----------------------------------------------------------------------------
(***************************************************************************)
(* The capacity.                                                           *)
(***************************************************************************)

\* The table of one instance as a set is finite.
LEMMA BindHeldFinite ==
    ASSUME NEW b
    PROVE  IsFiniteSet(Held(b)) /\ Held(b) \subseteq BindSessions
  <1>1. Held(b) \subseteq BindSessions
    BY DEF Held
  <1> QED BY <1>1, FS_Subset, BindAssumption

\* Whatever survives leaves room for the entry that is inserted.
LEMMA BindSurvivorsLeaveRoom ==
    ASSUME NEW b, NEW s \in BindSessions, Cardinality(Held(b)) <= BindMaxEntries,
           NEW keep \in Survivors(b, s)
    PROVE  /\ keep \subseteq Held(b)
           /\ IsFiniteSet(keep \cup {s})
           /\ Cardinality(keep \cup {s}) <= BindMaxEntries
  <1>1. IsFiniteSet(Held(b)) /\ Cardinality(Held(b)) \in Nat
    BY BindHeldFinite, FS_CardinalityType
  <1>2. keep \subseteq Held(b)
    <2>1. CASE Cardinality(Held(b)) < BindMaxEntries \/ s \in Held(b)
      BY <2>1 DEF Survivors
    <2>2. CASE ~(Cardinality(Held(b)) < BindMaxEntries \/ s \in Held(b))
      <3>1. keep \in SUBSET {x \in Held(b) : Live(b[x])}
        BY <2>2 DEF Survivors
      <3> QED BY <3>1
    <2> QED BY <2>1, <2>2
  <1>3. IsFiniteSet(keep) /\ Cardinality(keep) \in Nat
    BY <1>1, <1>2, FS_Subset, FS_CardinalityType
  <1>4. /\ IsFiniteSet(keep \cup {s})
        /\ Cardinality(keep \cup {s}) =
               IF s \in keep THEN Cardinality(keep) ELSE Cardinality(keep) + 1
    BY <1>3, FS_AddElement
  <1>5. Cardinality(keep \cup {s}) <= BindMaxEntries
    <2>1. CASE Cardinality(Held(b)) < BindMaxEntries \/ s \in Held(b)
      <3>1. keep = Held(b)
        BY <2>1 DEF Survivors
      <3> QED BY <1>1, <1>4, <2>1, <3>1, BindAssumption
    <2>2. CASE ~(Cardinality(Held(b)) < BindMaxEntries \/ s \in Held(b))
      <3> DEFINE live == {x \in Held(b) : Live(b[x])}
      <3>1. Cardinality(keep) = IF Cardinality(live) < BindMaxEntries
                                THEN Cardinality(live) ELSE BindMaxEntries - 1
        BY <2>2 DEF Survivors
      <3>2. IsFiniteSet(live) /\ Cardinality(live) \in Nat
        BY <1>1, FS_Subset, FS_CardinalityType
      <3> QED BY <1>3, <1>4, <3>1, <3>2, BindAssumption
    <2> QED BY <2>1, <2>2
  <1> QED BY <1>2, <1>4, <1>5

\* remember keeps the table of every instance within its capacity.
LEMMA BindRememberBounded ==
    ASSUME BindTypeOK, TableBounded, NEW i \in BindInstances, NEW s \in BindSessions,
           NEW y \in BindIdentities, remember(i, s, y)
    PROVE  TableBounded'
  <1>1. PICK keep \in Survivors(bindings[i], s) :
          bindings' = [bindings EXCEPT ![i] =
            [x \in BindSessions |-> IF x = s THEN BindingOf(y)
                                    ELSE IF x \in keep THEN bindings[i][x]
                                    ELSE Unbound]]
    BY DEF remember
  <1>2. /\ Cardinality(Held(bindings[i])) <= BindMaxEntries
        /\ bindings \in [BindInstances -> [BindSessions -> Binding]]
    BY DEF TableBounded, BindTypeOK
  <1>3. /\ keep \subseteq Held(bindings[i]) /\ IsFiniteSet(keep \cup {s})
        /\ Cardinality(keep \cup {s}) <= BindMaxEntries
    BY <1>2, BindSurvivorsLeaveRoom
  <1>4. Held(bindings'[i]) \subseteq keep \cup {s}
    BY <1>1, <1>2 DEF Held, Unbound
  <1>5. Cardinality(Held(bindings'[i])) <= BindMaxEntries
    <2>1. /\ Cardinality(Held(bindings'[i])) <= Cardinality(keep \cup {s})
          /\ Cardinality(Held(bindings'[i])) \in Nat /\ Cardinality(keep \cup {s}) \in Nat
      BY <1>3, <1>4, FS_Subset, FS_CardinalityType, BindHeldFinite
    <2> QED BY <1>3, <2>1, BindAssumption
  <1>6. \A j \in BindInstances \ {i} : bindings'[j] = bindings[j]
    BY <1>1, <1>2
  <1> QED BY <1>5, <1>6 DEF TableBounded

\* remember makes room before it inserts, and nothing else inserts.
LEMMA BindTableStep == BindInv /\ TableBounded /\ [BindNext]_bindVars => TableBounded'
  <1> SUFFICES ASSUME BindInv, TableBounded, [BindNext]_bindVars PROVE TableBounded'
    OBVIOUS
  <1>0. BindTypeOK /\ BindBusy
    BY DEF BindInv
  <1>1. ASSUME UNCHANGED bindings PROVE TableBounded'
    BY <1>1 DEF TableBounded
  <1>2. ASSUME NEW r \in BindRequests, claim_peer(r) PROVE TableBounded'
    <2>1. /\ bindReq[r].inst \in BindInstances /\ bindReq[r].session \in BindSessions
          /\ bindReq[r].peer \in BindIdentities
          /\ remember(bindReq[r].inst, bindReq[r].session, bindReq[r].peer)
      BY <1>0, <1>2 DEF claim_peer, BindBusy
    <2> QED BY <1>0, <2>1, BindRememberBounded
  <1>3. ASSUME NEW r \in BindRequests, claim_own(r) PROVE TableBounded'
    <2>1. /\ bindReq[r].inst \in BindInstances /\ bindReq[r].session \in BindSessions
          /\ bindReq[r].who \in BindIdentities
          /\ remember(bindReq[r].inst, bindReq[r].session, bindReq[r].who)
      BY <1>0, <1>3 DEF claim_own, BindBusy
    <2> QED BY <1>0, <2>1, BindRememberBounded
  <1>4. ASSUME NEW i \in BindInstances, BindCrash(i) PROVE TableBounded'
    <2>1. /\ Held(bindings'[i]) = {}
          /\ \A j \in BindInstances \ {i} : bindings'[j] = bindings[j]
      BY <1>0, <1>4 DEF BindCrash, BindTypeOK, Held, Unbound
    <2>2. Cardinality(Held(bindings'[i])) <= BindMaxEntries
      BY <2>1, FS_EmptySet, BindAssumption
    <2> QED BY <2>1, <2>2 DEF TableBounded
  <1>5. ASSUME BindTick PROVE TableBounded'
    <2>1. \A i \in BindInstances, s \in BindSessions :
              bindings'[i][s].identity = bindings[i][s].identity
      BY <1>0, <1>5, BindOlderTyped DEF BindTick, BindTypeOK
    <2>2. \A i \in BindInstances : Held(bindings'[i]) = Held(bindings[i])
      BY <2>1 DEF Held
    <2> QED BY <2>2 DEF TableBounded
  <1>6. UNCHANGED bindVars => UNCHANGED bindings
    BY DEF bindVars
  <1>7. ASSUME NEW r \in BindRequests,
               \/ \E a \in BindArrivals : authorize_as_resource_server(r, a[1], a[2], a[3])
               \/ claim_cold(r) \/ BindFinish(r)
        PROVE  UNCHANGED bindings
    BY <1>7 DEF authorize_as_resource_server, claim_cold, BindFinish
  <1>8. ASSUME NEW w \in bindWrites, claim_write(w) PROVE UNCHANGED bindings
    BY <1>8 DEF claim_write
  <1> QED BY <1>1, <1>2, <1>3, <1>4, <1>5, <1>6, <1>7, <1>8 DEF BindNext

\* The table of an instance never grows past max_entries, for any capacity and
\* any number of sessions (binding.rs remember).
THEOREM TableStaysBounded == BindSpec => []TableBounded
  <1>1. BindInit => TableBounded
    <2> SUFFICES ASSUME BindInit PROVE TableBounded
      OBVIOUS
    <2>1. \A i \in BindInstances : Held(bindings[i]) = {}
      BY DEF BindInit, Held, Unbound
    <2> QED BY <2>1, FS_EmptySet, BindAssumption DEF TableBounded
  <1> QED BY <1>1, BindAlways, BindTableStep, PTL DEF BindSpec
=============================================================================
