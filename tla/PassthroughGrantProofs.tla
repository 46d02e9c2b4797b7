----------------------- MODULE PassthroughGrantProofs -----------------------
(***************************************************************************)
(* For any users, sessions and requests, any arrivals, exchanges, expiries *)
(* and hang-ups in any order: only what was vouched for is stored or       *)
(* served, a request no other has raced is served as its own principal,    *)
(* and a bearer the store does not know only advances a grant.  What it    *)
(* takes to downgrade one is the last theorem but the types.               *)
(*                                                                         *)
(* One inductive invariant carries them.  What the store holds was         *)
(* vouched for, and so was the bearer of a request that is past its        *)
(* validation (PtVouched); what a request has read is what the store       *)
(* holds, or holds for its principal, unless it was raced (PtCurrent).     *)
(***************************************************************************)
EXTENDS PassthroughGrant, TLAPS

PtPcs == {"idle", "retire", "grant_store", "grant_index", "peek_grant", "validate", "decide",
          "get_token", "refresh", "served"}
PtTokens == [user : PtUsers, ver : Vers, genuine : BOOLEAN, rt : Vers]
\* Entries the authorization server vouched for, and none.
PtGood == [user : PtUsers, ver : Vers, genuine : {TRUE}, rt : Vers]
PtHeldEntries == PtGood \cup {NoEntry}
PtRequest ==
    [pc : PtPcs, tok : PtTokens \cup {NoEntry}, key : PtKeys \cup {NoKey}, seen : PtHeldEntries,
     found : PtHeldEntries, spent : Vers \cup {0}, raced : BOOLEAN]

\* The bearer of a request, and where it has been vouched for.
PtVouched(q) ==
    /\ q.pc \notin {"idle", "served"} => q.tok \in PtTokens /\ q.key \in PtKeys
    /\ q.pc \notin {"idle", "peek_grant", "validate"} => q.tok \in PtGood

\* What a request has read against what the store holds.
PtCurrent(q, store) ==
    /\ q.pc \in {"peek_grant", "validate", "decide"} /\ ~q.raced => store[q.key] = q.seen
    /\ q.pc \in {"validate", "decide"} =>
           \/ q.seen = NoEntry \/ SameToken(q.seen, q.tok) \/ q.found # NoEntry
           \/ q.seen.user = q.tok.user
    /\ q.pc \in {"get_token", "refresh"} /\ ~q.raced =>
           store[q.key] = NoEntry \/ store[q.key].user = q.tok.user

PtReady(q, store) == q \in PtRequest /\ PtVouched(q) /\ PtCurrent(q, store)

PtServerOK ==
    /\ ptVer \in [PtUsers -> Nat] /\ \A u \in PtUsers : ptVer[u] <= PtMaxVer[u]
    /\ ptIndex \in [PtKeys -> PtKeys \cup {NoKey}]
PtStoreOK ==
    /\ ptStore \in [PtKeys -> PtHeldEntries]
    /\ ptReq \in [PtRequests -> PtRequest]
    /\ \A r \in PtRequests : PtReady(ptReq[r], ptStore)
PtInv == PtServerOK /\ PtStoreOK


-----------------------------------------------------------------------------
(* Requests and the store.                                                 *)

\* The versions of a user are versions.
LEMMA PtVersions ==
    ASSUME NEW u \in PtUsers
    PROVE  /\ PtMaxVer[u] \in Nat \ {0} /\ 0 \in Vers /\ PtMaxVer[u] \in Vers
           /\ \A v \in Nat : v <= PtMaxVer[u] => v \in Vers
  BY PtAssumption DEF Vers

\* Versions are natural numbers.
LEMMA PtVersNat == Vers \subseteq Nat
  BY PtAssumption DEF Vers

\* A credential has a key of the store.
LEMMA PtDerivedKey ==
    ASSUME NEW u \in PtUsers, NEW v \in Vers, NEW genuine \in BOOLEAN
    PROVE  credential_session_key(u, v, genuine) \in PtKeys
  <1>1. 0 \in Vers
    BY PtVersions
  <1> QED BY <1>1 DEF credential_session_key, PtKeys

\* A request that is over is ready.
LEMMA PtIdleReady == \A store : PtReady(PtIdle, store)
  BY DEF PtReady, PtIdle, PtRequest, PtPcs, PtHeldEntries, PtVouched, PtCurrent

\* So is one that is served with what was vouched for.
LEMMA PtServedReady ==
    ASSUME NEW e \in PtGood
    PROVE  \A store : PtReady(PtServed(e), store)
  <1>1. e \in PtTokens
    BY DEF PtGood, PtTokens
  <1> QED BY <1>1 DEF PtServed, PtReady, PtIdle, PtRequest, PtPcs, PtHeldEntries, PtVouched, PtCurrent

\* One request moves and the store stays.
LEMMA PtSetStep ==
    ASSUME PtStoreOK, NEW r \in PtRequests, NEW q, PtReady(q, ptStore), PtSet(r, q),
           UNCHANGED ptStore
    PROVE  PtStoreOK'
  <1>1. q \in PtRequest
    BY DEF PtReady
  <1> QED BY <1>1 DEF PtStoreOK, PtSet

\* A position is all that changes.
LEMMA PtGotoIsSet ==
    ASSUME PtStoreOK, NEW r \in PtRequests, NEW pc, PtGoto(r, pc)
    PROVE  PtSet(r, [ptReq[r] EXCEPT !.pc = pc])
  BY DEF PtStoreOK, PtGoto, PtSet

\* An entry is written: the others that had read another one are raced.
LEMMA PtWriteStep ==
    ASSUME PtStoreOK, NEW r \in PtRequests, NEW k \in PtKeys, NEW e \in PtHeldEntries, NEW q,
           PtReady(q, [ptStore EXCEPT ![k] = e]), PtWrite(r, k, e, q)
    PROVE  PtStoreOK'
  <1>1. ptStore' = [ptStore EXCEPT ![k] = e] /\ ptStore' \in [PtKeys -> PtHeldEntries]
    BY DEF PtWrite, PtStoreOK
  <1>2. /\ ptReq' = [x \in PtRequests |->
               IF x = r THEN q
               ELSE [ptReq[x] EXCEPT !.raced = @ \/ (ptReq[x].key = k /\ ptStore[k] # e)]]
        /\ q \in PtRequest
    BY DEF PtWrite, PtReady
  <1>3. ASSUME NEW x \in PtRequests, x # r PROVE PtReady(ptReq'[x], ptStore')
    <2>1. PICK n : n = ptReq'[x]
      OBVIOUS
    <2>2. ptReq[x] \in PtRequest /\ PtVouched(ptReq[x]) /\ PtCurrent(ptReq[x], ptStore)
      BY DEF PtStoreOK, PtReady
    <2>3. n = [ptReq[x] EXCEPT !.raced = @ \/ (ptReq[x].key = k /\ ptStore[k] # e)]
      BY <1>2, <1>3, <2>1
    <2>4. /\ n \in PtRequest /\ n.pc = ptReq[x].pc /\ n.tok = ptReq[x].tok /\ n.key = ptReq[x].key
          /\ n.seen = ptReq[x].seen /\ n.found = ptReq[x].found
          /\ ~n.raced => ~ptReq[x].raced /\ (ptReq[x].key # k \/ ptStore[k] = e)
      BY <2>2, <2>3 DEF PtRequest
    <2>5. n.pc \notin {"idle", "served"} => n.key \in PtKeys
      BY <2>2, <2>4 DEF PtVouched
    <2>6. n.pc \notin {"idle", "served"} /\ ~n.raced => ptStore'[n.key] = ptStore[n.key]
      BY <1>1, <2>4, <2>5 DEF PtStoreOK
    <2>7. PtVouched(n)
      BY <2>2, <2>4 DEF PtVouched
    <2>8. PtCurrent(n, ptStore')
      BY <2>2, <2>4, <2>6 DEF PtCurrent
    <2> QED BY <2>1, <2>4, <2>7, <2>8 DEF PtReady
  <1>4. ptReq' \in [PtRequests -> PtRequest]
    BY <1>2, <1>3 DEF PtReady
  <1>5. ptReq'[r] = q
    BY <1>2
  <1> QED BY <1>1, <1>3, <1>4, <1>5 DEF PtStoreOK

-----------------------------------------------------------------------------
(* One lemma per handler.                                                  *)

\* An exchange at the token endpoint.
LEMMA PtExchangeInv ==
    ASSUME PtInv, NEW r \in PtRequests, NEW u \in PtUsers, NEW spent \in Vers,
           passthrough_token_handler(r, u, spent)
    PROVE  PtInv'
  <1>1. PICK v \in Nat : v = ptVer[u] + 1
    BY DEF PtInv, PtServerOK
  <1>2. ptVer[u] < PtMaxVer[u] /\ ptVer' = [ptVer EXCEPT ![u] = v]
    BY <1>1 DEF passthrough_token_handler, PtGrant
  <1>3. v <= PtMaxVer[u] /\ v \in Vers
    BY <1>1, <1>2, PtVersions DEF PtInv, PtServerOK
  <1>4. PtServerOK'
    BY <1>2, <1>3 DEF PtInv, PtServerOK, passthrough_token_handler
  <1> DEFINE key == credential_session_key(u, v, TRUE)
             q == [PtIdle EXCEPT !.pc = IF spent = 0 THEN "grant_store" ELSE "retire",
                       !.tok = Entry(u, v, TRUE, v), !.spent = spent, !.key = key]
  <1>5. key \in PtKeys
    BY <1>3, PtDerivedKey
  <1>6. PtSet(r, q) /\ UNCHANGED ptStore
    BY <1>1 DEF passthrough_token_handler
  <1>7. Entry(u, v, TRUE, v) \in PtGood /\ Entry(u, v, TRUE, v) \in PtTokens
    BY <1>3 DEF Entry, PtGood, PtTokens
  <1> HIDE DEF key
  <1>8. PtReady(q, ptStore)
    <2>1. q \in PtRequest /\ q.pc \in {"grant_store", "retire"} /\ q.tok = Entry(u, v, TRUE, v)
          /\ q.key = key
      BY <1>5, <1>7 DEF PtRequest, PtIdle, PtPcs, PtHeldEntries
    <2> HIDE DEF q
    <2> QED BY <1>5, <1>7, <2>1 DEF PtReady, PtVouched, PtCurrent
  <1> HIDE DEF q
  <1> QED BY <1>4, <1>6, <1>8, PtSetStep DEF PtInv

\* The superseded grant is retired.
LEMMA PtRetireInv ==
    ASSUME PtInv, NEW r \in PtRequests, retire_grant(r)
    PROVE  PtInv'
  <1> DEFINE q == [ptReq[r] EXCEPT !.pc = "grant_store"]
  <1>1. ptReq[r].pc = "retire" /\ PtReady(ptReq[r], ptStore)
    BY DEF retire_grant, PtInv, PtStoreOK
  <1>2. /\ ptReq[r] \in PtRequest /\ ptReq[r].tok \in PtGood /\ ptReq[r].tok \in PtTokens
        /\ ptReq[r].key \in PtKeys
    BY <1>1 DEF PtReady, PtVouched
  <1>3. q \in PtRequest /\ q.pc = "grant_store" /\ q.tok = ptReq[r].tok /\ q.key = ptReq[r].key
    BY <1>2 DEF PtRequest, PtPcs
  <1>4. \A store : PtReady(q, store)
    <2> HIDE DEF q
    <2> QED BY <1>2, <1>3 DEF PtReady, PtVouched, PtCurrent
  <1>5. PICK k \in PtKeys \cup {NoKey} : k = resolve_grant_refresh(ptReq[r].tok.user, ptReq[r].spent)
    <2>1. ptReq[r].tok.user \in PtUsers /\ ptReq[r].spent \in Vers
      BY <1>2, PtVersions DEF PtGood, PtRequest
    <2> QED BY <2>1, PtDerivedKey DEF resolve_grant_refresh, PtInv, PtServerOK
  <1>6. PtServerOK'
    <2>1. UNCHANGED ptVer /\ remove_grant_refresh(ptReq[r].tok.user, ptReq[r].spent)
      BY DEF retire_grant, ptServer
    <2> QED BY <2>1 DEF PtInv, PtServerOK, remove_grant_refresh
  <1>7. \/ k \in PtKeys /\ PtWrite(r, k, NoEntry, q)
        \/ PtGoto(r, "grant_store") /\ UNCHANGED ptStore
    BY <1>5 DEF retire_grant
  <1>8. NoEntry \in PtHeldEntries
    BY DEF PtHeldEntries
  <1>9. PtGoto(r, "grant_store") => PtSet(r, q)
    BY PtGotoIsSet DEF PtInv
  <1> HIDE DEF q
  <1> QED BY <1>4, <1>6, <1>7, <1>8, <1>9, PtSetStep, PtWriteStep DEF PtInv

\* The grant is stored, and its refresh token indexed.
LEMMA PtGrantInv ==
    ASSUME PtInv, NEW r \in PtRequests, grant_store(r) \/ index_grant_refresh(r)
    PROVE  PtInv'
  <1>1. PtReady(ptReq[r], ptStore)
    BY DEF PtInv, PtStoreOK
  <1>2. /\ ptReq[r] \in PtRequest /\ ptReq[r].tok \in PtGood /\ ptReq[r].tok \in PtTokens
        /\ ptReq[r].key \in PtKeys
    BY <1>1 DEF PtReady, PtVouched, grant_store, index_grant_refresh
  <1>3. CASE grant_store(r)
    <2> DEFINE q == [ptReq[r] EXCEPT !.pc = "grant_index"]
    <2>1. q \in PtRequest /\ q.pc = "grant_index" /\ q.tok = ptReq[r].tok /\ q.key = ptReq[r].key
      BY <1>2 DEF PtRequest, PtPcs
    <2>2. PtWrite(r, ptReq[r].key, ptReq[r].tok, q) /\ UNCHANGED <<ptVer, ptIndex>>
      BY <1>3 DEF grant_store, ptServer
    <2> HIDE DEF q
    <2>3. \A store : PtReady(q, store)
      BY <1>2, <2>1 DEF PtReady, PtVouched, PtCurrent
    <2>4. ptReq[r].tok \in PtHeldEntries
      BY <1>2 DEF PtHeldEntries
    <2>5. PtServerOK'
      BY <2>2 DEF PtInv, PtServerOK
    <2> QED BY <1>2, <2>2, <2>3, <2>4, <2>5, PtWriteStep DEF PtInv
  <1>4. CASE index_grant_refresh(r)
    <2>1. PtServerOK'
      BY <1>2, <1>4 DEF PtInv, PtServerOK, index_grant_refresh, ptServer
    <2> QED BY <1>4, <2>1, PtIdleReady, PtSetStep DEF PtInv, index_grant_refresh
  <1> QED BY <1>3, <1>4

\* A bearer arrives: what it has read is what the store holds.
LEMMA PtArrivalInv ==
    ASSUME PtInv, NEW r \in PtRequests, NEW u \in PtUsers, NEW v \in Vers \ {0},
           NEW genuine \in BOOLEAN, NEW session \in PtSessions \cup {"none"},
           peek_session(r, u, v, genuine, session)
    PROVE  PtInv'
  <1>1. PICK key \in PtKeys : key = resolve_or_derive_session_id(u, v, genuine, session)
    BY PtDerivedKey DEF resolve_or_derive_session_id, PtKeys
  <1> DEFINE q == [PtIdle EXCEPT !.pc = "peek_grant", !.tok = Entry(u, v, genuine, 0),
                                 !.key = key, !.seen = ptStore[key]]
  <1>2. Entry(u, v, genuine, 0) \in PtTokens
    BY PtVersions DEF Entry, PtTokens
  <1>3. ptStore[key] \in PtHeldEntries
    BY DEF PtInv, PtStoreOK
  <1>4. PtSet(r, q) /\ UNCHANGED <<ptStore, ptVer, ptIndex>>
    BY <1>1 DEF peek_session, ptServer
  <1>5. q \in PtRequest /\ q.pc = "peek_grant" /\ q.tok = Entry(u, v, genuine, 0) /\ q.key = key
        /\ q.seen = ptStore[key]
    BY <1>2, <1>3 DEF PtRequest, PtIdle, PtPcs, PtHeldEntries
  <1> HIDE DEF q
  <1>6. PtReady(q, ptStore)
    BY <1>2, <1>5 DEF PtReady, PtVouched, PtCurrent
  <1>7. PtServerOK'
    BY <1>4 DEF PtInv, PtServerOK
  <1> QED BY <1>4, <1>6, <1>7, PtSetStep DEF PtInv


\* The bearer is known, or has to be validated and is of the session's principal.
LEMMA PtPeekInv ==
    ASSUME PtInv, NEW r \in PtRequests, peek_grant(r)
    PROVE  PtInv'
  <1>1. ptReq[r].pc = "peek_grant" /\ PtReady(ptReq[r], ptStore) /\ UNCHANGED <<ptStore, ptVer, ptIndex>>
    BY DEF peek_grant, PtInv, PtStoreOK, ptServer
  <1>2. /\ ptReq[r] \in PtRequest /\ ptReq[r].tok \in PtTokens /\ ptReq[r].key \in PtKeys
        /\ ptReq[r].seen \in PtHeldEntries /\ PtCurrent(ptReq[r], ptStore)
    BY <1>1 DEF PtReady, PtVouched, PtRequest
  <1>3. PtServerOK'
    BY <1>1 DEF PtInv, PtServerOK
  <1>4. PICK key \in PtKeys :
            key = credential_session_key(ptReq[r].tok.user, ptReq[r].tok.ver, ptReq[r].tok.genuine)
    BY <1>2, PtDerivedKey DEF PtTokens
  <1>5. PICK grant : grant = IF /\ ~SameToken(ptReq[r].seen, ptReq[r].tok) /\ key # ptReq[r].key
                                /\ SameToken(ptStore[key], ptReq[r].tok)
                             THEN ptStore[key] ELSE NoEntry
    OBVIOUS
  <1>6. PICK found : found = IF SameToken(ptReq[r].seen, ptReq[r].tok) THEN ptReq[r].seen ELSE grant
    OBVIOUS
  <1> DEFINE q == [ptReq[r] EXCEPT !.found = found,
                                   !.pc = IF found # NoEntry THEN "decide" ELSE "validate"]
  <1>7. \/ PtRefuse(r)
        \/ principal_ok(ptReq[r], grant) /\ PtSet(r, q)
    BY <1>4, <1>5, <1>6 DEF peek_grant
  <1>8. /\ found \in PtHeldEntries
        /\ found # NoEntry => SameToken(found, ptReq[r].tok)
        /\ grant # NoEntry => found # NoEntry
    <2>1. ptStore[key] \in PtHeldEntries
      BY DEF PtInv, PtStoreOK
    <2>2. NoEntry \in PtHeldEntries
      BY DEF PtHeldEntries
    <2> QED BY <1>2, <1>5, <1>6, <2>1, <2>2
  <1>9. /\ q \in PtRequest /\ q.tok = ptReq[r].tok /\ q.key = ptReq[r].key /\ q.found = found
        /\ q.seen = ptReq[r].seen /\ q.raced = ptReq[r].raced
        /\ q.pc = IF found # NoEntry THEN "decide" ELSE "validate"
    BY <1>2, <1>8 DEF PtRequest, PtPcs
  <1> HIDE DEF q
  <1>10. found # NoEntry => ptReq[r].tok \in PtGood
    BY <1>2, <1>8 DEF PtHeldEntries, PtGood, PtTokens, SameToken
  <1>11. ASSUME principal_ok(ptReq[r], grant) PROVE PtReady(q, ptStore)
    <2>1. PtVouched(q)
      BY <1>2, <1>9, <1>10 DEF PtVouched
    <2>2. \/ q.seen = NoEntry \/ SameToken(q.seen, q.tok) \/ q.found # NoEntry
          \/ q.seen.user = q.tok.user
      BY <1>8, <1>9, <1>11 DEF principal_ok, same_principal
    <2>3. PtCurrent(q, ptStore)
      BY <1>1, <1>2, <1>9, <2>2 DEF PtCurrent
    <2> QED BY <1>9, <2>1, <2>3 DEF PtReady
  <1> QED BY <1>1, <1>3, <1>7, <1>11, PtIdleReady, PtSetStep DEF PtInv, PtRefuse

\* Validation lets only the genuine pass.
LEMMA PtValidateInv ==
    ASSUME PtInv, NEW r \in PtRequests, validate_bearer(r)
    PROVE  PtInv'
  <1> DEFINE q == [ptReq[r] EXCEPT !.pc = "decide"]
  <1>1. /\ ptReq[r].pc = "validate" /\ PtReady(ptReq[r], ptStore)
        /\ UNCHANGED <<ptStore, ptVer, ptIndex>>
        /\ (ptReq[r].tok.genuine /\ PtGoto(r, "decide")) \/ PtRefuse(r)
    BY DEF validate_bearer, PtInv, PtStoreOK, ptServer
  <1>2. /\ ptReq[r] \in PtRequest /\ ptReq[r].tok \in PtTokens /\ ptReq[r].key \in PtKeys
        /\ PtCurrent(ptReq[r], ptStore)
    BY <1>1 DEF PtReady, PtVouched
  <1>3. PtServerOK'
    BY <1>1 DEF PtInv, PtServerOK
  <1>4. /\ q \in PtRequest /\ q.tok = ptReq[r].tok /\ q.key = ptReq[r].key
        /\ q.found = ptReq[r].found /\ q.seen = ptReq[r].seen /\ q.raced = ptReq[r].raced
        /\ q.pc = "decide"
    BY <1>2 DEF PtRequest, PtPcs
  <1>5. PtGoto(r, "decide") => PtSet(r, q)
    BY PtGotoIsSet DEF PtInv
  <1> HIDE DEF q
  <1>6. ptReq[r].tok.genuine => ptReq[r].tok \in PtGood
    BY <1>2 DEF PtTokens, PtGood
  <1>7. ptReq[r].tok.genuine => PtReady(q, ptStore)
    BY <1>1, <1>2, <1>4, <1>6 DEF PtReady, PtVouched, PtCurrent
  <1> QED BY <1>1, <1>3, <1>5, <1>7, PtIdleReady, PtSetStep DEF PtInv, PtRefuse

\* What is to replace the entry is the bearer, or there is nothing to replace; over an
\* entry with refresh material an unknown bearer keeps it and is newer.
LEMMA PtReplacement ==
    ASSUME NEW q \in PtRequest, q.tok \in PtGood
    PROVE  /\ replacement(q) \in PtHeldEntries
           /\ replacement(q) # NoEntry => replacement(q).user = q.tok.user
           /\ replacement(q) = NoEntry => q.found = NoEntry /\ q.seen.rt # 0
           /\ q.found = NoEntry /\ q.seen.rt # 0 /\ replacement(q) # NoEntry =>
                  replacement(q).rt = q.seen.rt /\ replacement(q).ver > q.seen.ver
  <1>1. \A rt \in Vers : /\ Entry(q.tok.user, q.tok.ver, q.tok.genuine, rt) \in PtGood
                         /\ Entry(q.tok.user, q.tok.ver, q.tok.genuine, rt).user = q.tok.user
                         /\ Entry(q.tok.user, q.tok.ver, q.tok.genuine, rt).ver = q.tok.ver
                         /\ Entry(q.tok.user, q.tok.ver, q.tok.genuine, rt).rt = rt
    BY DEF Entry, PtGood
  <1>2. NoEntry \notin PtGood /\ NoEntry.rt = 0
    BY DEF NoEntry, PtGood
  <1>3. 0 \in Vers
    <2>1. q.tok.user \in PtUsers
      BY DEF PtGood
    <2> QED BY <2>1, PtVersions
  <1>4. /\ q.found # NoEntry => q.found.rt \in Vers
        /\ q.seen.rt # 0 => q.seen.rt \in Vers
    BY <1>2 DEF PtRequest, PtHeldEntries, PtGood
  <1>5. CASE q.found # NoEntry
    <2>1. replacement(q) = Entry(q.tok.user, q.tok.ver, q.tok.genuine, q.found.rt)
      BY <1>5 DEF replacement
    <2> QED BY <1>1, <1>2, <1>4, <1>5, <2>1 DEF PtHeldEntries
  <1>6. CASE q.found = NoEntry /\ q.seen.rt # 0
    <2>1. \/ /\ replacement(q) = Entry(q.tok.user, q.tok.ver, q.tok.genuine, q.seen.rt)
             /\ q.tok.ver > q.seen.ver
          \/ replacement(q) = NoEntry
      BY <1>6 DEF replacement, jwt_is_strictly_newer
    <2> QED BY <1>1, <1>2, <1>4, <1>6, <2>1 DEF PtHeldEntries
  <1>7. CASE q.found = NoEntry /\ q.seen.rt = 0
    <2>1. replacement(q) = Entry(q.tok.user, q.tok.ver, q.tok.genuine, 0)
      BY <1>7 DEF replacement
    <2> QED BY <1>1, <1>2, <1>3, <1>7, <2>1 DEF PtHeldEntries
  <1> QED BY <1>5, <1>6, <1>7

\* What deciding amounts to: a refusal, a write of the bearer, or no write because the
\* entry is of the bearer's principal already.
PtDecided(r, q, next) ==
    \/ PtSet(r, PtIdle) /\ UNCHANGED ptStore
    \/ /\ replacement(q) # NoEntry /\ PtWrite(r, q.key, replacement(q), next)
    \/ /\ SameToken(q.seen, q.tok) \/ replacement(q) = NoEntry
       /\ PtSet(r, next) /\ UNCHANGED ptStore

\* A request decides.
LEMMA PtDecides ==
    ASSUME PtInv, NEW r \in PtRequests, decide(r)
    PROVE  /\ ptReq[r].pc = "decide" /\ PtReady(ptReq[r], ptStore) /\ ptReq[r].tok \in PtGood
           /\ ptReq[r].key \in PtKeys /\ UNCHANGED <<ptVer, ptIndex>>
           /\ \E next \in PtRequest :
                  /\ PtDecided(r, ptReq[r], next)
                  /\ \/ next = PtServed(ptReq[r].tok)
                     \/ /\ next.pc = "get_token" /\ next.tok = ptReq[r].tok
                        /\ next.key = ptReq[r].key /\ next.raced = ptReq[r].raced
  <1>1. /\ ptReq[r].pc = "decide" /\ PtReady(ptReq[r], ptStore) /\ UNCHANGED <<ptVer, ptIndex>>
    BY DEF decide, PtInv, PtStoreOK, ptServer
  <1>2. ptReq[r] \in PtRequest /\ ptReq[r].tok \in PtGood /\ ptReq[r].key \in PtKeys
    BY <1>1 DEF PtReady, PtVouched
  <1> DEFINE go == [ptReq[r] EXCEPT !.pc = "get_token", !.seen = NoEntry, !.found = NoEntry]
             next == IF is_expired(ptReq[r].tok) THEN go ELSE PtServed(ptReq[r].tok)
  <1>3. go \in PtRequest /\ go.pc = "get_token" /\ go.tok = ptReq[r].tok
        /\ go.key = ptReq[r].key /\ go.raced = ptReq[r].raced
    BY <1>2 DEF PtRequest, PtPcs, PtHeldEntries
  <1>4. PtServed(ptReq[r].tok) \in PtRequest
    BY <1>2, PtServedReady DEF PtReady
  <1>5. PtDecided(r, ptReq[r], next)
    BY DEF decide, PtDecided, PtRefuse
  <1> HIDE DEF go
  <1> QED BY <1>1, <1>2, <1>3, <1>4, <1>5

\* Deciding keeps the invariant: whoever goes on to get_token finds its own principal.
LEMMA PtDecideInv ==
    ASSUME PtInv, NEW r \in PtRequests, decide(r)
    PROVE  PtInv'
  <1>1. PICK q : q = ptReq[r]
    OBVIOUS
  <1>2. /\ q.pc = "decide" /\ PtReady(q, ptStore) /\ q.tok \in PtGood /\ q.key \in PtKeys
        /\ UNCHANGED <<ptVer, ptIndex>>
    BY <1>1, PtDecides
  <1>3. PICK next \in PtRequest :
            /\ PtDecided(r, q, next)
            /\ \/ next = PtServed(q.tok)
               \/ next.pc = "get_token" /\ next.tok = q.tok /\ next.key = q.key /\ next.raced = q.raced
    BY <1>1, PtDecides
  <1>4. PICK new : new = replacement(q)
    OBVIOUS
  <1>5. /\ q \in PtRequest /\ PtCurrent(q, ptStore) /\ new \in PtHeldEntries
        /\ new # NoEntry => new.user = q.tok.user
        /\ new = NoEntry => q.found = NoEntry /\ q.seen.rt # 0
    BY <1>2, <1>4, PtReplacement DEF PtReady
  <1>6. PtServerOK'
    BY <1>2 DEF PtInv, PtServerOK
  <1>7. \A store : next = PtServed(q.tok) => PtReady(next, store)
    BY <1>2, PtServedReady
  <1>8. ASSUME NEW store, next.pc = "get_token", ~q.raced =>
                   store[q.key] = NoEntry \/ store[q.key].user = q.tok.user
        PROVE  PtReady(next, store)
    <2>1. next # PtServed(q.tok)
      BY <1>8 DEF PtServed, PtIdle
    <2>2. next.tok = q.tok /\ next.key = q.key /\ next.raced = q.raced /\ q.tok \in PtTokens
      BY <1>2, <1>3, <2>1 DEF PtGood, PtTokens
    <2> QED BY <1>2, <1>8, <2>2 DEF PtReady, PtVouched, PtCurrent
  <1>9. CASE new # NoEntry /\ PtWrite(r, q.key, new, next)
    <2> DEFINE store == [ptStore EXCEPT ![q.key] = new]
    <2>1. store[q.key] = new
      BY <1>2 DEF PtInv, PtStoreOK
    <2> HIDE DEF store
    <2>2. PtReady(next, store)
      BY <1>3, <1>5, <1>7, <1>8, <1>9, <2>1
    <2> QED BY <1>2, <1>5, <1>6, <1>9, <2>2, PtWriteStep DEF PtInv, store
  <1>10. CASE (SameToken(q.seen, q.tok) \/ new = NoEntry) /\ PtSet(r, next) /\ UNCHANGED ptStore
    <2>1. new = NoEntry => q.seen # NoEntry
      BY <1>5 DEF NoEntry
    <2>2. SameToken(q.seen, q.tok) => q.seen.user = q.tok.user
      BY DEF SameToken
    <2>3. ~q.raced => ptStore[q.key] = NoEntry \/ ptStore[q.key].user = q.tok.user
      BY <1>2, <1>5, <1>10, <2>1, <2>2 DEF PtCurrent
    <2>4. PtReady(next, ptStore)
      BY <1>3, <1>7, <1>8, <2>3
    <2> QED BY <1>6, <1>10, <2>4, PtSetStep DEF PtInv
  <1>11. CASE PtSet(r, PtIdle) /\ UNCHANGED ptStore
    BY <1>6, <1>11, PtIdleReady, PtSetStep DEF PtInv
  <1> QED BY <1>3, <1>4, <1>9, <1>10, <1>11 DEF PtDecided

\* The store answers with what it holds, or refreshes that.
LEMMA PtGetTokenInv ==
    ASSUME PtInv, NEW r \in PtRequests, get_token(r)
    PROVE  PtInv'
  <1>1. ptReq[r].pc = "get_token" /\ PtReady(ptReq[r], ptStore) /\ UNCHANGED <<ptStore, ptIndex>>
    BY DEF get_token, PtInv, PtStoreOK
  <1>2. /\ ptReq[r] \in PtRequest /\ ptReq[r].key \in PtKeys /\ PtCurrent(ptReq[r], ptStore)
    BY <1>1 DEF PtReady, PtVouched
  <1>3. PICK e \in PtHeldEntries : e = ptStore[ptReq[r].key]
    BY <1>2 DEF PtInv, PtStoreOK
  <1>4. CASE /\ e # NoEntry /\ PtSet(r, PtServed(e)) /\ UNCHANGED ptVer
    <2>1. e \in PtGood /\ PtServerOK'
      BY <1>1, <1>4 DEF PtHeldEntries, PtInv, PtServerOK
    <2> QED BY <1>1, <1>4, <2>1, PtServedReady, PtSetStep DEF PtInv
  <1>5. CASE PtRefuse(r) /\ UNCHANGED ptVer
    <2>1. PtServerOK'
      BY <1>1, <1>5 DEF PtInv, PtServerOK
    <2> QED BY <1>1, <1>5, <2>1, PtIdleReady, PtSetStep DEF PtInv, PtRefuse
  <1> DEFINE v == ptVer[e.user] + 1
             q == [ptReq[r] EXCEPT !.pc = "refresh", !.tok = Entry(e.user, v, TRUE, v)]
  <1>6. CASE e # NoEntry /\ PtGrant(e.user) /\ PtSet(r, q)
    <2>1. e.user \in PtUsers
      BY <1>6 DEF PtHeldEntries, PtGood
    <2>2. v \in Nat /\ v <= PtMaxVer[e.user] /\ v \in Vers /\ ptVer' = [ptVer EXCEPT ![e.user] = v]
      BY <1>6, <2>1, PtVersions DEF PtGrant, PtInv, PtServerOK
    <2> HIDE DEF v
    <2>3. PtServerOK'
      BY <1>1, <2>1, <2>2 DEF PtInv, PtServerOK
    <2>4. /\ Entry(e.user, v, TRUE, v) \in PtGood /\ Entry(e.user, v, TRUE, v) \in PtTokens
          /\ Entry(e.user, v, TRUE, v).user = e.user
      BY <2>1, <2>2 DEF Entry, PtGood, PtTokens
    <2>5. /\ q \in PtRequest /\ q.pc = "refresh" /\ q.tok = Entry(e.user, v, TRUE, v)
          /\ q.key = ptReq[r].key
      BY <1>2, <2>4 DEF PtRequest, PtPcs
    <2> HIDE DEF q
    <2>6. PtReady(q, ptStore)
      BY <1>2, <1>3, <2>4, <2>5 DEF PtReady, PtVouched, PtCurrent
    <2> QED BY <1>1, <1>6, <2>3, <2>6, PtSetStep DEF PtInv
  <1> QED BY <1>3, <1>4, <1>5, <1>6 DEF get_token

\* What was refreshed is stored and served.
LEMMA PtRefreshInv ==
    ASSUME PtInv, NEW r \in PtRequests, refresh_store(r)
    PROVE  PtInv'
  <1>1. /\ PtReady(ptReq[r], ptStore) /\ UNCHANGED <<ptVer, ptIndex>> /\ ptReq[r].pc = "refresh"
        /\ PtWrite(r, ptReq[r].key, ptReq[r].tok, PtServed(ptReq[r].tok))
    BY DEF refresh_store, PtInv, PtStoreOK, ptServer
  <1>2. ptReq[r].key \in PtKeys /\ ptReq[r].tok \in PtGood /\ ptReq[r].tok \in PtHeldEntries
    BY <1>1 DEF PtReady, PtVouched, PtHeldEntries
  <1>3. PtServerOK'
    BY <1>1 DEF PtInv, PtServerOK
  <1> QED BY <1>1, <1>2, <1>3, PtServedReady, PtWriteStep DEF PtInv

\* A request ends; the authorization server issues tokens and they expire.
LEMMA PtOtherInv ==
    ASSUME PtInv,
           (\E r \in PtRequests : PtFinish(r)) \/ (\E u \in PtUsers : PtIssue(u) \/ PtExpire(u))
    PROVE  PtInv'
  <1>1. ASSUME NEW r \in PtRequests, PtFinish(r) PROVE PtInv'
    <2>1. PtServerOK'
      BY <1>1 DEF PtInv, PtServerOK, PtFinish, ptServer
    <2> QED BY <1>1, <2>1, PtIdleReady, PtSetStep DEF PtInv, PtFinish
  <1>2. ASSUME NEW u \in PtUsers, PtIssue(u) \/ PtExpire(u) PROVE PtInv'
    <2>1. PtServerOK'
      BY <1>2, PtVersions DEF PtInv, PtServerOK, PtIssue, PtExpire
    <2>2. PtStoreOK'
      BY <1>2 DEF PtInv, PtStoreOK, PtIssue, PtExpire
    <2> QED BY <2>1, <2>2 DEF PtInv
  <1> QED BY <1>1, <1>2

-----------------------------------------------------------------------------
(* The theorems.                                                           *)

\* PtInv is inductive.
LEMMA PtNextInv ==
    ASSUME PtInv, [PtNext]_ptVars
    PROVE  PtInv'
  <1>1. CASE UNCHANGED ptVars
    BY <1>1 DEF PtInv, PtServerOK, PtStoreOK, ptVars
  <1>2. ASSUME NEW r \in PtRequests,
               \/ \E u \in PtUsers, spent \in Vers : passthrough_token_handler(r, u, spent)
               \/ \E u \in PtUsers, v \in Vers \ {0}, g \in BOOLEAN,
                     session \in PtSessions \cup {"none"} : peek_session(r, u, v, g, session)
        PROVE  PtInv'
    BY <1>2, PtExchangeInv, PtArrivalInv
  <1>3. ASSUME NEW r \in PtRequests,
               \/ retire_grant(r) \/ grant_store(r) \/ index_grant_refresh(r)
               \/ peek_grant(r) \/ validate_bearer(r) \/ decide(r)
               \/ get_token(r) \/ refresh_store(r)
        PROVE  PtInv'
    BY <1>3, PtRetireInv, PtGrantInv, PtPeekInv, PtValidateInv, PtDecideInv, PtGetTokenInv,
       PtRefreshInv
  <1> QED BY <1>1, <1>2, <1>3, PtOtherInv DEF PtNext

\* PtInv holds in every reachable state.
LEMMA PtAlways == PtSpec => []PtInv
  <1>1. PtInit => PtInv
    <2> SUFFICES ASSUME PtInit PROVE PtInv
      OBVIOUS
    <2>1. PtServerOK
      BY PtAssumption DEF PtInit, PtServerOK
    <2>2. PtStoreOK
      BY PtIdleReady DEF PtInit, PtStoreOK, PtHeldEntries, PtReady
    <2> QED BY <2>1, <2>2 DEF PtInv
  <1> QED BY <1>1, PtNextInv, PTL DEF PtSpec

\* Theorem: in every reachable state the store holds, and a handler is given, only what
\* was vouched for (middleware.rs validate_unknown_bearer before any write), for any
\* users, sessions and requests and however their steps interleave.
THEOREM StoredIsVouched == PtSpec => []OnlyVouched
  <1>1. PtInv => OnlyVouched
    BY DEF PtInv, PtStoreOK, PtReady, PtVouched, PtHeldEntries, PtGood, OnlyVouched
  <1> QED BY <1>1, PtAlways, PTL


\* A step of one request leaves the position of the others, their bearer and what they
\* have read alone.
LEMMA PtOthersKeep ==
    ASSUME PtStoreOK, NEW x \in PtRequests, NEW r \in PtRequests \ {x},
           \/ \E q : PtSet(x, q)
           \/ \E pc : PtGoto(x, pc)
           \/ \E k, e, q : PtWrite(x, k, e, q)
    PROVE  /\ ptReq'[r].pc = ptReq[r].pc /\ ptReq'[r].tok = ptReq[r].tok
           /\ ptReq'[r].key = ptReq[r].key
           /\ ptReq'[r].seen = ptReq[r].seen /\ ptReq'[r].found = ptReq[r].found
  <1>1. ptReq \in [PtRequests -> PtRequest] /\ ptReq[r] \in PtRequest
    BY DEF PtStoreOK
  <1>2. ASSUME NEW k, NEW e, NEW q, PtWrite(x, k, e, q)
        PROVE  /\ ptReq'[r].pc = ptReq[r].pc /\ ptReq'[r].tok = ptReq[r].tok
               /\ ptReq'[r].key = ptReq[r].key
               /\ ptReq'[r].seen = ptReq[r].seen /\ ptReq'[r].found = ptReq[r].found
    <2>1. ptReq'[r] = [ptReq[r] EXCEPT !.raced = @ \/ (ptReq[r].key = k /\ ptStore[k] # e)]
      BY <1>2 DEF PtWrite
    <2> QED BY <1>1, <2>1 DEF PtRequest
  <1> QED BY <1>1, <1>2 DEF PtSet, PtGoto

\* A request that has decided to go on moves by its own steps only.
LEMMA PtMover ==
    ASSUME PtInv, [PtNext]_ptVars, NEW r \in PtRequests,
           ptReq[r].pc \in {"decide", "get_token", "refresh"}
    PROVE  \/ ptReq'[r].pc = ptReq[r].pc /\ ptReq'[r].tok = ptReq[r].tok
           \/ decide(r) \/ get_token(r) \/ refresh_store(r) \/ PtFinish(r)
  <1> DEFINE Stays == ptReq'[r].pc = ptReq[r].pc /\ ptReq'[r].tok = ptReq[r].tok
  <1>1. CASE UNCHANGED ptReq
    BY <1>1
  <1>2. ASSUME NEW x \in PtRequests,
               \/ \E u \in PtUsers, spent \in Vers : passthrough_token_handler(x, u, spent)
               \/ \E u \in PtUsers, v \in Vers \ {0}, g \in BOOLEAN,
                     session \in PtSessions \cup {"none"} : peek_session(x, u, v, g, session)
               \/ index_grant_refresh(x) \/ peek_grant(x)
        PROVE  Stays
    <2>1. x # r /\ \E q : PtSet(x, q)
      BY <1>2 DEF passthrough_token_handler, peek_session, index_grant_refresh, peek_grant, PtRefuse
    <2> QED BY <2>1, PtOthersKeep DEF PtInv
  <1>3. ASSUME NEW x \in PtRequests, retire_grant(x) \/ grant_store(x) \/ validate_bearer(x)
        PROVE  Stays
    <2>1. x # r /\ \/ \E q : PtSet(x, q)
                   \/ \E pc : PtGoto(x, pc)
                   \/ \E k, e, q : PtWrite(x, k, e, q)
      BY <1>3 DEF retire_grant, grant_store, validate_bearer, PtRefuse
    <2> QED BY <2>1, PtOthersKeep DEF PtInv
  <1>4. ASSUME NEW x \in PtRequests \ {r},
               decide(x) \/ get_token(x) \/ refresh_store(x) \/ PtFinish(x)
        PROVE  Stays
    <2>1. (\E q : PtSet(x, q)) \/ (\E k, e, q : PtWrite(x, k, e, q))
      BY <1>4 DEF decide, get_token, refresh_store, PtFinish, PtRefuse
    <2> QED BY <2>1, PtOthersKeep DEF PtInv
  <1>5. (\E u \in PtUsers : PtIssue(u) \/ PtExpire(u)) \/ UNCHANGED ptVars => UNCHANGED ptReq
    BY DEF PtIssue, PtExpire, ptVars
  <1> QED BY <1>1, <1>2, <1>3, <1>4, <1>5 DEF PtNext

\* Theorem: a step that serves a request, or refreshes for it, does so with a token of
\* the request's own principal unless another request wrote its session since it read it
\* (middleware.rs principal check, store.rs get_token).
THEOREM ServedAsSelf == PtSpec => UnracedServedAsSelf
  <1>1. ASSUME PtInv, [PtNext]_ptVars, NEW r \in PtRequests,
               ptReq[r].pc \in {"decide", "get_token", "refresh"},
               ptReq'[r].pc \in {"served", "refresh"}, ~ptReq[r].raced
        PROVE  ptReq'[r].tok.user = ptReq[r].tok.user
    <2>0. /\ ptReq \in [PtRequests -> PtRequest] /\ ptReq[r] \in PtRequest
          /\ PtReady(ptReq[r], ptStore)
      BY <1>1 DEF PtInv, PtStoreOK
    <2>1. \A e : PtServed(e).tok = e /\ PtIdle.pc = "idle"
      BY DEF PtServed, PtIdle
    <2>2. CASE decide(r)
      <3>1. PICK next \in PtRequest :
                /\ PtDecided(r, ptReq[r], next)
                /\ next = PtServed(ptReq[r].tok) \/ next.tok = ptReq[r].tok
        BY <1>1, <2>2, PtDecides
      <3>2. ptReq'[r] = PtIdle \/ ptReq'[r] = next
        BY <2>0, <3>1 DEF PtDecided, PtSet, PtWrite
      <3> QED BY <1>1, <2>1, <3>1, <3>2
    <2>3. CASE get_token(r)
      <3>1. PICK e : e = ptStore[ptReq[r].key]
        OBVIOUS
      <3>2. e = NoEntry \/ e.user = ptReq[r].tok.user
        BY <1>1, <2>0, <2>3, <3>1 DEF PtReady, PtCurrent, get_token
      <3>3. PICK v : v = ptVer[e.user] + 1
        OBVIOUS
      <3> DEFINE q == [ptReq[r] EXCEPT !.pc = "refresh", !.tok = Entry(e.user, v, TRUE, v)]
      <3>4. \/ PtSet(r, PtIdle)
            \/ e # NoEntry /\ (PtSet(r, PtServed(e)) \/ PtSet(r, q))
        BY <2>3, <3>1, <3>3 DEF get_token, PtRefuse
      <3>5. q.tok.user = e.user
        BY <2>0 DEF PtRequest, Entry
      <3> HIDE DEF q
      <3>6. \/ ptReq'[r] = PtIdle
            \/ e # NoEntry /\ (ptReq'[r] = PtServed(e) \/ ptReq'[r] = q)
        BY <2>0, <3>4 DEF PtSet
      <3> QED BY <1>1, <2>1, <3>2, <3>5, <3>6
    <2>4. CASE refresh_store(r)
      <3>1. ptReq'[r] = PtServed(ptReq[r].tok)
        BY <2>4 DEF refresh_store, PtWrite
      <3> QED BY <2>1, <3>1
    <2>5. CASE PtFinish(r)
      <3>1. ptReq'[r] = PtIdle
        BY <2>0, <2>5 DEF PtFinish, PtSet
      <3> QED BY <1>1, <2>1, <3>1
    <2> QED BY <1>1, <2>2, <2>3, <2>4, <2>5, PtMover
  <1>2. PtInv /\ [PtNext]_ptVars =>
            [\A r \in PtRequests :
                 (ptReq[r].pc \in {"decide", "get_token", "refresh"}
                     /\ ptReq'[r].pc \in {"served", "refresh"} /\ ~ptReq[r].raced)
                     => ptReq'[r].tok.user = ptReq[r].tok.user]_ptVars
    BY <1>1
  <1> QED BY <1>2, PtAlways, PTL DEF PtSpec, UnracedServedAsSelf

\* Theorem: when a bearer the store does not know writes the entry it has read, the
\* refresh token stays and the access token gets newer (middleware.rs "may only advance
\* it").
THEOREM UnknownAdvances == PtSpec => UnknownBearerOnlyAdvances
  <1>1. ASSUME PtInv, [PtNext]_ptVars, NEW r \in PtRequests, ptReq[r].pc = "decide",
               ptReq[r].found = NoEntry, ptReq[r].seen.rt # 0, ~ptReq[r].raced,
               ptReq'[r].pc # "decide", ptStore'[ptReq[r].key] # ptStore[ptReq[r].key]
        PROVE  /\ ptStore'[ptReq[r].key].rt = ptStore[ptReq[r].key].rt
               /\ ptStore'[ptReq[r].key].ver > ptStore[ptReq[r].key].ver
    <2>1. decide(r)
      BY <1>1, PtMover DEF get_token, refresh_store, PtFinish
    <2>2. PICK q : q = ptReq[r]
      OBVIOUS
    <2>3. /\ q \in PtRequest /\ q.tok \in PtGood /\ q.key \in PtKeys /\ ptStore[q.key] = q.seen
      BY <1>1, <2>1, <2>2, PtDecides DEF PtReady, PtCurrent
    <2>4. PICK next : PtDecided(r, q, next)
      BY <1>1, <2>1, <2>2, PtDecides
    <2>5. replacement(q) # NoEntry /\ ptStore' = [ptStore EXCEPT ![q.key] = replacement(q)]
      BY <1>1, <2>2, <2>4 DEF PtDecided, PtWrite
    <2>6. ptStore'[q.key] = replacement(q)
      BY <1>1, <2>3, <2>5 DEF PtInv, PtStoreOK
    <2>7. replacement(q).rt = q.seen.rt /\ replacement(q).ver > q.seen.ver
      BY <1>1, <2>2, <2>3, <2>5, PtReplacement
    <2> QED BY <2>2, <2>3, <2>6, <2>7
  <1>2. PtInv /\ [PtNext]_ptVars =>
            [\A r \in PtRequests :
                 LET q == ptReq[r]
                 IN  (q.pc = "decide" /\ q.found = NoEntry /\ q.seen.rt # 0 /\ ~q.raced
                         /\ ptReq'[r].pc # "decide" /\ ptStore'[q.key] # ptStore[q.key])
                     => /\ ptStore'[q.key].rt = ptStore[q.key].rt
                        /\ ptStore'[q.key].ver > ptStore[q.key].ver]_ptVars
    BY <1>1
  <1> QED BY <1>2, PtAlways, PTL DEF PtSpec, UnknownBearerOnlyAdvances

-----------------------------------------------------------------------------
(* What it takes to downgrade a grant.                                     *)

\* A request whose session has no protocol id reads one key: the session's is the grant's.
PtHomely(q) ==
    /\ q.pc = "peek_grant" /\ q.key[1] # "mcp" =>
           q.key = credential_session_key(q.tok.user, q.tok.ver, q.tok.genuine)
    /\ q.pc \in {"validate", "decide"} /\ q.key[1] # "mcp" => q.found \in {NoEntry, q.seen}

\* A bearer puts an older refresh token, or none, over a newer one only in a session with a
\* protocol id, and only by copying an entry of its grant's key that has fallen behind the
\* session's; no other way is left unless another request wrote the session since it was
\* read (middleware.rs decide, resolve_or_derive_session_id).
DowngradesOnlyByCopy ==
    [][\A r \in PtRequests :
           LET q == ptReq[r]
           IN  (q.pc = "decide" /\ ptReq'[r].pc # "decide" /\ ~q.raced
                   /\ ptStore'[q.key].rt < ptStore[q.key].rt)
               => q.key[1] = "mcp" /\ q.found # NoEntry /\ q.found.rt < q.seen.rt]_ptVars

\* The request that moves keeps PtHomely: arriving, reading the grant's entry, validating.
LEMMA PtHomelyMove ==
    ASSUME PtInv, NEW r \in PtRequests, PtHomely(ptReq[r]), ptClaims' = ptClaims,
           \/ \E u \in PtUsers, spent \in Vers : passthrough_token_handler(r, u, spent)
           \/ \E u \in PtUsers, v \in Vers \ {0}, g \in BOOLEAN,
                 session \in PtSessions \cup {"none"} : peek_session(r, u, v, g, session)
           \/ retire_grant(r) \/ grant_store(r) \/ index_grant_refresh(r)
           \/ peek_grant(r) \/ validate_bearer(r) \/ decide(r)
           \/ get_token(r) \/ refresh_store(r) \/ PtFinish(r)
    PROVE  PtHomely(ptReq[r])'
  <1>0. ptReq \in [PtRequests -> PtRequest] /\ ptReq[r] \in PtRequest
    BY DEF PtInv, PtStoreOK
  <1>1. ASSUME ptReq'[r].pc \notin {"peek_grant", "validate", "decide"}
        PROVE  PtHomely(ptReq[r])'
    BY <1>1 DEF PtHomely
  <1>2. ASSUME NEW u \in PtUsers, NEW v \in Vers \ {0}, NEW g \in BOOLEAN,
               NEW session \in PtSessions \cup {"none"}, peek_session(r, u, v, g, session)
        PROVE  PtHomely(ptReq[r])'
    <2>1. PICK key : key = resolve_or_derive_session_id(u, v, g, session)
      OBVIOUS
    <2>2. PICK q : q = [PtIdle EXCEPT !.pc = "peek_grant", !.tok = Entry(u, v, g, 0),
                                      !.key = key, !.seen = ptStore[key]]
      OBVIOUS
    <2>3. ptReq'[r] = q
      BY <1>0, <1>2, <2>1, <2>2 DEF peek_session, PtSet
    <2>4. /\ q.pc = "peek_grant" /\ q.key = key
          /\ q.tok.user = u /\ q.tok.ver = v /\ q.tok.genuine = g
      BY <2>2 DEF PtIdle, Entry
    <2>5. key[1] # "mcp" => key = credential_session_key(u, v, g)
      BY <2>1 DEF resolve_or_derive_session_id
    <2> QED BY <2>3, <2>4, <2>5 DEF PtHomely, credential_session_key
  <1>3. CASE peek_grant(r)
    <2>1. PICK q : q = ptReq[r]
      OBVIOUS
    <2>2. q \in PtRequest /\ q.pc = "peek_grant" /\ PtHomely(q)
      BY <1>0, <1>3, <2>1 DEF peek_grant
    <2> DEFINE k == credential_session_key(q.tok.user, q.tok.ver, q.tok.genuine)
               grant == IF ~SameToken(q.seen, q.tok) /\ k # q.key /\ SameToken(ptStore[k], q.tok)
                        THEN ptStore[k] ELSE NoEntry
               found == IF SameToken(q.seen, q.tok) THEN q.seen ELSE grant
               pc == IF found # NoEntry THEN "decide" ELSE "validate"
    <2>3. /\ \/ ptReq' = [ptReq EXCEPT ![r] = PtIdle]
             \/ ptReq' = [ptReq EXCEPT ![r] = [q EXCEPT !.found = found, !.pc = pc]]
          /\ q.key = k => found \in {NoEntry, q.seen}
          /\ pc \in {"decide", "validate"}
      BY <1>3, <2>1 DEF peek_grant, PtRefuse, PtSet
    <2> HIDE DEF found, pc
    <2>4. CASE ptReq' = [ptReq EXCEPT ![r] = PtIdle]
      BY <1>0, <1>1, <2>4 DEF PtIdle
    <2>5. CASE ptReq' = [ptReq EXCEPT ![r] = [q EXCEPT !.found = found, !.pc = pc]]
      <3>1. PICK n : n = [q EXCEPT !.found = found, !.pc = pc]
        OBVIOUS
      <3>2. n.found = found /\ n.pc = pc /\ n.key = q.key /\ n.seen = q.seen
        BY <2>2, <3>1 DEF PtRequest
      <3>3. ptReq'[r] = n
        BY <1>0, <2>5, <3>1
      <3> QED BY <2>2, <2>3, <3>2, <3>3 DEF PtHomely
    <2> QED BY <2>3, <2>4, <2>5
  <1>4. CASE validate_bearer(r)
    <2>1. ptReq[r].pc = "validate" /\ (PtSet(r, PtIdle) \/ PtGoto(r, "decide"))
      BY <1>4 DEF validate_bearer, PtRefuse
    <2>2. CASE PtSet(r, PtIdle)
      BY <1>0, <1>1, <2>2 DEF PtSet, PtIdle
    <2>3. CASE PtGoto(r, "decide")
      <3>1. /\ ptReq'[r].pc = "decide" /\ ptReq'[r].key = ptReq[r].key
            /\ ptReq'[r].seen = ptReq[r].seen /\ ptReq'[r].found = ptReq[r].found
        BY <1>0, <2>3 DEF PtGoto, PtRequest
      <3> QED BY <2>1, <3>1 DEF PtHomely
    <2> QED BY <2>1, <2>2, <2>3
  <1>5. ASSUME NEW u \in PtUsers, NEW spent \in Vers, passthrough_token_handler(r, u, spent)
        PROVE  PtHomely(ptReq[r])'
    <2>1. ptReq'[r].pc \in {"grant_store", "retire"}
      BY <1>0, <1>5 DEF passthrough_token_handler, PtSet, PtIdle
    <2> QED BY <1>1, <2>1
  <1>6. CASE retire_grant(r) \/ grant_store(r) \/ index_grant_refresh(r)
    <2>1. \E pc \in {"grant_store", "grant_index"} : ptReq'[r] = [ptReq[r] EXCEPT !.pc = pc]
          \/ ptReq'[r] = PtIdle
      <3>1. CASE retire_grant(r)
        BY <1>0, <3>1 DEF retire_grant, PtGoto, PtWrite
      <3>2. CASE grant_store(r)
        BY <3>2 DEF grant_store, PtWrite
      <3>3. CASE index_grant_refresh(r)
        BY <1>0, <3>3 DEF index_grant_refresh, PtSet
      <3> QED BY <1>6, <3>1, <3>2, <3>3
    <2>2. PtIdle.pc = "idle" /\ \A pc : [ptReq[r] EXCEPT !.pc = pc].pc = pc
      BY <1>0 DEF PtIdle, PtRequest
    <2> QED BY <1>1, <2>1, <2>2
  <1>7. CASE decide(r)
    <2>1. PICK next \in PtRequest :
              /\ PtDecided(r, ptReq[r], next)
              /\ next = PtServed(ptReq[r].tok) \/ next.pc = "get_token"
      BY <1>7, PtDecides
    <2>2. ptReq'[r] = PtIdle \/ ptReq'[r] = next
      BY <1>0, <2>1 DEF PtDecided, PtSet, PtWrite
    <2>3. PtServed(ptReq[r].tok).pc = "served" /\ PtIdle.pc = "idle"
      BY DEF PtServed, PtIdle
    <2> QED BY <1>1, <2>1, <2>2, <2>3
  <1>8. CASE get_token(r) \/ refresh_store(r) \/ PtFinish(r)
    <2>1. (\A e : PtServed(e).pc = "served") /\ PtIdle.pc = "idle"
      BY DEF PtServed, PtIdle
    <2>2. CASE get_token(r)
      <3>1. PICK q : ptReq' = [ptReq EXCEPT ![r] = q]
                     /\ (q = PtIdle \/ (\E e : q = PtServed(e))
                           \/ \E e : q = [ptReq[r] EXCEPT !.pc = "refresh", !.tok = e])
        BY <2>2 DEF get_token, PtRefuse, PtSet
      <3>2. q.pc \in {"served", "idle", "refresh"}
        BY <1>0, <2>1, <3>1 DEF PtRequest
      <3> QED BY <1>0, <1>1, <3>1, <3>2
    <2>3. CASE refresh_store(r)
      <3>1. ptReq'[r] = PtServed(ptReq[r].tok)
        BY <2>3 DEF refresh_store, PtWrite
      <3> QED BY <1>1, <2>1, <3>1
    <2>4. CASE PtFinish(r)
      <3>1. ptReq'[r] = PtIdle
        BY <1>0, <2>4 DEF PtFinish, PtSet
      <3> QED BY <1>1, <2>1, <3>1
    <2> QED BY <1>8, <2>2, <2>3, <2>4
  <1> QED BY <1>2, <1>3, <1>4, <1>5, <1>6, <1>7, <1>8

\* So it holds of every request.
LEMMA PtHomelyNext ==
    ASSUME PtInv, [PtNext]_ptVars, \A r \in PtRequests : PtHomely(ptReq[r])
    PROVE  (\A r \in PtRequests : PtHomely(ptReq[r]))'
  <1>1. ptClaims' = ptClaims
    <2>1. ASSUME NEW x \in PtRequests,
                 \/ \E u \in PtUsers, spent \in Vers : passthrough_token_handler(x, u, spent)
                 \/ \E u \in PtUsers, v \in Vers \ {0}, g \in BOOLEAN,
                       session \in PtSessions \cup {"none"} : peek_session(x, u, v, g, session)
          PROVE  ptClaims' = ptClaims
      BY <2>1 DEF passthrough_token_handler, peek_session
    <2>2. ASSUME NEW x \in PtRequests,
                 \/ retire_grant(x) \/ grant_store(x) \/ index_grant_refresh(x)
                 \/ peek_grant(x) \/ validate_bearer(x)
          PROVE  ptClaims' = ptClaims
      BY <2>2 DEF retire_grant, grant_store, index_grant_refresh, peek_grant, validate_bearer
    <2>3. ASSUME NEW x \in PtRequests,
                 decide(x) \/ get_token(x) \/ refresh_store(x) \/ PtFinish(x)
          PROVE  ptClaims' = ptClaims
      BY <2>3 DEF decide, get_token, refresh_store, PtFinish
    <2>4. (\E u \in PtUsers : PtIssue(u) \/ PtExpire(u)) \/ UNCHANGED ptVars
          => ptClaims' = ptClaims
      BY DEF PtIssue, PtExpire, ptVars
    <2> QED BY <2>1, <2>2, <2>3, <2>4 DEF PtNext
  <1>2. CASE UNCHANGED ptReq
    BY <1>1, <1>2 DEF PtHomely, credential_session_key
  <1>3. ASSUME NEW x \in PtRequests,
               \/ \E u \in PtUsers, spent \in Vers : passthrough_token_handler(x, u, spent)
               \/ \E u \in PtUsers, v \in Vers \ {0}, g \in BOOLEAN,
                     session \in PtSessions \cup {"none"} : peek_session(x, u, v, g, session)
               \/ retire_grant(x) \/ grant_store(x) \/ index_grant_refresh(x)
               \/ peek_grant(x) \/ validate_bearer(x) \/ decide(x)
               \/ get_token(x) \/ refresh_store(x) \/ PtFinish(x)
        PROVE  (\A r \in PtRequests : PtHomely(ptReq[r]))'
    <2>1. PtHomely(ptReq[x])'
      BY <1>1, <1>3, PtHomelyMove
    <2>2. \/ \E q : PtSet(x, q)
          \/ \E pc : PtGoto(x, pc)
          \/ \E k, e, q : PtWrite(x, k, e, q)
      BY <1>3 DEF passthrough_token_handler, peek_session, retire_grant, grant_store,
                  index_grant_refresh, peek_grant, validate_bearer, decide, get_token,
                  refresh_store, PtFinish, PtRefuse
    <2>3. ASSUME NEW r \in PtRequests \ {x} PROVE PtHomely(ptReq[r])'
      <3>1. /\ ptReq'[r].pc = ptReq[r].pc /\ ptReq'[r].tok = ptReq[r].tok
            /\ ptReq'[r].key = ptReq[r].key
            /\ ptReq'[r].seen = ptReq[r].seen /\ ptReq'[r].found = ptReq[r].found
        BY <2>2, PtOthersKeep DEF PtInv
      <3> QED BY <1>1, <3>1 DEF PtHomely, credential_session_key
    <2> QED BY <2>1, <2>3
  <1>4. (\E u \in PtUsers : PtIssue(u) \/ PtExpire(u)) \/ UNCHANGED ptVars => UNCHANGED ptReq
    BY DEF PtIssue, PtExpire, ptVars
  <1> QED BY <1>2, <1>3, <1>4 DEF PtNext

\* Theorem: DowngradesOnlyByCopy, for any users, sessions and requests. A session without a
\* protocol id is never downgraded by a bearer nobody raced: the failure of the run
\* passthrough_downgrade needs the two entries of a session and its grant.
THEOREM DowngradeNeedsCopy == PtSpec => DowngradesOnlyByCopy
  <1>1. PtInit => \A r \in PtRequests : PtHomely(ptReq[r])
    BY DEF PtInit, PtHomely, PtIdle
  <1>2. PtInv /\ [PtNext]_ptVars /\ (\A r \in PtRequests : PtHomely(ptReq[r]))
        => (\A r \in PtRequests : PtHomely(ptReq[r]))'
    BY PtHomelyNext
  <1>3. ASSUME PtInv, \A x \in PtRequests : PtHomely(ptReq[x]), [PtNext]_ptVars,
               NEW r \in PtRequests, ptReq[r].pc = "decide", ptReq'[r].pc # "decide",
               ~ptReq[r].raced, ptStore'[ptReq[r].key].rt < ptStore[ptReq[r].key].rt
        PROVE  /\ ptReq[r].key[1] = "mcp" /\ ptReq[r].found # NoEntry
               /\ ptReq[r].found.rt < ptReq[r].seen.rt
    <2>1. decide(r)
      BY <1>3, PtMover DEF get_token, refresh_store, PtFinish
    <2>2. PICK q : q = ptReq[r]
      OBVIOUS
    <2>3. /\ q \in PtRequest /\ q.tok \in PtGood /\ q.key \in PtKeys /\ ptStore[q.key] = q.seen
      BY <1>3, <2>1, <2>2, PtDecides DEF PtReady, PtCurrent
    <2>4. q.seen \in PtHeldEntries /\ q.found \in PtHeldEntries
      BY <2>3 DEF PtRequest
    <2>5. q.seen.rt \in Nat /\ q.found.rt \in Nat
      <3>1. NoEntry.rt = 0
        BY DEF NoEntry
      <3>2. \A e \in PtGood : e.rt \in Vers
        BY DEF PtGood
      <3>3. \A e \in PtHeldEntries : e \in PtGood \/ e = NoEntry
        BY DEF PtHeldEntries
      <3>4. \A e \in PtHeldEntries : e.rt \in Vers \/ e.rt = 0
        BY <3>1, <3>2, <3>3
      <3>5. \A v \in Vers : v \in Nat
        BY PtVersNat
      <3>6. PICK a, b : a = q.seen.rt /\ b = q.found.rt
        OBVIOUS
      <3>7. (a \in Vers \/ a = 0) /\ (b \in Vers \/ b = 0)
        BY <2>4, <3>4, <3>6
      <3>8. a \in Nat /\ b \in Nat
        BY <3>5, <3>7
      <3> QED BY <3>6, <3>8
    <2>6. PICK next : PtDecided(r, q, next)
      BY <1>3, <2>1, <2>2, PtDecides
    <2>7. ptStore'[q.key].rt < q.seen.rt
      BY <1>3, <2>2, <2>3
    <2>8. replacement(q) # NoEntry /\ ptStore' = [ptStore EXCEPT ![q.key] = replacement(q)]
      BY <2>3, <2>5, <2>6, <2>7 DEF PtDecided, PtWrite
    <2>9. replacement(q).rt < q.seen.rt
      BY <1>3, <2>3, <2>7, <2>8 DEF PtInv, PtStoreOK
    <2>10. q.found # NoEntry
      <3>1. CASE q.found = NoEntry /\ q.seen.rt # 0
        <4>1. replacement(q).rt = q.seen.rt
          BY <2>8, <3>1 DEF replacement, Entry
        <4> QED BY <2>5, <2>9, <4>1
      <3>2. CASE q.found = NoEntry /\ q.seen.rt = 0
        <4>1. replacement(q).rt = 0
          BY <3>2 DEF replacement, Entry
        <4> QED BY <2>9, <3>2, <4>1
      <3> QED BY <3>1, <3>2
    <2>11. replacement(q).rt = q.found.rt
      BY <2>10 DEF replacement, Entry
    <2>12. q.found # q.seen
      BY <2>5, <2>9, <2>11
    <2>13. q.key[1] = "mcp"
      BY <1>3, <2>2, <2>10, <2>12 DEF PtHomely
    <2> QED BY <2>2, <2>9, <2>10, <2>11, <2>13
  <1>4. PtInv /\ (\A r \in PtRequests : PtHomely(ptReq[r])) /\ [PtNext]_ptVars =>
            [\A r \in PtRequests :
                 LET q == ptReq[r]
                 IN  (q.pc = "decide" /\ ptReq'[r].pc # "decide" /\ ~q.raced
                         /\ ptStore'[q.key].rt < ptStore[q.key].rt)
                     => q.key[1] = "mcp" /\ q.found # NoEntry /\ q.found.rt < q.seen.rt]_ptVars
    BY <1>3
  <1> QED BY <1>1, <1>2, <1>4, PtAlways, PTL DEF PtSpec, DowngradesOnlyByCopy

-----------------------------------------------------------------------------
(* Types.                                                                  *)

\* What the authorization server keeps of a user lies within the versions it issued.
PtServerTyped ==
    /\ ptClaims \in BOOLEAN
    /\ ptRt \in [PtUsers -> Vers]
    /\ ptDead \in [PtUsers -> Vers]
    /\ ptHeld \in [PtUsers -> SUBSET ({"at", "rt"} \X Vers)]

\* A version that is issued is one of the user's.
LEMMA PtNewVersion ==
    ASSUME PtInv, NEW u \in PtUsers
    PROVE  /\ ptVer[u] \in Vers /\ ptVer[u] \in Nat
           /\ ptVer[u] < PtMaxVer[u] => ptVer[u] + 1 \in Vers
  <1>1. ptVer[u] \in Nat /\ ptVer[u] <= PtMaxVer[u] /\ PtMaxVer[u] \in Nat
    BY PtVersions DEF PtInv, PtServerOK
  <1> QED BY <1>1, PtVersions

\* Every step of the authorization server issues or expires within the versions.
LEMMA PtServerStep ==
    ASSUME PtInv, PtServerTyped, [PtNext]_ptVars
    PROVE  PtServerTyped'
  <1>1. ASSUME NEW u \in PtUsers, PtIssue(u) PROVE PtServerTyped'
    <2>1. ptVer[u] + 1 \in Vers
      BY <1>1, PtNewVersion DEF PtIssue
    <2>2. ptHeld' \in [PtUsers -> SUBSET ({"at", "rt"} \X Vers)]
      BY <1>1, <2>1 DEF PtIssue, PtServerTyped
    <2> QED BY <1>1, <2>2 DEF PtIssue, PtServerTyped
  <1>2. ASSUME NEW u \in PtUsers, PtExpire(u) PROVE PtServerTyped'
    <2>1. /\ ptVer[u] \in Nat /\ ptVer[u] <= PtMaxVer[u] /\ PtMaxVer[u] \in Nat
          /\ ptDead[u] \in Nat /\ ptDead[u] < ptVer[u]
      BY <1>2, PtVersions, PtVersNat DEF PtInv, PtServerOK, PtServerTyped, PtExpire
    <2>2. ptDead[u] + 1 \in Vers
      BY <2>1, PtVersions
    <2> QED BY <1>2, <2>2 DEF PtExpire, PtServerTyped
  <1>3. ASSUME NEW r \in PtRequests, NEW u \in PtUsers, NEW spent \in Vers,
               passthrough_token_handler(r, u, spent)
        PROVE  PtServerTyped'
    <2>1. /\ ptVer[u] < PtMaxVer[u] /\ ptRt' = [ptRt EXCEPT ![u] = ptVer[u] + 1]
          /\ ptHeld' = [ptHeld EXCEPT ![u] = @ \cup {<<"at", ptVer[u] + 1>>, <<"rt", ptVer[u] + 1>>}]
          /\ ptClaims' = ptClaims /\ ptDead' = ptDead
      BY <1>3 DEF passthrough_token_handler, PtGrant
    <2>2. ptVer[u] + 1 \in Vers
      BY <2>1, PtNewVersion
    <2>3. ptHeld' \in [PtUsers -> SUBSET ({"at", "rt"} \X Vers)]
      BY <2>1, <2>2 DEF PtServerTyped
    <2> QED BY <2>1, <2>2, <2>3 DEF PtServerTyped
  <1>4. ASSUME NEW r \in PtRequests, get_token(r) PROVE PtServerTyped'
    <2>1. UNCHANGED <<ptClaims, ptHeld, ptDead>>
      BY <1>4 DEF get_token
    <2>2. ptRt' \in [PtUsers -> Vers]
      <3>1. CASE UNCHANGED ptRt
        BY <3>1 DEF PtServerTyped
      <3>2. CASE ~UNCHANGED ptRt
        <4> DEFINE e == ptStore[ptReq[r].key]
        <4>1. PtGrant(e.user) /\ e # NoEntry /\ ptReq[r].pc = "get_token"
          BY <1>4, <3>2 DEF get_token
        <4>2. ptReq[r].key \in PtKeys
          BY <4>1 DEF PtInv, PtStoreOK, PtReady, PtVouched
        <4>3. e \in PtGood
          BY <4>1, <4>2 DEF PtInv, PtStoreOK, PtHeldEntries
        <4> HIDE DEF e
        <4>4. e.user \in PtUsers
          BY <4>3 DEF PtGood
        <4>5. PICK u \in PtUsers : PtGrant(u)
          BY <4>1, <4>4
        <4>6. ptVer[u] + 1 \in Vers
          BY <4>5, PtNewVersion DEF PtGrant
        <4> QED BY <4>5, <4>6 DEF PtGrant, PtServerTyped
      <3> QED BY <3>1, <3>2
    <2> QED BY <2>1, <2>2 DEF PtServerTyped
  <1>5. ASSUME NEW r \in PtRequests,
               \/ \E u \in PtUsers, v \in Vers \ {0}, g \in BOOLEAN,
                     session \in PtSessions \cup {"none"} : peek_session(r, u, v, g, session)
               \/ retire_grant(r) \/ grant_store(r) \/ index_grant_refresh(r)
               \/ peek_grant(r) \/ validate_bearer(r) \/ decide(r)
               \/ refresh_store(r) \/ PtFinish(r)
        PROVE  PtServerTyped'
    <2>1. UNCHANGED <<ptClaims, ptServer, ptDead>>
      BY <1>5 DEF peek_session, retire_grant, grant_store, index_grant_refresh, peek_grant,
                  validate_bearer, decide, refresh_store, PtFinish
    <2> QED BY <2>1 DEF ptServer, PtServerTyped
  <1>6. CASE UNCHANGED ptVars
    BY <1>6 DEF ptVars, PtServerTyped
  <1> QED BY <1>1, <1>2, <1>3, <1>4, <1>5, <1>6 DEF PtNext

\* The store, its index, the requests and what the authorization server issued stay
\* what their types make them, for any users, sessions and requests
\* (auth/store.rs TokenStore, auth/middleware.rs).
THEOREM PtTypeCorrect == PtSpec => []PtTypeOK
  <1>1. PtInit => PtServerTyped
    BY PtVersions DEF PtInit, PtServerTyped
  <1>2. PtInv /\ PtServerTyped => PtTypeOK
    <2> SUFFICES ASSUME PtInv, PtServerTyped PROVE PtTypeOK
      OBVIOUS
    <2>1. PtHeldEntries \subseteq PtEntries /\ PtTokens \cup {NoEntry} \subseteq PtEntries
      BY DEF PtHeldEntries, PtGood, PtTokens, PtEntries
    <2>2. ptVer \in [PtUsers -> Vers]
      BY PtNewVersion DEF PtInv, PtServerOK
    <2>3. \A r \in PtRequests : ptReq[r].tok \in PtEntries /\ ptReq[r].key \in PtKeys \cup {NoKey}
      BY <2>1 DEF PtInv, PtStoreOK, PtRequest
    <2> QED BY <2>1, <2>2, <2>3 DEF PtInv, PtServerOK, PtStoreOK, PtServerTyped, PtTypeOK
  <1> QED BY <1>1, <1>2, PtAlways, PtServerStep, PTL DEF PtSpec
=============================================================================
