--------------------------- MODULE OAuthFlowProofs ---------------------------
(***************************************************************************)
(* For any instances, clients, URIs, states and requests, any order of     *)
(* registrations, authorizations, logins and callbacks, and any failed     *)
(* calls, hang-ups and crashes: a code goes only to a URI the asking       *)
(* client registered or that is open to all, a code is used once as long   *)
(* as one instance serves its callbacks, and a client that registered once *)
(* is known with its URIs everywhere.                                      *)
(*                                                                         *)
(* Each has an inductive invariant of its own over the types and over what *)
(* a request carries (OfTypes):                                            *)
(*   OfLegitInv  what a cache, the backend or a request says of a client   *)
(*               was registered by it, and a redirect_uri that is parked,  *)
(*               or carried past the check, is the one asked for and       *)
(*               passes the check;                                         *)
(*   OfKnownInv  until a client registers again every copy of its URIs is  *)
(*               complete, and one is persisted or about to be;            *)
(*   OfOnceInv   a state is parked or pending, or its code is in one       *)
(*               request's hands, or its code is used: never two of these  *)
(*               where its callbacks are served.                           *)
(***************************************************************************)
EXTENDS OAuthFlow, TLAPS

OfCacheTypes ==
    /\ ofClients \in [OfInstances -> [OfClients -> OfLists]]
    /\ ofProxied \in [OfInstances -> [OfStates -> OfUris \cup {OfNone}]]
    /\ ofPending \in [OfInstances -> SUBSET OfStates]
OfBackendTypes ==
    /\ ofRegistry \in [OfClients -> OfLists]
    /\ ofParked \in [OfStates -> OfUris \cup {OfNone}]
OfHistoryTypes ==
    /\ ofOld \subseteq OfStates /\ ofIssued \subseteq OfStates
    /\ ofAsked \in [OfStates -> (OfClients \X OfUris) \cup {OfNone, <<"login", OfNone>>}]
    /\ ofRegistered \subseteq OfClients \X OfUris
    /\ ofWrites \in [OfClients -> 0 .. 2]
    /\ ofCodes \subseteq OfStates \X OfUris
    /\ ofAnswers \in [OfStates -> 0 .. 2]
    /\ ofSole \in [OfStates -> OfInstances \cup {OfNone, "many"}]
    /\ ofFaults \in 0 .. OfMaxFaults
OfRequestTypes ==
    ofReq \in [OfRequests -> OfRequest] /\ \A r \in OfRequests : OfCarries(ofReq[r])
OfTypes == OfCacheTypes /\ OfBackendTypes /\ OfHistoryTypes /\ OfRequestTypes

-----------------------------------------------------------------------------
(* CodeOnlyToAllowed.                                                      *)

\* Client c registered the URIs of a list.
OfOwned(c, uris, registered) == uris # OfNone => \A u \in uris : <<c, u>> \in registered
\* URI u may receive the code of state s.
OfLegit(s, u, asked, registered) ==
    /\ asked[s] \in OfClients \X OfUris /\ u = asked[s][2]
    /\ asked[s] \in registered \/ OfOpen(u)
OfReqLegit(q, asked, registered) ==
    /\ q.pc \in {"record", "fill", "decide"} => OfOwned(q.client, q.uris, registered)
    /\ q.pc \in {"park", "forget", "delete", "forward"} => OfLegit(q.state, q.uri, asked, registered)

OfLegitInv ==
    /\ \A i \in OfInstances, c \in OfClients : OfOwned(c, ofClients[i][c], ofRegistered)
    /\ \A c \in OfClients : OfOwned(c, ofRegistry[c], ofRegistered)
    /\ \A i \in OfInstances, s \in OfStates :
           ofProxied[i][s] # OfNone => OfLegit(s, ofProxied[i][s], ofAsked, ofRegistered)
    /\ \A s \in OfStates : ofParked[s] # OfNone => OfLegit(s, ofParked[s], ofAsked, ofRegistered)
    /\ \A r \in OfRequests : OfReqLegit(ofReq[r], ofAsked, ofRegistered)
    /\ \A x \in ofCodes : OfLegit(x[1], x[2], ofAsked, ofRegistered)

-----------------------------------------------------------------------------
(* RegisteredIsKnown.                                                      *)

\* A list that has every URI client c registered.
OfComplete(c, uris, registered) == \A u \in OfUris : <<c, u>> \in registered => u \in uris
OfRecording(q, c) == q.pc = "record" /\ q.client = c

\* Client c never registered: no copy of its URIs is about.
OfUnknown(c) ==
    /\ \A u \in OfUris : <<c, u>> \notin ofRegistered
    /\ \A i \in OfInstances : ofClients[i][c] = OfNone
    /\ ofRegistry[c] = OfNone
    /\ \A r \in OfRequests : ofReq[r].pc \in {"record", "fill"} => ofReq[r].client # c
\* Client c registered once: every copy is complete, and one is in the backend or in a
\* request that will write it.
OfKnown(c) ==
    /\ \A i \in OfInstances :
           ofClients[i][c] # OfNone => OfComplete(c, ofClients[i][c], ofRegistered)
    /\ ofRegistry[c] # OfNone => OfComplete(c, ofRegistry[c], ofRegistered)
    /\ \A r \in OfRequests : ofReq[r].pc \in {"record", "fill"} /\ ofReq[r].client = c =>
           OfComplete(c, ofReq[r].uris, ofRegistered)
    /\ ofRegistry[c] # OfNone \/ \E r \in OfRequests : OfRecording(ofReq[r], c)

OfKnownInv ==
    \A c \in OfClients : /\ ofWrites[c] = 0 => OfUnknown(c)
                         /\ ofWrites[c] = 1 => OfKnown(c)

-----------------------------------------------------------------------------
(* CodeUsedOnce.                                                           *)

\* A state is for one flow.
OfFlowsOK ==
    /\ \A i \in OfInstances, s \in OfStates :
           /\ ofProxied[i][s] # OfNone => ofAsked[s] \in OfClients \X OfUris
           /\ s \in ofPending[i] => ofAsked[s] = <<"login", OfNone>>
    /\ \A s \in OfStates : ofParked[s] # OfNone => ofAsked[s] \in OfClients \X OfUris
    /\ \A s \in ofIssued : ofAsked[s] # OfNone
\* One request parks it, and it is issued after that.
OfParksOK ==
    \A r \in OfRequests : ofReq[r].pc = "park" =>
        /\ ofAsked[ofReq[r].state] \in OfClients \X OfUris /\ ofReq[r].state \notin ofIssued
        /\ \A x \in OfRequests :
               ofReq[x].pc = "park" /\ ofReq[x].state = ofReq[r].state => x = r

\* A request has the code of its state in its hands.
OfHasCode(q) == q.pc \in {"forget", "delete", "forward", "exchange"}
\* The request that serves a callback of s at i, and what has been taken by then.
OfServing(q, s, i) ==
    /\ q.inst = i /\ ofProxied[i][s] = OfNone
    /\ q.pc \in {"forward", "exchange"} => ofParked[s] = OfNone /\ s \notin ofPending[i]
    /\ q.pc \in {"forget", "delete"} => s \notin ofPending[i]
\* The code of s is used: nothing of it is left at i.
OfSpent(s, i) ==
    /\ ofProxied[i][s] = OfNone /\ ofParked[s] = OfNone /\ s \notin ofPending[i]
    /\ \A r \in OfHandling(s) : ~OfHasCode(ofReq[r])

OfOnceAt(s, i) ==
    /\ s \in ofIssued
    /\ \A r, x \in OfHandling(s) : r = x
    /\ \A r \in OfHandling(s) : OfServing(ofReq[r], s, i)
    /\ ofAnswers[s] # 0 => ofAnswers[s] = 1 /\ OfSpent(s, i)

OfOnce(s) ==
    /\ ofSole[s] = OfNone => OfHandling(s) = {} /\ ofAnswers[s] = 0
    /\ \A i \in OfInstances : ofSole[s] = i /\ i # "many" => OfOnceAt(s, i)
OfOnceInv == OfFlowsOK /\ OfParksOK /\ \A s \in OfStates : OfOnce(s)

-----------------------------------------------------------------------------
(* Types.                                                                  *)

\* A request that moves to a well-formed value leaves the others as they are.
LEMMA OfRequestStep ==
    ASSUME OfRequestTypes, NEW r \in OfRequests, NEW q \in OfRequest, OfCarries(q), OfSet(r, q)
    PROVE  OfRequestTypes' /\ ofReq'[r] = q /\ \A x \in OfRequests \ {r} : ofReq'[x] = ofReq[x]
  BY DEF OfRequestTypes, OfSet

\* OfGoto is OfSet with the new position.
LEMMA OfGotoIsSet ==
    ASSUME NEW r, NEW pc, OfGoto(r, pc), OfRequestTypes, r \in OfRequests
    PROVE  OfSet(r, [ofReq[r] EXCEPT !.pc = pc])
  BY DEF OfGoto, OfSet, OfRequestTypes

\* An idle request is well formed.
LEMMA OfIdleOK == OfIdle \in OfRequest /\ OfCarries(OfIdle)
  BY DEF OfIdle, OfRequest, OfCarries, OfLists, OfCallbackPcs, OfAuthorizePcs

\* A cache takes a list or leaves it.
LEMMA OfCacheInsertTypes ==
    ASSUME OfCacheTypes, NEW i \in OfInstances, NEW c \in OfClients, NEW uris \in SUBSET OfUris,
           NEW again \in BOOLEAN, OfCacheInsert(i, c, uris, again)
    PROVE  /\ ofClients' \in [OfInstances -> [OfClients -> OfLists]]
           /\ \A j \in OfInstances, d \in OfClients :
                  ofClients'[j][d] = ofClients[j][d] \/ (j = i /\ d = c /\ ofClients'[j][d] = uris)
  BY DEF OfCacheTypes, OfCacheInsert, OfLists

\* A registration arrives.
LEMMA OfTypesRegister ==
    ASSUME OfTypes, NEW r \in OfRequests, NEW i \in OfInstances, NEW c \in OfClients,
           NEW uris \in SUBSET OfUris, register_handler(r, i, c, uris)
    PROVE  OfTypes'
  <1> DEFINE merged == uris \cup (IF c \in OfCached(i) THEN ofClients[i][c] ELSE {})
             q == [OfIdle EXCEPT !.pc = "record", !.inst = i, !.kind = "register",
                                 !.client = c, !.uris = merged]
  <1>1. merged \in SUBSET OfUris
    BY DEF OfTypes, OfCacheTypes, OfCached, OfLists
  <1>2. OfCacheTypes'
    <2> HIDE DEF merged
    <2>1. OfCacheInsert(i, c, merged, TRUE) /\ UNCHANGED <<ofProxied, ofPending>>
      BY DEF register_handler, merged
    <2> QED BY <1>1, <2>1, OfCacheInsertTypes DEF OfTypes, OfCacheTypes
  <1>3. OfBackendTypes'
    BY DEF OfTypes, OfBackendTypes, register_handler, ofBackend
  <1>4. OfHistoryTypes'
    <2>1. ofRegistered' \subseteq OfClients \X OfUris
      BY DEF OfTypes, OfHistoryTypes, register_handler
    <2>2. ofWrites' \in [OfClients -> 0 .. 2]
      BY DEF OfTypes, OfHistoryTypes, register_handler
    <2> QED BY <2>1, <2>2 DEF OfTypes, OfHistoryTypes, register_handler
  <1>5. OfSet(r, q)
    BY DEF register_handler
  <1>6. q \in OfRequest /\ OfCarries(q)
    <2> HIDE DEF merged
    <2> QED BY <1>1 DEF OfIdle, OfRequest, OfCarries, OfLists, OfCallbackPcs, OfAuthorizePcs
  <1> HIDE DEF q
  <1> QED BY <1>2, <1>3, <1>4, <1>5, <1>6, OfRequestStep DEF OfTypes

\* A registration is written, or not.
LEMMA OfTypesRecord ==
    ASSUME OfTypes, NEW r \in OfRequests, NEW ok \in BOOLEAN,
           register_client_redirects(r, ok)
    PROVE  OfTypes'
  <1>1. ofReq[r] \in OfRequest /\ OfCarries(ofReq[r]) /\ ofReq[r].pc = "record" /\ OfSet(r, OfIdle)
    BY DEF OfTypes, OfRequestTypes, register_client_redirects
  <1>2. ofReq[r].client \in OfClients /\ ofReq[r].uris \in SUBSET OfUris
    BY <1>1 DEF OfCarries
  <1>3. OfCacheTypes'
    BY DEF OfTypes, OfCacheTypes, register_client_redirects, ofCaches
  <1>4. OfBackendTypes'
    BY <1>2 DEF OfTypes, OfBackendTypes, register_client_redirects, OfLists
  <1>5. OfHistoryTypes'
    BY <1>2, OfAssumption DEF OfTypes, OfHistoryTypes, register_client_redirects, OfFault
  <1> QED BY <1>1, <1>3, <1>4, <1>5, OfRequestStep, OfIdleOK DEF OfTypes

\* An authorization arrives.
LEMMA OfTypesAuthorize ==
    ASSUME OfTypes, NEW r \in OfRequests, NEW i \in OfInstances, NEW c \in OfClients,
           NEW u \in OfUris, authorize_handler(r, i, c, u)
    PROVE  OfTypes'
  <1>1. PICK q : /\ OfSet(r, q)
                 /\ q = IF c \in OfCached(i)
                        THEN [OfIdle EXCEPT !.inst = i, !.kind = "authorize", !.client = c,
                                            !.uri = u, !.pc = "decide", !.uris = ofClients[i][c]]
                        ELSE [OfIdle EXCEPT !.inst = i, !.kind = "authorize", !.client = c,
                                            !.uri = u, !.pc = "lookup"]
    BY DEF authorize_handler, OfIdle
  <1>2. ofClients[i][c] \in OfLists
    BY DEF OfTypes, OfCacheTypes
  <1>3. q \in OfRequest /\ OfCarries(q)
    <2>1. CASE c \in OfCached(i)
      BY <1>1, <1>2, <2>1 DEF OfIdle, OfRequest, OfCarries, OfCallbackPcs, OfAuthorizePcs
    <2>2. CASE c \notin OfCached(i)
      BY <1>1, <2>2 DEF OfIdle, OfRequest, OfCarries, OfLists, OfCallbackPcs, OfAuthorizePcs
    <2> QED BY <2>1, <2>2
  <1>4. OfCacheTypes' /\ OfBackendTypes' /\ OfHistoryTypes'
    BY DEF OfTypes, OfCacheTypes, OfBackendTypes, OfHistoryTypes, authorize_handler, ofCaches,
           ofBackend, ofHistory
  <1> QED BY <1>1, <1>3, <1>4, OfRequestStep DEF OfTypes

\* The backend is asked for a client.
LEMMA OfTypesLookup ==
    ASSUME OfTypes, NEW r \in OfRequests, NEW ok \in BOOLEAN, client_redirects(r, ok)
    PROVE  OfTypes'
  <1>1. ofReq[r] \in OfRequest /\ OfCarries(ofReq[r]) /\ ofReq[r].pc = "lookup"
    BY DEF OfTypes, OfRequestTypes, client_redirects
  <1>2. PICK found : /\ found = IF ok THEN ofRegistry[ofReq[r].client] ELSE OfNone
                     /\ OfSet(r, [ofReq[r] EXCEPT !.pc = IF found = OfNone THEN "decide" ELSE "fill",
                                                  !.uris = found])
    BY DEF client_redirects
  <1>3. found \in OfLists
    BY <1>1, <1>2 DEF OfCarries, OfTypes, OfBackendTypes, OfLists, OfAuthorizePcs
  <1> DEFINE q == [ofReq[r] EXCEPT !.pc = IF found = OfNone THEN "decide" ELSE "fill", !.uris = found]
  <1>4. q \in OfRequest /\ OfCarries(q)
    BY <1>1, <1>3 DEF OfRequest, OfCarries, OfLists, OfCallbackPcs, OfAuthorizePcs
  <1>5. OfCacheTypes' /\ OfBackendTypes' /\ OfHistoryTypes'
    BY OfAssumption DEF OfTypes, OfCacheTypes, OfBackendTypes, OfHistoryTypes, client_redirects,
           ofCaches, ofBackend, ofHistory, OfFault
  <1>6. OfSet(r, q)
    BY <1>2
  <1> HIDE DEF q
  <1> QED BY <1>4, <1>5, <1>6, OfRequestStep DEF OfTypes


\* What the backend answered is cached.
LEMMA OfTypesFill ==
    ASSUME OfTypes, NEW r \in OfRequests, cache_client(r)
    PROVE  OfTypes'
  <1> DEFINE q == [ofReq[r] EXCEPT !.pc = "decide"]
  <1>1. ofReq[r] \in OfRequest /\ OfCarries(ofReq[r]) /\ ofReq[r].pc = "fill"
    BY DEF OfTypes, OfRequestTypes, cache_client
  <1>2. /\ ofReq[r].inst \in OfInstances /\ ofReq[r].client \in OfClients
        /\ ofReq[r].uris \in SUBSET OfUris
    BY <1>1 DEF OfCarries, OfAuthorizePcs
  <1>3. OfCacheTypes'
    <2>1. OfCacheInsert(ofReq[r].inst, ofReq[r].client, ofReq[r].uris, FALSE)
          /\ UNCHANGED <<ofProxied, ofPending>>
      BY DEF cache_client
    <2> QED BY <1>2, <2>1, OfCacheInsertTypes DEF OfTypes, OfCacheTypes
  <1>4. OfBackendTypes' /\ OfHistoryTypes'
    BY DEF OfTypes, OfBackendTypes, OfHistoryTypes, cache_client, ofBackend, ofHistory
  <1>5. q \in OfRequest /\ OfCarries(q)
    BY <1>1 DEF OfRequest, OfCarries, OfCallbackPcs, OfAuthorizePcs
  <1>6. OfSet(r, q)
    BY OfGotoIsSet DEF cache_client, OfTypes
  <1> HIDE DEF q
  <1> QED BY <1>3, <1>4, <1>5, <1>6, OfRequestStep DEF OfTypes

\* An authorization is parked here.
LEMMA OfTypesPark ==
    ASSUME OfTypes, NEW r \in OfRequests, NEW s \in OfStates, park_authorization(r, s)
    PROVE  OfTypes'
  <1> DEFINE q == [ofReq[r] EXCEPT !.pc = "park", !.state = s]
  <1>1. ofReq[r] \in OfRequest /\ OfCarries(ofReq[r]) /\ ofReq[r].pc = "decide"
    BY DEF OfTypes, OfRequestTypes, park_authorization
  <1>2. ofReq[r].inst \in OfInstances /\ ofReq[r].client \in OfClients /\ ofReq[r].uri \in OfUris
    BY <1>1 DEF OfCarries, OfAuthorizePcs
  <1>3. OfCacheTypes'
    BY <1>2 DEF OfTypes, OfCacheTypes, park_authorization
  <1>4. OfBackendTypes' /\ OfHistoryTypes'
    BY <1>2 DEF OfTypes, OfBackendTypes, OfHistoryTypes, park_authorization, ofBackend
  <1>5. q \in OfRequest /\ OfCarries(q)
    BY <1>1 DEF OfRequest, OfCarries, OfCallbackPcs, OfAuthorizePcs
  <1>6. OfSet(r, q)
    BY DEF park_authorization
  <1> HIDE DEF q
  <1> QED BY <1>3, <1>4, <1>5, <1>6, OfRequestStep DEF OfTypes

\* An authorization is parked in the backend.
LEMMA OfTypesStore ==
    ASSUME OfTypes, NEW r \in OfRequests, NEW ok \in BOOLEAN, store_proxied_authorization(r, ok)
    PROVE  OfTypes'
  <1>1. ofReq[r] \in OfRequest /\ OfCarries(ofReq[r]) /\ ofReq[r].pc = "park" /\ OfSet(r, OfIdle)
    BY DEF OfTypes, OfRequestTypes, store_proxied_authorization
  <1>2. ofReq[r].state \in OfStates /\ ofReq[r].uri \in OfUris
    BY <1>1 DEF OfCarries, OfAuthorizePcs
  <1>3. OfCacheTypes'
    BY DEF OfTypes, OfCacheTypes, store_proxied_authorization, ofCaches
  <1>4. OfBackendTypes'
    BY <1>2 DEF OfTypes, OfBackendTypes, store_proxied_authorization
  <1>5. OfHistoryTypes'
    BY <1>2, OfAssumption DEF OfTypes, OfHistoryTypes, store_proxied_authorization, OfFault
  <1> QED BY <1>1, <1>3, <1>4, <1>5, OfRequestStep, OfIdleOK DEF OfTypes

\* The request a callback starts.
OfStarted(i, s, a) ==
    [[OfIdle EXCEPT !.inst = i, !.kind = "callback", !.state = s, !.answer = a,
                    !.uri = ofProxied[i][s]] EXCEPT
        !.pc = IF ofProxied[i][s] = OfNone THEN "peek" ELSE "forget"]

\* It is well formed.
LEMMA OfStartedOK ==
    ASSUME OfTypes, NEW i \in OfInstances, NEW s \in OfStates, NEW a \in {"code", "error"}
    PROVE  /\ OfStarted(i, s, a) \in OfRequest /\ OfCarries(OfStarted(i, s, a))
           /\ OfStarted(i, s, a).inst = i /\ OfStarted(i, s, a).kind = "callback"
           /\ OfStarted(i, s, a).state = s /\ OfStarted(i, s, a).uri = ofProxied[i][s]
           /\ ofProxied[i][s] = OfNone => OfStarted(i, s, a).pc = "peek"
           /\ ofProxied[i][s] # OfNone => OfStarted(i, s, a).pc = "forget"
  <1>1. ofProxied[i][s] \in OfUris \cup {OfNone}
    BY DEF OfTypes, OfCacheTypes
  <1>2. CASE ofProxied[i][s] = OfNone
    BY <1>2 DEF OfStarted, OfIdle, OfRequest, OfCarries, OfLists, OfCallbackPcs, OfAuthorizePcs
  <1>3. CASE ofProxied[i][s] # OfNone
    BY <1>1, <1>3 DEF OfStarted, OfIdle, OfRequest, OfCarries, OfLists, OfCallbackPcs,
                      OfAuthorizePcs
  <1> QED BY <1>2, <1>3

\* A callback arrives.
LEMMA OfTypesCallback ==
    ASSUME OfTypes, NEW r \in OfRequests, NEW i \in OfInstances, NEW s \in OfStates,
           NEW a \in {"code", "error"}, callback_handler(r, i, s, a)
    PROVE  OfTypes'
  <1>1. OfSet(r, OfStarted(i, s, a))
    BY DEF callback_handler, OfStarted
  <1>2. OfCacheTypes'
    BY DEF OfTypes, OfCacheTypes, callback_handler
  <1>3. OfBackendTypes'
    BY DEF OfTypes, OfBackendTypes, callback_handler, ofBackend
  <1>4. OfHistoryTypes'
    BY DEF OfTypes, OfHistoryTypes, callback_handler, OfSoleAfter
  <1> QED BY <1>1, <1>2, <1>3, <1>4, OfStartedOK, OfRequestStep DEF OfTypes

\* A callback looks for what a peer parked.
LEMMA OfTypesPeek ==
    ASSUME OfTypes, NEW r \in OfRequests, NEW ok \in BOOLEAN, peek_parked(r, ok)
    PROVE  OfTypes'
  <1>1. ofReq[r] \in OfRequest /\ OfCarries(ofReq[r]) /\ ofReq[r].pc = "peek"
    BY DEF OfTypes, OfRequestTypes, peek_parked
  <1>2. ofReq[r].state \in OfStates
    BY <1>1 DEF OfCarries, OfCallbackPcs
  <1>3. PICK q : /\ OfSet(r, q)
                 /\ \/ /\ q = [ofReq[r] EXCEPT !.pc = "delete", !.uri = ofParked[ofReq[r].state]]
                       /\ ofParked[ofReq[r].state] # OfNone
                    \/ q = [ofReq[r] EXCEPT !.pc = "login"]
    BY OfGotoIsSet DEF peek_parked, OfTypes
  <1>4. ofParked[ofReq[r].state] \in OfUris \cup {OfNone}
    BY <1>2 DEF OfTypes, OfBackendTypes
  <1>5. q \in OfRequest /\ OfCarries(q)
    BY <1>1, <1>3, <1>4 DEF OfRequest, OfCarries, OfCallbackPcs, OfAuthorizePcs
  <1>6. OfCacheTypes' /\ OfBackendTypes' /\ OfHistoryTypes'
    BY OfAssumption DEF OfTypes, OfCacheTypes, OfBackendTypes, OfHistoryTypes, peek_parked,
           ofCaches, ofBackend, ofHistory, OfFault
  <1> QED BY <1>3, <1>5, <1>6, OfRequestStep DEF OfTypes

\* A callback deletes what was parked.
LEMMA OfTypesTake ==
    ASSUME OfTypes, NEW r \in OfRequests, NEW ok \in BOOLEAN, take_proxied_authorization(r, ok)
    PROVE  OfTypes'
  <1>1. ofReq[r] \in OfRequest /\ OfCarries(ofReq[r]) /\ ofReq[r].pc \in {"forget", "delete"}
    BY DEF OfTypes, OfRequestTypes, take_proxied_authorization
  <1>2. ofReq[r].state \in OfStates
    BY <1>1 DEF OfCarries, OfCallbackPcs
  <1>3. PICK pc \in {"login", "forward"} : OfSet(r, [ofReq[r] EXCEPT !.pc = pc])
    BY OfGotoIsSet DEF take_proxied_authorization, OfTypes
  <1> DEFINE q == [ofReq[r] EXCEPT !.pc = pc]
  <1>4. q \in OfRequest /\ OfCarries(q)
    BY <1>1, <1>3 DEF OfRequest, OfCarries, OfCallbackPcs, OfAuthorizePcs
  <1>5. OfCacheTypes'
    BY DEF OfTypes, OfCacheTypes, take_proxied_authorization, ofCaches
  <1>6. OfBackendTypes'
    BY <1>2 DEF OfTypes, OfBackendTypes, take_proxied_authorization
  <1>7. OfHistoryTypes'
    BY <1>2, OfAssumption DEF OfTypes, OfHistoryTypes, take_proxied_authorization, OfFault
  <1>8. OfSet(r, q)
    BY <1>3
  <1> HIDE DEF q
  <1> QED BY <1>4, <1>5, <1>6, <1>7, <1>8, OfRequestStep DEF OfTypes

\* A code is forwarded.
LEMMA OfTypesForward ==
    ASSUME OfTypes, NEW r \in OfRequests, forward_proxied_callback(r)
    PROVE  OfTypes'
  <1>1. ofReq[r] \in OfRequest /\ OfCarries(ofReq[r]) /\ ofReq[r].pc = "forward" /\ OfSet(r, OfIdle)
    BY DEF OfTypes, OfRequestTypes, forward_proxied_callback
  <1>2. ofReq[r].state \in OfStates /\ ofReq[r].uri \in OfUris
    BY <1>1 DEF OfCarries, OfCallbackPcs
  <1>3. OfCacheTypes' /\ OfBackendTypes'
    BY DEF OfTypes, OfCacheTypes, OfBackendTypes, forward_proxied_callback, ofCaches, ofBackend
  <1>4. OfHistoryTypes'
    BY <1>2 DEF OfTypes, OfHistoryTypes, forward_proxied_callback
  <1> QED BY <1>1, <1>3, <1>4, OfRequestStep, OfIdleOK DEF OfTypes

\* A callback is for the server's own login.
LEMMA OfTypesLogin ==
    ASSUME OfTypes, NEW r \in OfRequests, login_callback(r)
    PROVE  OfTypes'
  <1>1. ofReq[r] \in OfRequest /\ OfCarries(ofReq[r]) /\ ofReq[r].pc = "login"
    BY DEF OfTypes, OfRequestTypes, login_callback
  <1>2. ofReq[r].state \in OfStates /\ ofReq[r].inst \in OfInstances
    BY <1>1 DEF OfCarries, OfCallbackPcs
  <1>3. PICK q : OfSet(r, q) /\ (q = [ofReq[r] EXCEPT !.pc = "exchange"] \/ q = OfIdle)
    BY OfGotoIsSet DEF login_callback, OfTypes
  <1>4. q \in OfRequest /\ OfCarries(q)
    BY <1>1, <1>3, OfIdleOK DEF OfRequest, OfCarries, OfCallbackPcs, OfAuthorizePcs
  <1>5. OfCacheTypes'
    BY <1>2 DEF OfTypes, OfCacheTypes, login_callback
  <1>6. OfBackendTypes' /\ OfHistoryTypes'
    BY DEF OfTypes, OfBackendTypes, OfHistoryTypes, login_callback, ofBackend, ofHistory
  <1> QED BY <1>3, <1>4, <1>5, <1>6, OfRequestStep DEF OfTypes

\* The server exchanges a code.
LEMMA OfTypesExchange ==
    ASSUME OfTypes, NEW r \in OfRequests, NEW ok \in BOOLEAN, exchange_code(r, ok)
    PROVE  OfTypes'
  <1>1. ofReq[r] \in OfRequest /\ OfCarries(ofReq[r]) /\ ofReq[r].pc = "exchange" /\ OfSet(r, OfIdle)
    BY DEF OfTypes, OfRequestTypes, exchange_code
  <1>2. ofReq[r].state \in OfStates
    BY <1>1 DEF OfCarries, OfCallbackPcs
  <1>3. OfCacheTypes' /\ OfBackendTypes'
    BY DEF OfTypes, OfCacheTypes, OfBackendTypes, exchange_code, ofCaches, ofBackend
  <1>4. OfHistoryTypes'
    BY <1>2 DEF OfTypes, OfHistoryTypes, exchange_code
  <1> QED BY <1>1, <1>3, <1>4, OfRequestStep, OfIdleOK DEF OfTypes

\* A refusal, a login that starts, time and housekeeping.
LEMMA OfTypesOther ==
    ASSUME OfTypes,
           \/ \E r \in OfRequests : refuse_redirect(r)
           \/ \E r \in OfRequests, i \in OfInstances, s \in OfStates : login_handler(r, i, s)
           \/ \E s \in OfStates : OfExpire(s)
           \/ \E i \in OfInstances : OfPurge(i)
    PROVE  OfTypes'
  <1>1. ASSUME NEW r \in OfRequests, refuse_redirect(r) PROVE OfTypes'
    <2>1. OfCacheTypes' /\ OfBackendTypes' /\ OfHistoryTypes'
      BY <1>1 DEF OfTypes, OfCacheTypes, OfBackendTypes, OfHistoryTypes, refuse_redirect,
             ofCaches, ofBackend, ofHistory
    <2> QED BY <1>1, <2>1, OfRequestStep, OfIdleOK DEF OfTypes, refuse_redirect
  <1>2. ASSUME NEW r \in OfRequests, NEW i \in OfInstances, NEW s \in OfStates, login_handler(r, i, s)
        PROVE OfTypes'
    BY <1>2 DEF OfTypes, OfCacheTypes, OfBackendTypes, OfHistoryTypes, OfRequestTypes,
           login_handler, store_pending_auth, ofBackend
  <1>3. ASSUME NEW s \in OfStates, OfExpire(s) PROVE OfTypes'
    BY <1>3 DEF OfTypes, OfCacheTypes, OfBackendTypes, OfHistoryTypes, OfRequestTypes, OfExpire,
           ofCaches, ofHistory
  <1>4. ASSUME NEW i \in OfInstances, OfPurge(i) PROVE OfTypes'
    BY <1>4 DEF OfTypes, OfCacheTypes, OfBackendTypes, OfHistoryTypes, OfRequestTypes, OfPurge,
           ofBackend, ofHistory
  <1> QED BY <1>1, <1>2, <1>3, <1>4

\* Requests are dropped.
LEMMA OfDropTypes ==
    ASSUME OfTypes, NEW gone \in SUBSET OfRequests, OfDrop(gone)
    PROVE  /\ OfRequestTypes' /\ ofWrites' \in [OfClients -> 0 .. 2]
           /\ \A r \in OfRequests : ofReq'[r] = IF r \in gone THEN OfIdle ELSE ofReq[r]
           /\ \A c \in OfClients : ofWrites'[c] = ofWrites[c] \/ ofWrites'[c] = 2
           /\ \A c \in OfClients, r \in gone : OfRecording(ofReq[r], c) => ofWrites'[c] = 2
  <1>1. OfRequestTypes' /\ \A r \in OfRequests : ofReq'[r] = IF r \in gone THEN OfIdle ELSE ofReq[r]
    BY OfIdleOK DEF OfTypes, OfRequestTypes, OfDrop
  <1>2. /\ ofWrites' \in [OfClients -> 0 .. 2]
        /\ \A c \in OfClients : ofWrites'[c] = ofWrites[c] \/ ofWrites'[c] = 2
        /\ \A c \in OfClients, r \in gone : OfRecording(ofReq[r], c) => ofWrites'[c] = 2
    BY DEF OfTypes, OfHistoryTypes, OfDrop, OfRecording
  <1> QED BY <1>1, <1>2

\* A hang-up or a crash.
LEMMA OfTypesFaults ==
    ASSUME OfTypes,
           (\E r \in OfRequests : OfHangUp(r)) \/ (\E i \in OfInstances : OfCrash(i))
    PROVE  OfTypes'
  <1>1. ASSUME NEW r \in OfRequests, OfHangUp(r) PROVE OfTypes'
    <2>1. OfRequestTypes' /\ ofWrites' \in [OfClients -> 0 .. 2]
      BY <1>1, OfDropTypes DEF OfHangUp
    <2>2. OfCacheTypes' /\ OfBackendTypes'
      BY <1>1 DEF OfTypes, OfCacheTypes, OfBackendTypes, OfHangUp, ofCaches, ofBackend
    <2>3. OfHistoryTypes'
      BY <1>1, <2>1, OfAssumption DEF OfTypes, OfHistoryTypes, OfHangUp, OfFault
    <2> QED BY <2>1, <2>2, <2>3 DEF OfTypes
  <1>2. ASSUME NEW i \in OfInstances, OfCrash(i) PROVE OfTypes'
    <2>1. OfRequestTypes' /\ ofWrites' \in [OfClients -> 0 .. 2]
      BY <1>2, OfDropTypes DEF OfCrash
    <2>2. OfCacheTypes' /\ OfBackendTypes'
      BY <1>2 DEF OfTypes, OfCacheTypes, OfBackendTypes, OfCrash, OfLists, ofBackend
    <2>3. OfHistoryTypes'
      BY <1>2, <2>1, OfAssumption DEF OfTypes, OfHistoryTypes, OfCrash, OfFault
    <2> QED BY <2>1, <2>2, <2>3 DEF OfTypes
  <1> QED BY <1>1, <1>2


\* The types and what a request carries are an invariant.
LEMMA OfTypesNext ==
    ASSUME OfTypes, [OfNext]_ofVars
    PROVE  OfTypes'
  <1>1. CASE UNCHANGED ofVars
    BY <1>1 DEF OfTypes, OfCacheTypes, OfBackendTypes, OfHistoryTypes, OfRequestTypes, ofVars,
           ofCaches, ofBackend, ofHistory
  <1>2. ASSUME NEW r \in OfRequests,
               \/ \E i \in OfInstances, x \in OfRegisters : register_handler(r, i, x[1], x[2])
               \/ \E i \in OfInstances, x \in OfAsks : authorize_handler(r, i, x[1], x[2])
        PROVE  OfTypes'
    <2>1. \A x \in OfRegisters : x[1] \in OfClients /\ x[2] \in SUBSET OfUris
      BY OfAssumption
    <2>2. \A x \in OfAsks : x[1] \in OfClients /\ x[2] \in OfUris
      BY OfAssumption
    <2> QED BY <1>2, <2>1, <2>2, OfTypesRegister, OfTypesAuthorize
  <1>3. ASSUME NEW r \in OfRequests, NEW ok \in BOOLEAN,
               \/ register_client_redirects(r, ok) \/ client_redirects(r, ok)
               \/ store_proxied_authorization(r, ok) \/ peek_parked(r, ok)
               \/ take_proxied_authorization(r, ok) \/ exchange_code(r, ok)
        PROVE  OfTypes'
    BY <1>3, OfTypesRecord, OfTypesLookup, OfTypesStore, OfTypesPeek, OfTypesTake, OfTypesExchange
  <1>4. ASSUME NEW r \in OfRequests,
               \/ \E i \in OfInstances, s \in OfStates :
                      \E a \in {"code", "error"} : callback_handler(r, i, s, a)
               \/ \E s \in OfStates : park_authorization(r, s)
               \/ cache_client(r) \/ forward_proxied_callback(r) \/ login_callback(r)
        PROVE  OfTypes'
    BY <1>4, OfTypesCallback, OfTypesPark, OfTypesFill, OfTypesForward, OfTypesLogin
  <1> QED BY <1>1, <1>2, <1>3, <1>4, OfTypesOther, OfTypesFaults DEF OfNext

\* The initial state has them.
LEMMA OfTypesInit == OfInit => OfTypes
  BY OfIdleOK, OfAssumption
     DEF OfInit, OfTypes, OfCacheTypes, OfBackendTypes, OfHistoryTypes, OfRequestTypes, OfLists


-----------------------------------------------------------------------------
(* A code goes only to a URI the asking client may have it at.             *)

\* A step that changes what is asked only for fresh states, and forgets no
\* registration, owes nothing for what it leaves as it was.
LEMMA OfLegitKeep ==
    ASSUME OfTypes, OfLegitInv, ofRegistered \subseteq ofRegistered',
           \A s \in OfStates : ofAsked'[s] = ofAsked[s] \/ OfFresh(s),
           \A i \in OfInstances, c \in OfClients :
               ofClients'[i][c] = ofClients[i][c] \/ OfOwned(c, ofClients'[i][c], ofRegistered'),
           \A c \in OfClients :
               ofRegistry'[c] = ofRegistry[c] \/ OfOwned(c, ofRegistry'[c], ofRegistered'),
           \A i \in OfInstances, s \in OfStates :
               \/ ofProxied'[i][s] \in {ofProxied[i][s], OfNone}
               \/ OfLegit(s, ofProxied'[i][s], ofAsked', ofRegistered'),
           \A s \in OfStates :
               \/ ofParked'[s] \in {ofParked[s], OfNone}
               \/ OfLegit(s, ofParked'[s], ofAsked', ofRegistered'),
           \A r \in OfRequests :
               ofReq'[r] = ofReq[r] \/ OfReqLegit(ofReq'[r], ofAsked', ofRegistered'),
           \A x \in ofCodes' : x \in ofCodes \/ OfLegit(x[1], x[2], ofAsked', ofRegistered')
    PROVE  OfLegitInv'
  <1>1. \A c, uris : OfOwned(c, uris, ofRegistered) => OfOwned(c, uris, ofRegistered')
    BY DEF OfOwned
  <1>2. \A s \in OfStates : \A u :
            OfLegit(s, u, ofAsked, ofRegistered) => OfLegit(s, u, ofAsked', ofRegistered')
    BY OfAssumption DEF OfLegit, OfFresh
  <1>3. \A r \in OfRequests : OfReqLegit(ofReq[r], ofAsked, ofRegistered) =>
                              OfReqLegit(ofReq[r], ofAsked', ofRegistered')
    <2> SUFFICES ASSUME NEW r \in OfRequests, OfReqLegit(ofReq[r], ofAsked, ofRegistered)
                 PROVE  OfReqLegit(ofReq[r], ofAsked', ofRegistered')
      OBVIOUS
    <2>1. OfCarries(ofReq[r])
      BY DEF OfTypes, OfRequestTypes
    <2> QED BY <1>1, <1>2, <2>1 DEF OfReqLegit, OfCarries, OfCallbackPcs
  <1>4. \A x \in ofCodes : x[1] \in OfStates
    BY DEF OfTypes, OfHistoryTypes
  <1>5. /\ \A i \in OfInstances, c \in OfClients : OfOwned(c, ofClients'[i][c], ofRegistered')
        /\ \A c \in OfClients : OfOwned(c, ofRegistry'[c], ofRegistered')
    BY <1>1 DEF OfLegitInv
  <1>6. /\ \A i \in OfInstances, s \in OfStates : ofProxied'[i][s] # OfNone =>
               OfLegit(s, ofProxied'[i][s], ofAsked', ofRegistered')
        /\ \A s \in OfStates : ofParked'[s] # OfNone =>
               OfLegit(s, ofParked'[s], ofAsked', ofRegistered')
    BY <1>2 DEF OfLegitInv
  <1>7. \A r \in OfRequests : OfReqLegit(ofReq'[r], ofAsked', ofRegistered')
    BY <1>3 DEF OfLegitInv
  <1>8. \A x \in ofCodes' : OfLegit(x[1], x[2], ofAsked', ofRegistered')
    BY <1>2, <1>4 DEF OfLegitInv
  <1> QED BY <1>5, <1>6, <1>7, <1>8 DEF OfLegitInv

\* A request that is over, or about to ask the backend, owes nothing.
LEMMA OfIdleLegit ==
    \A asked, registered : OfReqLegit(OfIdle, asked, registered)
  BY DEF OfReqLegit, OfIdle

\* A registration: what the instance has in its cache of the client was registered too.
LEMMA OfLegitRegister ==
    ASSUME OfTypes, OfLegitInv, NEW r \in OfRequests, NEW i \in OfInstances, NEW c \in OfClients,
           NEW uris \in SUBSET OfUris, register_handler(r, i, c, uris)
    PROVE  OfLegitInv'
  <1> DEFINE merged == uris \cup (IF c \in OfCached(i) THEN ofClients[i][c] ELSE {})
             q == [OfIdle EXCEPT !.pc = "record", !.inst = i, !.kind = "register",
                                 !.client = c, !.uris = merged]
  <1>1. merged \in SUBSET OfUris
    BY DEF OfTypes, OfCacheTypes, OfCached, OfLists
  <1>2. /\ ofRegistered' = ofRegistered \cup ({c} \X uris)
        /\ OfCacheInsert(i, c, merged, TRUE) /\ OfSet(r, q)
        /\ UNCHANGED <<ofProxied, ofRegistry, ofParked, ofAsked, ofCodes>>
    BY DEF register_handler, ofBackend
  <1>3. OfOwned(c, merged, ofRegistered')
    <2>1. c \in OfCached(i) => \A u \in ofClients[i][c] : <<c, u>> \in ofRegistered
      BY DEF OfLegitInv, OfOwned, OfCached
    <2> QED BY <1>2, <2>1 DEF OfOwned
  <1>4. q.pc = "record" /\ q.client = c /\ q.uris = merged
    BY DEF OfIdle
  <1> HIDE DEF merged, q
  <1>5. \A j \in OfInstances, d \in OfClients :
            ofClients'[j][d] = ofClients[j][d] \/ OfOwned(d, ofClients'[j][d], ofRegistered')
    <2>1. \A j \in OfInstances, d \in OfClients :
              ofClients'[j][d] = ofClients[j][d] \/ (j = i /\ d = c /\ ofClients'[j][d] = merged)
      <3>1. PICK m \in SUBSET OfUris : m = merged
        BY <1>1
      <3>2. OfCacheTypes /\ OfCacheInsert(i, c, m, TRUE)
        BY <1>2, <3>1 DEF OfTypes
      <3>3. \A j \in OfInstances, d \in OfClients :
                ofClients'[j][d] = ofClients[j][d] \/ (j = i /\ d = c /\ ofClients'[j][d] = m)
        BY <3>2 DEF OfCacheTypes, OfCacheInsert
      <3> QED BY <3>1, <3>3
    <2> QED BY <1>3, <2>1
  <1>6. OfReqLegit(q, ofAsked', ofRegistered')
    BY <1>3, <1>4 DEF OfReqLegit
  <1>7. \A x \in OfRequests :
            ofReq'[x] = ofReq[x] \/ OfReqLegit(ofReq'[x], ofAsked', ofRegistered')
    BY <1>2, <1>6 DEF OfSet, OfTypes, OfRequestTypes
  <1> QED BY <1>2, <1>5, <1>7, OfLegitKeep

\* The write of a registration and the lookup of a client: both carry what was registered.
LEMMA OfLegitBackend ==
    ASSUME OfTypes, OfLegitInv, NEW r \in OfRequests, NEW ok \in BOOLEAN,
           register_client_redirects(r, ok) \/ client_redirects(r, ok)
    PROVE  OfLegitInv'
  <1>0. ofReq[r] \in OfRequest /\ OfCarries(ofReq[r]) /\ OfReqLegit(ofReq[r], ofAsked, ofRegistered)
    BY DEF OfTypes, OfRequestTypes, OfLegitInv
  <1>1. CASE register_client_redirects(r, ok)
    <2>1. OfOwned(ofReq[r].client, ofReq[r].uris, ofRegistered) /\ ofReq[r].client \in OfClients
      BY <1>0, <1>1 DEF register_client_redirects, OfReqLegit, OfCarries
    <2>2. UNCHANGED <<ofClients, ofProxied, ofParked, ofAsked, ofRegistered, ofCodes>>
          /\ OfSet(r, OfIdle)
      BY <1>1 DEF register_client_redirects, ofCaches
    <2>3. \A c \in OfClients :
              ofRegistry'[c] = ofRegistry[c] \/ OfOwned(c, ofRegistry'[c], ofRegistered')
      BY <1>1, <2>1, <2>2 DEF register_client_redirects, OfTypes, OfBackendTypes
    <2>4. \A x \in OfRequests :
              ofReq'[x] = ofReq[x] \/ OfReqLegit(ofReq'[x], ofAsked', ofRegistered')
      BY <2>2, OfIdleLegit DEF OfSet, OfTypes, OfRequestTypes
    <2> QED BY <2>2, <2>3, <2>4, OfLegitKeep
  <1>2. CASE client_redirects(r, ok)
    <2>1. PICK found : /\ found = IF ok THEN ofRegistry[ofReq[r].client] ELSE OfNone
                       /\ OfSet(r, [ofReq[r] EXCEPT !.pc = IF found = OfNone THEN "decide" ELSE "fill",
                                                    !.uris = found])
      BY <1>2 DEF client_redirects
    <2>2. OfOwned(ofReq[r].client, found, ofRegistered)
      BY <1>0, <1>2, <2>1 DEF client_redirects, OfCarries, OfAuthorizePcs, OfLegitInv, OfOwned
    <2>3. UNCHANGED <<ofClients, ofRegistry, ofProxied, ofParked, ofAsked, ofRegistered, ofCodes>>
      BY <1>2 DEF client_redirects, ofCaches, ofBackend, ofHistory
    <2> DEFINE q == [ofReq[r] EXCEPT !.pc = IF found = OfNone THEN "decide" ELSE "fill",
                                     !.uris = found]
    <2>4. q.pc \in {"decide", "fill"} /\ q.client = ofReq[r].client /\ q.uris = found
      BY <1>0 DEF OfRequest
    <2>5. OfSet(r, q)
      BY <2>1
    <2> HIDE DEF q
    <2>6. OfReqLegit(q, ofAsked', ofRegistered')
      BY <2>2, <2>3, <2>4 DEF OfReqLegit
    <2>7. \A x \in OfRequests :
              ofReq'[x] = ofReq[x] \/ OfReqLegit(ofReq'[x], ofAsked', ofRegistered')
      BY <2>5, <2>6 DEF OfSet, OfTypes, OfRequestTypes
    <2> QED BY <2>3, <2>7, OfLegitKeep
  <1> QED BY <1>1, <1>2

\* An authorization arrives, and the cache is filled: both with what was registered.
LEMMA OfLegitCache ==
    ASSUME OfTypes, OfLegitInv, NEW r \in OfRequests,
           \/ \E i \in OfInstances, c \in OfClients, u \in OfUris : authorize_handler(r, i, c, u)
           \/ cache_client(r)
    PROVE  OfLegitInv'
  <1>1. ASSUME NEW i \in OfInstances, NEW c \in OfClients, NEW u \in OfUris,
               authorize_handler(r, i, c, u)
        PROVE  OfLegitInv'
    <2> DEFINE q == [OfIdle EXCEPT !.inst = i, !.kind = "authorize", !.client = c, !.uri = u]
               n == IF c \in OfCached(i) THEN [q EXCEPT !.pc = "decide", !.uris = ofClients[i][c]]
                    ELSE [q EXCEPT !.pc = "lookup"]
    <2>1. UNCHANGED <<ofClients, ofRegistry, ofProxied, ofParked, ofAsked, ofRegistered, ofCodes>>
      BY <1>1 DEF authorize_handler, ofCaches, ofBackend, ofHistory
    <2>2. OfSet(r, n)
      BY <1>1 DEF authorize_handler
    <2>3. OfOwned(c, ofClients[i][c], ofRegistered)
      BY DEF OfLegitInv
    <2>4. \/ n.pc = "decide" /\ n.client = c /\ n.uris = ofClients[i][c]
          \/ n.pc = "lookup"
      BY DEF OfIdle
    <2> HIDE DEF q, n
    <2>5. OfReqLegit(n, ofAsked', ofRegistered')
      BY <2>1, <2>3, <2>4 DEF OfReqLegit
    <2>6. \A x \in OfRequests :
              ofReq'[x] = ofReq[x] \/ OfReqLegit(ofReq'[x], ofAsked', ofRegistered')
      BY <2>2, <2>5 DEF OfSet, OfTypes, OfRequestTypes
    <2> QED BY <2>1, <2>6, OfLegitKeep
  <1>2. CASE cache_client(r)
    <2> DEFINE q == [ofReq[r] EXCEPT !.pc = "decide"]
    <2>1. /\ ofReq[r] \in OfRequest /\ OfCarries(ofReq[r]) /\ ofReq[r].pc = "fill"
          /\ OfReqLegit(ofReq[r], ofAsked, ofRegistered)
      BY <1>2 DEF OfTypes, OfRequestTypes, cache_client, OfLegitInv
    <2>2. /\ ofReq[r].inst \in OfInstances /\ ofReq[r].client \in OfClients
          /\ ofReq[r].uris \in SUBSET OfUris
      BY <2>1 DEF OfCarries, OfAuthorizePcs
    <2>3. OfOwned(ofReq[r].client, ofReq[r].uris, ofRegistered)
      BY <2>1 DEF OfReqLegit
    <2>4. /\ UNCHANGED <<ofRegistry, ofProxied, ofParked, ofAsked, ofRegistered, ofCodes>>
          /\ OfCacheInsert(ofReq[r].inst, ofReq[r].client, ofReq[r].uris, FALSE)
      BY <1>2 DEF cache_client, ofBackend, ofHistory
    <2>5. \A j \in OfInstances, d \in OfClients :
              ofClients'[j][d] = ofClients[j][d] \/ OfOwned(d, ofClients'[j][d], ofRegistered')
      <3>1. \A j \in OfInstances, d \in OfClients :
                \/ ofClients'[j][d] = ofClients[j][d]
                \/ j = ofReq[r].inst /\ d = ofReq[r].client /\ ofClients'[j][d] = ofReq[r].uris
        BY <2>2, <2>4, OfCacheInsertTypes DEF OfTypes
      <3> QED BY <2>3, <2>4, <3>1
    <2>6. OfSet(r, q)
      BY <1>2, OfGotoIsSet DEF cache_client, OfTypes
    <2>7. q.pc = "decide" /\ q.client = ofReq[r].client /\ q.uris = ofReq[r].uris
      BY <2>1 DEF OfRequest
    <2> HIDE DEF q
    <2>8. OfReqLegit(q, ofAsked', ofRegistered')
      BY <2>3, <2>4, <2>7 DEF OfReqLegit
    <2>9. \A x \in OfRequests :
              ofReq'[x] = ofReq[x] \/ OfReqLegit(ofReq'[x], ofAsked', ofRegistered')
      BY <2>6, <2>8 DEF OfSet, OfTypes, OfRequestTypes
    <2> QED BY <2>4, <2>5, <2>9, OfLegitKeep
  <1> QED BY <1>1, <1>2

\* The check lets pass what the client registered or what is open to all, and what is
\* parked under a fresh state is the URI of the request.
LEMMA OfLegitPark ==
    ASSUME OfTypes, OfLegitInv, NEW r \in OfRequests, NEW s \in OfStates, park_authorization(r, s)
    PROVE  OfLegitInv'
  <1> DEFINE q == [ofReq[r] EXCEPT !.pc = "park", !.state = s]
  <1>1. /\ ofReq[r] \in OfRequest /\ OfCarries(ofReq[r]) /\ ofReq[r].pc = "decide"
        /\ OfReqLegit(ofReq[r], ofAsked, ofRegistered)
    BY DEF OfTypes, OfRequestTypes, park_authorization, OfLegitInv
  <1>2. ofReq[r].inst \in OfInstances /\ ofReq[r].client \in OfClients /\ ofReq[r].uri \in OfUris
    BY <1>1 DEF OfCarries, OfAuthorizePcs
  <1>3. /\ UNCHANGED <<ofClients, ofRegistry, ofParked, ofRegistered, ofCodes>>
        /\ ofAsked' = [ofAsked EXCEPT ![s] = <<ofReq[r].client, ofReq[r].uri>>]
        /\ OfFresh(s) /\ OfSet(r, q) /\ redirect_uri_allowed(ofReq[r].uri, ofReq[r].uris)
        /\ ofProxied' = [ofProxied EXCEPT ![ofReq[r].inst] = [x \in OfStates |->
               IF x = s THEN ofReq[r].uri ELSE IF x \in ofOld THEN OfNone ELSE @[x]]]
    BY DEF park_authorization, ofBackend
  <1>4. <<ofReq[r].client, ofReq[r].uri>> \in ofRegistered \/ OfOpen(ofReq[r].uri)
    <2>1. OfOwned(ofReq[r].client, ofReq[r].uris, ofRegistered)
      BY <1>1 DEF OfReqLegit
    <2>2. CASE ofReq[r].uris # OfNone /\ ofReq[r].uri \in ofReq[r].uris
      BY <2>1, <2>2 DEF OfOwned
    <2>3. CASE OfPublic = [scheme |-> ofReq[r].uri.scheme, host |-> ofReq[r].uri.host]
      BY <2>3 DEF OfOpen
    <2>4. CASE is_loopback(ofReq[r].uri) \/ ofReq[r].uri \in OfAllowlist
      BY <2>4 DEF OfOpen, is_loopback
    <2> QED BY <1>3, <2>2, <2>3, <2>4 DEF redirect_uri_allowed
  <1>5. ofAsked'[s] = <<ofReq[r].client, ofReq[r].uri>>
    BY <1>3 DEF OfTypes, OfHistoryTypes
  <1>6. OfLegit(s, ofReq[r].uri, ofAsked', ofRegistered')
    BY <1>2, <1>3, <1>4, <1>5 DEF OfLegit
  <1>7. \A i \in OfInstances, x \in OfStates :
            \/ ofProxied'[i][x] \in {ofProxied[i][x], OfNone}
            \/ OfLegit(x, ofProxied'[i][x], ofAsked', ofRegistered')
    BY <1>2, <1>3, <1>6 DEF OfTypes, OfCacheTypes
  <1>8. \A x \in OfStates : ofAsked'[x] = ofAsked[x] \/ OfFresh(x)
    BY <1>3 DEF OfTypes, OfHistoryTypes
  <1>9. q.pc = "park" /\ q.state = s /\ q.uri = ofReq[r].uri
    BY <1>1 DEF OfRequest
  <1> HIDE DEF q
  <1>10. OfReqLegit(q, ofAsked', ofRegistered')
    BY <1>6, <1>9 DEF OfReqLegit
  <1>11. \A x \in OfRequests :
             ofReq'[x] = ofReq[x] \/ OfReqLegit(ofReq'[x], ofAsked', ofRegistered')
    BY <1>3, <1>10 DEF OfSet, OfTypes, OfRequestTypes
  <1> QED BY <1>3, <1>7, <1>8, <1>11, OfLegitKeep


\* A parked URI reaches the backend, and a peer reads it there.
LEMMA OfLegitParked ==
    ASSUME OfTypes, OfLegitInv, NEW r \in OfRequests, NEW ok \in BOOLEAN,
           store_proxied_authorization(r, ok) \/ peek_parked(r, ok)
    PROVE  OfLegitInv'
  <1>0. ofReq[r] \in OfRequest /\ OfCarries(ofReq[r]) /\ OfReqLegit(ofReq[r], ofAsked, ofRegistered)
    BY DEF OfTypes, OfRequestTypes, OfLegitInv
  <1>1. CASE store_proxied_authorization(r, ok)
    <2>1. OfLegit(ofReq[r].state, ofReq[r].uri, ofAsked, ofRegistered)
      BY <1>0, <1>1 DEF store_proxied_authorization, OfReqLegit
    <2>2. UNCHANGED <<ofClients, ofProxied, ofRegistry, ofAsked, ofRegistered, ofCodes>>
          /\ OfSet(r, OfIdle)
      BY <1>1 DEF store_proxied_authorization, ofCaches
    <2>3. \A s \in OfStates : \/ ofParked'[s] \in {ofParked[s], OfNone}
                              \/ OfLegit(s, ofParked'[s], ofAsked', ofRegistered')
      <3>1. \A s \in OfStates :
                ofParked'[s] = ofParked[s] \/ (s = ofReq[r].state /\ ofParked'[s] = ofReq[r].uri)
        BY <1>1 DEF store_proxied_authorization, OfTypes, OfBackendTypes
      <3> QED BY <2>1, <2>2, <3>1
    <2>4. \A x \in OfRequests :
              ofReq'[x] = ofReq[x] \/ OfReqLegit(ofReq'[x], ofAsked', ofRegistered')
      BY <2>2, OfIdleLegit DEF OfSet, OfTypes, OfRequestTypes
    <2> QED BY <2>2, <2>3, <2>4, OfLegitKeep
  <1>2. CASE peek_parked(r, ok)
    <2>1. PICK q : /\ OfSet(r, q)
                   /\ \/ /\ q = [ofReq[r] EXCEPT !.pc = "delete", !.uri = ofParked[ofReq[r].state]]
                         /\ ofParked[ofReq[r].state] # OfNone
                      \/ q = [ofReq[r] EXCEPT !.pc = "login"]
      BY <1>2, OfGotoIsSet DEF peek_parked, OfTypes
    <2>2. ofReq[r].state \in OfStates
      BY <1>0, <1>2 DEF peek_parked, OfCarries, OfCallbackPcs
    <2>3. UNCHANGED <<ofClients, ofRegistry, ofProxied, ofParked, ofAsked, ofRegistered, ofCodes>>
      BY <1>2 DEF peek_parked, ofCaches, ofBackend, ofHistory
    <2>4. ofParked[ofReq[r].state] # OfNone =>
              OfLegit(ofReq[r].state, ofParked[ofReq[r].state], ofAsked, ofRegistered)
      BY <2>2 DEF OfLegitInv
    <2>5. \/ /\ q.pc = "delete" /\ q.state = ofReq[r].state /\ q.uri = ofParked[ofReq[r].state]
             /\ ofParked[ofReq[r].state] # OfNone
          \/ q.pc = "login"
      BY <1>0, <2>1 DEF OfRequest
    <2>6. OfReqLegit(q, ofAsked', ofRegistered')
      BY <2>3, <2>4, <2>5 DEF OfReqLegit
    <2>7. \A x \in OfRequests :
              ofReq'[x] = ofReq[x] \/ OfReqLegit(ofReq'[x], ofAsked', ofRegistered')
      BY <2>1, <2>6 DEF OfSet, OfTypes, OfRequestTypes
    <2> QED BY <2>3, <2>7, OfLegitKeep
  <1> QED BY <1>1, <1>2

\* A callback takes a parked URI from this instance.
LEMMA OfLegitCallback ==
    ASSUME OfTypes, OfLegitInv, NEW r \in OfRequests, NEW i \in OfInstances, NEW s \in OfStates,
           NEW a \in {"code", "error"}, callback_handler(r, i, s, a)
    PROVE  OfLegitInv'
  <1>1. OfSet(r, OfStarted(i, s, a))
    BY DEF callback_handler, OfStarted
  <1>2. /\ UNCHANGED <<ofClients, ofRegistry, ofParked, ofAsked, ofRegistered, ofCodes>>
        /\ ofProxied' = [ofProxied EXCEPT ![i][s] = OfNone]
    BY DEF callback_handler, ofBackend
  <1>3. ofProxied[i][s] # OfNone => OfLegit(s, ofProxied[i][s], ofAsked, ofRegistered)
    BY DEF OfLegitInv
  <1>4. OfReqLegit(OfStarted(i, s, a), ofAsked', ofRegistered')
    BY <1>2, <1>3, OfStartedOK DEF OfReqLegit
  <1>5. \A x \in OfRequests :
            ofReq'[x] = ofReq[x] \/ OfReqLegit(ofReq'[x], ofAsked', ofRegistered')
    BY <1>1, <1>4 DEF OfSet, OfTypes, OfRequestTypes
  <1>6. \A j \in OfInstances, x \in OfStates : ofProxied'[j][x] \in {ofProxied[j][x], OfNone}
    BY <1>2 DEF OfTypes, OfCacheTypes
  <1> QED BY <1>2, <1>5, <1>6, OfLegitKeep

\* A callback goes on with the URI it took, and forwards the code there.
LEMMA OfLegitForward ==
    ASSUME OfTypes, OfLegitInv, NEW r \in OfRequests,
           \/ \E ok \in BOOLEAN : take_proxied_authorization(r, ok)
           \/ forward_proxied_callback(r)
    PROVE  OfLegitInv'
  <1>0. ofReq[r] \in OfRequest /\ OfCarries(ofReq[r]) /\ OfReqLegit(ofReq[r], ofAsked, ofRegistered)
    BY DEF OfTypes, OfRequestTypes, OfLegitInv
  <1>1. ASSUME NEW ok \in BOOLEAN, take_proxied_authorization(r, ok) PROVE OfLegitInv'
    <2>1. PICK pc \in {"login", "forward"} : OfSet(r, [ofReq[r] EXCEPT !.pc = pc])
      BY <1>1, OfGotoIsSet DEF take_proxied_authorization, OfTypes
    <2> DEFINE q == [ofReq[r] EXCEPT !.pc = pc]
    <2>2. /\ UNCHANGED <<ofClients, ofRegistry, ofProxied, ofAsked, ofRegistered, ofCodes>>
          /\ OfLegit(ofReq[r].state, ofReq[r].uri, ofAsked, ofRegistered)
      BY <1>0, <1>1 DEF take_proxied_authorization, ofCaches, OfReqLegit
    <2>3. OfSet(r, q) /\ q.pc = pc /\ q.state = ofReq[r].state /\ q.uri = ofReq[r].uri
      BY <1>0, <2>1 DEF OfRequest
    <2> HIDE DEF q
    <2>4. OfReqLegit(q, ofAsked', ofRegistered')
      BY <2>2, <2>3 DEF OfReqLegit
    <2>5. \A x \in OfRequests :
              ofReq'[x] = ofReq[x] \/ OfReqLegit(ofReq'[x], ofAsked', ofRegistered')
      BY <2>3, <2>4 DEF OfSet, OfTypes, OfRequestTypes
    <2>6. \A x \in OfStates : ofParked'[x] \in {ofParked[x], OfNone}
      BY <1>1 DEF take_proxied_authorization, OfTypes, OfBackendTypes
    <2> QED BY <2>2, <2>5, <2>6, OfLegitKeep
  <1>2. CASE forward_proxied_callback(r)
    <2>1. OfLegit(ofReq[r].state, ofReq[r].uri, ofAsked, ofRegistered)
      BY <1>0, <1>2 DEF forward_proxied_callback, OfReqLegit
    <2>2. /\ UNCHANGED <<ofClients, ofRegistry, ofProxied, ofParked, ofAsked, ofRegistered>>
          /\ OfSet(r, OfIdle)
      BY <1>2 DEF forward_proxied_callback, ofCaches, ofBackend
    <2>3. \A x \in ofCodes' : x \in ofCodes \/ OfLegit(x[1], x[2], ofAsked', ofRegistered')
      <3>1. \A x \in ofCodes' : x \in ofCodes \/ (x[1] = ofReq[r].state /\ x[2] = ofReq[r].uri)
        BY <1>2 DEF forward_proxied_callback
      <3> QED BY <2>1, <2>2, <3>1
    <2>4. \A x \in OfRequests :
              ofReq'[x] = ofReq[x] \/ OfReqLegit(ofReq'[x], ofAsked', ofRegistered')
      BY <2>2, OfIdleLegit DEF OfSet, OfTypes, OfRequestTypes
    <2> QED BY <2>2, <2>3, <2>4, OfLegitKeep
  <1> QED BY <1>1, <1>2

\* The server's own login uses states of its own and no redirect_uri.
LEMMA OfLegitLogin ==
    ASSUME OfTypes, OfLegitInv, NEW r \in OfRequests,
           \/ \E i \in OfInstances, s \in OfStates : login_handler(r, i, s)
           \/ login_callback(r) \/ \E ok \in BOOLEAN : exchange_code(r, ok)
    PROVE  OfLegitInv'
  <1>1. ASSUME NEW i \in OfInstances, NEW s \in OfStates, login_handler(r, i, s) PROVE OfLegitInv'
    <2>1. UNCHANGED <<ofClients, ofRegistry, ofProxied, ofParked, ofReq, ofRegistered, ofCodes>>
      BY <1>1 DEF login_handler, ofBackend
    <2>2. \A x \in OfStates : ofAsked'[x] = ofAsked[x] \/ OfFresh(x)
      BY <1>1 DEF login_handler, OfTypes, OfHistoryTypes
    <2> QED BY <2>1, <2>2, OfLegitKeep
  <1>2. ASSUME login_callback(r) \/ \E ok \in BOOLEAN : exchange_code(r, ok) PROVE OfLegitInv'
    <2>1. UNCHANGED <<ofClients, ofRegistry, ofProxied, ofParked, ofAsked, ofRegistered, ofCodes>>
      BY <1>2 DEF login_callback, exchange_code, ofCaches, ofBackend, ofHistory
    <2>2. PICK q : OfSet(r, q) /\ (q = [ofReq[r] EXCEPT !.pc = "exchange"] \/ q = OfIdle)
      BY <1>2, OfGotoIsSet DEF login_callback, exchange_code, OfTypes
    <2>3. ofReq[r] \in OfRequest
      BY DEF OfTypes, OfRequestTypes
    <2>4. q.pc \in {"exchange", "idle"}
      BY <2>2, <2>3 DEF OfRequest, OfIdle
    <2>5. OfReqLegit(q, ofAsked', ofRegistered')
      BY <2>4 DEF OfReqLegit
    <2>6. \A x \in OfRequests :
              ofReq'[x] = ofReq[x] \/ OfReqLegit(ofReq'[x], ofAsked', ofRegistered')
      BY <2>2, <2>5 DEF OfSet, OfTypes, OfRequestTypes
    <2> QED BY <2>1, <2>6, OfLegitKeep
  <1> QED BY <1>1, <1>2

\* A refusal, time, housekeeping and faults only drop things.
LEMMA OfLegitDrops ==
    ASSUME OfTypes, OfLegitInv,
           \/ \E r \in OfRequests : refuse_redirect(r) \/ OfHangUp(r)
           \/ \E s \in OfStates : OfExpire(s)
           \/ \E i \in OfInstances : OfPurge(i) \/ OfCrash(i)
    PROVE  OfLegitInv'
  <1>1. ASSUME NEW r \in OfRequests, refuse_redirect(r) \/ OfHangUp(r) PROVE OfLegitInv'
    <2>1. UNCHANGED <<ofClients, ofRegistry, ofProxied, ofParked, ofAsked, ofRegistered, ofCodes>>
      BY <1>1 DEF refuse_redirect, OfHangUp, ofCaches, ofBackend, ofHistory
    <2>2. \A x \in OfRequests : ofReq'[x] = ofReq[x] \/ ofReq'[x] = OfIdle
      BY <1>1, OfDropTypes DEF refuse_redirect, OfHangUp, OfSet, OfTypes, OfRequestTypes
    <2> QED BY <2>1, <2>2, OfIdleLegit, OfLegitKeep
  <1>2. ASSUME NEW s \in OfStates, OfExpire(s) PROVE OfLegitInv'
    <2>1. UNCHANGED <<ofClients, ofRegistry, ofProxied, ofReq, ofAsked, ofRegistered, ofCodes>>
      BY <1>2 DEF OfExpire, ofCaches, ofHistory
    <2>2. \A x \in OfStates : ofParked'[x] \in {ofParked[x], OfNone}
      BY <1>2 DEF OfExpire, OfTypes, OfBackendTypes
    <2> QED BY <2>1, <2>2, OfLegitKeep
  <1>3. ASSUME NEW i \in OfInstances, OfPurge(i) PROVE OfLegitInv'
    <2>1. UNCHANGED <<ofClients, ofRegistry, ofParked, ofReq, ofAsked, ofRegistered, ofCodes>>
      BY <1>3 DEF OfPurge, ofBackend, ofHistory
    <2>2. \A j \in OfInstances, x \in OfStates : ofProxied'[j][x] \in {ofProxied[j][x], OfNone}
      BY <1>3 DEF OfPurge, OfTypes, OfCacheTypes
    <2> QED BY <2>1, <2>2, OfLegitKeep
  <1>4. ASSUME NEW i \in OfInstances, OfCrash(i) PROVE OfLegitInv'
    <2>1. UNCHANGED <<ofRegistry, ofParked, ofAsked, ofRegistered, ofCodes>>
      BY <1>4 DEF OfCrash, ofBackend
    <2>2. \A x \in OfRequests : ofReq'[x] = ofReq[x] \/ ofReq'[x] = OfIdle
      BY <1>4, OfDropTypes DEF OfCrash
    <2>3. /\ \A j \in OfInstances, x \in OfStates : ofProxied'[j][x] \in {ofProxied[j][x], OfNone}
          /\ \A j \in OfInstances, c \in OfClients : ofClients'[j][c] \in {ofClients[j][c], OfNone}
      BY <1>4 DEF OfCrash, OfTypes, OfCacheTypes
    <2>4. \A c, registered : OfOwned(c, OfNone, registered)
      BY DEF OfOwned
    <2> QED BY <2>1, <2>2, <2>3, <2>4, OfIdleLegit, OfLegitKeep
  <1> QED BY <1>1, <1>2, <1>3, <1>4

\* OfLegitInv is inductive.
LEMMA OfLegitNext ==
    ASSUME OfTypes, OfLegitInv, [OfNext]_ofVars
    PROVE  OfLegitInv'
  <1>1. CASE UNCHANGED ofVars
    BY <1>1 DEF OfLegitInv, ofVars, ofCaches, ofBackend, ofHistory
  <1>2. ASSUME NEW r \in OfRequests,
               \/ \E i \in OfInstances, x \in OfRegisters : register_handler(r, i, x[1], x[2])
               \/ \E i \in OfInstances, x \in OfAsks : authorize_handler(r, i, x[1], x[2])
        PROVE  OfLegitInv'
    <2>1. \A x \in OfRegisters : x[1] \in OfClients /\ x[2] \in SUBSET OfUris
      BY OfAssumption
    <2>2. \A x \in OfAsks : x[1] \in OfClients /\ x[2] \in OfUris
      BY OfAssumption
    <2> QED BY <1>2, <2>1, <2>2, OfLegitRegister, OfLegitCache
  <1>3. ASSUME NEW r \in OfRequests, NEW ok \in BOOLEAN,
               \/ register_client_redirects(r, ok) \/ client_redirects(r, ok)
               \/ store_proxied_authorization(r, ok) \/ peek_parked(r, ok)
               \/ take_proxied_authorization(r, ok) \/ exchange_code(r, ok)
        PROVE  OfLegitInv'
    BY <1>3, OfLegitBackend, OfLegitParked, OfLegitForward, OfLegitLogin
  <1>4. ASSUME NEW r \in OfRequests,
               \/ \E i \in OfInstances, s \in OfStates :
                      \/ login_handler(r, i, s)
                      \/ \E a \in {"code", "error"} : callback_handler(r, i, s, a)
               \/ \E s \in OfStates : park_authorization(r, s)
               \/ cache_client(r) \/ forward_proxied_callback(r) \/ login_callback(r)
        PROVE  OfLegitInv'
    BY <1>4, OfLegitCallback, OfLegitPark, OfLegitCache, OfLegitForward, OfLegitLogin
  <1> QED BY <1>1, <1>2, <1>3, <1>4, OfLegitDrops DEF OfNext

\* Theorem: in every reachable state a code has gone only to the redirect_uri of the
\* authorization it answers, which the asking client had registered or which is open to
\* all (redirect.rs redirect_uri_allowed, store.rs take_proxied_authorization), whatever
\* instance parked it, whatever instance served the callback and whatever failed.
THEOREM CodesOnlyWhereAllowed == OfSpec => []CodeOnlyToAllowed
  <1>1. OfInit => OfTypes /\ OfLegitInv
    <2> SUFFICES ASSUME OfInit PROVE OfLegitInv
      BY OfTypesInit
    <2> QED BY OfIdleLegit DEF OfInit, OfLegitInv, OfOwned
  <1>2. OfTypes /\ OfLegitInv /\ [OfNext]_ofVars => (OfTypes /\ OfLegitInv)'
    BY OfTypesNext, OfLegitNext
  <1>3. OfLegitInv => CodeOnlyToAllowed
    BY DEF OfLegitInv, CodeOnlyToAllowed, OfLegit
  <1> QED BY <1>1, <1>2, <1>3, PTL DEF OfSpec


-----------------------------------------------------------------------------
(* A client that registered once is known everywhere.                      *)

\* A step that registers nothing and copies nothing: a request that was to write a
\* registration and goes counts for its client.
LEMMA OfKnownKeep ==
    ASSUME OfTypes, OfKnownInv, UNCHANGED <<ofRegistered, ofRegistry>>,
           \A c \in OfClients : ofWrites'[c] = ofWrites[c] \/ ofWrites'[c] = 2,
           \A i \in OfInstances, c \in OfClients : ofClients'[i][c] \in {ofClients[i][c], OfNone},
           \A r \in OfRequests :
               \/ ofReq'[r] = ofReq[r]
               \/ /\ ofReq'[r].pc \notin {"record", "fill"}
                  /\ \A c \in OfClients : OfRecording(ofReq[r], c) => ofWrites'[c] = 2
    PROVE  OfKnownInv'
  <1> SUFFICES ASSUME NEW c \in OfClients
               PROVE  (ofWrites[c] = 0 => OfUnknown(c))' /\ (ofWrites[c] = 1 => OfKnown(c))'
    BY DEF OfKnownInv
  <1>1. ASSUME ofWrites'[c] = 0 PROVE OfUnknown(c)'
    <2>1. OfUnknown(c)
      BY <1>1 DEF OfKnownInv
    <2> QED BY <2>1 DEF OfUnknown
  <1>2. ASSUME ofWrites'[c] = 1 PROVE OfKnown(c)'
    <2>1. OfKnown(c)
      BY <1>2 DEF OfKnownInv
    <2>2. /\ \A i \in OfInstances : ofClients'[i][c] # OfNone =>
                 OfComplete(c, ofClients'[i][c], ofRegistered')
          /\ ofRegistry'[c] # OfNone => OfComplete(c, ofRegistry'[c], ofRegistered')
      BY <2>1 DEF OfKnown
    <2>3. \A r \in OfRequests : ofReq'[r].pc \in {"record", "fill"} /\ ofReq'[r].client = c =>
              OfComplete(c, ofReq'[r].uris, ofRegistered')
      BY <2>1 DEF OfKnown
    <2>4. ofRegistry'[c] # OfNone \/ \E r \in OfRequests : OfRecording(ofReq'[r], c)
      BY <1>2, <2>1 DEF OfKnown, OfRecording
    <2> QED BY <2>2, <2>3, <2>4 DEF OfKnown
  <1> QED BY <1>1, <1>2

\* A first registration makes complete copies; a second one is counted.
LEMMA OfKnownRegister ==
    ASSUME OfTypes, OfKnownInv, NEW r \in OfRequests, NEW i \in OfInstances, NEW c \in OfClients,
           NEW uris \in SUBSET OfUris, register_handler(r, i, c, uris)
    PROVE  OfKnownInv'
  <1> DEFINE merged == uris \cup (IF c \in OfCached(i) THEN ofClients[i][c] ELSE {})
             q == [OfIdle EXCEPT !.pc = "record", !.inst = i, !.kind = "register",
                                 !.client = c, !.uris = merged]
  <1>1. /\ ofRegistered' = ofRegistered \cup ({c} \X uris)
        /\ OfCacheInsert(i, c, merged, TRUE) /\ OfSet(r, q) /\ UNCHANGED ofRegistry
        /\ ofWrites' = [ofWrites EXCEPT ![c] = IF @ = 2 THEN 2 ELSE @ + 1]
        /\ ofReq[r].pc = "idle"
    BY DEF register_handler, ofBackend, OfArrive
  <1>2. \A j \in OfInstances, d \in OfClients :
            ofClients'[j][d] = ofClients[j][d] \/ (d = c /\ ofClients'[j][d] = merged)
    <2> HIDE DEF merged
    <2> QED BY <1>1 DEF OfTypes, OfCacheTypes, OfCacheInsert
  <1>3. q.pc = "record" /\ q.client = c /\ q.uris = merged
    BY DEF OfIdle
  <1>4. ofReq'[r] = q /\ \A x \in OfRequests \ {r} : ofReq'[x] = ofReq[x]
    BY <1>1 DEF OfSet, OfTypes, OfRequestTypes
  <1>5. /\ ofWrites'[c] = IF ofWrites[c] = 2 THEN 2 ELSE ofWrites[c] + 1
        /\ \A d \in OfClients \ {c} : ofWrites'[d] = ofWrites[d]
        /\ ofWrites[c] \in 0 .. 2
    BY <1>1 DEF OfTypes, OfHistoryTypes
  <1>6. \A d \in OfClients \ {c} : \A u :
            <<d, u>> \in ofRegistered' <=> <<d, u>> \in ofRegistered
    BY <1>1
  <1> HIDE DEF q
  <1>7. ASSUME NEW d \in OfClients \ {c}
        PROVE  (ofWrites[d] = 0 => OfUnknown(d))' /\ (ofWrites[d] = 1 => OfKnown(d))'
    <2> HIDE DEF merged
    <2>1. (ofWrites[d] = 0 => OfUnknown(d)) /\ (ofWrites[d] = 1 => OfKnown(d))
      BY DEF OfKnownInv
    <2>2. OfUnknown(d) => OfUnknown(d)'
      BY <1>1, <1>2, <1>3, <1>4, <1>6 DEF OfUnknown
    <2>3. \A l : OfComplete(d, l, ofRegistered) => OfComplete(d, l, ofRegistered')
      BY <1>6 DEF OfComplete
    <2>4. OfKnown(d) => OfKnown(d)'
      <3> SUFFICES ASSUME OfKnown(d) PROVE OfKnown(d)'
        OBVIOUS
      <3>1. /\ \A j \in OfInstances : ofClients'[j][d] # OfNone =>
                   OfComplete(d, ofClients'[j][d], ofRegistered')
            /\ ofRegistry'[d] # OfNone => OfComplete(d, ofRegistry'[d], ofRegistered')
        BY <1>1, <1>2, <2>3 DEF OfKnown
      <3>2. \A x \in OfRequests : ofReq'[x].pc \in {"record", "fill"} /\ ofReq'[x].client = d =>
                OfComplete(d, ofReq'[x].uris, ofRegistered')
        BY <1>3, <1>4, <2>3 DEF OfKnown
      <3>3. ofRegistry'[d] # OfNone \/ \E x \in OfRequests : OfRecording(ofReq'[x], d)
        BY <1>1, <1>3, <1>4 DEF OfKnown, OfRecording
      <3> QED BY <3>1, <3>2, <3>3 DEF OfKnown
    <2> QED BY <1>5, <2>1, <2>2, <2>4
  <1>8. (ofWrites[c] = 0 => OfUnknown(c))' /\ (ofWrites[c] = 1 => OfKnown(c))'
    <2>1. ofWrites'[c] # 0
      BY <1>5
    <2>2. ASSUME ofWrites'[c] = 1 PROVE OfKnown(c)'
      <3>1. OfUnknown(c)
        BY <1>5, <2>2 DEF OfKnownInv
      <3>2. merged = uris
        BY <3>1 DEF OfUnknown, OfCached
      <3>3. OfComplete(c, uris, ofRegistered')
        BY <1>1, <3>1 DEF OfUnknown, OfComplete
      <3> HIDE DEF merged
      <3>4. \A j \in OfInstances : ofClients'[j][c] # OfNone =>
                OfComplete(c, ofClients'[j][c], ofRegistered')
        BY <1>2, <3>1, <3>2, <3>3 DEF OfUnknown
      <3>5. \A x \in OfRequests : ofReq'[x].pc \in {"record", "fill"} /\ ofReq'[x].client = c =>
                OfComplete(c, ofReq'[x].uris, ofRegistered')
        BY <1>3, <1>4, <3>1, <3>2, <3>3 DEF OfUnknown
      <3>6. ofRegistry'[c] = OfNone /\ OfRecording(ofReq'[r], c)
        BY <1>1, <1>3, <1>4, <3>1 DEF OfUnknown, OfRecording
      <3> QED BY <3>4, <3>5, <3>6 DEF OfKnown
    <2> QED BY <2>1, <2>2
  <1> QED BY <1>7, <1>8 DEF OfKnownInv

\* The list a request writes is complete; a write that fails is counted.
LEMMA OfKnownRecord ==
    ASSUME OfTypes, OfKnownInv, NEW r \in OfRequests, NEW ok \in BOOLEAN,
           register_client_redirects(r, ok)
    PROVE  OfKnownInv'
  <1>1. /\ ofReq[r].pc = "record" /\ ofReq[r].client \in OfClients /\ ofReq[r].uris \in SUBSET OfUris
        /\ UNCHANGED <<ofClients, ofRegistered>>
    BY DEF register_client_redirects, OfTypes, OfRequestTypes, OfCarries, ofCaches
  <1>2. OfIdle.pc = "idle" /\ ofReq'[r] = OfIdle /\ \A x \in OfRequests \ {r} : ofReq'[x] = ofReq[x]
    BY DEF register_client_redirects, OfSet, OfTypes, OfRequestTypes, OfIdle
  <1>3. CASE ~ok
    <2>1. UNCHANGED ofRegistry /\ ofWrites' = [ofWrites EXCEPT ![ofReq[r].client] = 2]
      BY <1>3 DEF register_client_redirects
    <2>2. ofWrites'[ofReq[r].client] = 2 /\ \A c \in OfClients : ofWrites'[c] \in {ofWrites[c], 2}
      BY <1>1, <2>1 DEF OfTypes, OfHistoryTypes
    <2> QED BY <1>1, <1>2, <2>1, <2>2, OfKnownKeep DEF OfRecording
  <1>4. CASE ok
    <2>1. UNCHANGED ofWrites /\ ofRegistry' = [ofRegistry EXCEPT ![ofReq[r].client] = ofReq[r].uris]
      BY <1>4 DEF register_client_redirects
    <2>2. /\ ofRegistry'[ofReq[r].client] = ofReq[r].uris
          /\ \A c \in OfClients : c # ofReq[r].client => ofRegistry'[c] = ofRegistry[c]
          /\ ofReq[r].uris # OfNone
      BY <1>1, <2>1, OfAssumption DEF OfTypes, OfBackendTypes
    <2>3. ASSUME NEW c \in OfClients
          PROVE  (ofWrites[c] = 0 => OfUnknown(c))' /\ (ofWrites[c] = 1 => OfKnown(c))'
      <3>1. ASSUME ofWrites'[c] = 0 PROVE OfUnknown(c)'
        <4>1. OfUnknown(c)
          BY <2>1, <3>1 DEF OfKnownInv
        <4> QED BY <1>1, <1>2, <2>2, <4>1 DEF OfUnknown
      <3>2. ASSUME ofWrites'[c] = 1 PROVE OfKnown(c)'
        <4>1. OfKnown(c)
          BY <2>1, <3>2 DEF OfKnownInv
        <4>2. \A i \in OfInstances : ofClients'[i][c] # OfNone =>
                  OfComplete(c, ofClients'[i][c], ofRegistered')
          BY <1>1, <4>1 DEF OfKnown
        <4>3. ofRegistry'[c] # OfNone => OfComplete(c, ofRegistry'[c], ofRegistered')
          BY <1>1, <2>2, <4>1 DEF OfKnown
        <4>4. \A x \in OfRequests : ofReq'[x].pc \in {"record", "fill"} /\ ofReq'[x].client = c =>
                  OfComplete(c, ofReq'[x].uris, ofRegistered')
          BY <1>1, <1>2, <4>1 DEF OfKnown
        <4>5. ofRegistry'[c] # OfNone \/ \E x \in OfRequests : OfRecording(ofReq'[x], c)
          BY <1>1, <1>2, <2>2, <4>1 DEF OfKnown, OfRecording
        <4> QED BY <4>2, <4>3, <4>4, <4>5 DEF OfKnown
      <3> QED BY <3>1, <3>2
    <2> QED BY <2>3 DEF OfKnownInv
  <1> QED BY <1>3, <1>4

\* A list read from the backend is as complete as the backend's.
LEMMA OfKnownLookup ==
    ASSUME OfTypes, OfKnownInv, NEW r \in OfRequests, NEW ok \in BOOLEAN, client_redirects(r, ok)
    PROVE  OfKnownInv'
  <1>1. PICK found : /\ found = IF ok THEN ofRegistry[ofReq[r].client] ELSE OfNone
                     /\ OfSet(r, [ofReq[r] EXCEPT !.pc = IF found = OfNone THEN "decide" ELSE "fill",
                                                  !.uris = found])
    BY DEF client_redirects
  <1> DEFINE q == [ofReq[r] EXCEPT !.pc = IF found = OfNone THEN "decide" ELSE "fill", !.uris = found]
  <1>2. /\ ofReq[r] \in OfRequest /\ ofReq[r].pc = "lookup" /\ OfSet(r, q)
        /\ UNCHANGED <<ofClients, ofRegistry, ofRegistered, ofWrites>>
    BY <1>1 DEF client_redirects, OfTypes, OfRequestTypes, ofCaches, ofBackend, ofHistory
  <1>3. /\ q.pc = "decide" \/ (q.pc = "fill" /\ found # OfNone)
        /\ q.client = ofReq[r].client /\ q.uris = found
    BY <1>2 DEF OfRequest
  <1> HIDE DEF q
  <1>4. ofReq'[r] = q /\ \A x \in OfRequests \ {r} : ofReq'[x] = ofReq[x]
    BY <1>2 DEF OfSet, OfTypes, OfRequestTypes
  <1>5. ASSUME NEW c \in OfClients
        PROVE  (ofWrites[c] = 0 => OfUnknown(c))' /\ (ofWrites[c] = 1 => OfKnown(c))'
    <2>1. ASSUME ofWrites'[c] = 0 PROVE OfUnknown(c)'
      <3>1. OfUnknown(c)
        BY <1>2, <2>1 DEF OfKnownInv
      <3> QED BY <1>1, <1>2, <1>3, <1>4, <3>1 DEF OfUnknown
    <2>2. ASSUME ofWrites'[c] = 1 PROVE OfKnown(c)'
      <3>1. OfKnown(c)
        BY <1>2, <2>2 DEF OfKnownInv
      <3>2. /\ \A i \in OfInstances : ofClients'[i][c] # OfNone =>
                   OfComplete(c, ofClients'[i][c], ofRegistered')
            /\ ofRegistry'[c] # OfNone => OfComplete(c, ofRegistry'[c], ofRegistered')
        BY <1>2, <3>1 DEF OfKnown
      <3>3. \A x \in OfRequests : ofReq'[x].pc \in {"record", "fill"} /\ ofReq'[x].client = c =>
                OfComplete(c, ofReq'[x].uris, ofRegistered')
        BY <1>1, <1>2, <1>3, <1>4, <3>1 DEF OfKnown
      <3>4. ofRegistry'[c] # OfNone \/ \E x \in OfRequests : OfRecording(ofReq'[x], c)
        BY <1>2, <1>4, <3>1 DEF OfKnown, OfRecording
      <3> QED BY <3>2, <3>3, <3>4 DEF OfKnown
    <2> QED BY <2>1, <2>2
  <1> QED BY <1>5 DEF OfKnownInv

\* What is cached is as complete as what was read.
LEMMA OfKnownFill ==
    ASSUME OfTypes, OfKnownInv, NEW r \in OfRequests, cache_client(r)
    PROVE  OfKnownInv'
  <1> DEFINE q == [ofReq[r] EXCEPT !.pc = "decide"]
  <1>1. /\ ofReq[r] \in OfRequest /\ OfCarries(ofReq[r]) /\ ofReq[r].pc = "fill"
        /\ UNCHANGED <<ofRegistry, ofRegistered, ofWrites>>
    BY DEF OfTypes, OfRequestTypes, cache_client, ofBackend, ofHistory
  <1>2. /\ ofReq[r].inst \in OfInstances /\ ofReq[r].client \in OfClients
        /\ ofReq[r].uris \in SUBSET OfUris
    BY <1>1 DEF OfCarries, OfAuthorizePcs
  <1>3. \A j \in OfInstances, d \in OfClients :
            \/ ofClients'[j][d] = ofClients[j][d]
            \/ d = ofReq[r].client /\ ofClients'[j][d] = ofReq[r].uris
    BY <1>2 DEF OfTypes, OfCacheTypes, OfCacheInsert, cache_client
  <1>4. OfSet(r, q) /\ q.pc = "decide"
    BY <1>1, OfGotoIsSet DEF cache_client, OfTypes, OfRequest
  <1> HIDE DEF q
  <1>5. ofReq'[r] = q /\ \A x \in OfRequests \ {r} : ofReq'[x] = ofReq[x]
    BY <1>4 DEF OfSet, OfTypes, OfRequestTypes
  <1>6. ASSUME NEW c \in OfClients
        PROVE  (ofWrites[c] = 0 => OfUnknown(c))' /\ (ofWrites[c] = 1 => OfKnown(c))'
    <2>1. ASSUME ofWrites'[c] = 0 PROVE OfUnknown(c)'
      <3>1. OfUnknown(c)
        BY <1>1, <2>1 DEF OfKnownInv
      <3> QED BY <1>1, <1>3, <1>4, <1>5, <3>1 DEF OfUnknown
    <2>2. ASSUME ofWrites'[c] = 1 PROVE OfKnown(c)'
      <3>1. OfKnown(c)
        BY <1>1, <2>2 DEF OfKnownInv
      <3>2. /\ \A i \in OfInstances : ofClients'[i][c] # OfNone =>
                   OfComplete(c, ofClients'[i][c], ofRegistered')
            /\ ofRegistry'[c] # OfNone => OfComplete(c, ofRegistry'[c], ofRegistered')
        BY <1>1, <1>3, <3>1 DEF OfKnown
      <3>3. \A x \in OfRequests : ofReq'[x].pc \in {"record", "fill"} /\ ofReq'[x].client = c =>
                OfComplete(c, ofReq'[x].uris, ofRegistered')
        BY <1>1, <1>4, <1>5, <3>1 DEF OfKnown
      <3>4. ofRegistry'[c] # OfNone \/ \E x \in OfRequests : OfRecording(ofReq'[x], c)
        BY <1>1, <1>5, <3>1 DEF OfKnown, OfRecording
      <3> QED BY <3>2, <3>3, <3>4 DEF OfKnown
    <2> QED BY <2>1, <2>2
  <1> QED BY <1>6 DEF OfKnownInv

\* The rest of an authorization, logins and callbacks have nothing to do with it.
LEMMA OfKnownOther ==
    ASSUME OfTypes, OfKnownInv, NEW r \in OfRequests,
           \/ \E i \in OfInstances, x \in OfAsks : authorize_handler(r, i, x[1], x[2])
           \/ \E s \in OfStates : park_authorization(r, s)
           \/ \E ok \in BOOLEAN :
                  \/ store_proxied_authorization(r, ok) \/ peek_parked(r, ok)
                  \/ take_proxied_authorization(r, ok) \/ exchange_code(r, ok)
           \/ \E i \in OfInstances, s \in OfStates :
                  \/ login_handler(r, i, s)
                  \/ \E a \in {"code", "error"} : callback_handler(r, i, s, a)
           \/ refuse_redirect(r) \/ forward_proxied_callback(r) \/ login_callback(r)
    PROVE  OfKnownInv'
  <1>0. ofReq[r] \in OfRequest /\ ofReq \in [OfRequests -> OfRequest]
    BY DEF OfTypes, OfRequestTypes
  <1>1. CASE UNCHANGED ofReq /\ UNCHANGED <<ofClients, ofRegistry, ofRegistered, ofWrites>>
    BY <1>1, OfKnownKeep
  <1>2. ASSUME NEW q, OfSet(r, q), q.pc \notin {"record", "fill"}, ofReq[r].pc # "record",
               UNCHANGED <<ofClients, ofRegistry, ofRegistered, ofWrites>>
        PROVE  OfKnownInv'
    <2>1. \A x \in OfRequests :
              \/ ofReq'[x] = ofReq[x]
              \/ /\ ofReq'[x].pc \notin {"record", "fill"}
                 /\ \A c \in OfClients : OfRecording(ofReq[x], c) => ofWrites'[c] = 2
      BY <1>0, <1>2 DEF OfSet, OfRecording
    <2> QED BY <1>2, <2>1, OfKnownKeep
  <1>3. ASSUME NEW pc, OfGoto(r, pc), pc \notin {"record", "fill"}, ofReq[r].pc # "record",
               UNCHANGED <<ofClients, ofRegistry, ofRegistered, ofWrites>>
        PROVE  OfKnownInv'
    <2> DEFINE q == [ofReq[r] EXCEPT !.pc = pc]
    <2>1. OfSet(r, q)
      BY <1>3, OfGotoIsSet DEF OfTypes
    <2>2. q.pc = pc
      BY <1>0 DEF OfRequest
    <2> HIDE DEF q
    <2> QED BY <1>2, <1>3, <2>1, <2>2
  <1>4. ASSUME NEW i \in OfInstances, NEW x \in OfAsks, authorize_handler(r, i, x[1], x[2])
        PROVE  OfKnownInv'
    <2> DEFINE q == [OfIdle EXCEPT !.inst = i, !.kind = "authorize", !.client = x[1], !.uri = x[2]]
               n == IF x[1] \in OfCached(i)
                    THEN [q EXCEPT !.pc = "decide", !.uris = ofClients[i][x[1]]]
                    ELSE [q EXCEPT !.pc = "lookup"]
    <2>1. OfSet(r, n) /\ UNCHANGED <<ofClients, ofRegistry, ofRegistered, ofWrites>>
          /\ ofReq[r].pc = "idle"
      BY <1>4 DEF authorize_handler, ofCaches, ofBackend, ofHistory, OfArrive
    <2>2. n.pc \in {"decide", "lookup"}
      BY DEF OfIdle
    <2> HIDE DEF q, n
    <2> QED BY <1>2, <2>1, <2>2
  <1>5. ASSUME NEW s \in OfStates, park_authorization(r, s) PROVE OfKnownInv'
    <2> DEFINE q == [ofReq[r] EXCEPT !.pc = "park", !.state = s]
    <2>1. OfSet(r, q) /\ UNCHANGED <<ofClients, ofRegistry, ofRegistered, ofWrites>>
          /\ ofReq[r].pc = "decide"
      BY <1>5 DEF park_authorization, ofBackend
    <2>2. q.pc = "park"
      BY <1>0 DEF OfRequest
    <2> HIDE DEF q
    <2> QED BY <1>2, <2>1, <2>2
  <1>6. ASSUME \/ \E ok \in BOOLEAN : store_proxied_authorization(r, ok) \/ exchange_code(r, ok)
               \/ refuse_redirect(r) \/ forward_proxied_callback(r)
        PROVE  OfKnownInv'
    <2>1. OfSet(r, OfIdle) /\ UNCHANGED <<ofClients, ofRegistry, ofRegistered, ofWrites>>
          /\ ofReq[r].pc # "record"
      BY <1>6 DEF store_proxied_authorization, exchange_code, refuse_redirect,
             forward_proxied_callback, ofCaches, ofBackend, ofHistory
    <2>2. OfIdle.pc = "idle"
      BY DEF OfIdle
    <2> QED BY <1>2, <2>1, <2>2
  <1>7. ASSUME NEW ok \in BOOLEAN, peek_parked(r, ok) PROVE OfKnownInv'
    <2> DEFINE q == [ofReq[r] EXCEPT !.pc = "delete", !.uri = ofParked[ofReq[r].state]]
    <2>1. /\ OfSet(r, q) \/ OfGoto(r, "login")
          /\ UNCHANGED <<ofClients, ofRegistry, ofRegistered, ofWrites>> /\ ofReq[r].pc = "peek"
      BY <1>7 DEF peek_parked, ofCaches, ofBackend, ofHistory
    <2>2. q.pc = "delete"
      BY <1>0 DEF OfRequest
    <2> HIDE DEF q
    <2> QED BY <1>2, <1>3, <2>1, <2>2
  <1>8. ASSUME NEW ok \in BOOLEAN, take_proxied_authorization(r, ok) PROVE OfKnownInv'
    <2>1. /\ OfGoto(r, "login") \/ OfGoto(r, "forward")
          /\ UNCHANGED <<ofClients, ofRegistry, ofRegistered, ofWrites>> /\ ofReq[r].pc # "record"
      BY <1>8 DEF take_proxied_authorization, ofCaches
    <2> QED BY <1>3, <2>1
  <1>9. ASSUME login_callback(r) PROVE OfKnownInv'
    <2>1. /\ OfGoto(r, "exchange") \/ OfSet(r, OfIdle)
          /\ UNCHANGED <<ofClients, ofRegistry, ofRegistered, ofWrites>> /\ ofReq[r].pc # "record"
      BY <1>9 DEF login_callback, ofBackend, ofHistory
    <2>2. OfIdle.pc = "idle"
      BY DEF OfIdle
    <2> QED BY <1>2, <1>3, <2>1, <2>2
  <1>10. ASSUME NEW i \in OfInstances, NEW s \in OfStates,
                login_handler(r, i, s) \/ \E a \in {"code", "error"} : callback_handler(r, i, s, a)
         PROVE  OfKnownInv'
    <2>1. CASE login_handler(r, i, s)
      BY <1>1, <2>1 DEF login_handler, ofBackend
    <2>2. ASSUME NEW a \in {"code", "error"}, callback_handler(r, i, s, a) PROVE OfKnownInv'
      <3>1. /\ OfSet(r, OfStarted(i, s, a)) /\ ofReq[r].pc = "idle"
            /\ UNCHANGED <<ofClients, ofRegistry, ofRegistered, ofWrites>>
        BY <2>2 DEF callback_handler, OfStarted, ofBackend, OfArrive
      <3>2. OfStarted(i, s, a).pc \in {"peek", "forget"}
        BY OfStartedOK
      <3> QED BY <1>2, <3>1, <3>2
    <2> QED BY <1>10, <2>1, <2>2
  <1> QED BY <1>4, <1>5, <1>6, <1>7, <1>8, <1>9, <1>10

\* Time, housekeeping and faults drop copies and requests; what a request was to
\* write is counted.
LEMMA OfKnownDrops ==
    ASSUME OfTypes, OfKnownInv,
           \/ \E r \in OfRequests : OfHangUp(r)
           \/ \E s \in OfStates : OfExpire(s)
           \/ \E i \in OfInstances : OfPurge(i) \/ OfCrash(i)
    PROVE  OfKnownInv'
  <1>0. OfIdle.pc = "idle"
    BY DEF OfIdle
  <1>1. ASSUME NEW r \in OfRequests, OfHangUp(r) PROVE OfKnownInv'
    <2>1. UNCHANGED <<ofClients, ofRegistry, ofRegistered>> /\ OfDrop({r})
      BY <1>1 DEF OfHangUp, ofCaches, ofBackend
    <2> QED BY <1>0, <2>1, OfDropTypes, OfKnownKeep
  <1>2. ASSUME NEW s \in OfStates, OfExpire(s) PROVE OfKnownInv'
    BY <1>2, OfKnownKeep DEF OfExpire, ofCaches, ofHistory
  <1>3. ASSUME NEW i \in OfInstances, OfPurge(i) PROVE OfKnownInv'
    BY <1>3, OfKnownKeep DEF OfPurge, ofBackend, ofHistory
  <1>4. ASSUME NEW i \in OfInstances, OfCrash(i) PROVE OfKnownInv'
    <2> DEFINE gone == {r \in OfRequests : ofReq[r].inst = i}
    <2>1. UNCHANGED <<ofRegistry, ofRegistered>> /\ OfDrop(gone) /\ gone \in SUBSET OfRequests
      BY <1>4 DEF OfCrash, ofBackend
    <2>2. \A j \in OfInstances, c \in OfClients : ofClients'[j][c] \in {ofClients[j][c], OfNone}
      BY <1>4 DEF OfCrash, OfTypes, OfCacheTypes
    <2> HIDE DEF gone
    <2> QED BY <1>0, <2>1, <2>2, OfDropTypes, OfKnownKeep
  <1> QED BY <1>1, <1>2, <1>3, <1>4

\* OfKnownInv is inductive.
LEMMA OfKnownNext ==
    ASSUME OfTypes, OfKnownInv, [OfNext]_ofVars
    PROVE  OfKnownInv'
  <1>1. CASE UNCHANGED ofVars
    BY <1>1 DEF OfKnownInv, OfKnown, OfUnknown, ofVars, ofCaches, ofBackend, ofHistory
  <1>2. ASSUME NEW r \in OfRequests, NEW i \in OfInstances, NEW x \in OfRegisters,
               register_handler(r, i, x[1], x[2])
        PROVE  OfKnownInv'
    <2>1. x[1] \in OfClients /\ x[2] \in SUBSET OfUris
      BY OfAssumption
    <2> QED BY <1>2, <2>1, OfKnownRegister
  <1>3. ASSUME NEW r \in OfRequests,
               \/ \E ok \in BOOLEAN : register_client_redirects(r, ok) \/ client_redirects(r, ok)
               \/ cache_client(r)
        PROVE  OfKnownInv'
    BY <1>3, OfKnownRecord, OfKnownLookup, OfKnownFill
  <1> QED BY <1>1, <1>2, <1>3, OfKnownOther, OfKnownDrops DEF OfNext

\* Theorem: in every reachable state a client that registered once, its registration
\* persisted, is known with its URIs to every instance (store.rs
\* register_client_redirects, client_redirects): whatever is cached where, whatever
\* lookups are under way and whatever crashed since.
THEOREM RegisteredAlwaysKnown == OfSpec => []RegisteredIsKnown
  <1>1. OfInit => OfTypes /\ OfKnownInv
    <2> SUFFICES ASSUME OfInit PROVE OfKnownInv
      BY OfTypesInit
    <2> QED BY DEF OfInit, OfKnownInv, OfUnknown, OfIdle
  <1>2. OfTypes /\ OfKnownInv /\ [OfNext]_ofVars => (OfTypes /\ OfKnownInv)'
    BY OfTypesNext, OfKnownNext
  <1>3. OfTypes /\ OfKnownInv => RegisteredIsKnown
    BY DEF OfKnownInv, OfKnown, OfComplete, OfRecording, RegisteredIsKnown, OfCached
  <1> QED BY <1>1, <1>2, <1>3, PTL DEF OfSpec


-----------------------------------------------------------------------------
(* A code is used once.                                                    *)

\* A fresh state is nowhere.
LEMMA OfFreshIsNowhere ==
    ASSUME OfTypes, OfOnceInv, NEW s \in OfStates, OfFresh(s)
    PROVE  /\ s \notin ofIssued /\ ofParked[s] = OfNone
           /\ \A i \in OfInstances : ofProxied[i][s] = OfNone /\ s \notin ofPending[i]
           /\ \A r \in OfRequests : ofReq[r].pc = "park" => ofReq[r].state # s
  BY OfAssumption DEF OfOnceInv, OfFlowsOK, OfParksOK, OfFresh

\* A step that changes what is asked only for fresh states.
LEMMA OfFlowsKeep ==
    ASSUME OfTypes, OfOnceInv,
           \A s \in OfStates : ofAsked'[s] = ofAsked[s] \/ OfFresh(s),
           \A i \in OfInstances, s \in OfStates :
               /\ ofProxied'[i][s] \in {ofProxied[i][s], OfNone} \/ ofAsked'[s] \in OfClients \X OfUris
               /\ s \in ofPending'[i] => s \in ofPending[i] \/ ofAsked'[s] = <<"login", OfNone>>,
           \A s \in OfStates :
               ofParked'[s] \in {ofParked[s], OfNone} \/ ofAsked'[s] \in OfClients \X OfUris,
           \A s \in ofIssued' : s \in ofIssued \/ ofAsked'[s] # OfNone
    PROVE  OfFlowsOK'
  <1>1. \A s \in OfStates : ofAsked[s] # OfNone => ofAsked'[s] = ofAsked[s]
    BY DEF OfFresh
  <1>2. /\ \A s \in OfStates : ofAsked[s] \in OfClients \X OfUris => ofAsked'[s] \in OfClients \X OfUris
        /\ \A s \in OfStates : ofAsked[s] = <<"login", OfNone>> => ofAsked'[s] = <<"login", OfNone>>
    BY <1>1, OfAssumption
  <1>3. \A i \in OfInstances, s \in OfStates :
            /\ ofProxied'[i][s] # OfNone => ofAsked'[s] \in OfClients \X OfUris
            /\ s \in ofPending'[i] => ofAsked'[s] = <<"login", OfNone>>
    BY <1>2 DEF OfOnceInv, OfFlowsOK
  <1>4. \A s \in OfStates : ofParked'[s] # OfNone => ofAsked'[s] \in OfClients \X OfUris
    BY <1>2 DEF OfOnceInv, OfFlowsOK
  <1>5. \A s \in ofIssued' : ofAsked'[s] # OfNone
    <2>1. \A s \in ofIssued : s \in OfStates /\ ofAsked[s] # OfNone
      BY DEF OfTypes, OfHistoryTypes, OfOnceInv, OfFlowsOK
    <2> QED BY <1>1, <2>1
  <1> QED BY <1>3, <1>4, <1>5 DEF OfFlowsOK

\* A step that parks nothing and issues no state that is being parked.
LEMMA OfParksKeep ==
    ASSUME OfTypes, OfOnceInv,
           \A s \in OfStates : ofAsked'[s] = ofAsked[s] \/ OfFresh(s),
           \A r \in OfRequests : ofReq'[r].pc = "park" => ofReq'[r] = ofReq[r],
           \A r \in OfRequests : ofReq'[r].pc = "park" /\ ofReq[r].state \in ofIssued' =>
                                 ofReq[r].state \in ofIssued
    PROVE  OfParksOK'
  <1> SUFFICES ASSUME NEW r \in OfRequests, ofReq'[r].pc = "park"
               PROVE  /\ ofAsked'[ofReq'[r].state] \in OfClients \X OfUris
                      /\ ofReq'[r].state \notin ofIssued'
                      /\ \A x \in OfRequests :
                             ofReq'[x].pc = "park" /\ ofReq'[x].state = ofReq'[r].state => x = r
    BY DEF OfParksOK
  <1>1. ofReq'[r] = ofReq[r] /\ ofReq[r].pc = "park" /\ ofReq[r].state \in OfStates
    BY DEF OfTypes, OfRequestTypes, OfCarries
  <1>2. ofAsked[ofReq[r].state] \in OfClients \X OfUris /\ ofReq[r].state \notin ofIssued
    BY <1>1 DEF OfOnceInv, OfParksOK
  <1>3. ofAsked'[ofReq[r].state] = ofAsked[ofReq[r].state]
    BY <1>1, <1>2, OfAssumption DEF OfFresh
  <1>4. \A x \in OfRequests : ofReq'[x].pc = "park" /\ ofReq'[x].state = ofReq'[r].state => x = r
    BY <1>1 DEF OfOnceInv, OfParksOK
  <1> QED BY <1>1, <1>2, <1>3, <1>4

\* A state whose callbacks the step does not serve.
LEMMA OfOnceKeep ==
    ASSUME OfTypes, NEW s \in OfStates, OfOnce(s), ofIssued \subseteq ofIssued',
           ofSole'[s] = ofSole[s], ofAnswers'[s] = ofAnswers[s],
           s \in ofIssued => /\ ofParked'[s] \in {ofParked[s], OfNone}
                             /\ \A i \in OfInstances :
                                    /\ ofProxied'[i][s] \in {ofProxied[i][s], OfNone}
                                    /\ s \in ofPending'[i] => s \in ofPending[i],
           \A r \in OfRequests :
               ofReq'[r].kind = "callback" /\ ofReq'[r].state = s => ofReq'[r] = ofReq[r]
    PROVE  OfOnce(s)'
  <1>1. \A r \in OfHandling(s)' : r \in OfHandling(s) /\ ofReq'[r] = ofReq[r]
    BY DEF OfHandling
  <1>2. ofSole'[s] = OfNone => OfHandling(s)' = {} /\ ofAnswers'[s] = 0
    BY <1>1 DEF OfOnce
  <1>3. ASSUME NEW i \in OfInstances, ofSole'[s] = i, i # "many" PROVE OfOnceAt(s, i)'
    <2>1. OfOnceAt(s, i)
      BY <1>3 DEF OfOnce
    <2>2. /\ s \in ofIssued' /\ ofParked'[s] \in {ofParked[s], OfNone}
          /\ ofProxied'[i][s] \in {ofProxied[i][s], OfNone}
          /\ s \in ofPending'[i] => s \in ofPending[i]
      BY <2>1 DEF OfOnceAt
    <2>3. \A r, x \in OfHandling(s)' : r = x
      BY <1>1, <2>1 DEF OfOnceAt
    <2>4. \A r \in OfHandling(s)' : OfServing(ofReq[r], s, i)'
      BY <1>1, <2>1, <2>2 DEF OfOnceAt, OfServing
    <2>5. ofAnswers'[s] # 0 => ofAnswers'[s] = 1 /\ OfSpent(s, i)'
      BY <1>1, <2>1, <2>2 DEF OfOnceAt, OfSpent
    <2> QED BY <2>2, <2>3, <2>4, <2>5 DEF OfOnceAt
  <1> QED BY <1>2, <1>3 DEF OfOnce


\* A step that serves no callback and makes no state: it only forgets.
LEMMA OfOnceQuiet ==
    ASSUME OfTypes, OfTypes', OfOnceInv, UNCHANGED <<ofAsked, ofIssued, ofAnswers, ofSole>>,
           \A i \in OfInstances, s \in OfStates :
               /\ ofProxied'[i][s] \in {ofProxied[i][s], OfNone}
               /\ s \in ofPending'[i] => s \in ofPending[i],
           \A s \in OfStates : ofParked'[s] \in {ofParked[s], OfNone},
           \A r \in OfRequests :
               ofReq'[r] = ofReq[r] \/ ofReq'[r].pc \in {"idle", "record", "lookup", "fill", "decide"}
    PROVE  OfOnceInv'
  <1>1. OfFlowsOK'
    BY OfFlowsKeep
  <1>2. OfParksOK'
    BY OfParksKeep
  <1>3. \A r \in OfRequests : ofReq'[r].kind = "callback" => ofReq'[r] = ofReq[r]
    <2>1. \A r \in OfRequests : ofReq'[r].kind = "callback" => ofReq'[r].pc \in OfCallbackPcs
      BY DEF OfTypes, OfRequestTypes, OfCarries
    <2> QED BY <2>1 DEF OfCallbackPcs
  <1>4. ASSUME NEW s \in OfStates PROVE OfOnce(s)'
    <2>1. OfOnce(s)
      BY DEF OfOnceInv
    <2> QED BY <1>3, <2>1, OfOnceKeep
  <1> QED BY <1>1, <1>2, <1>4 DEF OfOnceInv

\* Registrations, and authorizations up to the check.
LEMMA OfOnceAuthorize ==
    ASSUME OfTypes, OfTypes', OfOnceInv, NEW r \in OfRequests,
           \/ \E i \in OfInstances, x \in OfRegisters : register_handler(r, i, x[1], x[2])
           \/ \E i \in OfInstances, x \in OfAsks : authorize_handler(r, i, x[1], x[2])
           \/ \E ok \in BOOLEAN : register_client_redirects(r, ok) \/ client_redirects(r, ok)
           \/ cache_client(r) \/ refuse_redirect(r)
    PROVE  OfOnceInv'
  <1>0. ofReq[r] \in OfRequest /\ ofReq \in [OfRequests -> OfRequest]
    BY DEF OfTypes, OfRequestTypes
  <1>1. UNCHANGED <<ofAsked, ofIssued, ofAnswers, ofSole, ofProxied, ofPending, ofParked>>
    BY DEF register_handler, authorize_handler, register_client_redirects, client_redirects,
           cache_client, refuse_redirect, ofCaches, ofBackend, ofHistory
  <1> SUFFICES ASSUME NEW q, OfSet(r, q), q.pc \in {"idle", "record", "lookup", "fill", "decide"}
               PROVE  OfOnceInv'
    <2>1. ASSUME NEW i \in OfInstances, NEW x \in OfRegisters, register_handler(r, i, x[1], x[2])
          PROVE  \E q : OfSet(r, q) /\ q.pc \in {"idle", "record", "lookup", "fill", "decide"}
      <3>1. \A l : [OfIdle EXCEPT !.pc = "record", !.inst = i, !.kind = "register",
                                  !.client = x[1], !.uris = l].pc = "record"
        BY DEF OfIdle
      <3> QED BY <2>1, <3>1 DEF register_handler
    <2>2. ASSUME NEW i \in OfInstances, NEW x \in OfAsks, authorize_handler(r, i, x[1], x[2])
          PROVE  \E q : OfSet(r, q) /\ q.pc \in {"idle", "record", "lookup", "fill", "decide"}
      <3> DEFINE q == [OfIdle EXCEPT !.inst = i, !.kind = "authorize", !.client = x[1], !.uri = x[2]]
                 n == IF x[1] \in OfCached(i)
                      THEN [q EXCEPT !.pc = "decide", !.uris = ofClients[i][x[1]]]
                      ELSE [q EXCEPT !.pc = "lookup"]
      <3>1. OfSet(r, n)
        BY <2>2 DEF authorize_handler
      <3>2. n.pc \in {"decide", "lookup"}
        BY DEF OfIdle
      <3> HIDE DEF q, n
      <3> QED BY <3>1, <3>2
    <2>3. ASSUME NEW ok \in BOOLEAN, client_redirects(r, ok)
          PROVE  \E q : OfSet(r, q) /\ q.pc \in {"idle", "record", "lookup", "fill", "decide"}
      <3>1. \A l : [ofReq[r] EXCEPT !.pc = IF l = OfNone THEN "decide" ELSE "fill", !.uris = l].pc
                   \in {"decide", "fill"}
        BY <1>0 DEF OfRequest
      <3> QED BY <2>3, <3>1 DEF client_redirects
    <2>4. ASSUME cache_client(r)
          PROVE  \E q : OfSet(r, q) /\ q.pc \in {"idle", "record", "lookup", "fill", "decide"}
      <3>1. [ofReq[r] EXCEPT !.pc = "decide"].pc = "decide"
        BY <1>0 DEF OfRequest
      <3> QED BY <2>4, <3>1, OfGotoIsSet DEF cache_client, OfTypes
    <2>5. ASSUME refuse_redirect(r) \/ \E ok \in BOOLEAN : register_client_redirects(r, ok)
          PROVE  \E q : OfSet(r, q) /\ q.pc \in {"idle", "record", "lookup", "fill", "decide"}
      BY <2>5 DEF refuse_redirect, register_client_redirects, OfIdle
    <2> QED BY <2>1, <2>2, <2>3, <2>4, <2>5
  <1>2. \A x \in OfRequests :
            ofReq'[x] = ofReq[x] \/ ofReq'[x].pc \in {"idle", "record", "lookup", "fill", "decide"}
    BY <1>0 DEF OfSet
  <1> QED BY <1>1, <1>2, OfOnceQuiet

\* Time, housekeeping and faults.
LEMMA OfOnceDrops ==
    ASSUME OfTypes, OfTypes', OfOnceInv,
           \/ \E r \in OfRequests : OfHangUp(r)
           \/ \E s \in OfStates : OfExpire(s)
           \/ \E i \in OfInstances : OfPurge(i) \/ OfCrash(i)
    PROVE  OfOnceInv'
  <1>0. OfIdle.pc = "idle"
    BY DEF OfIdle
  <1>1. ASSUME NEW r \in OfRequests, OfHangUp(r) PROVE OfOnceInv'
    <2>1. UNCHANGED <<ofAsked, ofIssued, ofAnswers, ofSole, ofProxied, ofPending, ofParked>>
          /\ OfDrop({r})
      BY <1>1 DEF OfHangUp, ofCaches, ofBackend
    <2> QED BY <1>0, <2>1, OfDropTypes, OfOnceQuiet
  <1>2. ASSUME NEW s \in OfStates, OfExpire(s) PROVE OfOnceInv'
    <2>1. UNCHANGED <<ofAsked, ofIssued, ofAnswers, ofSole, ofProxied, ofPending, ofReq>>
      BY <1>2 DEF OfExpire, ofCaches, ofHistory
    <2>2. \A x \in OfStates : ofParked'[x] \in {ofParked[x], OfNone}
      BY <1>2 DEF OfExpire, OfTypes, OfBackendTypes
    <2> QED BY <2>1, <2>2, OfOnceQuiet
  <1>3. ASSUME NEW i \in OfInstances, OfPurge(i) PROVE OfOnceInv'
    <2>1. UNCHANGED <<ofAsked, ofIssued, ofAnswers, ofSole, ofParked, ofPending, ofReq>>
      BY <1>3 DEF OfPurge, ofBackend, ofHistory
    <2>2. \A j \in OfInstances, x \in OfStates : ofProxied'[j][x] \in {ofProxied[j][x], OfNone}
      BY <1>3 DEF OfPurge, OfTypes, OfCacheTypes
    <2> QED BY <2>1, <2>2, OfOnceQuiet
  <1>4. ASSUME NEW i \in OfInstances, OfCrash(i) PROVE OfOnceInv'
    <2> DEFINE gone == {r \in OfRequests : ofReq[r].inst = i}
    <2>1. UNCHANGED <<ofAsked, ofIssued, ofAnswers, ofSole, ofParked>> /\ OfDrop(gone)
          /\ gone \in SUBSET OfRequests
      BY <1>4 DEF OfCrash, ofBackend
    <2>2. \A j \in OfInstances, x \in OfStates :
              /\ ofProxied'[j][x] \in {ofProxied[j][x], OfNone}
              /\ x \in ofPending'[j] => x \in ofPending[j]
      BY <1>4 DEF OfCrash, OfTypes, OfCacheTypes
    <2> HIDE DEF gone
    <2> QED BY <1>0, <2>1, <2>2, OfDropTypes, OfOnceQuiet
  <1> QED BY <1>1, <1>2, <1>3, <1>4

\* A state is minted by an authorization: it is fresh, so nothing is known of it.
LEMMA OfOncePark ==
    ASSUME OfTypes, OfTypes', OfOnceInv, NEW r \in OfRequests, NEW s \in OfStates,
           park_authorization(r, s)
    PROVE  OfOnceInv'
  <1> DEFINE q == [ofReq[r] EXCEPT !.pc = "park", !.state = s]
  <1>1. /\ ofReq[r] \in OfRequest /\ OfCarries(ofReq[r]) /\ ofReq[r].pc = "decide"
        /\ ofReq \in [OfRequests -> OfRequest]
    BY DEF OfTypes, OfRequestTypes, park_authorization
  <1>2. ofReq[r].inst \in OfInstances /\ ofReq[r].client \in OfClients /\ ofReq[r].uri \in OfUris
    BY <1>1 DEF OfCarries, OfAuthorizePcs
  <1>3. /\ UNCHANGED <<ofParked, ofPending, ofIssued, ofAnswers, ofSole>>
        /\ ofAsked' = [ofAsked EXCEPT ![s] = <<ofReq[r].client, ofReq[r].uri>>]
        /\ OfFresh(s) /\ OfSet(r, q)
        /\ ofProxied' = [ofProxied EXCEPT ![ofReq[r].inst] = [x \in OfStates |->
               IF x = s THEN ofReq[r].uri ELSE IF x \in ofOld THEN OfNone ELSE @[x]]]
    BY DEF park_authorization, ofBackend
  <1>4. /\ ofAsked'[s] \in OfClients \X OfUris
        /\ \A x \in OfStates \ {s} : ofAsked'[x] = ofAsked[x]
    BY <1>2, <1>3 DEF OfTypes, OfHistoryTypes
  <1>5. \A i \in OfInstances, x \in OfStates \ {s} : ofProxied'[i][x] \in {ofProxied[i][x], OfNone}
    BY <1>2, <1>3 DEF OfTypes, OfCacheTypes
  <1>6. q.pc = "park" /\ q.state = s /\ q.kind # "callback"
    BY <1>1 DEF OfRequest, OfCarries, OfCallbackPcs
  <1> HIDE DEF q
  <1>7. ofReq'[r] = q /\ \A x \in OfRequests \ {r} : ofReq'[x] = ofReq[x]
    BY <1>1, <1>3 DEF OfSet
  <1>8. /\ s \notin ofIssued
        /\ \A x \in OfRequests : ofReq[x].pc = "park" => ofReq[x].state # s
    BY <1>3, OfFreshIsNowhere
  <1>9. OfFlowsOK'
    BY <1>3, <1>4, <1>5, OfFlowsKeep
  <1>10. OfParksOK'
    <2>1. \A x \in OfRequests \ {r} : ofReq[x].pc = "park" => ofReq[x].state \in OfStates \ {s}
      BY <1>8 DEF OfTypes, OfRequestTypes, OfCarries
    <2>2. \A x \in OfRequests \ {r} : ofReq[x].pc = "park" =>
              ofAsked'[ofReq[x].state] \in OfClients \X OfUris /\ ofReq[x].state \notin ofIssued'
      BY <1>3, <1>4, <2>1 DEF OfOnceInv, OfParksOK
    <2>3. \A x, y \in OfRequests : ofReq'[x].pc = "park" /\ ofReq'[y].pc = "park"
                                   /\ ofReq'[y].state = ofReq'[x].state => y = x
      BY <1>6, <1>7, <1>8 DEF OfOnceInv, OfParksOK
    <2> QED BY <1>3, <1>4, <1>6, <1>7, <1>8, <2>2, <2>3 DEF OfParksOK
  <1>11. ASSUME NEW x \in OfStates PROVE OfOnce(x)'
    <2>1. OfOnce(x)
      BY DEF OfOnceInv
    <2>2. \A y \in OfRequests :
              ofReq'[y].kind = "callback" /\ ofReq'[y].state = x => ofReq'[y] = ofReq[y]
      BY <1>6, <1>7
    <2> QED BY <1>3, <1>5, <1>8, <2>1, <2>2, OfOnceKeep
  <1> QED BY <1>9, <1>10, <1>11 DEF OfOnceInv

\* The state is issued when the request that parked it is done.
LEMMA OfOnceStore ==
    ASSUME OfTypes, OfTypes', OfOnceInv, NEW r \in OfRequests, NEW ok \in BOOLEAN,
           store_proxied_authorization(r, ok)
    PROVE  OfOnceInv'
  <1> DEFINE s == ofReq[r].state
  <1>1. s \in OfStates /\ ofReq[r].pc = "park" /\ s \notin ofIssued
        /\ ofAsked[s] \in OfClients \X OfUris
    BY DEF store_proxied_authorization, OfTypes, OfRequestTypes, OfCarries, OfOnceInv, OfParksOK
  <1>2. /\ UNCHANGED <<ofProxied, ofPending, ofAsked, ofAnswers, ofSole>>
        /\ ofIssued' = ofIssued \cup {s}
        /\ \A x \in OfStates \ {s} : ofParked'[x] = ofParked[x]
    BY DEF store_proxied_authorization, ofCaches, OfTypes, OfBackendTypes
  <1>3. OfIdle.pc = "idle" /\ OfIdle.kind = "none"
        /\ ofReq'[r] = OfIdle /\ \A x \in OfRequests \ {r} : ofReq'[x] = ofReq[x]
    BY DEF store_proxied_authorization, OfSet, OfTypes, OfRequestTypes, OfIdle
  <1> HIDE DEF s
  <1>4. OfFlowsOK'
    <2>1. ofAsked'[s] # OfNone
      BY <1>1, <1>2, OfAssumption
    <2> QED BY <1>1, <1>2, <2>1, OfFlowsKeep
  <1>5. OfParksOK'
    <2>1. \A x \in OfRequests \ {r} : ofReq[x].pc = "park" => ofReq[x].state # s
      BY <1>1 DEF OfOnceInv, OfParksOK, s
    <2> QED BY <1>2, <1>3, <2>1, OfParksKeep
  <1>6. ASSUME NEW x \in OfStates PROVE OfOnce(x)'
    <2>1. OfOnce(x)
      BY DEF OfOnceInv
    <2>2. \A y \in OfRequests :
              ofReq'[y].kind = "callback" /\ ofReq'[y].state = x => ofReq'[y] = ofReq[y]
      BY <1>3
    <2> QED BY <1>1, <1>2, <2>1, <2>2, OfOnceKeep
  <1> QED BY <1>4, <1>5, <1>6 DEF OfOnceInv

\* A state is minted by the server's own login.
LEMMA OfOnceLogin ==
    ASSUME OfTypes, OfTypes', OfOnceInv, NEW r \in OfRequests, NEW i \in OfInstances,
           NEW s \in OfStates, login_handler(r, i, s)
    PROVE  OfOnceInv'
  <1>1. /\ UNCHANGED <<ofProxied, ofParked, ofReq, ofAnswers, ofSole>>
        /\ ofIssued' = ofIssued \cup {s} /\ OfFresh(s)
        /\ ofAsked'[s] = <<"login", OfNone>>
        /\ \A x \in OfStates \ {s} : ofAsked'[x] = ofAsked[x]
        /\ \A j \in OfInstances, x \in OfStates \ {s} : x \in ofPending'[j] => x \in ofPending[j]
    BY DEF login_handler, store_pending_auth, ofBackend, OfTypes, OfHistoryTypes, OfCacheTypes
  <1>2. /\ s \notin ofIssued
        /\ \A x \in OfRequests : ofReq[x].pc = "park" => ofReq[x].state # s
    BY <1>1, OfFreshIsNowhere
  <1>3. OfFlowsOK'
    <2>1. ofAsked'[s] # OfNone
      BY <1>1, OfAssumption
    <2> QED BY <1>1, <2>1, OfFlowsKeep
  <1>4. OfParksOK'
    BY <1>1, <1>2, OfParksKeep
  <1>5. ASSUME NEW x \in OfStates PROVE OfOnce(x)'
    <2>1. OfOnce(x)
      BY DEF OfOnceInv
    <2> QED BY <1>1, <1>2, <2>1, OfOnceKeep
  <1> QED BY <1>3, <1>4, <1>5 DEF OfOnceInv


\* A step of the request that serves a callback of s: what is owed is owed for s.
LEMMA OfOnceServe ==
    ASSUME OfTypes, OfTypes', OfOnceInv, NEW r \in OfRequests, NEW s \in OfStates,
           UNCHANGED <<ofAsked, ofIssued>>, OfOnce(s)',
           \A x \in OfStates \ {s} : ofSole'[x] = ofSole[x] /\ ofAnswers'[x] = ofAnswers[x],
           \A x \in OfStates : ofParked'[x] \in {ofParked[x], OfNone},
           \A i \in OfInstances, x \in OfStates :
               /\ ofProxied'[i][x] \in {ofProxied[i][x], OfNone}
               /\ x \in ofPending'[i] => x \in ofPending[i],
           \A x \in OfRequests \ {r} : ofReq'[x] = ofReq[x],
           ofReq'[r].pc # "park", ofReq'[r].kind = "callback" => ofReq'[r].state = s
    PROVE  OfOnceInv'
  <1>1. OfFlowsOK'
    BY OfFlowsKeep
  <1>2. OfParksOK'
    BY OfParksKeep
  <1>3. ASSUME NEW x \in OfStates \ {s} PROVE OfOnce(x)'
    <2>1. OfOnce(x)
      BY DEF OfOnceInv
    <2>2. \A y \in OfRequests :
              ofReq'[y].kind = "callback" /\ ofReq'[y].state = x => ofReq'[y] = ofReq[y]
      OBVIOUS
    <2> QED BY <2>1, <2>2, OfOnceKeep
  <1> QED BY <1>1, <1>2, <1>3 DEF OfOnceInv

\* The one instance that serves s has one request for it.
LEMMA OfServesAlone ==
    ASSUME OfTypes, OfOnceInv, NEW r \in OfRequests, ofReq[r].pc \in OfCallbackPcs,
           NEW i \in OfInstances, ofSole[ofReq[r].state] = i, i # "many"
    PROVE  /\ ofReq[r].state \in OfStates /\ ofReq[r].inst = i
           /\ OfOnceAt(ofReq[r].state, i) /\ OfServing(ofReq[r], ofReq[r].state, i)
           /\ OfHandling(ofReq[r].state) = {r}
  <1>1. ofReq[r].state \in OfStates /\ ofReq[r].kind = "callback"
    BY DEF OfTypes, OfRequestTypes, OfCarries
  <1>2. r \in OfHandling(ofReq[r].state)
    BY <1>1 DEF OfHandling
  <1>3. OfOnceAt(ofReq[r].state, i)
    BY <1>1 DEF OfOnceInv, OfOnce
  <1> QED BY <1>1, <1>2, <1>3 DEF OfOnceAt, OfServing

\* While a request serves s, some instance is noted for s.
LEMMA OfServedHasSole ==
    ASSUME OfTypes, OfOnceInv, NEW r \in OfRequests, ofReq[r].pc \in OfCallbackPcs
    PROVE  ofSole[ofReq[r].state] # OfNone
  <1>1. ofReq[r].state \in OfStates /\ ofReq[r].kind = "callback"
    BY DEF OfTypes, OfRequestTypes, OfCarries
  <1>2. r \in OfHandling(ofReq[r].state)
    BY <1>1 DEF OfHandling
  <1> QED BY <1>1, <1>2 DEF OfOnceInv, OfOnce

\* A parked state is not pending, a pending one is not parked.
LEMMA OfFlowsApart ==
    ASSUME OfOnceInv, NEW s \in OfStates, NEW i \in OfInstances, s \in ofPending[i]
    PROVE  ofParked[s] = OfNone /\ \A j \in OfInstances : ofProxied[j][s] = OfNone
  <1>1. ofAsked[s] = <<"login", OfNone>>
    BY DEF OfOnceInv, OfFlowsOK
  <1>2. <<"login", OfNone>> \notin OfClients \X OfUris
    BY OfAssumption
  <1> QED BY <1>1, <1>2 DEF OfOnceInv, OfFlowsOK

\* A callback arrives: where nothing of s is being served, and nothing was elsewhere,
\* it takes what this instance parked.
LEMMA OfOnceCallback ==
    ASSUME OfTypes, OfTypes', OfOnceInv, NEW r \in OfRequests, NEW i \in OfInstances,
           NEW s \in OfStates, NEW a \in {"code", "error"}, callback_handler(r, i, s, a)
    PROVE  OfOnceInv'
  <1> DEFINE q == OfStarted(i, s, a)
  <1>1. /\ OfSet(r, q) /\ UNCHANGED <<ofPending, ofParked, ofAsked, ofIssued, ofAnswers>>
        /\ ofProxied' = [ofProxied EXCEPT ![i][s] = OfNone]
        /\ ofSole' = [ofSole EXCEPT ![s] = OfSoleAfter(s, i)]
        /\ ofReq[r].pc = "idle" /\ s \in ofIssued
    BY DEF callback_handler, OfStarted, ofBackend, OfArrive
  <1>2. /\ q.inst = i /\ q.kind = "callback" /\ q.state = s
        /\ ofProxied[i][s] = OfNone => q.pc = "peek"
        /\ ofProxied[i][s] # OfNone => q.pc = "forget"
    BY OfStartedOK
  <1> HIDE DEF q
  <1>3. ofReq'[r] = q /\ \A x \in OfRequests \ {r} : ofReq'[x] = ofReq[x]
    BY <1>1 DEF OfSet, OfTypes, OfRequestTypes
  <1>4. /\ \A j \in OfInstances, x \in OfStates : ofProxied'[j][x] \in {ofProxied[j][x], OfNone}
        /\ ofProxied'[i][s] = OfNone
    BY <1>1 DEF OfTypes, OfCacheTypes
  <1>5. ofSole'[s] = OfSoleAfter(s, i) /\ \A x \in OfStates \ {s} : ofSole'[x] = ofSole[x]
    BY <1>1 DEF OfTypes, OfHistoryTypes
  <1>6. OfOnce(s)'
    <2>1. ofSole'[s] # OfNone
      BY <1>5, OfAssumption DEF OfSoleAfter
    <2>2. ASSUME NEW j \in OfInstances, ofSole'[s] = j, j # "many" PROVE OfOnceAt(s, j)'
      <3>1. j = i /\ ofSole[s] \in {OfNone, i} /\ OfHandling(s) = {}
        BY <1>5, <2>2 DEF OfSoleAfter
      <3>2. OfHandling(s)' = {r}
        BY <1>2, <1>3, <3>1 DEF OfHandling
      <3>3. q.pc = "forget" => s \notin ofPending'[i]
        BY <1>1, <1>2, OfFlowsApart
      <3>4. OfServing(ofReq[r], s, i)'
        BY <1>2, <1>3, <1>4, <3>3 DEF OfServing
      <3>5. ofAnswers'[s] # 0 => ofAnswers'[s] = 1 /\ OfSpent(s, i)'
        <4> SUFFICES ASSUME ofAnswers'[s] # 0 PROVE ofAnswers'[s] = 1 /\ OfSpent(s, i)'
          OBVIOUS
        <4>1. ofSole[s] = i /\ i # "many"
          BY <1>1, <2>2, <3>1 DEF OfOnceInv, OfOnce
        <4>2. ofAnswers[s] = 1 /\ OfSpent(s, i)
          BY <1>1, <4>1 DEF OfOnceInv, OfOnce, OfOnceAt
        <4>3. q.pc = "peek"
          BY <1>2, <4>2 DEF OfSpent
        <4> QED BY <1>1, <1>3, <1>4, <3>2, <4>2, <4>3 DEF OfSpent, OfHasCode
      <3> QED BY <1>1, <3>1, <3>2, <3>4, <3>5 DEF OfOnceAt
    <2> QED BY <2>1, <2>2 DEF OfOnce
  <1> QED BY <1>1, <1>2, <1>3, <1>4, <1>5, <1>6, OfOnceServe

\* A callback finds what a peer parked; then it has the code, so it is not used yet.
LEMMA OfOncePeek ==
    ASSUME OfTypes, OfTypes', OfOnceInv, NEW r \in OfRequests, NEW ok \in BOOLEAN, peek_parked(r, ok)
    PROVE  OfOnceInv'
  <1>1. PICK s \in OfStates : s = ofReq[r].state
    BY DEF peek_parked, OfTypes, OfRequestTypes, OfCarries, OfCallbackPcs
  <1>2. PICK q : /\ OfSet(r, q)
                 /\ \/ /\ q = [ofReq[r] EXCEPT !.pc = "delete", !.uri = ofParked[s]]
                       /\ ofParked[s] # OfNone
                    \/ q = [ofReq[r] EXCEPT !.pc = "login"]
    BY <1>1, OfGotoIsSet DEF peek_parked, OfTypes
  <1>3. /\ UNCHANGED <<ofProxied, ofPending, ofParked, ofAsked, ofIssued, ofAnswers, ofSole>>
        /\ ofReq[r].pc = "peek" /\ ofReq[r] \in OfRequest
    BY DEF peek_parked, ofCaches, ofBackend, ofHistory, OfTypes, OfRequestTypes
  <1>4. /\ q.inst = ofReq[r].inst /\ q.kind = ofReq[r].kind /\ q.state = s
        /\ q.pc = "login" \/ (q.pc = "delete" /\ ofParked[s] # OfNone)
    BY <1>1, <1>2, <1>3 DEF OfRequest
  <1>5. ofReq'[r] = q /\ \A x \in OfRequests \ {r} : ofReq'[x] = ofReq[x]
    BY <1>2 DEF OfSet, OfTypes, OfRequestTypes
  <1>6. OfOnce(s)'
    <2>1. ofSole'[s] # OfNone
      BY <1>1, <1>3, OfServedHasSole DEF OfCallbackPcs
    <2>2. ASSUME NEW i \in OfInstances, ofSole'[s] = i, i # "many" PROVE OfOnceAt(s, i)'
      <3>1. OfOnceAt(s, i) /\ OfServing(ofReq[r], s, i) /\ OfHandling(s) = {r}
        BY <1>1, <1>3, <2>2, OfServesAlone DEF OfCallbackPcs
      <3>2. ofReq[r].kind = "callback"
        BY <3>1 DEF OfHandling
      <3>3. OfHandling(s)' = {r}
        BY <1>4, <1>5, <3>1, <3>2 DEF OfHandling
      <3>4. q.pc = "delete" => s \notin ofPending'[i]
        BY <1>3, <1>4, OfFlowsApart
      <3>5. OfServing(ofReq[r], s, i)'
        BY <1>3, <1>4, <1>5, <3>1, <3>4 DEF OfServing
      <3>6. ofAnswers'[s] # 0 => ofAnswers'[s] = 1 /\ OfSpent(s, i)'
        BY <1>3, <1>4, <1>5, <3>1, <3>3 DEF OfOnceAt, OfSpent, OfHasCode
      <3> QED BY <1>3, <3>1, <3>3, <3>5, <3>6 DEF OfOnceAt
    <2> QED BY <2>1, <2>2 DEF OfOnce
  <1> QED BY <1>3, <1>4, <1>5, <1>6, OfOnceServe

\* A callback deletes what was parked; a delete that fails is noted.
LEMMA OfOnceTake ==
    ASSUME OfTypes, OfTypes', OfOnceInv, NEW r \in OfRequests, NEW ok \in BOOLEAN,
           take_proxied_authorization(r, ok)
    PROVE  OfOnceInv'
  <1>1. PICK s \in OfStates : s = ofReq[r].state
    BY DEF take_proxied_authorization, OfTypes, OfRequestTypes, OfCarries, OfCallbackPcs
  <1>2. PICK pc \in {"login", "forward"} : OfSet(r, [ofReq[r] EXCEPT !.pc = pc])
    BY OfGotoIsSet DEF take_proxied_authorization, OfTypes
  <1> DEFINE q == [ofReq[r] EXCEPT !.pc = pc]
  <1>3. /\ UNCHANGED <<ofProxied, ofPending, ofAsked, ofIssued, ofAnswers>>
        /\ ofReq[r].pc \in {"forget", "delete"} /\ ofReq[r] \in OfRequest /\ OfSet(r, q)
    BY <1>2 DEF take_proxied_authorization, ofCaches, OfTypes, OfRequestTypes
  <1>4. q.inst = ofReq[r].inst /\ q.kind = ofReq[r].kind /\ q.state = s /\ q.pc = pc
    BY <1>1, <1>3 DEF OfRequest
  <1> HIDE DEF q
  <1>5. ofReq'[r] = q /\ \A x \in OfRequests \ {r} : ofReq'[x] = ofReq[x]
    BY <1>3 DEF OfSet, OfTypes, OfRequestTypes
  <1>6. /\ \A x \in OfStates \ {s} : ofSole'[x] = ofSole[x]
        /\ \A x \in OfStates : ofParked'[x] \in {ofParked[x], OfNone}
        /\ ok => ofSole'[s] = ofSole[s] /\ ofParked'[s] = OfNone
        /\ ~ok => ofSole'[s] = "many"
    BY <1>1 DEF take_proxied_authorization, OfTypes, OfBackendTypes, OfHistoryTypes
  <1>7. OfOnce(s)'
    <2>1. ofSole'[s] # OfNone
      BY <1>1, <1>3, <1>6, OfServedHasSole, OfAssumption DEF OfCallbackPcs
    <2>2. ASSUME NEW i \in OfInstances, ofSole'[s] = i, i # "many" PROVE OfOnceAt(s, i)'
      <3>0. ofSole[s] = i /\ ofParked'[s] = OfNone
        BY <1>6, <2>2
      <3>1. OfOnceAt(s, i) /\ OfServing(ofReq[r], s, i) /\ OfHandling(s) = {r}
        BY <1>1, <1>3, <2>2, <3>0, OfServesAlone DEF OfCallbackPcs
      <3>2. ofReq[r].kind = "callback"
        BY <3>1 DEF OfHandling
      <3>3. OfHandling(s)' = {r}
        BY <1>4, <1>5, <3>1, <3>2 DEF OfHandling
      <3>4. OfServing(ofReq[r], s, i)'
        BY <1>3, <1>4, <1>5, <3>0, <3>1 DEF OfServing
      <3>5. ofAnswers'[s] = 0
        BY <1>3, <3>1 DEF OfOnceAt, OfSpent, OfHasCode
      <3> QED BY <1>3, <3>1, <3>3, <3>4, <3>5 DEF OfOnceAt
    <2> QED BY <2>1, <2>2 DEF OfOnce
  <1> QED BY <1>3, <1>4, <1>5, <1>6, <1>7, OfOnceServe

\* The code is used by the one request that has it; nothing of it is left.
LEMMA OfOnceUse ==
    ASSUME OfTypes, OfTypes', OfOnceInv, NEW r \in OfRequests,
           forward_proxied_callback(r) \/ \E ok \in BOOLEAN : exchange_code(r, ok)
    PROVE  OfOnceInv'
  <1>1. PICK s \in OfStates : s = ofReq[r].state
    BY DEF forward_proxied_callback, exchange_code, OfTypes, OfRequestTypes, OfCarries, OfCallbackPcs
  <1>2. /\ UNCHANGED <<ofProxied, ofPending, ofParked, ofAsked, ofIssued, ofSole>>
        /\ ofReq[r].pc \in {"forward", "exchange"}
    BY DEF forward_proxied_callback, exchange_code, ofCaches, ofBackend
  <1>3. OfIdle.pc = "idle" /\ OfIdle.kind = "none"
        /\ ofReq'[r] = OfIdle /\ \A x \in OfRequests \ {r} : ofReq'[x] = ofReq[x]
    BY DEF forward_proxied_callback, exchange_code, OfSet, OfTypes, OfRequestTypes, OfIdle
  <1>4. /\ \A x \in OfStates \ {s} : ofAnswers'[x] = ofAnswers[x]
        /\ ofAnswers[s] = 0 => ofAnswers'[s] \in {0, 1}
    BY <1>1 DEF forward_proxied_callback, exchange_code, OfTypes, OfHistoryTypes
  <1>5. OfOnce(s)'
    <2>1. ofSole'[s] # OfNone
      BY <1>1, <1>2, OfServedHasSole DEF OfCallbackPcs
    <2>2. ASSUME NEW i \in OfInstances, ofSole'[s] = i, i # "many" PROVE OfOnceAt(s, i)'
      <3>1. OfOnceAt(s, i) /\ OfServing(ofReq[r], s, i) /\ OfHandling(s) = {r}
        BY <1>1, <1>2, <2>2, OfServesAlone DEF OfCallbackPcs
      <3>2. OfHandling(s)' = {}
        BY <1>3, <3>1 DEF OfHandling
      <3>3. ofAnswers[s] = 0
        BY <1>2, <3>1 DEF OfOnceAt, OfSpent, OfHasCode
      <3>4. OfSpent(s, i)'
        BY <1>2, <3>1, <3>2 DEF OfSpent, OfServing
      <3> QED BY <1>2, <1>4, <3>1, <3>2, <3>3, <3>4 DEF OfOnceAt
    <2> QED BY <2>1, <2>2 DEF OfOnce
  <1> QED BY <1>2, <1>3, <1>4, <1>5, OfOnceServe

\* A pending login is taken by the one request that serves it.
LEMMA OfOncePending ==
    ASSUME OfTypes, OfTypes', OfOnceInv, NEW r \in OfRequests, login_callback(r)
    PROVE  OfOnceInv'
  <1>1. PICK s \in OfStates : s = ofReq[r].state
    BY DEF login_callback, OfTypes, OfRequestTypes, OfCarries, OfCallbackPcs
  <1>2. /\ UNCHANGED <<ofProxied, ofParked, ofAsked, ofIssued, ofAnswers, ofSole>>
        /\ ofReq[r].pc = "login" /\ ofReq[r] \in OfRequest /\ ofReq[r].inst \in OfInstances
    BY DEF login_callback, ofBackend, ofHistory, OfTypes, OfRequestTypes, OfCarries
  <1>3. PICK q : /\ OfSet(r, q)
                 /\ \/ /\ q = [ofReq[r] EXCEPT !.pc = "exchange"] /\ ofReq[r].answer = "code"
                       /\ s \in ofPending[ofReq[r].inst]
                    \/ q = OfIdle
    BY <1>1, OfGotoIsSet DEF login_callback, OfTypes
  <1>4. /\ \A i \in OfInstances, x \in OfStates : x \in ofPending'[i] => x \in ofPending[i]
        /\ ofReq[r].answer = "code" => s \notin ofPending'[ofReq[r].inst]
    BY <1>1, <1>2 DEF login_callback, OfTypes, OfCacheTypes
  <1>5. \/ /\ q.pc = "exchange" /\ q.kind = ofReq[r].kind /\ q.state = s /\ q.inst = ofReq[r].inst
           /\ s \notin ofPending'[ofReq[r].inst] /\ s \in ofPending[ofReq[r].inst]
        \/ q.pc = "idle" /\ q.kind = "none"
    BY <1>1, <1>2, <1>3, <1>4 DEF OfRequest, OfIdle
  <1>6. ofReq'[r] = q /\ \A x \in OfRequests \ {r} : ofReq'[x] = ofReq[x]
    BY <1>3 DEF OfSet, OfTypes, OfRequestTypes
  <1>7. OfOnce(s)'
    <2>1. ofSole'[s] # OfNone
      BY <1>1, <1>2, OfServedHasSole DEF OfCallbackPcs
    <2>2. ASSUME NEW i \in OfInstances, ofSole'[s] = i, i # "many" PROVE OfOnceAt(s, i)'
      <3>1. /\ OfOnceAt(s, i) /\ OfServing(ofReq[r], s, i) /\ OfHandling(s) = {r}
            /\ ofReq[r].inst = i
        BY <1>1, <1>2, <2>2, OfServesAlone DEF OfCallbackPcs
      <3>2. \A x \in OfHandling(s)' : x = r /\ q.pc = "exchange"
        BY <1>5, <1>6, <3>1 DEF OfHandling
      <3>3. q.pc = "exchange" => ofParked[s] = OfNone /\ s \notin ofPending'[i] /\ q.inst = i
        BY <1>2, <1>5, <3>1, OfFlowsApart
      <3>4. \A x \in OfHandling(s)' : OfServing(ofReq[x], s, i)'
        BY <1>2, <1>6, <3>1, <3>2, <3>3 DEF OfServing
      <3>5. ofAnswers'[s] # 0 => ofAnswers'[s] = 1 /\ OfSpent(s, i)'
        BY <1>2, <1>4, <1>5, <3>1, <3>2 DEF OfOnceAt, OfSpent
      <3> QED BY <1>2, <3>1, <3>2, <3>4, <3>5 DEF OfOnceAt
    <2> QED BY <2>1, <2>2 DEF OfOnce
  <1> QED BY <1>2, <1>4, <1>5, <1>6, <1>7, OfOnceServe

\* OfOnceInv is inductive.
LEMMA OfOnceNext ==
    ASSUME OfTypes, OfTypes', OfOnceInv, [OfNext]_ofVars
    PROVE  OfOnceInv'
  <1>1. CASE UNCHANGED ofVars
    <2>1. UNCHANGED <<ofProxied, ofPending, ofParked, ofAsked, ofIssued, ofAnswers, ofSole, ofReq>>
      BY <1>1 DEF ofVars, ofCaches, ofBackend, ofHistory
    <2> QED BY <2>1, OfOnceQuiet
  <1>2. ASSUME NEW r \in OfRequests, NEW ok \in BOOLEAN,
               \/ register_client_redirects(r, ok) \/ client_redirects(r, ok)
               \/ store_proxied_authorization(r, ok) \/ peek_parked(r, ok)
               \/ take_proxied_authorization(r, ok) \/ exchange_code(r, ok)
        PROVE  OfOnceInv'
    BY <1>2, OfOnceAuthorize, OfOnceStore, OfOncePeek, OfOnceTake, OfOnceUse
  <1>3. ASSUME NEW r \in OfRequests,
               \/ \E i \in OfInstances, x \in OfRegisters : register_handler(r, i, x[1], x[2])
               \/ \E i \in OfInstances, x \in OfAsks : authorize_handler(r, i, x[1], x[2])
               \/ cache_client(r) \/ refuse_redirect(r)
        PROVE  OfOnceInv'
    BY <1>3, OfOnceAuthorize
  <1>4. ASSUME NEW r \in OfRequests,
               \/ \E i \in OfInstances, s \in OfStates :
                      \/ login_handler(r, i, s)
                      \/ \E a \in {"code", "error"} : callback_handler(r, i, s, a)
               \/ \E s \in OfStates : park_authorization(r, s)
               \/ forward_proxied_callback(r) \/ login_callback(r)
        PROVE  OfOnceInv'
    BY <1>4, OfOnceLogin, OfOnceCallback, OfOncePark, OfOnceUse, OfOncePending
  <1> QED BY <1>1, <1>2, <1>3, <1>4, OfOnceDrops DEF OfNext

\* Theorem: in every reachable state a code has been used at most once, by one of the two
\* flows, for every state whose callbacks one instance serves one at a time and whose
\* deletes succeed (store.rs take_proxied_authorization, "Take (single use)"; routes.rs
\* login_callback), however often and however late its callback comes back.
THEOREM CodesUsedOnce == OfSpec => []CodeUsedOnce
  <1>1. OfInit => OfTypes /\ OfOnceInv
    <2> SUFFICES ASSUME OfInit PROVE OfOnceInv
      BY OfTypesInit
    <2>1. OfFlowsOK /\ OfParksOK
      BY DEF OfInit, OfFlowsOK, OfParksOK, OfIdle
    <2>2. \A s \in OfStates : OfOnce(s)
      BY OfAssumption DEF OfInit, OfOnce, OfHandling, OfIdle
    <2> QED BY <2>1, <2>2 DEF OfOnceInv
  <1>2. OfTypes /\ OfOnceInv /\ [OfNext]_ofVars => (OfTypes /\ OfOnceInv)'
    BY OfTypesNext, OfOnceNext
  <1>3. OfTypes /\ OfOnceInv => CodeUsedOnce
    <2> SUFFICES ASSUME OfTypes, OfOnceInv, NEW s \in OfStates, ofSole[s] # "many"
                 PROVE  ofAnswers[s] <= 1
      BY DEF CodeUsedOnce
    <2>1. ofSole[s] \in OfInstances \cup {OfNone} /\ ofAnswers[s] \in 0 .. 2 /\ OfOnce(s)
      BY DEF OfTypes, OfHistoryTypes, OfOnceInv
    <2> QED BY <2>1 DEF OfOnce, OfOnceAt
  <1> QED BY <1>1, <1>2, <1>3, PTL DEF OfSpec

\* The caches, the backend and the history stay what their Rust types make them, and a
\* request carries at each await what the code after it needs: the client and its URIs
\* where it registers or authorizes, the state and the parked URI in a callback
\* (auth/routes.rs, auth/proxy.rs, auth/registration.rs).
THEOREM OfTypeCorrect == OfSpec => []OfTypeOK
  <1>1. OfTypes => OfTypeOK
    BY DEF OfTypes, OfCacheTypes, OfBackendTypes, OfHistoryTypes, OfRequestTypes, OfTypeOK, OfLists
  <1> QED BY <1>1, OfTypesInit, OfTypesNext, PTL DEF OfSpec
=============================================================================
