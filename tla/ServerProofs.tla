---------------------------- MODULE ServerProofs ----------------------------
(***************************************************************************)
(* The parts of the server beside the grants, for every value of their     *)
(* constants: transport session recovery, the protocol ceiling and the     *)
(* repair of initialize requests, the dispatch of tools, and the registry  *)
(* of capabilities; and the server they make up together with the OAuth    *)
(* routes, the JWKS validator and the session bindings.  Each part has its *)
(* own inductive invariant; no part shares a variable with another.        *)
(***************************************************************************)
EXTENDS ServerState, OAuthFlowProofs, BearerProofs, SequenceTheorems

-----------------------------------------------------------------------------
(***************************************************************************)
(* Transport session recovery.  For any sessions, any number of concurrent *)
(* loads and any ttl: an ended session stays ended and the index covers    *)
(* the keys.  Both are inductive together with the type invariant.         *)
(***************************************************************************)

TsInv == TsTypeOK /\ DeletedStaysDeleted /\ IndexCoversKeys

\* Init establishes the invariant: no session and no load.
LEMMA TsInitInv == TsInit => TsInv
  BY TsAssumption DEF TsInit, TsInv, TsTypeOK, TsIdle, DeletedStaysDeleted, IndexCoversKeys

\* What a load that has read a record carries is a session.
TsReading == \A l \in TsLoads : tsLoad[l].pc = "read" => tsLoad[l].session \in TsSessions

\* Only load_get sets what a load carries, and it is a session.
LEMMA TsReadingStep == TsTypeOK /\ TsReading /\ [TsNext]_tsVars => TsReading'
  <1> SUFFICES ASSUME TsTypeOK, TsReading, [TsNext]_tsVars PROVE TsReading'
    OBVIOUS
  <1> USE DEF TsTypeOK, TsReading
  <1>1. CASE \E s \in TsSessions : store(s) \/ delete(s)
    BY <1>1 DEF store, delete
  <1>2. CASE \E s \in TsSessions, l \in TsLoads : load_get(l, s)
    BY <1>2 DEF load_get
  <1>3. CASE \E l \in TsLoads : load_touch(l)
    BY <1>3 DEF load_touch
  <1>4. CASE \E l \in TsLoads : TsFinish(l)
    BY <1>4 DEF TsFinish, TsIdle
  <1>5. CASE TsTick
    BY <1>5 DEF TsTick
  <1>6. CASE UNCHANGED tsVars
    BY <1>6 DEF tsVars
  <1> QED BY <1>1, <1>2, <1>3, <1>4, <1>5, <1>6 DEF TsNext

\* Every step keeps the invariant: touch extends a key that exists and creates none.
LEMMA TsInvStep == TsInv /\ TsReading /\ [TsNext]_tsVars => TsInv'
  <1> SUFFICES ASSUME TsInv, TsReading, [TsNext]_tsVars PROVE TsInv'
    OBVIOUS
  <1> USE TsAssumption DEF TsInv, TsTypeOK, DeletedStaysDeleted, IndexCoversKeys
  <1>1. ASSUME NEW s \in TsSessions, store(s) PROVE TsInv'
    BY <1>1 DEF store, redis_set
  <1>2. ASSUME NEW s \in TsSessions, delete(s) PROVE TsInv'
    BY <1>2 DEF delete, redis_delete
  <1>3. ASSUME NEW s \in TsSessions, NEW l \in TsLoads, load_get(l, s) PROVE TsInv'
    BY <1>3 DEF load_get
  <1>4. ASSUME NEW l \in TsLoads, load_touch(l) PROVE TsInv'
    BY <1>4 DEF load_touch, touch, TsReading
  <1>5. ASSUME NEW l \in TsLoads, TsFinish(l) PROVE TsInv'
    BY <1>5 DEF TsFinish, TsIdle
  <1>6. CASE TsTick
    BY <1>6 DEF TsTick
  <1>7. CASE UNCHANGED tsVars
    BY <1>7 DEF tsVars
  <1> QED BY <1>1, <1>2, <1>3, <1>4, <1>5, <1>6, <1>7 DEF TsNext

\* Both hold in every state.
LEMMA TsAlways == TsSpec => [](TsInv /\ TsReading)
  <1>1. TsInit => TsReading
    BY DEF TsInit, TsReading, TsIdle
  <1>2. TsInv => TsTypeOK
    BY DEF TsInv
  <1> QED BY <1>1, <1>2, TsInitInv, TsInvStep, TsReadingStep, PTL DEF TsSpec

\* The record of a session a client has ended never comes back, for any number of
\* loads that were under way (session_persistence.rs load, persistence_redis.rs touch).
THEOREM EndedStaysEnded == TsSpec => []DeletedStaysDeleted
  <1>1. TsInv => DeletedStaysDeleted
    BY DEF TsInv
  <1> QED BY <1>1, TsAlways, PTL

\* keys() lists every record that exists (persistence_redis.rs set, touch, delete).
THEOREM KeysAreIndexed == TsSpec => []IndexCoversKeys
  <1>1. TsInv => IndexCoversKeys
    BY DEF TsInv
  <1> QED BY <1>1, TsAlways, PTL

-----------------------------------------------------------------------------
(***************************************************************************)
(* Protocol lifecycle.  For any set of revisions and any configuration:    *)
(* the ceiling leaves something to offer, and the repair of initialize     *)
(* requests keeps the agreement of header and body.                        *)
(***************************************************************************)

\* What is offered is what the ceiling leaves of what the handler supports.
PlBooted ==
    /\ plInner \in SUBSET PlKnown /\ plInner # {}
    /\ plMax \notin {PlUnset, PlError} =>
           plMax \in PlKnown \cup {PlNone} /\ plOffered = cap_protocol_versions(plInner, plMax)

\* What is passed on is the request, or the request repaired, or nothing.
PlRepaired ==
    \/ plRequest = PlNone
    \/ /\ plRequest \in PlRequests
       /\ plPassed = IF plPolicy # "Hybrid" \/ plRequest.method # "POST" THEN plRequest
                     ELSE IF ~plRequest.fits THEN PlNone ELSE normalize_initialize(plRequest)

\* A ceiling leaves something, and nothing above it unless nothing is below it.
LEMMA CapLeaves ==
    ASSUME NEW inner \in SUBSET PlKnown, inner # {}, NEW max \in PlKnown \cup {PlNone}
    PROVE  LET offered == cap_protocol_versions(inner, max) IN
           /\ offered # {} /\ offered \subseteq inner
           /\ \/ max = PlNone /\ offered = inner
              \/ max # PlNone /\ \A v \in offered : v <= max \/ \A x \in inner : x > max
  <1>1. CASE max = PlNone
    BY <1>1 DEF cap_protocol_versions
  <1>2. CASE max # PlNone
    <2>1. max \in Nat /\ inner \subseteq Nat
      BY <1>2, PlAssumption
    <2>2. CASE {v \in inner : v <= max} = {}
      <3>1. cap_protocol_versions(inner, max) = inner
        BY <1>2, <2>2 DEF cap_protocol_versions
      <3>2. \A x \in inner : x > max
        BY <2>1, <2>2
      <3> QED BY <1>2, <3>1, <3>2
    <2>3. CASE {v \in inner : v <= max} # {}
      <3>1. cap_protocol_versions(inner, max) = {v \in inner : v <= max}
        BY <1>2, <2>3 DEF cap_protocol_versions
      <3> QED BY <1>2, <2>3, <3>1
    <2> QED BY <2>2, <2>3
  <1> QED BY <1>1, <1>2

\* The ceiling is settled when the server starts and does not move.
LEMMA PlBootedAlways == PlSpec => []PlBooted
  <1>1. PlInit => PlBooted
    BY DEF PlInit, PlBooted
  <1>2. PlBooted /\ [PlNext]_plVars => PlBooted'
    <2> SUFFICES ASSUME PlBooted, [PlNext]_plVars PROVE PlBooted'
      OBVIOUS
    <2>1. ASSUME NEW builder, NEW env, PlBoot(builder, env) PROVE PlBooted'
      <3> DEFINE max == resolve_max_protocol_version(builder, env)
      <3>1. max \in PlKnown \cup {PlNone} \/ max = PlError
        BY DEF resolve_max_protocol_version, validate_max_protocol_version
      <3>2. /\ plMax' = max /\ plInner' = plInner
            /\ plOffered' = IF max = PlError THEN {} ELSE cap_protocol_versions(plInner, max)
        BY <2>1 DEF PlBoot
      <3> HIDE DEF max
      <3> QED BY <3>1, <3>2 DEF PlBooted, cap_protocol_versions
    <2>2. ASSUME NEW q, normalize_protocol_lifecycle(q) PROVE PlBooted'
      BY <2>2 DEF normalize_protocol_lifecycle, PlBooted, cap_protocol_versions
    <2>3. CASE PlAgain
      BY <2>3 DEF PlAgain, PlBooted, cap_protocol_versions
    <2>4. CASE UNCHANGED plVars
      BY <2>4 DEF plVars, PlBooted, cap_protocol_versions
    <2> QED BY <2>1, <2>2, <2>3, <2>4 DEF PlNext
  <1> QED BY <1>1, <1>2, PTL DEF PlSpec

\* Every configuration that boots offers something, and nothing above its ceiling
\* that the handler could do without (protocol.rs cap_protocol_versions).
THEOREM CeilingHolds == PlSpec => []CeilingRespected
  <1>1. PlBooted => CeilingRespected
    BY CapLeaves DEF PlBooted, CeilingRespected
  <1> QED BY <1>1, PlBootedAlways, PTL

-----------------------------------------------------------------------------
\* What is passed on is what the policy makes of the request it came from.
LEMMA PlRepairedAlways == PlSpec => []PlRepaired
  <1>1. PlInit => PlRepaired
    BY DEF PlInit, PlRepaired
  <1>2. PlRepaired /\ [PlNext]_plVars => PlRepaired'
    <2> SUFFICES ASSUME PlRepaired, [PlNext]_plVars PROVE PlRepaired'
      OBVIOUS
    <2>1. ASSUME NEW builder, NEW env, PlBoot(builder, env) PROVE PlRepaired'
      BY <2>1 DEF PlBoot, PlRepaired
    <2>2. ASSUME NEW q \in PlRequests, normalize_protocol_lifecycle(q) PROVE PlRepaired'
      BY <2>2 DEF normalize_protocol_lifecycle, PlRepaired
    <2>3. CASE PlAgain
      BY <2>3 DEF PlAgain, PlRepaired
    <2>4. CASE UNCHANGED plVars
      BY <2>4 DEF plVars, PlRepaired
    <2> QED BY <2>1, <2>2, <2>3, <2>4 DEF PlNext
  <1> QED BY <1>1, <1>2, PTL DEF PlSpec

\* What the repair does to one request.
LEMMA RepairOfOne ==
    ASSUME NEW q \in PlRequests
    PROVE  LET p == normalize_initialize(q) IN
           /\ p.rpc = q.rpc
           /\ p.rpc = "initialize" => ~is_modern_date_version(p.body)
           /\ q.header # PlLegacy => ((p.header = p.body) <=> (q.header = q.body))
           /\ [p EXCEPT !.body = q.body, !.header = q.header] = q
  <1>1. CASE q.rpc = "initialize" /\ is_modern_date_version(q.body)
    <2>1. normalize_initialize(q) =
              [q EXCEPT !.body = PlLegacy,
                        !.header = IF q.header = q.body THEN PlLegacy ELSE q.header]
      BY <1>1 DEF normalize_initialize
    <2>2. ~is_modern_date_version(PlLegacy)
      BY PlAssumption DEF is_modern_date_version
    <2> QED BY <2>1, <2>2 DEF PlRequests
  <1>2. CASE ~(q.rpc = "initialize" /\ is_modern_date_version(q.body))
    <2>1. normalize_initialize(q) = q
      BY <1>2 DEF normalize_initialize
    <2> QED BY <1>2, <2>1 DEF PlRequests
  <1> QED BY <1>1, <1>2

\* No modern initialize is passed on under the hybrid policy, and header and body
\* agree after the repair as they did before (protocol.rs
\* normalize_protocol_lifecycle).
THEOREM RepairIsFaithful == PlSpec => []RepairKeepsAgreement
  <1>1. PlRepaired => RepairKeepsAgreement
    <2> SUFFICES ASSUME PlRepaired, plPolicy = "Hybrid", plRequest # PlNone, plPassed # PlNone
                 PROVE  /\ (plRequest.method = "POST" /\ plPassed.rpc = "initialize")
                               => ~is_modern_date_version(plPassed.body)
                        /\ plRequest.header # PlLegacy =>
                               ((plPassed.header = plPassed.body)
                                    <=> (plRequest.header = plRequest.body))
                        /\ [plPassed EXCEPT !.body = plRequest.body,
                                            !.header = plRequest.header] = plRequest
      BY DEF RepairKeepsAgreement
    <2>1. plRequest \in PlRequests
      BY DEF PlRepaired
    <2>2. CASE plRequest.method = "POST"
      <3>1. plPassed = normalize_initialize(plRequest)
        BY <2>2 DEF PlRepaired
      <3> QED BY <2>1, <3>1, RepairOfOne
    <2>3. CASE plRequest.method # "POST"
      <3>1. plPassed = plRequest
        BY <2>3 DEF PlRepaired
      <3> QED BY <2>1, <2>3, <3>1 DEF PlRequests
    <2> QED BY <2>2, <2>3
  <1> QED BY <1>1, PlRepairedAlways, PTL

-----------------------------------------------------------------------------
(***************************************************************************)
(* Tool dispatch.  For any names, requests, filters and any schedule of    *)
(* registrations and token refreshes: a tool runs as it was checked, and a *)
(* listing shows what a use would reach.                                   *)
(***************************************************************************)

TdPcs == {"idle", "resolve", "inner_list", "merge", "listed", "validate", "filter", "contains",
          "context", "dispatch", "running"}
TdRequest == [pc : TdPcs, ask : TdArrivals \cup {TdNone}, checked : TdCredentials,
              given : TdCredentials, source : {"none", "inner", "registry"},
              items : SUBSET (TdNames \X {"inner", "registry"})]

\* What a request may have come to, by its position.
TdAsked(q) == q.pc # "idle" => q.ask \in TdArrivals
TdListing(q) ==
    q.pc = "merge" => q.items = TdItems(TdInner[q.ask.kind], "inner")
TdAdmitted(q) ==
    /\ q.pc \in {"contains", "context"} => q.ask.kind = "tools"
    /\ (q.pc \in {"contains", "context", "dispatch", "running"} /\ q.ask.kind = "tools") =>
           q.ask.name \notin q.ask.hidden
TdGiven(q, guarded) ==
    /\ q.source = "inner" => q.pc = "running"
    /\ (q.pc \in {"dispatch", "running"} /\ q.ask.kind = "tools" /\ guarded /\ q.source # "inner") =>
           q.given = q.checked
TdReady(q, guarded) == TdAsked(q) /\ TdListing(q) /\ TdAdmitted(q) /\ TdGiven(q, guarded)

TdInv ==
    /\ tdCall \in [TdCalls -> TdRequest]
    /\ tdRegistry \in [TdKinds -> SUBSET TdNames]
    /\ tdToken \in TdTokens \cup {TdNone} /\ tdNewest \in TdTokens
    /\ \A r \in TdCalls : TdReady(tdCall[r], tdGuarded)

\* Merging gives a name the registry has to the registry, and any other to the inner
\* handler.
LEMMA TdMerged ==
    ASSUME NEW inner \in SUBSET TdNames, NEW names \in SUBSET TdNames
    PROVE  LET merged == merge_registry_items(TdItems(inner, "inner"), TdItems(names, "registry")) IN
           /\ merged \in SUBSET (TdNames \X {"inner", "registry"})
           /\ \A n \in TdNames :
                  /\ <<n, "registry">> \in merged <=> n \in names
                  /\ <<n, "inner">> \in merged <=> n \in inner /\ n \notin names
  <1> DEFINE merged == merge_registry_items(TdItems(inner, "inner"), TdItems(names, "registry"))
  <1>1. merged = {x \in inner \X {"inner"} : \A y \in names \X {"registry"} : x[1] # y[1]}
                     \cup (names \X {"registry"})
    BY DEF merge_registry_items, TdItems
  <1>2. ASSUME NEW n \in TdNames
        PROVE  /\ <<n, "registry">> \in merged <=> n \in names
               /\ <<n, "inner">> \in merged <=> n \in inner /\ n \notin names
    <2>1. <<n, "registry">> \in merged <=> n \in names
      BY <1>1
    <2>2. <<n, "inner">> \in merged
              <=> n \in inner /\ \A y \in names \X {"registry"} : n # y[1]
      BY <1>1
    <2>3. n \in names => <<n, "registry">> \in names \X {"registry"} /\ <<n, "registry">>[1] = n
      OBVIOUS
    <2>4. \A y \in names \X {"registry"} : y[1] \in names
      OBVIOUS
    <2> QED BY <2>1, <2>2, <2>3, <2>4
  <1> QED BY <1>1, <1>2

\* A request that steps changes its own record to one that is typed and ready.
LEMMA TdOwnRecord ==
    ASSUME TdInv, NEW r \in TdCalls, NEW q, TdSet(r, q), q \in TdRequest,
           TdReady(q, tdGuarded), UNCHANGED TdOthers
    PROVE  TdInv'
  <1>1. tdCall' = [tdCall EXCEPT ![r] = q]
    BY DEF TdSet
  <1>2. /\ tdCall' \in [TdCalls -> TdRequest] /\ tdCall'[r] = q
        /\ \A x \in TdCalls \ {r} : tdCall'[x] = tdCall[x]
    BY <1>1 DEF TdInv
  <1>3. tdGuarded' = tdGuarded /\ tdRegistry' = tdRegistry /\ tdToken' = tdToken
        /\ tdNewest' = tdNewest
    BY DEF TdOthers
  <1>4. \A x \in TdCalls : TdReady(tdCall'[x], tdGuarded')
    BY <1>2, <1>3 DEF TdInv
  <1> QED BY <1>2, <1>3, <1>4 DEF TdInv

\* A step of the registry or of the token store leaves the requests alone.
LEMMA TdOtherRecords ==
    ASSUME TdInv, UNCHANGED <<tdCall, tdGuarded>>, tdRegistry' \in [TdKinds -> SUBSET TdNames],
           tdToken' \in TdTokens \cup {TdNone}, tdNewest' \in TdTokens
    PROVE  TdInv'
  BY DEF TdInv

\* A slot without a request is typed and ready.
LEMMA TdIdleIsReady == TdIdle \in TdRequest /\ TdReady(TdIdle, tdGuarded)
  BY DEF TdIdle, TdRequest, TdPcs, TdReady, TdAsked, TdListing, TdAdmitted, TdGiven, TdCredentials

\* Init establishes the invariant: no request is under way.
LEMMA TdInvInit == TdInit => TdInv
  BY TdAssumption, TdIdleIsReady DEF TdInit, TdInv, TdTokens

\* The record of a request that is under way.
LEMMA TdUnderWay ==
    ASSUME TdInv, NEW r \in TdCalls
    PROVE  /\ tdCall[r] \in TdRequest /\ TdReady(tdCall[r], tdGuarded)
           /\ tdCall[r].pc # "idle" => tdCall[r].ask \in TdArrivals
  BY DEF TdInv, TdReady, TdAsked

\* resolve_token gives a credential.
LEMMA TdResolved == ASSUME TdInv, NEW ask PROVE resolve_token(ask) \in TdCredentials
  BY DEF TdInv, resolve_token, TdCredentials

\* A request that arrives has nothing in hand yet.
LEMMA TdArriveInv ==
    ASSUME TdInv, NEW r \in TdCalls, NEW ask \in TdArrivals, TdArrive(r, ask)
    PROVE  TdInv'
  <1> DEFINE q == tdCall[r]
              n == [TdIdle EXCEPT !.ask = ask,
                        !.pc = IF ask.op = "list" \/ tdGuarded THEN "resolve" ELSE "filter"]
  <1>1. q \in TdRequest /\ TdReady(q, tdGuarded) /\ (q.pc # "idle" => q.ask \in TdArrivals)
    BY TdUnderWay
  <1>2. TdSet(r, n) /\ UNCHANGED TdOthers
    BY DEF TdArrive
  <1>3. n \in TdRequest
    BY <1>1, <1>2, TdIdleIsReady DEF TdRequest, TdPcs, TdIdle
  <1>4. TdReady(n, tdGuarded)
    BY <1>1, <1>2, TdIdleIsReady DEF TdIdle, TdReady, TdAsked, TdListing, TdAdmitted, TdGiven
  <1> QED BY <1>2, <1>3, <1>4, TdOwnRecord

\* Resolving sets the credential that will be checked, before any is given.
LEMMA TdResolveInv ==
    ASSUME TdInv, NEW r \in TdCalls, TdResolve(r)
    PROVE  TdInv'
  <1> DEFINE q == tdCall[r]
              n == [q EXCEPT !.checked = resolve_token(q.ask),
                        !.pc = IF q.ask.op = "list" THEN "inner_list" ELSE "validate"]
  <1>1. q \in TdRequest /\ TdReady(q, tdGuarded) /\ (q.pc # "idle" => q.ask \in TdArrivals)
    BY TdUnderWay
  <1>2. TdSet(r, n) /\ UNCHANGED TdOthers /\ q.pc = "resolve"
    BY DEF TdResolve
  <1>3. n \in TdRequest
    BY <1>1, <1>2, TdIdleIsReady, TdResolved DEF TdRequest, TdPcs
  <1>4. TdReady(n, tdGuarded)
    BY <1>1, <1>2, TdIdleIsReady DEF TdRequest, TdReady, TdAsked, TdListing, TdAdmitted, TdGiven
  <1> QED BY <1>2, <1>3, <1>4, TdOwnRecord

\* The inner handler's items carry its mark, which the merge relies on.
LEMMA TdInnerListInv ==
    ASSUME TdInv, NEW r \in TdCalls, TdInnerList(r)
    PROVE  TdInv'
  <1> DEFINE q == tdCall[r]
              n == [q EXCEPT !.pc = "merge", !.items = TdItems(TdInner[q.ask.kind], "inner")]
  <1>1. q \in TdRequest /\ TdReady(q, tdGuarded) /\ (q.pc # "idle" => q.ask \in TdArrivals)
    BY TdUnderWay
  <1>2. TdSet(r, n) /\ UNCHANGED TdOthers /\ q.pc = "inner_list"
    BY DEF TdInnerList
  <1>3. n \in TdRequest
    BY <1>1, <1>2, TdIdleIsReady, TdAssumption DEF TdRequest, TdPcs, TdItems
  <1>4. TdReady(n, tdGuarded)
    BY <1>1, <1>2, TdIdleIsReady, TdAssumption DEF TdItems, TdRequest, TdReady, TdAsked, TdListing, TdAdmitted, TdGiven
  <1> QED BY <1>2, <1>3, <1>4, TdOwnRecord

\* A refusal ends the request; a yes moves it on with its credential.
LEMMA TdValidateInv ==
    ASSUME TdInv, NEW r \in TdCalls, NEW allow \in BOOLEAN, TdValidate(r, allow)
    PROVE  TdInv'
  <1> DEFINE q == tdCall[r]
              n == IF allow THEN [q EXCEPT !.pc = "filter"] ELSE TdIdle
  <1>1. q \in TdRequest /\ TdReady(q, tdGuarded) /\ (q.pc # "idle" => q.ask \in TdArrivals)
    BY TdUnderWay
  <1>2. TdSet(r, n) /\ UNCHANGED TdOthers /\ q.pc = "validate"
    BY DEF TdValidate
  <1>3. n \in TdRequest
    BY <1>1, <1>2, TdIdleIsReady DEF TdRequest, TdPcs
  <1>4. TdReady(n, tdGuarded)
    BY <1>1, <1>2, TdIdleIsReady DEF TdRequest, TdReady, TdAsked, TdListing, TdAdmitted, TdGiven
  <1> QED BY <1>2, <1>3, <1>4, TdOwnRecord

\* Past the query filter a tool is not one the query hides.
LEMMA TdQueryFilterInv ==
    ASSUME TdInv, NEW r \in TdCalls, query_filter(r)
    PROVE  TdInv'
  <1> DEFINE q == tdCall[r]
              n == IF q.ask.kind = "tools" /\ q.ask.name \in resolve_query_filter(q.ask) THEN TdIdle
                   ELSE [q EXCEPT !.pc = IF q.ask.kind = "tools" THEN "contains" ELSE "dispatch"]
  <1>1. q \in TdRequest /\ TdReady(q, tdGuarded) /\ (q.pc # "idle" => q.ask \in TdArrivals)
    BY TdUnderWay
  <1>2. TdSet(r, n) /\ UNCHANGED TdOthers /\ q.pc = "filter"
    BY DEF query_filter
  <1>3. n \in TdRequest
    BY <1>1, <1>2, TdIdleIsReady DEF TdRequest, TdPcs
  <1>4. TdReady(n, tdGuarded)
    BY <1>1, <1>2, TdIdleIsReady DEF TdRequest, TdReady, TdAsked, TdListing, TdAdmitted, TdGiven, resolve_query_filter
  <1> QED BY <1>2, <1>3, <1>4, TdOwnRecord

\* Only a tool of the registry goes on to get a context.
LEMMA TdContainsToolInv ==
    ASSUME TdInv, NEW r \in TdCalls, contains_tool(r)
    PROVE  TdInv'
  <1> DEFINE q == tdCall[r]
              n == IF q.ask.name \in tdRegistry["tools"] THEN [q EXCEPT !.pc = "context"]
                   ELSE [q EXCEPT !.pc = "running", !.source = "inner"]
  <1>1. q \in TdRequest /\ TdReady(q, tdGuarded) /\ (q.pc # "idle" => q.ask \in TdArrivals)
    BY TdUnderWay
  <1>2. TdSet(r, n) /\ UNCHANGED TdOthers /\ q.pc = "contains"
    BY DEF contains_tool
  <1>3. n \in TdRequest
    BY <1>1, <1>2, TdIdleIsReady DEF TdRequest, TdPcs
  <1>4. TdReady(n, tdGuarded)
    BY <1>1, <1>2, TdIdleIsReady DEF TdRequest, TdReady, TdAsked, TdListing, TdAdmitted, TdGiven
  <1> QED BY <1>2, <1>3, <1>4, TdOwnRecord

\* With a validator, what is given is what was checked.
LEMMA TdToolContextInv ==
    ASSUME TdInv, NEW r \in TdCalls, tool_context(r)
    PROVE  TdInv'
  <1> DEFINE q == tdCall[r]
              n == [q EXCEPT !.pc = "dispatch",
                        !.given = IF tdGuarded THEN q.checked ELSE resolve_token(q.ask)]
  <1>1. q \in TdRequest /\ TdReady(q, tdGuarded) /\ (q.pc # "idle" => q.ask \in TdArrivals)
    BY TdUnderWay
  <1>2. TdSet(r, n) /\ UNCHANGED TdOthers /\ q.pc = "context"
    BY DEF tool_context
  <1>3. n \in TdRequest
    BY <1>1, <1>2, TdIdleIsReady, TdResolved DEF TdRequest, TdPcs
  <1>4. TdReady(n, tdGuarded)
    BY <1>1, <1>2, TdIdleIsReady DEF TdRequest, TdReady, TdAsked, TdListing, TdAdmitted, TdGiven
  <1> QED BY <1>2, <1>3, <1>4, TdOwnRecord

\* Dispatch chooses who runs the tool and leaves its credential alone.
LEMMA TdTryDispatchInv ==
    ASSUME TdInv, NEW r \in TdCalls, try_dispatch(r)
    PROVE  TdInv'
  <1> DEFINE q == tdCall[r]
              n == [q EXCEPT !.pc = "running",
                        !.source = IF q.ask.name \in tdRegistry[q.ask.kind] THEN "registry" ELSE "inner"]
  <1>1. q \in TdRequest /\ TdReady(q, tdGuarded) /\ (q.pc # "idle" => q.ask \in TdArrivals)
    BY TdUnderWay
  <1>2. TdSet(r, n) /\ UNCHANGED TdOthers /\ q.pc = "dispatch"
    BY DEF try_dispatch
  <1>3. n \in TdRequest
    BY <1>1, <1>2, TdIdleIsReady DEF TdRequest, TdPcs
  <1>4. TdReady(n, tdGuarded)
    BY <1>1, <1>2, TdIdleIsReady DEF TdRequest, TdReady, TdAsked, TdListing, TdAdmitted, TdGiven
  <1> QED BY <1>2, <1>3, <1>4, TdOwnRecord

\* An answered request leaves an idle slot.
LEMMA TdFinishInv ==
    ASSUME TdInv, NEW r \in TdCalls, TdFinish(r)
    PROVE  TdInv'
  <1> DEFINE q == tdCall[r]
              n == TdIdle
  <1>1. q \in TdRequest /\ TdReady(q, tdGuarded) /\ (q.pc # "idle" => q.ask \in TdArrivals)
    BY TdUnderWay
  <1>2. TdSet(r, n) /\ UNCHANGED TdOthers
    BY DEF TdFinish
  <1>3. n \in TdRequest
    BY TdIdleIsReady
  <1>4. TdReady(n, tdGuarded)
    BY TdIdleIsReady
  <1> QED BY <1>2, <1>3, <1>4, TdOwnRecord

\* What a listing shows of a name, and with which provider.
LEMMA TdListItemsInv ==
    ASSUME TdInv, NEW r \in TdCalls, list_items(r)
    PROVE  /\ TdInv'
           /\ \A n \in TdNames, source \in {"inner", "registry"} :
                  <<n, source>> \in tdCall'[r].items
                      <=> /\ source = TdProvider(tdCall[r].ask.kind, n)
                          /\ n \in TdShown[tdCall[r].checked]
                          /\ tdCall[r].ask.kind = "tools" => n \notin tdCall[r].ask.hidden
  <1> DEFINE q == tdCall[r]
             merged == merge_registry_items(q.items, TdItems(tdRegistry[q.ask.kind], "registry"))
             shown == {x \in merged : x[1] \in TdShown[q.checked]}
             left == IF q.ask.kind = "tools"
                     THEN {x \in shown : x[1] \notin resolve_query_filter(q.ask)} ELSE shown
             n == [q EXCEPT !.pc = "listed", !.items = left]
  <1>1. q \in TdRequest /\ TdReady(q, tdGuarded) /\ (q.pc # "idle" => q.ask \in TdArrivals)
    BY TdUnderWay
  <1>2. TdSet(r, n) /\ UNCHANGED TdOthers /\ q.pc = "merge"
    BY DEF list_items
  <1>3. q.items = TdItems(TdInner[q.ask.kind], "inner") /\ q.ask.kind \in TdKinds
    BY <1>1, <1>2, TdAssumption DEF TdReady, TdListing
  <1>4. tdRegistry[q.ask.kind] \in SUBSET TdNames /\ TdInner[q.ask.kind] \in SUBSET TdNames
    BY <1>3, TdAssumption DEF TdInv
  <1>5. /\ merged \in SUBSET (TdNames \X {"inner", "registry"})
        /\ \A m \in TdNames :
               /\ <<m, "registry">> \in merged <=> m \in tdRegistry[q.ask.kind]
               /\ <<m, "inner">> \in merged
                      <=> m \in TdInner[q.ask.kind] /\ m \notin tdRegistry[q.ask.kind]
    BY <1>3, <1>4, TdMerged
  <1> HIDE DEF merged
  <1>6. left \in SUBSET (TdNames \X {"inner", "registry"})
    BY <1>5
  <1>7. \A m \in TdNames, source \in {"inner", "registry"} :
            <<m, source>> \in left
                <=> /\ <<m, source>> \in merged
                    /\ m \in TdShown[q.checked]
                    /\ q.ask.kind = "tools" => m \notin q.ask.hidden
    BY DEF resolve_query_filter
  <1>8. \A m \in TdNames, source \in {"inner", "registry"} :
            <<m, source>> \in merged <=> source = TdProvider(q.ask.kind, m)
    BY <1>5 DEF TdProvider
  <1> HIDE DEF left
  <1>9. n \in TdRequest /\ n.items = left
    BY <1>1, <1>6 DEF TdRequest, TdPcs
  <1>10. TdReady(n, tdGuarded)
    BY <1>1, <1>2 DEF TdRequest, TdReady, TdAsked, TdListing, TdAdmitted, TdGiven
  <1>11. TdInv'
    BY <1>2, <1>9, <1>10, TdOwnRecord
  <1>12. tdCall'[r] = n
    <2> HIDE DEF n
    <2>1. tdCall' = [tdCall EXCEPT ![r] = n]
      BY <1>2 DEF TdSet
    <2> QED BY <2>1 DEF TdInv
  <1> QED BY <1>7, <1>8, <1>9, <1>11, <1>12

\* A registration concerns no request under way.
LEMMA TdRegisterInv ==
    ASSUME TdInv, NEW x \in TdChanging, NEW present \in BOOLEAN, TdRegister(x[1], x[2], present)
    PROVE  TdInv'
  <1>1. x[1] \in TdKinds /\ x[2] \in TdNames
    BY TdAssumption
  <1>2. tdRegistry' \in [TdKinds -> SUBSET TdNames]
    BY <1>1 DEF TdInv, TdRegister
  <1> QED BY <1>2, TdOtherRecords DEF TdInv, TdRegister

\* Neither does a refresh of the session's token: a request keeps what it resolved.
LEMMA TdStoreTokenInv == ASSUME TdInv, TdStoreToken PROVE TdInv'
  <1>1. tdNewest + 1 \in TdTokens
    BY TdAssumption DEF TdInv, TdStoreToken, TdTokens
  <1> QED BY <1>1, TdOtherRecords DEF TdInv, TdStoreToken

\* Nor its removal.
LEMMA TdRemoveTokenInv == ASSUME TdInv, TdRemoveToken PROVE TdInv'
  BY TdOtherRecords DEF TdInv, TdRemoveToken

\* Every step keeps the invariant.
LEMMA TdStepInv == ASSUME TdInv, [TdNext]_tdVars PROVE TdInv'
  <1>1. ASSUME NEW r \in TdCalls, NEW ask \in TdArrivals, TdArrive(r, ask) PROVE TdInv'
    BY <1>1, TdArriveInv
  <1>2. ASSUME NEW r \in TdCalls, NEW allow \in BOOLEAN, TdValidate(r, allow) PROVE TdInv'
    BY <1>2, TdValidateInv
  <1>3. ASSUME NEW r \in TdCalls, TdResolve(r) \/ TdInnerList(r) \/ list_items(r) \/ query_filter(r)
        PROVE  TdInv'
    BY <1>3, TdResolveInv, TdInnerListInv, TdListItemsInv, TdQueryFilterInv
  <1>4. ASSUME NEW r \in TdCalls, contains_tool(r) \/ tool_context(r) \/ try_dispatch(r) \/ TdFinish(r)
        PROVE  TdInv'
    BY <1>4, TdContainsToolInv, TdToolContextInv, TdTryDispatchInv, TdFinishInv
  <1>5. ASSUME NEW x \in TdChanging, NEW present \in BOOLEAN, TdRegister(x[1], x[2], present)
        PROVE  TdInv'
    BY <1>5, TdRegisterInv
  <1>6. CASE TdStoreToken \/ TdRemoveToken
    BY <1>6, TdStoreTokenInv, TdRemoveTokenInv
  <1>7. CASE UNCHANGED tdVars
    BY <1>7 DEF tdVars, TdInv
  <1> QED BY <1>1, <1>2, <1>3, <1>4, <1>5, <1>6, <1>7 DEF TdNext

\* Whatever the token store and the registry do meanwhile, a registered tool runs with
\* the credential its validator was shown, and no tool the query hides runs (call_tool).
THEOREM ToolRunsAsChecked == TdSpec => []RunsAsChecked
  <1>1. TdInv => RunsAsChecked
    BY DEF TdInv, TdReady, TdAdmitted, TdGiven, RunsAsChecked
  <1> QED BY <1>1, TdInvInit, TdStepInv, PTL DEF TdSpec

\* A request sets only its own record ...
LEMMA TdSetsOwn ==
    ASSUME TdInv, NEW r \in TdCalls, NEW q, TdSet(r, q)
    PROVE  tdCall'[r] = q /\ \A x \in TdCalls : x # r => tdCall'[x] = tdCall[x]
  <1>1. tdCall' = [tdCall EXCEPT ![r] = q]
    BY DEF TdSet
  <1> QED BY <1>1 DEF TdInv

\* ... and from the merge on the only step of a request is list_items.
LEMMA TdListsByMerging ==
    ASSUME TdInv, [TdNext]_tdVars, NEW r \in TdCalls, tdCall[r].pc = "merge",
           tdCall'[r].pc = "listed"
    PROVE  list_items(r)
  <1>1. ASSUME NEW x \in TdCalls, NEW q, TdSet(x, q) PROVE x = r
    BY <1>1, TdSetsOwn
  <1>2. ASSUME NEW x \in TdCalls, NEW ask \in TdArrivals, TdArrive(x, ask) PROVE FALSE
    <2>1. x = r
      BY <1>1, <1>2 DEF TdArrive
    <2> QED BY <1>2, <2>1 DEF TdArrive
  <1>3. ASSUME NEW x \in TdCalls, NEW allow \in BOOLEAN, TdValidate(x, allow) PROVE FALSE
    <2>1. x = r
      BY <1>1, <1>3 DEF TdValidate
    <2> QED BY <1>3, <2>1 DEF TdValidate
  <1>4. ASSUME NEW x \in TdCalls, TdResolve(x) \/ TdInnerList(x) \/ query_filter(x)
        PROVE  FALSE
    <2>1. x = r
      BY <1>1, <1>4 DEF TdResolve, TdInnerList, query_filter
    <2> QED BY <1>4, <2>1 DEF TdResolve, TdInnerList, query_filter
  <1>5. ASSUME NEW x \in TdCalls, contains_tool(x) \/ tool_context(x) \/ try_dispatch(x) \/ TdFinish(x)
        PROVE  FALSE
    <2>1. x = r
      BY <1>1, <1>5 DEF contains_tool, tool_context, try_dispatch, TdFinish
    <2> QED BY <1>5, <2>1 DEF contains_tool, tool_context, try_dispatch, TdFinish
  <1>6. ASSUME NEW x \in TdCalls, list_items(x) PROVE list_items(r)
    <2>1. x = r
      BY <1>1, <1>6 DEF list_items
    <2> QED BY <1>6, <2>1
  <1>7. ASSUME UNCHANGED tdCall PROVE FALSE
    BY <1>7
  <1> QED BY <1>2, <1>3, <1>4, <1>5, <1>6, <1>7
          DEF TdNext, tdVars, TdRegister, TdStoreToken, TdRemoveToken

\* Whatever is registered while the inner handler lists, a listing shows for each name
\* the item a use of it would reach, and only what the filters show (list_tools,
\* list_prompts, list_resources, merge_registry_items).
THEOREM ListingMatchesDispatch == TdSpec => ListedAsDispatched
  <1>1. ASSUME TdInv, [TdNext]_tdVars, NEW r \in TdCalls,
               tdCall[r].pc = "merge", tdCall'[r].pc = "listed"
        PROVE  \A n \in TdNames, source \in {"inner", "registry"} :
                   <<n, source>> \in tdCall'[r].items
                       <=> /\ source = TdProvider(tdCall[r].ask.kind, n)
                           /\ n \in TdShown[tdCall[r].checked]
                           /\ tdCall[r].ask.kind = "tools" => n \notin tdCall[r].ask.hidden
    BY <1>1, TdListsByMerging, TdListItemsInv
  <1>2. TdInv /\ [TdNext]_tdVars =>
            [\A r \in TdCalls : (tdCall[r].pc = "merge" /\ tdCall'[r].pc = "listed") =>
                LET q == tdCall[r] IN
                \A n \in TdNames, source \in {"inner", "registry"} :
                    <<n, source>> \in tdCall'[r].items
                        <=> /\ source = TdProvider(q.ask.kind, n)
                            /\ n \in TdShown[q.checked]
                            /\ q.ask.kind = "tools" => n \notin q.ask.hidden]_tdVars
    BY <1>1
  <1> QED BY <1>2, TdInvInit, TdStepInv, PTL DEF TdSpec, ListedAsDispatched

-----------------------------------------------------------------------------
(***************************************************************************)
(* Capability registry.  For any names, peers, tasks and any schedule of   *)
(* changes, hashes, notifications, joins, closing transports and restarts. *)
(* The invariant CpInv has three parts.  CpTyped gives the types and that  *)
(* what is registered is finite.  CpVersionOK says what a computation that *)
(* runs alone has hashed so far.  CpToldOK says that whatever an open      *)
(* connection has not been told, some task will still tell it, and that    *)
(* the indices noted for removal name closed peers until they are used.    *)
(***************************************************************************)

\* A task, as far as its record goes.
CpPcs == {"idle", "hash", "store", "peers", "notify", "compare", "save", "tell"}
CpTaskRecord == [pc : CpPcs, kind : CpKind \cup {CpNone}, peer : CpPeers \cup {CpNone},
                 hash : Seq(CpNames), at : Nat \ {0}, gone : Seq(Nat), alone : BOOLEAN]
CpTyped ==
    /\ CpTypeOK
    /\ cpTask \in [CpTasks -> CpTaskRecord]
    /\ \A t \in CpTasks : cpTask[t].pc = "hash" => cpTask[t].at \in 1 .. 3
    /\ \A k \in CpKind : IsFiniteSet(cpItems[k])

\* What a computation that runs alone has hashed so far.
CpHashed(q, items) ==
    IF q.pc = "store" THEN CpContentHash(items)
    ELSE IF q.at = 1 THEN <<>>
    ELSE IF q.at = 2 THEN hash_sorted_keys(items["tools"])
    ELSE hash_sorted_keys(items["tools"]) \o hash_sorted_keys(items["prompts"])

\* A computation that runs alone is the only one; without a race all run alone, and
\* between them the version is current.
CpVersionOK ==
    /\ \A t \in CpTasks : CpHashing(t) /\ cpTask[t].alone =>
           /\ cpTask[t].hash = CpHashed(cpTask[t], cpItems)
           /\ \A u \in CpTasks : CpHashing(u) => u = t
    /\ ~cpRaced => \A t \in CpTasks : CpHashing(t) => cpTask[t].alone
    /\ UnracedVersionCurrent

\* The task that tells the peers holds the lock.
CpLockOK == \A t \in CpTasks : cpTask[t].pc = "notify" <=> cpHeld = t

\* A task comes to the lock with nothing found gone and starts at the first peer.
CpFreshOK ==
    \A t \in CpTasks :
        /\ cpTask[t].pc \in {"hash", "store", "peers"} => cpTask[t].gone = <<>>
        /\ cpTask[t].pc \in {"store", "peers"} => cpTask[t].at = 1

\* Connections that are told nothing more.
CpLost == cpClosed \cup cpFailed

\* What it finds gone is closed or its send failed, below where it stands, and in ascending order.
CpGoneOK ==
    \A t \in CpTasks : cpTask[t].pc = "notify" =>
        LET gone == cpTask[t].gone
        IN  /\ \A i \in 1 .. Len(gone) :
                   /\ gone[i] \in 1 .. Len(cpPeers) /\ gone[i] < cpTask[t].at
                   /\ cpPeers[gone[i]] \in CpLost
            /\ \A i, j \in 1 .. Len(gone) : i < j => gone[i] < gone[j]

\* Every connection that is to be told is on the list.
CpListed == \A p \in CpDue : \E j \in 1 .. Len(cpPeers) : cpPeers[j] = p

\* A task that has still to tell p of a change of kind k.
CpWillTell(q, peers, p, k) ==
    /\ q.kind = k
    /\ \/ q.pc \in {"hash", "store", "peers"}
       \/ q.pc = "notify" /\ \E j \in 1 .. Len(peers) : j >= q.at /\ peers[j] = p

\* Whatever it has not been told, some task is still to tell it.
CpUntoldOK ==
    /\ \A p \in CpDue : \A k \in cpUntold[p] :
           \E t \in CpTasks : CpWillTell(cpTask[t], cpPeers, p, k)
    /\ \A p \in CpPeers \ cpJoined : cpUntold[p] = {}

CpToldOK == CpFreshOK /\ CpLockOK /\ CpGoneOK /\ CpListed /\ CpUntoldOK

-----------------------------------------------------------------------------
\* How many of S come before n tells the members of S apart.
LEMMA CpRank ==
    ASSUME NEW S \in SUBSET Nat, IsFiniteSet(S)
    PROVE  /\ Cardinality(S) \in Nat
           /\ \A n \in S : Cardinality({m \in S : m < n}) \in 0 .. Cardinality(S) - 1
           /\ \A n, o \in S :
                  Cardinality({m \in S : m < n}) = Cardinality({m \in S : m < o}) => n = o
  <1>1. Cardinality(S) \in Nat
    BY FS_CardinalityType
  <1>2. ASSUME NEW n \in S
        PROVE  /\ IsFiniteSet({m \in S : m < n})
               /\ Cardinality({m \in S : m < n}) \in 0 .. Cardinality(S) - 1
    <2> DEFINE B == {m \in S : m < n}
    <2>1. B \in SUBSET S /\ n \notin B
      OBVIOUS
    <2>2. IsFiniteSet(B) /\ Cardinality(B) <= Cardinality(S) /\ Cardinality(B) # Cardinality(S)
      <3> HIDE DEF B
      <3> QED BY <2>1, FS_Subset
    <2>3. Cardinality(B) \in Nat
      <3> HIDE DEF B
      <3> QED BY <2>2, FS_CardinalityType
    <2> HIDE DEF B
    <2>4. Cardinality(B) \in 0 .. Cardinality(S) - 1
      BY <1>1, <2>2, <2>3
    <2> QED BY <2>2, <2>4 DEF B
  <1>3. ASSUME NEW n \in S, NEW o \in S, n < o,
               Cardinality({m \in S : m < n}) = Cardinality({m \in S : m < o})
        PROVE  FALSE
    <2> DEFINE B == {m \in S : m < n}
               C == {m \in S : m < o}
    <2>1. n \in C /\ n \notin B
      BY <1>3
    <2>2. \A m \in S : m < n => m < o
      BY <1>3
    <2>3. B \in SUBSET C
      BY <2>2
    <2>4. IsFiniteSet(C) /\ Cardinality(B) = Cardinality(C)
      BY <1>2, <1>3
    <2> HIDE DEF B, C
    <2> QED BY <2>1, <2>3, <2>4, FS_Subset
  <1>4. ASSUME NEW n \in S, NEW o \in S,
               Cardinality({m \in S : m < n}) = Cardinality({m \in S : m < o})
        PROVE  n = o
    <2>1. ~(n < o) /\ ~(o < n)
      BY <1>3, <1>4
    <2> QED BY <2>1
  <1> QED BY <1>1, <1>2, <1>4

\* CpInOrder(S) is a sequence of the members of S, and has them all.
LEMMA CpInOrderAll ==
    ASSUME NEW S \in SUBSET Nat, IsFiniteSet(S)
    PROVE  /\ CpInOrder(S) \in Seq(S) /\ Len(CpInOrder(S)) = Cardinality(S)
           /\ \A n \in S : \E i \in 1 .. Len(CpInOrder(S)) : CpInOrder(S)[i] = n
  <1> DEFINE c == Cardinality(S)
             rank == [n \in S |-> Cardinality({m \in S : m < n})]
             seq == CpInOrder(S)
  <1>1. /\ c \in Nat /\ rank \in [S -> 0 .. c - 1]
        /\ \A n, o \in S : rank[n] = rank[o] => n = o
    BY CpRank
  <1>2. \A n \in S : rank[n] = Cardinality({m \in S : m < n})
    OBVIOUS
  <1> HIDE DEF rank, c, seq
  <1>3. IsFiniteSet(0 .. c - 1) /\ Cardinality(0 .. c - 1) = c
    BY <1>1, FS_Interval
  <1>4. rank \in Injection(S, 0 .. c - 1)
    BY <1>1 DEF Injection, IsInjective
  <1>5. rank \in Surjection(S, 0 .. c - 1)
    BY <1>3, <1>4, FS_Injection DEF c
  <1>6. \A i \in 1 .. c : \E n \in S : rank[n] = i - 1
    <2> TAKE i \in 1 .. c
    <2>1. i - 1 \in 0 .. c - 1
      BY <1>1
    <2> QED BY <2>1, <1>5 DEF Surjection
  <1>7. \A i \in 1 .. c : seq[i] \in S /\ rank[seq[i]] = i - 1
    <2> TAKE i \in 1 .. c
    <2>1. \E n \in S : Cardinality({m \in S : m < n}) = i - 1
      BY <1>2, <1>6
    <2>2. seq[i] = CHOOSE n \in S : Cardinality({m \in S : m < n}) = i - 1
      BY DEF seq, c, CpInOrder
    <2>3. seq[i] \in S /\ Cardinality({m \in S : m < seq[i]}) = i - 1
      BY <2>1, <2>2
    <2> QED BY <1>2, <2>3
  <1>8. seq \in Seq(S) /\ Len(seq) = c
    <2> DEFINE e(i) == CHOOSE n \in S : Cardinality({m \in S : m < n}) = i - 1
    <2>1. seq = [i \in 1 .. c |-> e(i)]
      BY DEF seq, c, CpInOrder
    <2> HIDE DEF e
    <2>2. \A i \in 1 .. c : e(i) \in S
      BY <1>7, <2>1
    <2> QED BY <1>1, <2>1, <2>2
  <1>9. ASSUME NEW n \in S PROVE \E i \in 1 .. Len(seq) : seq[i] = n
    <2>1. rank[n] + 1 \in 1 .. c
      BY <1>1
    <2>2. seq[rank[n] + 1] \in S /\ rank[seq[rank[n] + 1]] = rank[n]
      BY <1>1, <1>7, <2>1
    <2> QED BY <1>1, <1>8, <2>1, <2>2
  <1> QED BY <1>8, <1>9 DEF seq, c

\* Nothing in order is nothing.
LEMMA CpInOrderNone == CpInOrder({}) = <<>>
  <1>1. CpInOrder({}) \in Seq({}) /\ Len(CpInOrder({})) = 0
    BY CpInOrderAll, FS_EmptySet
  <1> QED BY <1>1


-----------------------------------------------------------------------------
\* A task that steps changes its own record.
LEMMA CpOwnRecord ==
    ASSUME CpTyped, NEW t \in CpTasks, NEW q \in CpTaskRecord, CpSet(t, q)
    PROVE  /\ cpTask' \in [CpTasks -> CpTaskRecord] /\ cpTask'[t] = q
           /\ \A u \in CpTasks : u # t => cpTask'[u] = cpTask[u]
  BY DEF CpTyped, CpSet

\* The record of a slot that is free.
LEMMA CpIdleRecord ==
    /\ CpIdle \in CpTaskRecord
    /\ CpIdle.pc = "idle" /\ CpIdle.hash = <<>> /\ CpIdle.at = 1 /\ CpIdle.gone = <<>>
    /\ CpIdle.alone = TRUE /\ CpIdle.kind = CpNone
  <1>1. <<>> \in Seq(CpNames) /\ <<>> \in Seq(Nat)
    OBVIOUS
  <1> QED BY <1>1 DEF CpIdle, CpTaskRecord, CpPcs

\* What hash_sorted_keys gives for a map, and for the whole content.
LEMMA CpHashes ==
    ASSUME NEW items \in [CpKind -> SUBSET CpNames], \A k \in CpKind : IsFiniteSet(items[k])
    PROVE  /\ \A k \in CpKind : hash_sorted_keys(items[k]) \in Seq(CpNames)
           /\ CpContentHash(items) \in Seq(CpNames)
  <1>1. ASSUME NEW k \in CpKind PROVE hash_sorted_keys(items[k]) \in Seq(CpNames)
    <2>1. items[k] \in SUBSET Nat /\ items[k] \subseteq CpNames /\ IsFiniteSet(items[k])
      BY CpAssumption
    <2>2. hash_sorted_keys(items[k]) \in Seq(items[k])
      BY <2>1, CpInOrderAll DEF hash_sorted_keys
    <2> QED BY <2>1, <2>2
  <1>2. "tools" \in CpKind /\ "prompts" \in CpKind /\ "resources" \in CpKind
    BY DEF CpKind
  <1>3. /\ hash_sorted_keys(items["tools"]) \in Seq(CpNames)
        /\ hash_sorted_keys(items["prompts"]) \in Seq(CpNames)
        /\ hash_sorted_keys(items["resources"]) \in Seq(CpNames)
    BY <1>1, <1>2
  <1>4. CpContentHash(items) \in Seq(CpNames)
    BY <1>3 DEF CpContentHash
  <1> QED BY <1>1, <1>4

\* The hash of a registry without content.
LEMMA CpEmptyHash ==
    ASSUME NEW items, items = [k \in CpKind |-> {}]
    PROVE  CpContentHash(items) = <<>>
  <1>1. \A k \in CpKind : hash_sorted_keys(items[k]) = <<>>
    BY CpInOrderNone DEF hash_sorted_keys
  <1>2. <<>> \o <<>> = <<>>
    OBVIOUS
  <1> QED BY <1>1, <1>2 DEF CpContentHash, CpKind

\* At position n the next map to hash is one of the three.
LEMMA CpKindAt == ASSUME NEW n \in 1 .. 3 PROVE CpKinds[n] \in CpKind
  BY DEF CpKinds, CpKind

\* Taking one element out leaves a list of the same peers.
LEMMA CpSwapRemove ==
    ASSUME NEW ps \in Seq(CpPeers), NEW i \in 1 .. Len(ps)
    PROVE  /\ swap_remove(ps, i) \in Seq(CpPeers) /\ Len(swap_remove(ps, i)) = Len(ps) - 1
           /\ \A j \in 1 .. Len(ps) - 1 :
                  swap_remove(ps, i)[j] = IF j = i THEN ps[Len(ps)] ELSE ps[j]
  BY DEF swap_remove

\* What pruning leaves of a list.
CpLeft(ps, closed) ==
    LET kept == CpInOrder({i \in 1 .. Len(ps) : ps[i] \notin closed})
    IN  [j \in 1 .. Len(kept) |-> ps[kept[j]]]

\* Pruning keeps, in a list, every peer that is open.
LEMMA CpPruned ==
    ASSUME NEW ps \in Seq(CpPeers), NEW closed
    PROVE  /\ CpLeft(ps, closed) \in Seq(CpPeers)
           /\ \A i \in 1 .. Len(ps) : ps[i] \notin closed =>
                  \E j \in 1 .. Len(CpLeft(ps, closed)) : CpLeft(ps, closed)[j] = ps[i]
  <1> DEFINE S == {i \in 1 .. Len(ps) : ps[i] \notin closed}
             kept == CpInOrder(S)
             left == [j \in 1 .. Len(kept) |-> ps[kept[j]]]
  <1>1. S \in SUBSET Nat /\ S \in SUBSET (1 .. Len(ps))
    OBVIOUS
  <1>2. IsFiniteSet(S)
    <2>1. Len(ps) \in Nat
      OBVIOUS
    <2>2. IsFiniteSet(1 .. Len(ps))
      BY <2>1, FS_Interval
    <2> HIDE DEF S
    <2> QED BY <1>1, <2>2, FS_Subset
  <1>3. kept \in Seq(S) /\ \A n \in S : \E i \in 1 .. Len(kept) : kept[i] = n
    <2> HIDE DEF S
    <2> QED BY <1>1, <1>2, CpInOrderAll
  <1>4. \A i \in 1 .. Len(ps) : ps[i] \notin closed => i \in S
    OBVIOUS
  <1> HIDE DEF S, kept
  <1>5. ASSUME NEW j \in 1 .. Len(kept) PROVE ps[kept[j]] \in CpPeers
    <2>1. kept[j] \in S
      BY <1>3
    <2>2. kept[j] \in 1 .. Len(ps)
      BY <1>1, <2>1
    <2> QED BY <2>2
  <1>6. left \in Seq(CpPeers) /\ Len(left) = Len(kept)
    BY <1>3, <1>5
  <1>7. ASSUME NEW i \in 1 .. Len(ps), ps[i] \notin closed
        PROVE  \E j \in 1 .. Len(left) : left[j] = ps[i]
    <2>1. PICK j \in 1 .. Len(kept) : kept[j] = i
      BY <1>3, <1>4, <1>7
    <2> QED BY <1>6, <2>1
  <1>8. CpLeft(ps, closed) = left
    BY DEF CpLeft, S, kept
  <1> QED BY <1>6, <1>7, <1>8


-----------------------------------------------------------------------------
(* Types.                                                                  *)

\* Init establishes the types.
LEMMA CpTypedInit == CpInit => CpTyped
  <1> SUFFICES ASSUME CpInit PROVE CpTyped
    OBVIOUS
  <1>1. <<>> \in Seq(CpNames) /\ <<>> \in Seq(CpPeers)
    OBVIOUS
  <1>2. CpTypeOK
    <2>0. cpRaced \in BOOLEAN /\ cpChanges = 0
      BY DEF CpInit
    <2>1. cpChanges \in 0 .. CpMaxChanges
      BY <2>0, CpAssumption
    <2>2. cpItems \in [CpKind -> SUBSET CpNames] /\ cpUntold \in [CpPeers -> SUBSET CpKind]
      BY DEF CpInit
    <2> QED BY <1>1, <2>0, <2>1, <2>2 DEF CpInit, CpTypeOK
  <1>3. cpTask \in [CpTasks -> CpTaskRecord] /\ \A t \in CpTasks : cpTask[t].pc = "idle"
    BY CpIdleRecord DEF CpInit
  <1>4. \A k \in CpKind : IsFiniteSet(cpItems[k])
    BY FS_EmptySet DEF CpInit
  <1> QED BY <1>2, <1>3, <1>4 DEF CpTyped

\* A task that steps to a typed record keeps the types, if the rest does.
LEMMA CpOwnTyped ==
    ASSUME CpTyped, NEW t \in CpTasks, NEW q \in CpTaskRecord, CpSet(t, q),
           q.pc = "hash" => q.at \in 1 .. 3, CpTypeOK', cpItems' = cpItems
    PROVE  CpTyped'
  <1>1. /\ cpTask' \in [CpTasks -> CpTaskRecord] /\ cpTask'[t] = q
        /\ \A u \in CpTasks : u # t => cpTask'[u] = cpTask[u]
    BY CpOwnRecord
  <1>2. \A u \in CpTasks : cpTask'[u].pc = "hash" => cpTask'[u].at \in 1 .. 3
    BY <1>1 DEF CpTyped
  <1> QED BY <1>1, <1>2 DEF CpTyped

\* A change of the registry: a finite set of names replaces one.
LEMMA CpMutateTyped ==
    ASSUME CpTyped, NEW t \in CpTasks, NEW k \in CpKind, NEW names \in SUBSET CpNames,
           IsFiniteSet(names), CpMutate(t, k, names)
    PROVE  CpTyped'
  <1>1. /\ cpItems' = [cpItems EXCEPT ![k] = names]
        /\ cpItems' \in [CpKind -> SUBSET CpNames] /\ \A x \in CpKind : IsFiniteSet(cpItems'[x])
    BY DEF CpMutate, CpTyped, CpTypeOK
  <1>2. cpRaced' \in BOOLEAN
    BY DEF CpMutate
  <1>3. CpTypeOK'
    <2>1. cpUntold' \in [CpPeers -> SUBSET CpKind]
      BY DEF CpMutate, CpTyped, CpTypeOK
    <2>2. cpChanges' \in 0 .. CpMaxChanges
      <3>1. cpChanges' = cpChanges + 1 /\ cpChanges < CpMaxChanges
        BY DEF CpMutate
      <3>2. cpChanges \in 0 .. CpMaxChanges
        BY DEF CpTyped, CpTypeOK
      <3> QED BY <3>1, <3>2, CpAssumption
    <2> QED BY <1>1, <1>2, <2>1, <2>2 DEF CpMutate, CpTyped, CpTypeOK
  <1> DEFINE others == {x \in CpTasks : CpHashing(x)}
             q == [CpIdle EXCEPT !.pc = "hash", !.kind = k, !.alone = others = {}]
  <1>4. q \in CpTaskRecord /\ q.at = 1
    <2>1. (others = {}) \in BOOLEAN
      OBVIOUS
    <2> HIDE DEF others
    <2> QED BY <2>1, CpIdleRecord DEF CpTaskRecord, CpPcs
  <1>5. cpTask' = [x \in CpTasks |->
            IF x = t THEN q
            ELSE IF x \in others THEN [cpTask[x] EXCEPT !.alone = FALSE] ELSE cpTask[x]]
    BY DEF CpMutate
  <1> HIDE DEF q, others
  <1>6. \A x \in CpTasks : /\ cpTask[x] \in CpTaskRecord
                           /\ [cpTask[x] EXCEPT !.alone = FALSE] \in CpTaskRecord
                           /\ [cpTask[x] EXCEPT !.alone = FALSE].pc = cpTask[x].pc
                           /\ [cpTask[x] EXCEPT !.alone = FALSE].at = cpTask[x].at
    BY DEF CpTyped, CpTaskRecord
  <1>7. cpTask' \in [CpTasks -> CpTaskRecord]
    BY <1>4, <1>5, <1>6
  <1>8. \A x \in CpTasks : cpTask'[x].pc = "hash" => cpTask'[x].at \in 1 .. 3
    BY <1>4, <1>5, <1>6 DEF CpTyped
  <1> QED BY <1>1, <1>3, <1>7, <1>8 DEF CpTyped

\* add_* and remove_* are changes of the registry.
LEMMA CpMutations ==
    ASSUME CpTyped, NEW x \in CpChanging, NEW t \in CpTasks,
           add_item(t, x[1], x[2]) \/ remove_item(t, x[1], x[2])
    PROVE  \E k \in CpKind, names \in SUBSET CpNames : IsFiniteSet(names) /\ CpMutate(t, k, names)
  <1>1. x[1] \in CpKind /\ x[2] \in CpNames
    BY CpAssumption
  <1>2. cpItems[x[1]] \in SUBSET CpNames /\ IsFiniteSet(cpItems[x[1]])
    BY <1>1 DEF CpTyped, CpTypeOK
  <1>3. CASE add_item(t, x[1], x[2])
    <2>1. cpItems[x[1]] \cup {x[2]} \in SUBSET CpNames /\ IsFiniteSet(cpItems[x[1]] \cup {x[2]})
      BY <1>1, <1>2, FS_AddElement
    <2> QED BY <1>1, <1>3, <2>1 DEF add_item
  <1>4. CASE remove_item(t, x[1], x[2])
    <2>1. cpItems[x[1]] \ {x[2]} \in SUBSET CpNames /\ IsFiniteSet(cpItems[x[1]] \ {x[2]})
      BY <1>1, <1>2, FS_RemoveElement
    <2> QED BY <1>1, <1>4, <2>1 DEF remove_item
  <1> QED BY <1>3, <1>4

\* The record after a map was hashed.
CpNextHash(q, items) ==
    [q EXCEPT !.hash = q.hash \o hash_sorted_keys(items[CpKinds[q.at]]),
              !.at = IF @ = 3 THEN 1 ELSE @ + 1,
              !.pc = IF q.at = 3 THEN "store" ELSE "hash"]

\* A record whose hash, position and state change keeps its type and the rest.
CpRehash(q, h, at, pc) == [q EXCEPT !.hash = h, !.at = at, !.pc = pc]
LEMMA CpHashRecord ==
    ASSUME NEW q \in CpTaskRecord, NEW h \in Seq(CpNames), NEW at \in Nat \ {0}, NEW pc \in CpPcs,
           NEW n, n = CpRehash(q, h, at, pc)
    PROVE  /\ n \in CpTaskRecord /\ n.hash = h /\ n.at = at /\ n.pc = pc
           /\ n.alone = q.alone /\ n.kind = q.kind /\ n.gone = q.gone
  <1>1. n \in CpTaskRecord
    BY DEF CpRehash, CpTaskRecord
  <1>2. n.hash = h /\ n.at = at /\ n.pc = pc /\ n.alone = q.alone /\ n.kind = q.kind
        /\ n.gone = q.gone
    BY DEF CpRehash, CpTaskRecord
  <1> QED BY <1>1, <1>2

\* What hashing one map does to the record of a task.
LEMMA CpNextHashRecord ==
    ASSUME CpTyped, NEW t \in CpTasks, cpTask[t].pc = "hash"
    PROVE  LET n == CpNextHash(cpTask[t], cpItems)
           IN  /\ n \in CpTaskRecord /\ n.at \in 1 .. 3
               /\ n.pc = IF cpTask[t].at = 3 THEN "store" ELSE "hash"
               /\ n.at = IF cpTask[t].at = 3 THEN 1 ELSE cpTask[t].at + 1
               /\ n.hash = cpTask[t].hash \o hash_sorted_keys(cpItems[CpKinds[cpTask[t].at]])
               /\ n.alone = cpTask[t].alone /\ n.kind = cpTask[t].kind
               /\ n.gone = cpTask[t].gone
  <1>1. cpTask[t] \in CpTaskRecord /\ cpTask[t].at \in 1 .. 3
    BY DEF CpTyped
  <1>2. hash_sorted_keys(cpItems[CpKinds[cpTask[t].at]]) \in Seq(CpNames)
    BY <1>1, CpKindAt, CpHashes DEF CpTyped, CpTypeOK
  <1> DEFINE h == cpTask[t].hash \o hash_sorted_keys(cpItems[CpKinds[cpTask[t].at]])
  <1>3. h \in Seq(CpNames)
    BY <1>1, <1>2 DEF CpTaskRecord
  <1> HIDE DEF h
  <1>4. PICK q : q = cpTask[t]
    OBVIOUS
  <1>5. PICK g : g = h
    OBVIOUS
  <1>6. PICK n : n = CpNextHash(cpTask[t], cpItems)
    OBVIOUS
  <1>7. n = [q EXCEPT !.hash = g, !.at = IF @ = 3 THEN 1 ELSE @ + 1,
                      !.pc = IF q.at = 3 THEN "store" ELSE "hash"]
    BY <1>4, <1>5, <1>6 DEF CpNextHash, h
  <1>8. q \in CpTaskRecord /\ q.at \in 1 .. 3 /\ g \in Seq(CpNames)
    BY <1>1, <1>3, <1>4, <1>5
  <1>9. /\ n \in CpTaskRecord /\ n.at \in 1 .. 3 /\ n.hash = g
        /\ n.pc = IF q.at = 3 THEN "store" ELSE "hash"
        /\ n.at = IF q.at = 3 THEN 1 ELSE q.at + 1
        /\ n.alone = q.alone /\ n.kind = q.kind /\ n.gone = q.gone
    <2>1. CASE q.at = 3
      <3>1. n = CpRehash(q, g, 1, "store")
        BY <1>7, <1>8, <2>1 DEF CpTaskRecord, CpRehash
      <3>2. 1 \in Nat \ {0} /\ "store" \in CpPcs
        BY DEF CpPcs
      <3>3. n \in CpTaskRecord /\ n.hash = g /\ n.at = 1 /\ n.pc = "store"
            /\ n.alone = q.alone /\ n.kind = q.kind /\ n.gone = q.gone
        BY <1>8, <3>1, <3>2, CpHashRecord
      <3> QED BY <2>1, <3>3
    <2>2. CASE q.at # 3
      <3>1. n = CpRehash(q, g, q.at + 1, "hash")
        BY <1>7, <1>8, <2>2 DEF CpTaskRecord, CpRehash
      <3>2. q.at + 1 \in 1 .. 3 /\ q.at + 1 \in Nat \ {0} /\ "hash" \in CpPcs
        BY <1>8, <2>2 DEF CpPcs
      <3>3. n \in CpTaskRecord /\ n.hash = g /\ n.at = q.at + 1 /\ n.pc = "hash"
            /\ n.alone = q.alone /\ n.kind = q.kind /\ n.gone = q.gone
        BY <1>8, <3>1, <3>2, CpHashRecord
      <3> QED BY <2>2, <3>2, <3>3
    <2> QED BY <2>1, <2>2
  <1> QED BY <1>4, <1>5, <1>6, <1>9 DEF h


\* The types after a step that leaves the registry, the version and the counters alone
\* and changes the peers, the lock and what is untold within their types.
LEMMA CpTypeKept ==
    ASSUME CpTyped, UNCHANGED <<cpItems, cpVersion, cpRaced, cpChanges>>,
           cpPeers' \in Seq(CpPeers), cpClosed' \subseteq CpPeers, cpFailed' \subseteq CpPeers,
           cpJoined' \subseteq CpPeers,
           cpHeld' \in CpTasks \cup {CpNone}, cpUntold' \in [CpPeers -> SUBSET CpKind]
    PROVE  CpTypeOK'
  BY DEF CpTyped, CpTypeOK

\* recompute_version reads one map: what changes is the hash of the task.
LEMMA CpHashNextEffect ==
    ASSUME CpTyped, NEW t \in CpTasks, CpHashNext(t)
    PROVE  /\ CpTyped' /\ cpTask[t].pc = "hash"
           /\ cpTask'[t] = CpNextHash(cpTask[t], cpItems)
           /\ \A u \in CpTasks : u # t => cpTask'[u] = cpTask[u]
  <1>1. PICK n : n = CpNextHash(cpTask[t], cpItems)
    OBVIOUS
  <1>2. cpTask[t].pc = "hash" /\ CpSet(t, n) /\ UNCHANGED <<cpItems, cpVersion, cpPeers, cpClosed,
                                                            cpFailed, cpJoined, cpHeld, cpSeen,
                                                            cpSaved, cpUntold, cpRaced, cpChanges>>
    BY <1>1 DEF CpHashNext, CpNextHash
  <1>3. n \in CpTaskRecord /\ n.at \in 1 .. 3
    BY <1>1, <1>2, CpNextHashRecord
  <1>4. CpTypeOK'
    BY <1>2 DEF CpTyped, CpTypeOK
  <1>5. CpTyped'
    BY <1>2, <1>3, <1>4, CpOwnTyped
  <1>6. cpTask'[t] = n /\ \A u \in CpTasks : u # t => cpTask'[u] = cpTask[u]
    BY <1>2, <1>3, CpOwnRecord
  <1> QED BY <1>1, <1>2, <1>5, <1>6

\* The hash is stored.
LEMMA CpRecomputeEffect ==
    ASSUME CpTyped, NEW t \in CpTasks, recompute_version(t)
    PROVE  /\ CpTyped' /\ cpTask[t].pc = "store" /\ cpTask'[t].pc = "peers"
           /\ cpTask'[t].kind = cpTask[t].kind /\ cpTask'[t].at = cpTask[t].at
           /\ cpTask'[t].gone = cpTask[t].gone
           /\ \A u \in CpTasks : u # t => cpTask'[u] = cpTask[u]
  <1>1. PICK q : q = cpTask[t]
    OBVIOUS
  <1>2. PICK n : n = [q EXCEPT !.pc = "peers", !.hash = <<>>, !.alone = TRUE]
    OBVIOUS
  <1>3. /\ q.pc = "store" /\ CpSet(t, n) /\ cpVersion' = q.hash
        /\ UNCHANGED <<cpItems, cpPeers, cpClosed, cpFailed, cpJoined, cpHeld, cpSeen, cpSaved,
                       cpUntold, cpChanges>>
    BY <1>1, <1>2 DEF recompute_version
  <1>4. q \in CpTaskRecord
    BY <1>1 DEF CpTyped
  <1>5. n \in CpTaskRecord
    <2>1. <<>> \in Seq(CpNames)
      OBVIOUS
    <2> QED BY <1>2, <1>4, <2>1 DEF CpTaskRecord, CpPcs
  <1>6. n.pc = "peers" /\ n.kind = q.kind /\ n.at = q.at /\ n.gone = q.gone
    BY <1>2, <1>4 DEF CpTaskRecord
  <1>7. cpVersion' \in Seq(CpNames)
    BY <1>3, <1>4 DEF CpTaskRecord
  <1>8. cpRaced' \in BOOLEAN
    BY DEF recompute_version
  <1>9. CpTypeOK'
    BY <1>3, <1>7, <1>8 DEF CpTyped, CpTypeOK
  <1>10. CpTyped'
    BY <1>3, <1>5, <1>6, <1>9, CpOwnTyped
  <1>11. cpTask'[t] = n /\ \A u \in CpTasks : u # t => cpTask'[u] = cpTask[u]
    BY <1>3, <1>5, CpOwnRecord
  <1> QED BY <1>1, <1>3, <1>6, <1>10, <1>11

\* The lock of peers is taken, and the loop starts.
LEMMA CpLockEffect ==
    ASSUME CpTyped, NEW t \in CpTasks, CpLockPeers(t)
    PROVE  /\ CpTyped' /\ cpTask[t].pc = "peers" /\ cpTask'[t].pc = "notify"
           /\ cpTask'[t].kind = cpTask[t].kind /\ cpTask'[t].at = cpTask[t].at
           /\ cpTask'[t].gone = cpTask[t].gone
           /\ \A u \in CpTasks : u # t => cpTask'[u] = cpTask[u]
  <1>1. PICK q : q = cpTask[t]
    OBVIOUS
  <1>2. PICK n : n = [q EXCEPT !.pc = "notify"]
    OBVIOUS
  <1>3. /\ q.pc = "peers" /\ CpSet(t, n) /\ cpHeld' = t
        /\ UNCHANGED <<cpItems, cpVersion, cpPeers, cpClosed, cpFailed, cpJoined, cpSeen, cpSaved,
                       cpUntold, cpRaced, cpChanges>>
    BY <1>1, <1>2 DEF CpLockPeers
  <1>4. q \in CpTaskRecord
    BY <1>1 DEF CpTyped
  <1>5. n \in CpTaskRecord
    BY <1>2, <1>4 DEF CpTaskRecord, CpPcs
  <1>6. n.pc = "notify" /\ n.kind = q.kind /\ n.at = q.at /\ n.gone = q.gone
    BY <1>2, <1>4 DEF CpTaskRecord
  <1>7. CpTypeOK'
    BY <1>3 DEF CpTyped, CpTypeOK
  <1>8. CpTyped'
    BY <1>3, <1>5, <1>6, <1>7, CpOwnTyped
  <1>9. cpTask'[t] = n /\ \A u \in CpTasks : u # t => cpTask'[u] = cpTask[u]
    BY <1>3, <1>5, CpOwnRecord
  <1> QED BY <1>1, <1>3, <1>6, <1>8, <1>9


\* A peer is told or found closed, and the loop goes on.
LEMMA CpNotifyEffect ==
    ASSUME CpTyped, NEW t \in CpTasks, NEW sent \in BOOLEAN, notify_peer(t, sent)
    PROVE  /\ CpTyped' /\ cpTask[t].pc = "notify" /\ cpTask'[t].pc = "notify"
           /\ cpTask[t].at \in 1 .. Len(cpPeers)
           /\ cpTask'[t].kind = cpTask[t].kind /\ cpTask'[t].at = cpTask[t].at + 1
           /\ cpTask'[t].gone = IF sent THEN cpTask[t].gone ELSE Append(cpTask[t].gone, cpTask[t].at)
           /\ \A u \in CpTasks : u # t => cpTask'[u] = cpTask[u]
  <1>1. PICK q : q = cpTask[t]
    OBVIOUS
  <1>2. PICK g : g = IF sent THEN q.gone ELSE Append(q.gone, q.at)
    OBVIOUS
  <1>3. PICK n : n = [q EXCEPT !.at = @ + 1, !.gone = g]
    OBVIOUS
  <1>4. q \in CpTaskRecord
    BY <1>1 DEF CpTyped
  <1>5. /\ q.pc = "notify" /\ q.at <= Len(cpPeers)
        /\ cpFailed' = IF sent \/ cpPeers[q.at] \in cpClosed THEN cpFailed
                       ELSE cpFailed \cup {cpPeers[q.at]}
        /\ cpUntold' = IF sent THEN [cpUntold EXCEPT ![cpPeers[q.at]] = @ \ {q.kind}] ELSE cpUntold
        /\ UNCHANGED <<cpItems, cpVersion, cpPeers, cpClosed, cpJoined, cpHeld, cpSeen, cpSaved,
                       cpRaced, cpChanges>>
    BY <1>1 DEF notify_peer
  <1>6. CpSet(t, n)
    <2>1. CpSet(t, [q EXCEPT !.at = @ + 1, !.gone = IF sent THEN @ ELSE Append(@, q.at)])
      BY <1>1 DEF notify_peer
    <2>2. CASE sent
      BY <1>2, <1>3, <2>1, <2>2
    <2>3. CASE ~sent
      BY <1>2, <1>3, <2>1, <2>3
    <2> QED BY <2>2, <2>3
  <1>7. g \in Seq(Nat) /\ q.at + 1 \in Nat \ {0}
    BY <1>2, <1>4 DEF CpTaskRecord
  <1>8. n \in CpTaskRecord
    BY <1>3, <1>4, <1>7 DEF CpTaskRecord
  <1>9. n.pc = q.pc /\ n.kind = q.kind /\ n.at = q.at + 1 /\ n.gone = g
    BY <1>3, <1>4 DEF CpTaskRecord
  <1>10. q.at \in 1 .. Len(cpPeers) /\ cpPeers \in Seq(CpPeers)
    BY <1>4, <1>5 DEF CpTaskRecord, CpTyped, CpTypeOK
  <1>11. cpClosed' \subseteq CpPeers /\ cpFailed' \subseteq CpPeers
    BY <1>5, <1>10 DEF CpTyped, CpTypeOK
  <1>12. cpUntold' \in [CpPeers -> SUBSET CpKind]
    BY <1>5, <1>10 DEF CpTyped, CpTypeOK
  <1>13. CpTypeOK'
    BY <1>5, <1>10, <1>11, <1>12, CpTypeKept DEF CpTyped, CpTypeOK
  <1>14. CpTyped'
    BY <1>5, <1>6, <1>8, <1>9, <1>13, CpOwnTyped
  <1>15. cpTask'[t] = n /\ \A u \in CpTasks : u # t => cpTask'[u] = cpTask[u]
    BY <1>6, <1>8, CpOwnRecord
  <1> QED BY <1>1, <1>2, <1>5, <1>9, <1>10, <1>14, <1>15

\* The last peer that was found gone is taken out.
LEMMA CpDropEffect ==
    ASSUME CpTyped, CpGoneOK, NEW t \in CpTasks, drop_peer(t)
    PROVE  /\ CpTyped' /\ cpTask[t].pc = "notify" /\ cpTask'[t].pc = "notify"
           /\ cpTask[t].at > Len(cpPeers) /\ cpTask'[t].at = cpTask[t].at
           /\ cpTask'[t].kind = cpTask[t].kind
           /\ Len(cpTask[t].gone) > 0 /\ cpTask[t].gone \in Seq(Nat)
           /\ cpTask'[t].gone = SubSeq(cpTask[t].gone, 1, Len(cpTask[t].gone) - 1)
           /\ cpTask[t].gone[Len(cpTask[t].gone)] \in 1 .. Len(cpPeers)
           /\ cpPeers' = swap_remove(cpPeers, cpTask[t].gone[Len(cpTask[t].gone)])
           /\ \A u \in CpTasks : u # t => cpTask'[u] = cpTask[u]
  <1>1. PICK q : q = cpTask[t]
    OBVIOUS
  <1>2. PICK n : n = [q EXCEPT !.gone = SubSeq(@, 1, Len(q.gone) - 1)]
    OBVIOUS
  <1>3. /\ q.pc = "notify" /\ q.at > Len(cpPeers) /\ Len(q.gone) > 0 /\ CpSet(t, n)
        /\ cpPeers' = swap_remove(cpPeers, q.gone[Len(q.gone)])
        /\ UNCHANGED <<cpItems, cpVersion, cpClosed, cpFailed, cpJoined, cpHeld, cpSeen, cpSaved,
                       cpUntold, cpRaced, cpChanges>>
    BY <1>1, <1>2 DEF drop_peer
  <1>4. q \in CpTaskRecord /\ q.gone \in Seq(Nat)
    BY <1>1 DEF CpTyped, CpTaskRecord
  <1>5. SubSeq(q.gone, 1, Len(q.gone) - 1) \in Seq(Nat)
    BY <1>3, <1>4
  <1>6. n \in CpTaskRecord
    BY <1>2, <1>4, <1>5 DEF CpTaskRecord
  <1>7. n.pc = q.pc /\ n.kind = q.kind /\ n.at = q.at
        /\ n.gone = SubSeq(q.gone, 1, Len(q.gone) - 1)
    BY <1>2, <1>4 DEF CpTaskRecord
  <1>8. Len(q.gone) \in 1 .. Len(q.gone)
    BY <1>3, <1>4
  <1>9. q.gone[Len(q.gone)] \in 1 .. Len(cpPeers)
    BY <1>1, <1>3, <1>8 DEF CpGoneOK
  <1>10. cpPeers' \in Seq(CpPeers)
    BY <1>3, <1>9, CpSwapRemove DEF CpTyped, CpTypeOK
  <1>11. CpTypeOK'
    BY <1>3, <1>10 DEF CpTyped, CpTypeOK
  <1>12. CpTyped'
    BY <1>3, <1>6, <1>7, <1>11, CpOwnTyped
  <1>13. cpTask'[t] = n /\ \A u \in CpTasks : u # t => cpTask'[u] = cpTask[u]
    BY <1>3, <1>6, CpOwnRecord
  <1> QED BY <1>1, <1>3, <1>4, <1>7, <1>9, <1>12, <1>13


\* The lock is released and the slot is free.
LEMMA CpDoneEffect ==
    ASSUME CpTyped, NEW t \in CpTasks, notify_peers(t)
    PROVE  /\ CpTyped' /\ cpTask[t].pc = "notify" /\ cpTask'[t].pc = "idle"
           /\ cpTask[t].at > Len(cpPeers)
           /\ \A u \in CpTasks : u # t => cpTask'[u] = cpTask[u]
  <1>1. /\ cpTask[t].pc = "notify" /\ cpTask[t].at > Len(cpPeers) /\ CpSet(t, CpIdle)
        /\ cpHeld' = CpNone
        /\ UNCHANGED <<cpItems, cpVersion, cpPeers, cpClosed, cpFailed, cpJoined, cpSeen, cpSaved,
                       cpUntold, cpRaced, cpChanges>>
    BY DEF notify_peers
  <1>2. CpTypeOK'
    BY <1>1 DEF CpTyped, CpTypeOK
  <1>3. CpTyped'
    BY <1>1, <1>2, CpIdleRecord, CpOwnTyped
  <1>4. cpTask'[t] = CpIdle /\ \A u \in CpTasks : u # t => cpTask'[u] = cpTask[u]
    BY <1>1, CpIdleRecord, CpOwnRecord
  <1> QED BY <1>1, <1>3, <1>4, CpIdleRecord

\* The states of a task that changes nothing of the registry.
CpGreets == {"idle", "compare", "save", "tell"}

\* A task that greets a connection changes what its session has seen, and what the
\* connection has been told.
CpGreetStep(t) ==
    /\ cpTask[t].pc \in CpGreets /\ cpTask'[t].pc \in CpGreets
    /\ \A u \in CpTasks : u # t => cpTask'[u] = cpTask[u]
    /\ UNCHANGED <<cpItems, cpVersion, cpPeers, cpClosed, cpFailed, cpJoined, cpHeld, cpRaced,
                   cpChanges>>
    /\ \A p \in CpPeers : cpUntold'[p] \subseteq cpUntold[p]

\* A greeting task that steps to a typed record.
LEMMA CpGreetOwn ==
    ASSUME CpTyped, NEW t \in CpTasks, NEW n \in CpTaskRecord, CpSet(t, n), n.pc \in CpGreets,
           cpTask[t].pc \in CpGreets,
           UNCHANGED <<cpItems, cpVersion, cpPeers, cpClosed, cpFailed, cpJoined, cpHeld, cpRaced,
                       cpChanges>>,
           cpUntold' \in [CpPeers -> SUBSET CpKind],
           \A p \in CpPeers : cpUntold'[p] \subseteq cpUntold[p]
    PROVE  CpTyped' /\ CpGreetStep(t)
  <1>1. CpTypeOK'
    BY DEF CpTyped, CpTypeOK
  <1>2. n.pc # "hash"
    BY DEF CpGreets
  <1>3. CpTyped'
    BY <1>1, <1>2, CpOwnTyped
  <1>4. cpTask'[t] = n /\ \A u \in CpTasks : u # t => cpTask'[u] = cpTask[u]
    BY CpOwnRecord
  <1> QED BY <1>3, <1>4 DEF CpGreetStep

\* on_initialized starts a greeting.
LEMMA CpGreetStart ==
    ASSUME CpTyped, NEW t \in CpTasks, NEW p \in CpPeers, on_initialized(t, p)
    PROVE  CpTyped' /\ CpGreetStep(t)
  <1>1. PICK h : h = cpVersion
    OBVIOUS
  <1>2. PICK n : n = [CpIdle EXCEPT !.pc = "compare", !.peer = p, !.hash = h]
    OBVIOUS
  <1>3. /\ cpTask[t].pc = "idle" /\ CpSet(t, n)
        /\ UNCHANGED <<cpItems, cpVersion, cpPeers, cpClosed, cpFailed, cpJoined, cpHeld,
                       cpUntold, cpRaced, cpChanges>>
    BY <1>1, <1>2 DEF on_initialized
  <1>4. h \in Seq(CpNames)
    BY <1>1 DEF CpTyped, CpTypeOK
  <1>5. n \in CpTaskRecord
    BY <1>2, <1>4, CpIdleRecord DEF CpTaskRecord, CpPcs
  <1>6. n.pc \in CpGreets /\ cpTask[t].pc \in CpGreets
    BY <1>2, <1>3, CpIdleRecord DEF CpTaskRecord, CpGreets
  <1>7. cpUntold' \in [CpPeers -> SUBSET CpKind] /\ \A x \in CpPeers : cpUntold'[x] \subseteq cpUntold[x]
    BY <1>3 DEF CpTyped, CpTypeOK
  <1> QED BY <1>3, <1>5, <1>6, <1>7, CpGreetOwn

\* The version is compared, then saved.
LEMMA CpGreetSave ==
    ASSUME CpTyped, NEW t \in CpTasks, NEW ok \in BOOLEAN, notify_if_changed(t) \/ save_version(t, ok)
    PROVE  CpTyped' /\ CpGreetStep(t)
  <1>1. PICK q : q = cpTask[t]
    OBVIOUS
  <1>2. q \in CpTaskRecord
    BY <1>1 DEF CpTyped
  <1>3. PICK s : s = [q EXCEPT !.pc = "save"]
    OBVIOUS
  <1>4. PICK n : n = [q EXCEPT !.pc = "tell", !.hash = <<>>]
    OBVIOUS
  <1>5. /\ q.pc \in {"compare", "save"} /\ (CpSet(t, CpIdle) \/ CpSet(t, s) \/ CpSet(t, n))
        /\ UNCHANGED <<cpItems, cpVersion, cpPeers, cpClosed, cpFailed, cpJoined, cpHeld,
                       cpUntold, cpRaced, cpChanges>>
    BY <1>1, <1>3, <1>4 DEF notify_if_changed, save_version
  <1>6. s \in CpTaskRecord /\ s.pc \in CpGreets
    BY <1>2, <1>3 DEF CpTaskRecord, CpPcs, CpGreets
  <1>7. n \in CpTaskRecord
    <2>1. <<>> \in Seq(CpNames)
      OBVIOUS
    <2> QED BY <1>2, <1>4, <2>1 DEF CpTaskRecord, CpPcs
  <1>8. n.pc \in CpGreets
    BY <1>2, <1>4 DEF CpTaskRecord, CpGreets
  <1>9. CpIdle \in CpTaskRecord /\ CpIdle.pc \in CpGreets /\ cpTask[t].pc \in CpGreets
    BY <1>1, <1>5, CpIdleRecord DEF CpGreets
  <1>10. cpUntold' \in [CpPeers -> SUBSET CpKind] /\ \A x \in CpPeers : cpUntold'[x] \subseteq cpUntold[x]
    BY <1>5 DEF CpTyped, CpTypeOK
  <1> QED BY <1>5, <1>6, <1>7, <1>8, <1>9, <1>10, CpGreetOwn

\* The connection is told of one list.
LEMMA CpGreetTell ==
    ASSUME CpTyped, NEW t \in CpTasks, NEW sent \in BOOLEAN, tell_peer(t, sent)
    PROVE  CpTyped' /\ CpGreetStep(t)
  <1>1. PICK q : q = cpTask[t]
    OBVIOUS
  <1>2. q \in CpTaskRecord
    BY <1>1 DEF CpTyped
  <1>3. PICK n : n = [q EXCEPT !.at = @ + 1]
    OBVIOUS
  <1>4. /\ q.pc = "tell" /\ (CpSet(t, CpIdle) \/ CpSet(t, n))
        /\ cpUntold' = IF sent THEN [cpUntold EXCEPT ![q.peer] = @ \ {CpKinds[q.at]}]
                       ELSE cpUntold
        /\ UNCHANGED <<cpItems, cpVersion, cpPeers, cpClosed, cpFailed, cpJoined, cpHeld, cpRaced,
                       cpChanges>>
    BY <1>1, <1>3 DEF tell_peer
  <1>5. q.at + 1 \in Nat \ {0}
    BY <1>2 DEF CpTaskRecord
  <1>6. n \in CpTaskRecord
    BY <1>2, <1>3, <1>5 DEF CpTaskRecord
  <1>7. n.pc \in CpGreets
    BY <1>2, <1>3, <1>4 DEF CpTaskRecord, CpGreets
  <1>8. CpIdle \in CpTaskRecord /\ CpIdle.pc \in CpGreets /\ cpTask[t].pc \in CpGreets
    BY <1>1, <1>4, CpIdleRecord DEF CpGreets
  <1>9. cpUntold \in [CpPeers -> SUBSET CpKind]
    BY DEF CpTyped, CpTypeOK
  <1>10. cpUntold' \in [CpPeers -> SUBSET CpKind] /\ \A x \in CpPeers : cpUntold'[x] \subseteq cpUntold[x]
    BY <1>4, <1>9
  <1> QED BY <1>4, <1>6, <1>7, <1>8, <1>10, CpGreetOwn


\* What a change of the registry does to the tasks: one starts to hash, and those that
\* hash already are no longer alone.
LEMMA CpMutateEffect ==
    ASSUME CpTyped, NEW t \in CpTasks, NEW k \in CpKind, NEW names, CpMutate(t, k, names)
    PROVE  /\ cpTask[t].pc = "idle"
           /\ cpTask'[t].pc = "hash" /\ cpTask'[t].kind = k /\ cpTask'[t].at = 1
           /\ cpTask'[t].hash = <<>> /\ cpTask'[t].gone = <<>>
           /\ cpTask'[t].alone => \A x \in CpTasks : ~CpHashing(x)
           /\ (~cpRaced') => ~cpRaced /\ cpTask'[t].alone
           /\ \A x \in CpTasks : x # t =>
                  /\ cpTask'[x].pc = cpTask[x].pc /\ cpTask'[x].kind = cpTask[x].kind
                  /\ cpTask'[x].at = cpTask[x].at /\ cpTask'[x].gone = cpTask[x].gone
                  /\ CpHashing(x) => ~cpTask'[x].alone
  <1> DEFINE others == {x \in CpTasks : CpHashing(x)}
             q == [CpIdle EXCEPT !.pc = "hash", !.kind = k, !.alone = others = {}]
  <1>1. /\ q.pc = "hash" /\ q.kind = k /\ q.at = 1 /\ q.hash = <<>> /\ q.gone = <<>>
        /\ q.alone <=> (others = {})
    <2> HIDE DEF others
    <2>1. CpIdle \in CpTaskRecord
      BY CpIdleRecord
    <2> QED BY <2>1, CpIdleRecord DEF CpTaskRecord
  <1>2. /\ cpTask[t].pc = "idle"
        /\ cpTask' = [x \in CpTasks |->
               IF x = t THEN q
               ELSE IF x \in others THEN [cpTask[x] EXCEPT !.alone = FALSE] ELSE cpTask[x]]
    BY DEF CpMutate
  <1>3. cpRaced' = (cpRaced \/ others # {})
    BY DEF CpMutate
  <1> HIDE DEF q, others
  <1>4. ASSUME NEW r \in CpTaskRecord, NEW n, n = [r EXCEPT !.alone = FALSE]
        PROVE  n.pc = r.pc /\ n.kind = r.kind /\ n.at = r.at /\ n.gone = r.gone /\ ~n.alone
    BY <1>4 DEF CpTaskRecord
  <1>5. cpTask'[t] = q
    BY <1>2
  <1>6. ASSUME NEW x \in CpTasks, x # t
        PROVE  /\ cpTask'[x].pc = cpTask[x].pc /\ cpTask'[x].kind = cpTask[x].kind
               /\ cpTask'[x].at = cpTask[x].at /\ cpTask'[x].gone = cpTask[x].gone
               /\ CpHashing(x) => ~cpTask'[x].alone
    <2>1. CASE x \in others
      <3>1. PICK r : r = cpTask[x]
        OBVIOUS
      <3>2. r \in CpTaskRecord
        BY <3>1 DEF CpTyped
      <3>3. PICK n : n = [r EXCEPT !.alone = FALSE]
        OBVIOUS
      <3>4. cpTask'[x] = n
        BY <1>2, <1>6, <2>1, <3>1, <3>3
      <3> QED BY <1>4, <3>1, <3>2, <3>3, <3>4
    <2>2. CASE x \notin others
      <3>1. cpTask'[x] = cpTask[x]
        BY <1>2, <1>6, <2>2
      <3>2. ~CpHashing(x)
        BY <2>2 DEF others
      <3> QED BY <3>1, <3>2
    <2> QED BY <2>1, <2>2
  <1>7. q.alone => \A x \in CpTasks : ~CpHashing(x)
    BY <1>1 DEF others
  <1>8. (~cpRaced') => ~cpRaced /\ q.alone
    BY <1>1, <1>3
  <1> QED BY <1>1, <1>2, <1>5, <1>6, <1>7, <1>8

\* A connection joins or its transport closes, or the list is pruned.
LEMMA CpConnTyped ==
    ASSUME CpTyped, (\E p \in CpPeers : register_peer(p) \/ CpClose(p)) \/ prune_peers
    PROVE  /\ CpTyped'
           /\ UNCHANGED <<cpItems, cpVersion, cpTask, cpRaced, cpHeld, cpUntold, cpChanges>>
  <1>1. UNCHANGED <<cpItems, cpVersion, cpTask, cpRaced, cpHeld, cpUntold, cpChanges>>
    BY DEF register_peer, CpClose, prune_peers
  <1>2. /\ cpPeers \in Seq(CpPeers) /\ cpClosed \subseteq CpPeers
        /\ cpFailed \subseteq CpPeers /\ cpJoined \subseteq CpPeers
    BY DEF CpTyped, CpTypeOK
  <1>3. /\ cpPeers' \in Seq(CpPeers) /\ cpClosed' \subseteq CpPeers
        /\ cpFailed' \subseteq CpPeers /\ cpJoined' \subseteq CpPeers
    <2>1. CASE \E p \in CpPeers : register_peer(p)
      BY <1>2, <2>1 DEF register_peer
    <2>2. CASE \E p \in CpPeers : CpClose(p)
      BY <1>2, <2>2 DEF CpClose
    <2>3. CASE prune_peers
      <3>1. UNCHANGED <<cpClosed, cpFailed, cpJoined>>
        BY <2>3 DEF prune_peers
      <3>2. cpPeers' \in Seq(CpPeers)
        <4>1. cpPeers' = CpLeft(cpPeers, cpClosed)
          BY <2>3 DEF prune_peers, CpLeft
        <4> QED BY <1>2, <4>1, CpPruned
      <3> QED BY <1>2, <3>1, <3>2
    <2> QED BY <2>1, <2>2, <2>3
  <1>4. CpTypeOK'
    BY <1>1, <1>3 DEF CpTyped, CpTypeOK
  <1> QED BY <1>1, <1>4 DEF CpTyped

\* A restart leaves nothing behind that is not persisted.
LEMMA CpRestartEffect ==
    ASSUME CpTyped, load_persisted_versions
    PROVE  /\ CpTyped' /\ \A t \in CpTasks : cpTask'[t].pc = "idle"
           /\ cpHeld' = CpNone /\ CpDue' = {} /\ UNCHANGED <<cpUntold, cpJoined>>
           /\ cpVersion' = CpContentHash(cpItems')
  <1>1. /\ cpItems' = [k \in CpKind |-> {}] /\ cpVersion' = <<>> /\ cpPeers' = <<>>
        /\ cpHeld' = CpNone /\ cpClosed' = cpClosed \cup cpJoined /\ cpFailed' = {}
        /\ cpTask' = [t \in CpTasks |-> CpIdle]
        /\ UNCHANGED <<cpJoined, cpUntold, cpChanges>>
    BY DEF load_persisted_versions
  <1>2. cpRaced' \in BOOLEAN
    BY DEF load_persisted_versions
  <1>3. <<>> \in Seq(CpNames) /\ <<>> \in Seq(CpPeers)
    OBVIOUS
  <1>4. CpTypeOK'
    BY <1>1, <1>2, <1>3 DEF CpTyped, CpTypeOK
  <1>5. cpTask' \in [CpTasks -> CpTaskRecord] /\ \A t \in CpTasks : cpTask'[t].pc = "idle"
    BY <1>1, CpIdleRecord
  <1>6. \A k \in CpKind : IsFiniteSet(cpItems'[k])
    BY <1>1, FS_EmptySet
  <1>7. CpTyped'
    BY <1>4, <1>5, <1>6 DEF CpTyped
  <1>8. cpVersion' = CpContentHash(cpItems')
    BY <1>1, CpEmptyHash
  <1>9. CpDue' = {}
    BY <1>1 DEF CpDue, CpOpen
  <1> QED BY <1>1, <1>5, <1>7, <1>8, <1>9


-----------------------------------------------------------------------------
(* The version.                                                            *)

\* Init: nothing is registered and no hash is under way.
LEMMA CpVersionInit == CpInit => CpVersionOK
  <1> SUFFICES ASSUME CpInit PROVE CpVersionOK
    OBVIOUS
  <1>1. cpItems = [k \in CpKind |-> {}] /\ cpVersion = <<>> /\ cpTask = [t \in CpTasks |-> CpIdle]
    BY DEF CpInit
  <1>2. cpVersion = CpContentHash(cpItems)
    BY <1>1, CpEmptyHash
  <1>3. \A t \in CpTasks : ~CpHashing(t)
    BY <1>1, CpIdleRecord DEF CpHashing
  <1> QED BY <1>2, <1>3 DEF CpVersionOK, UnracedVersionCurrent

\* A task that does not hash, before or after its step, leaves the version as it was.
LEMMA CpVersionQuiet ==
    ASSUME CpVersionOK, NEW t \in CpTasks, ~CpHashing(t), ~CpHashing(t)',
           \A u \in CpTasks : u # t => cpTask'[u] = cpTask[u],
           UNCHANGED <<cpItems, cpVersion, cpRaced>>
    PROVE  CpVersionOK'
  <1>1. \A u \in CpTasks : /\ CpHashing(u)' <=> CpHashing(u)
                           /\ CpHashing(u) => cpTask'[u] = cpTask[u]
    BY DEF CpHashing
  <1>2. /\ \A u \in CpTasks : CpHashing(u)' /\ cpTask'[u].alone =>
               /\ cpTask'[u].hash = CpHashed(cpTask'[u], cpItems')
               /\ \A v \in CpTasks : CpHashing(v)' => v = u
        /\ ~cpRaced' => \A u \in CpTasks : CpHashing(u)' => cpTask'[u].alone
    BY <1>1 DEF CpVersionOK
  <1>3. UnracedVersionCurrent'
    BY <1>1 DEF CpVersionOK, UnracedVersionCurrent
  <1> QED BY <1>2, <1>3 DEF CpVersionOK

\* So does a step of none of them.
LEMMA CpVersionSame ==
    ASSUME CpVersionOK, UNCHANGED <<cpItems, cpVersion, cpRaced, cpTask>>
    PROVE  CpVersionOK'
  BY DEF CpVersionOK, UnracedVersionCurrent, CpHashing

\* A change starts a hash, alone if no other is under way.
LEMMA CpVersionMutate ==
    ASSUME CpTyped, CpVersionOK, NEW t \in CpTasks, NEW k \in CpKind, NEW names,
           CpMutate(t, k, names)
    PROVE  CpVersionOK'
  <1>1. /\ cpTask[t].pc = "idle"
        /\ cpTask'[t].pc = "hash" /\ cpTask'[t].at = 1 /\ cpTask'[t].hash = <<>>
        /\ cpTask'[t].alone => \A x \in CpTasks : ~CpHashing(x)
        /\ (~cpRaced') => ~cpRaced /\ cpTask'[t].alone
        /\ \A x \in CpTasks : x # t =>
               cpTask'[x].pc = cpTask[x].pc /\ (CpHashing(x) => ~cpTask'[x].alone)
    BY CpMutateEffect
  <1>2. \A x \in CpTasks : x # t => (CpHashing(x)' <=> CpHashing(x))
    BY <1>1 DEF CpHashing
  <1>3. CpHashing(t)'
    BY <1>1 DEF CpHashing
  <1>4. ASSUME NEW x \in CpTasks, CpHashing(x)', cpTask'[x].alone
        PROVE  /\ cpTask'[x].hash = CpHashed(cpTask'[x], cpItems')
               /\ \A u \in CpTasks : CpHashing(u)' => u = x
    <2>1. x = t
      BY <1>1, <1>2, <1>4
    <2>2. \A u \in CpTasks : CpHashing(u)' => u = t
      BY <1>1, <1>2, <1>4, <2>1
    <2>3. CpHashed(cpTask'[t], cpItems') = <<>>
      BY <1>1 DEF CpHashed
    <2> QED BY <1>1, <2>1, <2>2, <2>3
  <1>5. ~cpRaced' => \A x \in CpTasks : CpHashing(x)' => cpTask'[x].alone
    BY <1>1, <1>2
  <1>6. UnracedVersionCurrent'
    BY <1>3 DEF UnracedVersionCurrent
  <1> QED BY <1>4, <1>5, <1>6 DEF CpVersionOK

\* A computation that runs alone hashes one map more of the content there is.
LEMMA CpVersionHash ==
    ASSUME CpTyped, CpVersionOK, NEW t \in CpTasks, CpHashNext(t)
    PROVE  CpVersionOK'
  <1>1. /\ cpTask[t].pc = "hash" /\ cpTask'[t] = CpNextHash(cpTask[t], cpItems)
        /\ \A u \in CpTasks : u # t => cpTask'[u] = cpTask[u]
    BY CpHashNextEffect
  <1>2. /\ cpTask'[t].pc = IF cpTask[t].at = 3 THEN "store" ELSE "hash"
        /\ cpTask'[t].at = IF cpTask[t].at = 3 THEN 1 ELSE cpTask[t].at + 1
        /\ cpTask'[t].hash = cpTask[t].hash \o hash_sorted_keys(cpItems[CpKinds[cpTask[t].at]])
        /\ cpTask'[t].alone = cpTask[t].alone
    BY <1>1, CpNextHashRecord
  <1>3. UNCHANGED <<cpItems, cpVersion, cpRaced>>
    BY DEF CpHashNext
  <1>4. CpHashing(t) /\ CpHashing(t)'
    BY <1>1, <1>2 DEF CpHashing
  <1>5. \A u \in CpTasks : CpHashing(u)' <=> CpHashing(u)
    BY <1>1, <1>4 DEF CpHashing
  <1>6. ASSUME cpTask[t].alone PROVE cpTask'[t].hash = CpHashed(cpTask'[t], cpItems)
    <2>1. cpTask[t].hash = CpHashed(cpTask[t], cpItems) /\ cpTask[t].at \in 1 .. 3
      BY <1>1, <1>4, <1>6 DEF CpVersionOK, CpTyped
    <2>2. /\ hash_sorted_keys(cpItems["tools"]) \in Seq(CpNames)
          /\ CpKinds[1] = "tools" /\ CpKinds[2] = "prompts" /\ CpKinds[3] = "resources"
      BY CpHashes DEF CpTyped, CpTypeOK, CpKind, CpKinds
    <2>3. CASE cpTask[t].at = 1
      <3>1. cpTask[t].hash = <<>>
        BY <1>1, <2>1, <2>3 DEF CpHashed
      <3>2. cpTask'[t].hash = hash_sorted_keys(cpItems["tools"])
        BY <1>2, <2>2, <2>3, <3>1, ConcatEmptySeq
      <3>3. cpTask'[t].at = 2 /\ cpTask'[t].pc = "hash"
        BY <1>2, <2>3
      <3> QED BY <3>2, <3>3 DEF CpHashed
    <2>4. CASE cpTask[t].at = 2
      <3>1. cpTask[t].hash = hash_sorted_keys(cpItems["tools"])
        BY <1>1, <2>1, <2>4 DEF CpHashed
      <3>2. cpTask'[t].at = 3 /\ cpTask'[t].pc = "hash"
        BY <1>2, <2>4
      <3>3. cpTask'[t].hash = hash_sorted_keys(cpItems["tools"]) \o hash_sorted_keys(cpItems["prompts"])
        BY <1>2, <2>2, <2>4, <3>1
      <3> QED BY <3>2, <3>3 DEF CpHashed
    <2>5. CASE cpTask[t].at = 3
      <3>1. cpTask[t].hash = hash_sorted_keys(cpItems["tools"]) \o hash_sorted_keys(cpItems["prompts"])
        BY <1>1, <2>1, <2>5 DEF CpHashed
      <3> QED BY <1>2, <2>2, <2>5, <3>1 DEF CpHashed, CpContentHash
    <2> QED BY <2>1, <2>3, <2>4, <2>5
  <1>7. ASSUME NEW x \in CpTasks, CpHashing(x)', cpTask'[x].alone
        PROVE  /\ cpTask'[x].hash = CpHashed(cpTask'[x], cpItems')
               /\ \A u \in CpTasks : CpHashing(u)' => u = x
    <2>1. CASE x = t
      BY <1>2, <1>3, <1>4, <1>5, <1>6, <1>7, <2>1 DEF CpVersionOK
    <2>2. CASE x # t
      BY <1>1, <1>3, <1>5, <1>7, <2>2 DEF CpVersionOK
    <2> QED BY <2>1, <2>2
  <1>8. ~cpRaced' => \A x \in CpTasks : CpHashing(x)' => cpTask'[x].alone
    BY <1>1, <1>2, <1>3, <1>5 DEF CpVersionOK
  <1>9. UnracedVersionCurrent'
    BY <1>4 DEF UnracedVersionCurrent
  <1> QED BY <1>7, <1>8, <1>9 DEF CpVersionOK

\* What a computation that ran alone stores is the version of the content; after one
\* that did not the race stands.
LEMMA CpVersionStore ==
    ASSUME CpTyped, CpVersionOK, NEW t \in CpTasks, recompute_version(t)
    PROVE  CpVersionOK'
  <1>1. /\ cpTask[t].pc = "store" /\ cpTask'[t].pc = "peers"
        /\ \A u \in CpTasks : u # t => cpTask'[u] = cpTask[u]
    BY CpRecomputeEffect
  <1>2. /\ cpVersion' = cpTask[t].hash /\ UNCHANGED cpItems
        /\ cpRaced' = (cpRaced /\ ~cpTask[t].alone)
    BY DEF recompute_version
  <1>3. CpHashing(t) /\ ~CpHashing(t)'
    BY <1>1 DEF CpHashing
  <1>4. \A u \in CpTasks : u # t => (CpHashing(u)' <=> CpHashing(u))
    BY <1>1 DEF CpHashing
  <1>5. CASE cpTask[t].alone
    <2>1. cpTask[t].hash = CpContentHash(cpItems) /\ \A u \in CpTasks : CpHashing(u) => u = t
      BY <1>1, <1>3, <1>5 DEF CpVersionOK, CpHashed
    <2>2. \A u \in CpTasks : ~CpHashing(u)'
      BY <1>3, <1>4, <2>1
    <2>3. cpVersion' = CpContentHash(cpItems')
      BY <1>2, <2>1
    <2> QED BY <2>2, <2>3 DEF CpVersionOK, UnracedVersionCurrent
  <1>6. CASE ~cpTask[t].alone
    <2>1. cpRaced
      BY <1>3, <1>6 DEF CpVersionOK
    <2>2. cpRaced'
      BY <1>2, <1>6, <2>1
    <2>3. \A x \in CpTasks : CpHashing(x)' /\ cpTask'[x].alone =>
              /\ cpTask'[x].hash = CpHashed(cpTask'[x], cpItems')
              /\ \A u \in CpTasks : CpHashing(u)' => u = x
      BY <1>1, <1>2, <1>3, <1>4 DEF CpVersionOK
    <2> QED BY <2>2, <2>3 DEF CpVersionOK, UnracedVersionCurrent
  <1> QED BY <1>5, <1>6


-----------------------------------------------------------------------------
(* What the peers are told.                                                *)

\* Init: nobody is connected.
LEMMA CpToldInit == CpInit => CpToldOK
  <1> SUFFICES ASSUME CpInit PROVE CpToldOK
    OBVIOUS
  <1>1. \A t \in CpTasks : cpTask[t] = CpIdle
    BY DEF CpInit
  <1>2. cpHeld = CpNone /\ CpDue = {} /\ \A p \in CpPeers : cpUntold[p] = {}
    BY DEF CpInit, CpDue, CpOpen
  <1>3. CpFreshOK /\ CpLockOK /\ CpGoneOK
    BY <1>1, <1>2, CpIdleRecord, CpAssumption DEF CpFreshOK, CpLockOK, CpGoneOK
  <1> QED BY <1>2, <1>3 DEF CpToldOK, CpListed, CpUntoldOK

\* A step of a task that does not hold the lock: whatever becomes untold it will tell.
LEMMA CpToldOther ==
    ASSUME CpToldOK, NEW t \in CpTasks, UNCHANGED <<cpPeers, cpClosed, cpFailed, cpJoined, cpHeld>>,
           cpTask[t].pc # "notify", cpTask'[t].pc # "notify",
           \A x \in CpTasks : x # t =>
               /\ cpTask'[x].pc = cpTask[x].pc /\ cpTask'[x].kind = cpTask[x].kind
               /\ cpTask'[x].at = cpTask[x].at /\ cpTask'[x].gone = cpTask[x].gone,
           cpTask'[t].pc \in {"hash", "store", "peers"} => cpTask'[t].gone = <<>>,
           cpTask'[t].pc \in {"store", "peers"} => cpTask'[t].at = 1,
           cpTask[t].pc \in {"hash", "store", "peers"} =>
               /\ cpTask'[t].pc \in {"hash", "store", "peers"}
               /\ cpTask'[t].kind = cpTask[t].kind,
           \A p \in CpDue : \A k \in cpUntold'[p] :
               k \in cpUntold[p] \/ CpWillTell(cpTask'[t], cpPeers, p, k),
           \A p \in CpPeers \ cpJoined : cpUntold'[p] = {}
    PROVE  CpToldOK'
  <1>1. CpDue' = CpDue
    BY DEF CpDue, CpOpen
  <1>2. CpFreshOK'
    BY DEF CpToldOK, CpFreshOK
  <1>3. CpLockOK'
    BY DEF CpToldOK, CpLockOK
  <1>4. CpGoneOK'
    BY DEF CpToldOK, CpGoneOK, CpLost
  <1>5. CpListed'
    BY <1>1 DEF CpToldOK, CpListed
  <1>6. ASSUME NEW p \in CpDue', NEW k \in cpUntold'[p]
        PROVE  \E x \in CpTasks : CpWillTell(cpTask'[x], cpPeers', p, k)
    <2>1. CASE k \in cpUntold[p]
      <3>1. PICK x \in CpTasks : CpWillTell(cpTask[x], cpPeers, p, k)
        BY <1>1, <2>1 DEF CpToldOK, CpUntoldOK
      <3>2. CpWillTell(cpTask'[x], cpPeers', p, k)
        BY <3>1 DEF CpWillTell
      <3> QED BY <3>2
    <2>2. CASE k \notin cpUntold[p]
      BY <1>1, <2>2
    <2> QED BY <2>1, <2>2
  <1>7. CpUntoldOK'
    BY <1>6 DEF CpUntoldOK
  <1> QED BY <1>2, <1>3, <1>4, <1>5, <1>7 DEF CpToldOK

\* The task that changes the registry will tell everyone of it.
LEMMA CpToldMutate ==
    ASSUME CpTyped, CpToldOK, NEW t \in CpTasks, NEW k \in CpKind, NEW names,
           CpMutate(t, k, names)
    PROVE  CpToldOK'
  <1>1. /\ cpTask[t].pc = "idle" /\ cpTask'[t].pc = "hash" /\ cpTask'[t].kind = k
        /\ cpTask'[t].gone = <<>>
        /\ \A x \in CpTasks : x # t =>
               /\ cpTask'[x].pc = cpTask[x].pc /\ cpTask'[x].kind = cpTask[x].kind
               /\ cpTask'[x].at = cpTask[x].at /\ cpTask'[x].gone = cpTask[x].gone
    BY CpMutateEffect
  <1>2. /\ UNCHANGED <<cpPeers, cpClosed, cpFailed, cpJoined, cpHeld>>
        /\ cpUntold' = [p \in CpPeers |-> IF p \in CpOpen THEN cpUntold[p] \cup {k} ELSE cpUntold[p]]
    BY DEF CpMutate
  <1>3. CpDue \subseteq CpOpen /\ CpDue \subseteq CpPeers /\ CpOpen \subseteq cpJoined
    BY DEF CpTyped, CpTypeOK, CpDue, CpOpen
  <1>4. \A p \in CpDue : \A x \in cpUntold'[p] :
            x \in cpUntold[p] \/ CpWillTell(cpTask'[t], cpPeers, p, x)
    BY <1>1, <1>2, <1>3 DEF CpWillTell
  <1>5. \A p \in CpPeers \ cpJoined : cpUntold'[p] = {}
    BY <1>2, <1>3 DEF CpToldOK, CpUntoldOK
  <1> QED BY <1>1, <1>2, <1>4, <1>5, CpToldOther

\* Nothing becomes untold while a version is computed ...
LEMMA CpToldHash ==
    ASSUME CpTyped, CpToldOK, NEW t \in CpTasks, CpHashNext(t) \/ recompute_version(t)
    PROVE  CpToldOK'
  <1>1. UNCHANGED <<cpPeers, cpClosed, cpFailed, cpJoined, cpHeld, cpUntold>>
    BY DEF CpHashNext, recompute_version
  <1>2. /\ cpTask[t].pc \in {"hash", "store"} /\ cpTask'[t].pc \in {"hash", "store", "peers"}
        /\ cpTask'[t].kind = cpTask[t].kind /\ cpTask'[t].gone = cpTask[t].gone
        /\ cpTask'[t].pc \in {"store", "peers"} => cpTask'[t].at = 1
        /\ \A u \in CpTasks : u # t => cpTask'[u] = cpTask[u]
    <2>1. CASE CpHashNext(t)
      <3>1. /\ cpTask[t].pc = "hash" /\ cpTask'[t] = CpNextHash(cpTask[t], cpItems)
            /\ \A u \in CpTasks : u # t => cpTask'[u] = cpTask[u]
        BY <2>1, CpHashNextEffect
      <3>2. /\ cpTask'[t].pc = IF cpTask[t].at = 3 THEN "store" ELSE "hash"
            /\ cpTask'[t].at = IF cpTask[t].at = 3 THEN 1 ELSE cpTask[t].at + 1
            /\ cpTask'[t].kind = cpTask[t].kind /\ cpTask'[t].gone = cpTask[t].gone
        BY <3>1, CpNextHashRecord
      <3> QED BY <3>1, <3>2
    <2>2. CASE recompute_version(t)
      <3>1. /\ cpTask[t].pc = "store" /\ cpTask'[t].pc = "peers"
            /\ cpTask'[t].kind = cpTask[t].kind /\ cpTask'[t].at = cpTask[t].at
            /\ cpTask'[t].gone = cpTask[t].gone
            /\ \A u \in CpTasks : u # t => cpTask'[u] = cpTask[u]
        BY <2>2, CpRecomputeEffect
      <3>2. cpTask[t].at = 1
        BY <3>1 DEF CpToldOK, CpFreshOK
      <3> QED BY <3>1, <3>2
    <2> QED BY <2>1, <2>2
  <1>3. cpTask[t].gone = <<>> /\ \A p \in CpPeers \ cpJoined : cpUntold'[p] = {}
    BY <1>1, <1>2 DEF CpToldOK, CpFreshOK, CpUntoldOK
  <1> QED BY <1>1, <1>2, <1>3, CpToldOther

\* ... nor by a greeting.
LEMMA CpToldGreet ==
    ASSUME CpTyped, CpToldOK, NEW t \in CpTasks, CpGreetStep(t)
    PROVE  CpToldOK'
  <1>1. /\ cpTask[t].pc \notin {"hash", "store", "peers", "notify"}
        /\ cpTask'[t].pc \notin {"hash", "store", "peers", "notify"}
        /\ \A u \in CpTasks : u # t => cpTask'[u] = cpTask[u]
        /\ UNCHANGED <<cpPeers, cpClosed, cpFailed, cpJoined, cpHeld>>
        /\ \A p \in CpPeers : cpUntold'[p] \subseteq cpUntold[p]
    BY DEF CpGreetStep, CpGreets
  <1>2. \A p \in CpDue : \A k \in cpUntold'[p] : k \in cpUntold[p]
    BY <1>1 DEF CpDue, CpOpen, CpTyped, CpTypeOK
  <1>3. \A p \in CpPeers \ cpJoined : cpUntold'[p] = {}
    BY <1>1 DEF CpToldOK, CpUntoldOK
  <1> QED BY <1>1, <1>2, <1>3, CpToldOther


\* Only the task that holds the lock tells the peers, and CpNone is no task.
LEMMA CpLockFree ==
    ASSUME CpToldOK, NEW t \in CpTasks
    PROVE  /\ cpHeld = CpNone => cpTask[t].pc # "notify"
           /\ cpTask[t].pc = "notify" => \A u \in CpTasks : u # t => cpTask[u].pc # "notify"
  BY CpAssumption DEF CpToldOK, CpLockOK

\* The task that takes the lock is at the first peer, and everyone open is on the list.
LEMMA CpToldLock ==
    ASSUME CpTyped, CpToldOK, NEW t \in CpTasks, CpLockPeers(t)
    PROVE  CpToldOK'
  <1>1. /\ cpTask[t].pc = "peers" /\ cpTask'[t].pc = "notify"
        /\ cpTask'[t].kind = cpTask[t].kind /\ cpTask'[t].at = cpTask[t].at
        /\ cpTask'[t].gone = cpTask[t].gone
        /\ \A u \in CpTasks : u # t => cpTask'[u] = cpTask[u]
    BY CpLockEffect
  <1>2. /\ cpHeld = CpNone /\ cpHeld' = t
        /\ UNCHANGED <<cpPeers, cpClosed, cpFailed, cpJoined, cpUntold>>
    BY DEF CpLockPeers
  <1>3. cpTask[t].gone = <<>> /\ cpTask[t].at = 1
    BY <1>1 DEF CpToldOK, CpFreshOK
  <1>4. \A u \in CpTasks : cpTask[u].pc # "notify"
    BY <1>2, CpLockFree
  <1>5. CpFreshOK'
    BY <1>1 DEF CpToldOK, CpFreshOK
  <1>6. CpLockOK'
    BY <1>1, <1>2, <1>4 DEF CpLockOK
  <1>7. CpGoneOK'
    <2>1. \A u \in CpTasks : cpTask'[u].pc = "notify" => cpTask'[u].gone = <<>>
      BY <1>1, <1>3, <1>4
    <2>2. \A i \in 1 .. Len(<<>>) : FALSE
      OBVIOUS
    <2> QED BY <2>1, <2>2 DEF CpGoneOK
  <1>8. CpDue' = CpDue
    BY <1>2 DEF CpDue, CpOpen
  <1>9. CpListed'
    BY <1>2, <1>8 DEF CpToldOK, CpListed
  <1>10. ASSUME NEW p \in CpDue', NEW k \in cpUntold'[p]
         PROVE  \E x \in CpTasks : CpWillTell(cpTask'[x], cpPeers', p, k)
    <2>1. PICK x \in CpTasks : CpWillTell(cpTask[x], cpPeers, p, k)
      BY <1>2, <1>8 DEF CpToldOK, CpUntoldOK
    <2>2. CASE x = t
      <3>1. \E j \in 1 .. Len(cpPeers) : j >= 1 /\ cpPeers[j] = p
        BY <1>8 DEF CpToldOK, CpListed, CpTyped, CpTypeOK
      <3>2. CpWillTell(cpTask'[t], cpPeers', p, k)
        BY <1>1, <1>2, <1>3, <2>1, <2>2, <3>1 DEF CpWillTell
      <3> QED BY <3>2
    <2>3. CASE x # t
      BY <1>1, <1>2, <2>1, <2>3
    <2> QED BY <2>2, <2>3
  <1>11. CpUntoldOK'
    BY <1>2, <1>10 DEF CpToldOK, CpUntoldOK
  <1> QED BY <1>5, <1>6, <1>7, <1>9, <1>11 DEF CpToldOK

\* The peer the loop stands at is told of the kind, or is closed and noted.
LEMMA CpToldNotify ==
    ASSUME CpTyped, CpToldOK, NEW t \in CpTasks, NEW sent \in BOOLEAN, notify_peer(t, sent)
    PROVE  CpToldOK'
  <1>1. /\ cpTask[t].pc = "notify" /\ cpTask'[t].pc = "notify"
        /\ cpTask[t].at \in 1 .. Len(cpPeers)
        /\ cpTask'[t].kind = cpTask[t].kind /\ cpTask'[t].at = cpTask[t].at + 1
        /\ cpTask'[t].gone = IF sent THEN cpTask[t].gone ELSE Append(cpTask[t].gone, cpTask[t].at)
        /\ \A u \in CpTasks : u # t => cpTask'[u] = cpTask[u]
    BY CpNotifyEffect
  <1>2. PICK at : at = cpTask[t].at
    OBVIOUS
  <1>3. PICK gone : gone = cpTask[t].gone
    OBVIOUS
  <1>4. /\ cpFailed' = IF sent \/ cpPeers[at] \in cpClosed THEN cpFailed
                       ELSE cpFailed \cup {cpPeers[at]}
        /\ cpUntold' = IF sent THEN [cpUntold EXCEPT ![cpPeers[at]] = @ \ {cpTask[t].kind}]
                       ELSE cpUntold
        /\ UNCHANGED <<cpPeers, cpClosed, cpJoined, cpHeld>>
    BY <1>2 DEF notify_peer
  <1>5. \A u \in CpTasks : u # t => cpTask'[u].pc # "notify"
    BY <1>1, CpLockFree
  <1>6. CpFreshOK'
    BY <1>1 DEF CpToldOK, CpFreshOK
  <1>7. CpLockOK'
    BY <1>1, <1>4 DEF CpToldOK, CpLockOK
  <1>8. cpPeers \in Seq(CpPeers) /\ at \in 1 .. Len(cpPeers) /\ gone \in Seq(Nat)
        /\ cpUntold \in [CpPeers -> SUBSET CpKind] /\ cpPeers[at] \in CpPeers
    BY <1>1, <1>2, <1>3 DEF CpTyped, CpTypeOK, CpTaskRecord
  <1>9. /\ \A i \in 1 .. Len(gone) : gone[i] \in 1 .. Len(cpPeers) /\ gone[i] < at
                                     /\ cpPeers[gone[i]] \in CpLost
        /\ \A i, j \in 1 .. Len(gone) : i < j => gone[i] < gone[j]
    BY <1>1, <1>2, <1>3 DEF CpToldOK, CpGoneOK
  <1>10. CpGoneOK'
    <2>1. PICK new : new = cpTask'[t].gone
      OBVIOUS
    <2>2. /\ \A i \in 1 .. Len(new) : new[i] \in 1 .. Len(cpPeers) /\ new[i] < at + 1
                                      /\ cpPeers[new[i]] \in CpLost'
          /\ \A i, j \in 1 .. Len(new) : i < j => new[i] < new[j]
      <3>1. CASE sent
        <4>1. new = gone /\ CpLost' = CpLost
          BY <1>1, <1>3, <1>4, <2>1, <3>1 DEF CpLost
        <4> QED BY <1>8, <1>9, <4>1
      <3>2. CASE ~sent
        <4>1. new = Append(gone, at) /\ CpLost' = CpLost \cup {cpPeers[at]}
          BY <1>1, <1>2, <1>3, <1>4, <2>1, <3>2 DEF CpLost
        <4>2. /\ Len(new) = Len(gone) + 1 /\ new[Len(gone) + 1] = at
              /\ \A i \in 1 .. Len(gone) : new[i] = gone[i]
          BY <1>8, <4>1
        <4> QED BY <1>8, <1>9, <4>1, <4>2
      <3> QED BY <3>1, <3>2
    <2> QED BY <1>1, <1>2, <1>4, <1>5, <2>1, <2>2 DEF CpGoneOK
  <1>11. CpDue' \subseteq CpDue
    BY <1>4 DEF CpDue, CpOpen
  <1>12. CpListed'
    BY <1>4, <1>11 DEF CpToldOK, CpListed
  <1>13. ASSUME NEW p \in CpDue', NEW k \in cpUntold'[p]
         PROVE  \E x \in CpTasks : CpWillTell(cpTask'[x], cpPeers', p, k)
    <2>1. p \in CpPeers /\ k \in cpUntold[p]
      BY <1>4, <1>8, <1>11 DEF CpDue, CpOpen, CpTyped, CpTypeOK
    <2>2. PICK x \in CpTasks : CpWillTell(cpTask[x], cpPeers, p, k)
      BY <1>11, <2>1 DEF CpToldOK, CpUntoldOK
    <2>3. CASE x = t
      <3>1. PICK j \in 1 .. Len(cpPeers) : j >= at /\ cpPeers[j] = p
        BY <1>1, <1>2, <2>2, <2>3 DEF CpWillTell
      <3>2. k = cpTask[t].kind
        BY <2>2, <2>3 DEF CpWillTell
      <3>3. p # cpPeers[at]
        <4>1. CASE sent
          BY <1>4, <1>8, <1>13, <2>1, <3>2, <4>1
        <4>2. CASE ~sent
          BY <1>4, <1>13, <4>2 DEF CpDue, CpOpen
        <4> QED BY <4>1, <4>2
      <3>4. j >= at + 1
        BY <1>8, <3>1, <3>3
      <3>5. CpWillTell(cpTask'[t], cpPeers', p, k)
        BY <1>1, <1>2, <1>4, <3>1, <3>2, <3>4 DEF CpWillTell
      <3> QED BY <3>5
    <2>4. CASE x # t
      BY <1>1, <1>4, <2>2, <2>4
    <2> QED BY <2>3, <2>4
  <1>14. \A p \in CpPeers \ cpJoined' : cpUntold'[p] = {}
    <2>1. \A p \in CpPeers \ cpJoined : cpUntold[p] = {}
      BY DEF CpToldOK, CpUntoldOK
    <2> QED BY <1>4, <1>8, <2>1
  <1>15. CpUntoldOK'
    BY <1>13, <1>14 DEF CpUntoldOK
  <1> QED BY <1>6, <1>7, <1>10, <1>12, <1>15 DEF CpToldOK


\* The highest index goes first, so that the lower ones still name the peers they were
\* noted for, and the peer that takes the free place stays on the list.
LEMMA CpToldDrop ==
    ASSUME CpTyped, CpToldOK, NEW t \in CpTasks, drop_peer(t)
    PROVE  CpToldOK'
  <1>1. /\ cpTask[t].pc = "notify" /\ cpTask'[t].pc = "notify"
        /\ cpTask[t].at > Len(cpPeers) /\ cpTask'[t].at = cpTask[t].at
        /\ cpTask'[t].kind = cpTask[t].kind
        /\ Len(cpTask[t].gone) > 0 /\ cpTask[t].gone \in Seq(Nat)
        /\ cpTask'[t].gone = SubSeq(cpTask[t].gone, 1, Len(cpTask[t].gone) - 1)
        /\ cpTask[t].gone[Len(cpTask[t].gone)] \in 1 .. Len(cpPeers)
        /\ cpPeers' = swap_remove(cpPeers, cpTask[t].gone[Len(cpTask[t].gone)])
        /\ \A u \in CpTasks : u # t => cpTask'[u] = cpTask[u]
    BY CpDropEffect DEF CpToldOK
  <1>2. UNCHANGED <<cpClosed, cpFailed, cpJoined, cpHeld, cpUntold>>
    BY DEF drop_peer
  <1>3. PICK gone : gone = cpTask[t].gone
    OBVIOUS
  <1>4. PICK i : i = gone[Len(gone)]
    OBVIOUS
  <1>5. PICK ps : ps = cpPeers
    OBVIOUS
  <1>6. PICK left : left = cpPeers'
    OBVIOUS
  <1>7. PICK at : at = cpTask[t].at
    OBVIOUS
  <1>8. /\ ps \in Seq(CpPeers) /\ gone \in Seq(Nat) /\ Len(gone) > 0 /\ i \in 1 .. Len(ps)
        /\ at \in Nat /\ at > Len(ps)
    BY <1>1, <1>3, <1>4, <1>5, <1>7 DEF CpTyped, CpTypeOK, CpTaskRecord
  <1>9. /\ Len(left) = Len(ps) - 1
        /\ \A j \in 1 .. Len(ps) - 1 : left[j] = IF j = i THEN ps[Len(ps)] ELSE ps[j]
    <2>1. left = swap_remove(ps, i)
      BY <1>1, <1>3, <1>4, <1>5, <1>6
    <2> QED BY <1>8, <2>1, CpSwapRemove
  <1>10. /\ \A m \in 1 .. Len(gone) : gone[m] \in 1 .. Len(ps) /\ gone[m] < at
                                      /\ ps[gone[m]] \in CpLost
         /\ \A m, n \in 1 .. Len(gone) : m < n => gone[m] < gone[n]
    BY <1>1, <1>3, <1>5, <1>7 DEF CpToldOK, CpGoneOK
  <1>11. ps[i] \in CpLost
    BY <1>4, <1>8, <1>10
  <1>12. \A u \in CpTasks : u # t => cpTask'[u].pc # "notify"
    BY <1>1, CpLockFree
  <1>13. CpFreshOK'
    BY <1>1 DEF CpToldOK, CpFreshOK
  <1>14. CpLockOK'
    BY <1>1, <1>2 DEF CpToldOK, CpLockOK
  <1>15. CpGoneOK'
    <2>1. PICK new : new = cpTask'[t].gone
      OBVIOUS
    <2>2. Len(new) = Len(gone) - 1 /\ \A m \in 1 .. Len(new) : new[m] = gone[m]
      <3>1. new = SubSeq(gone, 1, Len(gone) - 1)
        BY <1>1, <1>3, <2>1
      <3>2. Len(gone) - 1 \in Nat /\ \A m \in 1 .. Len(gone) - 1 : gone[m] \in Nat
        BY <1>8
      <3>3. /\ Len(new) = IF 1 <= Len(gone) - 1 THEN Len(gone) - 1 - 1 + 1 ELSE 0
            /\ \A m \in 1 .. Len(gone) - 1 - 1 + 1 : new[m] = gone[1 + m - 1]
        BY <3>1, <3>2, SubSeqProperties
      <3>4. Len(new) = Len(gone) - 1
        <4>1. PICK l : l = Len(gone)
          OBVIOUS
        <4>2. l \in Nat /\ Len(new) = IF 1 <= l - 1 THEN l - 1 - 1 + 1 ELSE 0
          BY <1>8, <3>3, <4>1
        <4>3. l - 1 \in Nat
          BY <3>2, <4>1
        <4> QED BY <4>1, <4>2, <4>3
      <3>5. ASSUME NEW m \in 1 .. Len(new) PROVE new[m] = gone[m]
        <4>1. 1 + m - 1 = m /\ m \in 1 .. Len(gone) - 1 - 1 + 1
          BY <3>2, <3>4
        <4> QED BY <3>3, <4>1
      <3> QED BY <3>4, <3>5
    <2>3. ASSUME NEW m \in 1 .. Len(new)
          PROVE  new[m] \in 1 .. Len(left) /\ new[m] < at /\ left[new[m]] \in CpLost
      <3>1. new[m] = gone[m] /\ m \in 1 .. Len(gone) /\ m < Len(gone)
            /\ Len(gone) \in 1 .. Len(gone)
        BY <1>8, <2>2
      <3>2. gone[m] \in 1 .. Len(ps) /\ gone[m] < at /\ ps[gone[m]] \in CpLost /\ gone[m] < i
        BY <1>4, <1>10, <3>1
      <3>3. gone[m] \in 1 .. Len(ps) - 1 /\ gone[m] # i
        BY <1>8, <3>2
      <3> QED BY <1>9, <3>1, <3>2, <3>3
    <2>4. ASSUME NEW m \in 1 .. Len(new), NEW n \in 1 .. Len(new), m < n PROVE new[m] < new[n]
      <3>1. m \in 1 .. Len(gone) /\ n \in 1 .. Len(gone)
        BY <1>8, <2>2
      <3> QED BY <1>10, <2>2, <2>4, <3>1
    <2> QED BY <1>1, <1>2, <1>6, <1>7, <1>12, <2>1, <2>3, <2>4 DEF CpGoneOK, CpLost
  <1>16. CpDue' = CpDue
    BY <1>2 DEF CpDue, CpOpen
  <1>17. ASSUME NEW p \in CpDue PROVE \E j \in 1 .. Len(left) : left[j] = p
    <2>1. PICK j \in 1 .. Len(ps) : ps[j] = p
      BY <1>5 DEF CpToldOK, CpListed
    <2>2. p \notin CpLost
      BY DEF CpDue, CpOpen, CpLost
    <2>3. j # i
      BY <1>11, <2>1, <2>2
    <2>4. CASE j = Len(ps)
      BY <1>8, <1>9, <2>1, <2>3, <2>4
    <2>5. CASE j # Len(ps)
      BY <1>8, <1>9, <2>1, <2>3, <2>5
    <2> QED BY <2>4, <2>5
  <1>18. CpListed'
    BY <1>6, <1>16, <1>17 DEF CpListed
  <1>19. ASSUME NEW p \in CpDue', NEW k \in cpUntold'[p]
         PROVE  \E x \in CpTasks : CpWillTell(cpTask'[x], cpPeers', p, k)
    <2>1. PICK x \in CpTasks : CpWillTell(cpTask[x], ps, p, k)
      BY <1>2, <1>5, <1>16 DEF CpToldOK, CpUntoldOK
    <2>2. x # t
      BY <1>1, <1>7, <1>8, <2>1 DEF CpWillTell
    <2>3. CpWillTell(cpTask'[x], cpPeers', p, k)
      BY <1>1, <1>12, <2>1, <2>2 DEF CpWillTell
    <2> QED BY <2>3
  <1>20. CpUntoldOK'
    BY <1>2, <1>19 DEF CpToldOK, CpUntoldOK
  <1> QED BY <1>13, <1>14, <1>15, <1>18, <1>20 DEF CpToldOK

\* At the end of the loop the task has nobody left to tell.
LEMMA CpToldDone ==
    ASSUME CpTyped, CpToldOK, NEW t \in CpTasks, notify_peers(t)
    PROVE  CpToldOK'
  <1>1. /\ cpTask[t].pc = "notify" /\ cpTask'[t].pc = "idle" /\ cpTask[t].at > Len(cpPeers)
        /\ \A u \in CpTasks : u # t => cpTask'[u] = cpTask[u]
    BY CpDoneEffect
  <1>2. cpHeld' = CpNone /\ UNCHANGED <<cpPeers, cpClosed, cpFailed, cpJoined, cpUntold>>
    BY DEF notify_peers
  <1>3. \A u \in CpTasks : cpTask'[u].pc # "notify"
    BY <1>1, CpLockFree
  <1>4. CpFreshOK'
    BY <1>1 DEF CpToldOK, CpFreshOK
  <1>5. CpLockOK' /\ CpGoneOK'
    BY <1>2, <1>3, CpAssumption DEF CpLockOK, CpGoneOK
  <1>6. CpDue' = CpDue
    BY <1>2 DEF CpDue, CpOpen
  <1>7. CpListed'
    BY <1>2, <1>6 DEF CpToldOK, CpListed
  <1>8. ASSUME NEW p \in CpDue', NEW k \in cpUntold'[p]
        PROVE  \E x \in CpTasks : CpWillTell(cpTask'[x], cpPeers', p, k)
    <2>1. PICK x \in CpTasks : CpWillTell(cpTask[x], cpPeers, p, k)
      BY <1>2, <1>6 DEF CpToldOK, CpUntoldOK
    <2>2. Len(cpPeers) \in Nat /\ cpTask[t].at \in Nat
      BY DEF CpTyped, CpTypeOK, CpTaskRecord
    <2>3. x # t
      BY <1>1, <2>1, <2>2 DEF CpWillTell
    <2> QED BY <1>1, <1>2, <2>1, <2>3
  <1>9. CpUntoldOK'
    BY <1>2, <1>8 DEF CpToldOK, CpUntoldOK
  <1> QED BY <1>4, <1>5, <1>7, <1>9 DEF CpToldOK

\* While nobody holds the lock the list may change, as long as everyone open is on it
\* and who joins has missed nothing.
LEMMA CpToldFree ==
    ASSUME CpTyped, CpToldOK, cpHeld = CpNone, UNCHANGED <<cpTask, cpHeld, cpUntold>>,
           cpJoined \subseteq cpJoined', CpListed',
           \A p \in CpDue' : p \in CpDue \/ cpUntold[p] = {}
    PROVE  CpToldOK'
  <1>1. \A t \in CpTasks : cpTask[t].pc # "notify"
    BY CpLockFree
  <1>2. CpFreshOK' /\ CpLockOK' /\ CpGoneOK'
    BY <1>1 DEF CpToldOK, CpFreshOK, CpLockOK, CpGoneOK
  <1>3. ASSUME NEW p \in CpDue', NEW k \in cpUntold'[p]
        PROVE  \E x \in CpTasks : CpWillTell(cpTask'[x], cpPeers', p, k)
    <2>1. PICK x \in CpTasks : CpWillTell(cpTask[x], cpPeers, p, k)
      BY DEF CpToldOK, CpUntoldOK
    <2> QED BY <1>1, <2>1 DEF CpWillTell
  <1>4. CpUntoldOK'
    BY <1>3 DEF CpToldOK, CpUntoldOK
  <1> QED BY <1>2, <1>4 DEF CpToldOK

\* A connection joins at the end of the list.
LEMMA CpToldJoin ==
    ASSUME CpTyped, CpToldOK, NEW p \in CpPeers, register_peer(p)
    PROVE  CpToldOK'
  <1>1. /\ p \notin cpJoined /\ cpHeld = CpNone /\ cpPeers' = Append(cpPeers, p)
        /\ cpJoined' = cpJoined \cup {p} /\ UNCHANGED <<cpClosed, cpFailed, cpTask, cpHeld,
                                                        cpUntold>>
    BY DEF register_peer
  <1>2. CpDue' \subseteq CpDue \cup {p} /\ cpUntold[p] = {}
    BY <1>1 DEF CpDue, CpOpen, CpToldOK, CpUntoldOK
  <1>3. cpPeers \in Seq(CpPeers)
    BY DEF CpTyped, CpTypeOK
  <1>4. /\ Len(cpPeers') = Len(cpPeers) + 1 /\ cpPeers'[Len(cpPeers) + 1] = p
        /\ \A j \in 1 .. Len(cpPeers) : cpPeers'[j] = cpPeers[j]
    BY <1>1, <1>3
  <1>5. \A x \in CpDue : \E j \in 1 .. Len(cpPeers) : cpPeers[j] = x
    BY DEF CpToldOK, CpListed
  <1>6. Len(cpPeers) \in Nat
    BY <1>3
  <1>7. CpListed'
    <2>1. ASSUME NEW x \in CpDue' PROVE \E j \in 1 .. Len(cpPeers') : cpPeers'[j] = x
      <3>1. CASE x = p
        BY <1>4, <1>6, <3>1
      <3>2. CASE x # p
        BY <1>2, <1>4, <1>5, <1>6, <3>2
      <3> QED BY <3>1, <3>2
    <2> QED BY <2>1 DEF CpListed
  <1> QED BY <1>1, <1>2, <1>7, CpToldFree

\* Pruning takes only closed connections off the list.
LEMMA CpToldPrune ==
    ASSUME CpTyped, CpToldOK, prune_peers
    PROVE  CpToldOK'
  <1>1. cpHeld = CpNone /\ UNCHANGED <<cpClosed, cpFailed, cpJoined, cpTask, cpHeld, cpUntold>>
    BY DEF prune_peers
  <1>2. CpDue' = CpDue
    BY <1>1 DEF CpDue, CpOpen
  <1>3. cpPeers \in Seq(CpPeers)
    BY DEF CpTyped, CpTypeOK
  <1>4. \A i \in 1 .. Len(cpPeers) :
            cpPeers[i] \notin cpClosed => \E j \in 1 .. Len(cpPeers') : cpPeers'[j] = cpPeers[i]
    <2>1. cpPeers' = CpLeft(cpPeers, cpClosed)
      BY DEF prune_peers, CpLeft
    <2> QED BY <1>3, <2>1, CpPruned
  <1>5. CpListed'
    <2>1. ASSUME NEW x \in CpDue PROVE \E j \in 1 .. Len(cpPeers') : cpPeers'[j] = x
      <3>1. PICK i \in 1 .. Len(cpPeers) : cpPeers[i] = x
        BY DEF CpToldOK, CpListed
      <3>2. x \notin cpClosed
        BY DEF CpDue, CpOpen
      <3> QED BY <1>4, <3>1, <3>2
    <2> QED BY <1>2, <2>1 DEF CpListed
  <1> QED BY <1>1, <1>2, <1>5, CpToldFree

\* A transport that closes leaves fewer to tell.
LEMMA CpToldClose ==
    ASSUME CpTyped, CpToldOK, NEW p \in CpPeers, CpClose(p)
    PROVE  CpToldOK'
  <1>1. /\ cpClosed' = cpClosed \cup {p} /\ cpFailed' = cpFailed \ {p}
        /\ UNCHANGED <<cpPeers, cpJoined, cpTask, cpHeld, cpUntold>>
    BY DEF CpClose
  <1>2. CpDue' \subseteq CpDue
    BY <1>1 DEF CpDue, CpOpen
  <1>3. CpFreshOK' /\ CpLockOK' /\ CpListed'
    BY <1>1, <1>2 DEF CpToldOK, CpFreshOK, CpLockOK, CpListed
  <1>4. CpGoneOK'
    BY <1>1 DEF CpToldOK, CpGoneOK, CpLost
  <1>5. CpUntoldOK'
    BY <1>1, <1>2 DEF CpToldOK, CpUntoldOK
  <1> QED BY <1>3, <1>4, <1>5 DEF CpToldOK

\* After a restart nobody is connected.
LEMMA CpToldRestart ==
    ASSUME CpTyped, CpToldOK, load_persisted_versions
    PROVE  CpToldOK'
  <1>1. /\ \A t \in CpTasks : cpTask'[t].pc = "idle"
        /\ cpHeld' = CpNone /\ CpDue' = {} /\ UNCHANGED <<cpUntold, cpJoined>>
    BY CpRestartEffect
  <1>2. CpFreshOK' /\ CpLockOK' /\ CpGoneOK'
    BY <1>1, CpAssumption DEF CpFreshOK, CpLockOK, CpGoneOK
  <1>3. CpListed' /\ CpUntoldOK'
    BY <1>1 DEF CpListed, CpToldOK, CpUntoldOK
  <1> QED BY <1>2, <1>3 DEF CpToldOK


-----------------------------------------------------------------------------
\* What holds in every state of the registry.
CpInv == CpTyped /\ CpVersionOK /\ CpToldOK

\* Init establishes it.
LEMMA CpInvInit == CpInit => CpInv
  BY CpTypedInit, CpVersionInit, CpToldInit DEF CpInv

\* A task that steps keeps it.
LEMMA CpInvTask ==
    ASSUME CpInv, NEW t \in CpTasks,
           \/ \E x \in CpChanging : add_item(t, x[1], x[2]) \/ remove_item(t, x[1], x[2])
           \/ \E p \in CpGreeting : on_initialized(t, p)
           \/ \E ok \in BOOLEAN : notify_peer(t, ok) \/ save_version(t, ok) \/ tell_peer(t, ok)
           \/ CpHashNext(t) \/ recompute_version(t) \/ CpLockPeers(t)
           \/ drop_peer(t) \/ notify_peers(t) \/ notify_if_changed(t)
    PROVE  CpInv'
  <1> USE DEF CpInv
  <1>1. CASE \E x \in CpChanging : add_item(t, x[1], x[2]) \/ remove_item(t, x[1], x[2])
    <2>1. PICK k \in CpKind, names \in SUBSET CpNames : IsFiniteSet(names) /\ CpMutate(t, k, names)
      BY <1>1, CpMutations
    <2> QED BY <2>1, CpMutateTyped, CpVersionMutate, CpToldMutate
  <1>2. ASSUME CpTyped', CpGreetStep(t) PROVE CpInv'
    <2>1. ~CpHashing(t) /\ ~CpHashing(t)' /\ (\A u \in CpTasks : u # t => cpTask'[u] = cpTask[u])
          /\ UNCHANGED <<cpItems, cpVersion, cpRaced>>
      BY <1>2 DEF CpGreetStep, CpGreets, CpHashing
    <2> QED BY <1>2, <2>1, CpVersionQuiet, CpToldGreet
  <1>3. CASE \E p \in CpGreeting : on_initialized(t, p)
    <2>1. PICK p \in CpPeers : on_initialized(t, p)
      BY <1>3, CpAssumption
    <2> QED BY <1>2, <2>1, CpGreetStart
  <1>4. CASE notify_if_changed(t) \/ \E ok \in BOOLEAN : save_version(t, ok)
    BY <1>2, <1>4, CpGreetSave
  <1>5. CASE \E sent \in BOOLEAN : tell_peer(t, sent)
    BY <1>2, <1>5, CpGreetTell
  <1>6. CASE CpHashNext(t)
    BY <1>6, CpHashNextEffect, CpVersionHash, CpToldHash
  <1>7. CASE recompute_version(t)
    BY <1>7, CpRecomputeEffect, CpVersionStore, CpToldHash
  <1>8. ASSUME CpTyped', CpToldOK', cpTask[t].pc \in {"peers", "notify"},
               cpTask'[t].pc \in {"notify", "idle"},
               \A u \in CpTasks : u # t => cpTask'[u] = cpTask[u],
               UNCHANGED <<cpItems, cpVersion, cpRaced>>
        PROVE  CpInv'
    <2>1. ~CpHashing(t) /\ ~CpHashing(t)'
      BY <1>8 DEF CpHashing
    <2> QED BY <1>8, <2>1, CpVersionQuiet
  <1>9. CASE CpLockPeers(t)
    <2>1. UNCHANGED <<cpItems, cpVersion, cpRaced>>
      BY <1>9 DEF CpLockPeers
    <2> QED BY <1>8, <1>9, <2>1, CpLockEffect, CpToldLock
  <1>10. CASE \E sent \in BOOLEAN : notify_peer(t, sent)
    <2>1. UNCHANGED <<cpItems, cpVersion, cpRaced>>
      BY <1>10 DEF notify_peer
    <2> QED BY <1>8, <1>10, <2>1, CpNotifyEffect, CpToldNotify
  <1>11. CASE drop_peer(t)
    <2>1. UNCHANGED <<cpItems, cpVersion, cpRaced>>
      BY <1>11 DEF drop_peer
    <2>2. CpGoneOK
      BY DEF CpToldOK
    <2> QED BY <1>8, <1>11, <2>1, <2>2, CpDropEffect, CpToldDrop
  <1>12. CASE notify_peers(t)
    <2>1. UNCHANGED <<cpItems, cpVersion, cpRaced>>
      BY <1>12 DEF notify_peers
    <2> QED BY <1>8, <1>12, <2>1, CpDoneEffect, CpToldDone
  <1> QED BY <1>1, <1>3, <1>4, <1>5, <1>6, <1>7, <1>9, <1>10, <1>11, <1>12

\* Every step keeps it.
LEMMA CpInvStep == ASSUME CpInv, [CpNext]_cpVars PROVE CpInv'
  <1>1. ASSUME NEW p \in CpPeers, register_peer(p) \/ CpClose(p) PROVE CpInv'
    <2>1. CpTyped' /\ UNCHANGED <<cpItems, cpVersion, cpTask, cpRaced>>
      BY <1>1, CpConnTyped DEF CpInv
    <2>2. CpVersionOK'
      BY <2>1, CpVersionSame DEF CpInv
    <2> QED BY <1>1, <2>1, <2>2, CpToldJoin, CpToldClose DEF CpInv
  <1>2. CASE prune_peers
    <2>1. CpTyped' /\ UNCHANGED <<cpItems, cpVersion, cpTask, cpRaced>>
      BY <1>2, CpConnTyped DEF CpInv
    <2>2. CpVersionOK'
      BY <2>1, CpVersionSame DEF CpInv
    <2> QED BY <1>2, <2>1, <2>2, CpToldPrune DEF CpInv
  <1>3. CASE load_persisted_versions
    <2>1. CpTyped' /\ cpVersion' = CpContentHash(cpItems') /\ \A t \in CpTasks : cpTask'[t].pc = "idle"
      BY <1>3, CpRestartEffect DEF CpInv
    <2>2. CpVersionOK'
      BY <2>1 DEF CpVersionOK, UnracedVersionCurrent, CpHashing
    <2> QED BY <1>3, <2>1, <2>2, CpToldRestart DEF CpInv
  <1>4. CASE UNCHANGED cpVars
    <2>1. UNCHANGED <<cpItems, cpVersion, cpPeers, cpClosed, cpFailed, cpJoined, cpHeld, cpTask,
                      cpUntold, cpRaced, cpChanges>>
      BY <1>4 DEF cpVars
    <2>2. CpTyped'
      BY <2>1 DEF CpInv, CpTyped, CpTypeOK
    <2>3. CpVersionOK'
      BY <2>1, CpVersionSame DEF CpInv
    <2>4. CpDue' = CpDue
      BY <2>1 DEF CpDue, CpOpen
    <2>5. CpToldOK'
      BY <2>1, <2>4 DEF CpInv, CpToldOK, CpFreshOK, CpLockOK, CpGoneOK, CpLost, CpListed, CpUntoldOK
    <2> QED BY <2>2, <2>3, <2>5 DEF CpInv
  <1> QED BY <1>1, <1>2, <1>3, <1>4, CpInvTask DEF CpNext

\* The invariant holds in every state.
LEMMA CpAlways == CpSpec => []CpInv
  BY CpInvInit, CpInvStep, PTL DEF CpSpec

\* The state of the registry is well typed (registry.rs CapabilityRegistry).
THEOREM RegistryTypeCorrect == CpSpec => []CpTypeOK
  <1>1. CpInv => CpTypeOK
    BY DEF CpInv, CpTyped
  <1> QED BY <1>1, CpAlways, PTL

\* For any number of tasks, peers and names: unless two computations overlapped since
\* the last that ran alone, the stored version is the hash of what is registered
\* (registry.rs recompute_version, add_*, remove_*).
THEOREM VersionIsCurrent == CpSpec => []UnracedVersionCurrent
  <1>1. CpInv => UnracedVersionCurrent
    BY DEF CpInv, CpVersionOK
  <1> QED BY <1>1, CpAlways, PTL

\* For any number of tasks and peers that join, close and are pruned while others are
\* told: once no change is under way every open connection to which no send has failed is
\* on the list and has been told of each change since it joined (registry.rs
\* notify_peers, prune_peers).
THEOREM PeersAreCurrent == CpSpec => []QuietPeersAreCurrent
  <1>1. CpInv => QuietPeersAreCurrent
    <2> SUFFICES ASSUME CpInv, \A t \in CpTasks : cpTask[t].kind = CpNone, NEW p \in CpDue
                 PROVE  cpUntold[p] = {} /\ p \in Range(cpPeers)
      BY DEF QuietPeersAreCurrent
    <2>1. p \in CpPeers
      BY DEF CpInv, CpTyped, CpTypeOK, CpDue, CpOpen
    <2>2. \A k \in cpUntold[p] : k \in CpKind /\ \E t \in CpTasks : cpTask[t].kind = k
      BY <2>1 DEF CpInv, CpTyped, CpTypeOK, CpToldOK, CpUntoldOK, CpWillTell
    <2>3. cpUntold[p] = {}
      BY <2>2, CpAssumption
    <2>4. p \in Range(cpPeers)
      <3>1. PICK j \in 1 .. Len(cpPeers) : cpPeers[j] = p
        BY DEF CpInv, CpToldOK, CpListed
      <3>2. cpPeers \in Seq(CpPeers)
        BY DEF CpInv, CpTyped, CpTypeOK
      <3> QED BY <3>1, <3>2 DEF Range
    <2> QED BY <2>3, <2>4
  <1> QED BY <1>1, CpAlways, PTL

-----------------------------------------------------------------------------
(***************************************************************************)
(* The server.  A step of one part is a step of that part and a stutter of *)
(* the others, so the server implements every part, and what is proved of  *)
(* a part holds in the server.                                             *)
(***************************************************************************)

\* What the kinds of the registry hold, a session's token and a request's credentials
\* stay what they are (handler.rs, registry.rs).
LEMMA TdTypeCorrect == TdSpec => []TdTypeOK
  <1>1. TdInv => \A r \in TdCalls : tdCall[r].checked \in TdCredentials
                                    /\ tdCall[r].given \in TdCredentials
    BY DEF TdInv, TdRequest
  <1>2. TdInit => tdGuarded \in BOOLEAN /\ tdChanges \in 0 .. TdMaxChanges
    BY TdAssumption DEF TdInit
  <1>3. ASSUME [TdNext]_tdVars
        PROVE  /\ tdGuarded' = tdGuarded
               /\ tdChanges' = tdChanges \/ (tdChanges < TdMaxChanges /\ tdChanges' = tdChanges + 1)
    <2> DEFINE Counts == /\ tdGuarded' = tdGuarded
                         /\ \/ tdChanges' = tdChanges
                            \/ tdChanges < TdMaxChanges /\ tdChanges' = tdChanges + 1
    <2>1. ASSUME NEW r \in TdCalls, NEW ask \in TdArrivals, TdArrive(r, ask) PROVE Counts
      BY <2>1 DEF TdArrive, TdOthers
    <2>2. ASSUME NEW r \in TdCalls, NEW allow \in BOOLEAN, TdValidate(r, allow) PROVE Counts
      BY <2>2 DEF TdValidate, TdOthers
    <2>3. ASSUME NEW r \in TdCalls,
                 \/ TdResolve(r) \/ TdInnerList(r) \/ list_items(r) \/ query_filter(r)
                 \/ contains_tool(r) \/ tool_context(r) \/ try_dispatch(r) \/ TdFinish(r)
          PROVE  Counts
      <3>1. UNCHANGED TdOthers
        BY <2>3 DEF TdResolve, TdInnerList, list_items, query_filter, contains_tool, tool_context,
                    try_dispatch, TdFinish
      <3> QED BY <3>1 DEF TdOthers
    <2>4. ASSUME NEW x \in TdChanging, NEW present \in BOOLEAN, TdRegister(x[1], x[2], present)
          PROVE  Counts
      BY <2>4 DEF TdRegister
    <2>5. ASSUME TdStoreToken \/ TdRemoveToken PROVE Counts
      BY <2>5 DEF TdStoreToken, TdRemoveToken
    <2>6. ASSUME UNCHANGED tdVars PROVE Counts
      BY <2>6 DEF tdVars
    <2> HIDE DEF Counts
    <2>7. Counts
      BY <1>3, <2>1, <2>2, <2>3, <2>4, <2>5, <2>6 DEF TdNext
    <2> QED BY <2>7 DEF Counts
  <1>4. tdGuarded \in BOOLEAN /\ tdChanges \in 0 .. TdMaxChanges /\ [TdNext]_tdVars
        => (tdGuarded \in BOOLEAN /\ tdChanges \in 0 .. TdMaxChanges)'
    BY <1>3, TdAssumption
  <1>5. TdInv /\ tdGuarded \in BOOLEAN /\ tdChanges \in 0 .. TdMaxChanges => TdTypeOK
    BY <1>1 DEF TdInv, TdTypeOK
  <1> QED BY <1>2, <1>4, <1>5, TdInvInit, TdStepInv, PTL DEF TdSpec

\* What is offered is known (protocol.rs supported_protocol_versions).
LEMMA PlTypeCorrect == PlSpec => []PlTypeOK
  <1>1. PlInit => PlTypeOK
    BY DEF PlInit, PlTypeOK
  <1>2. ASSUME PlTypeOK, [PlNext]_plVars PROVE PlTypeOK'
    <2>1. ASSUME NEW builder, NEW env, PlBoot(builder, env) PROVE PlTypeOK'
      BY <1>2, <2>1 DEF PlTypeOK, PlBoot, cap_protocol_versions
    <2>2. ASSUME NEW q, normalize_protocol_lifecycle(q) PROVE PlTypeOK'
      BY <1>2, <2>2 DEF PlTypeOK, normalize_protocol_lifecycle
    <2>3. CASE PlAgain \/ UNCHANGED plVars
      BY <1>2, <2>3 DEF PlTypeOK, PlAgain, plVars
    <2> QED BY <1>2, <2>1, <2>2, <2>3 DEF PlNext
  <1> QED BY <1>1, <1>2, PTL DEF PlSpec

\* However the steps of its parts interleave, the server behaves as each of them does
\* alone: what is proved of a part in isolation holds in the server (transport/http.rs
\* assembles the parts, and none of them reaches into the state of another).
THEOREM ServerComposed ==
    ServerSpec => /\ BindSpec /\ JwSpec /\ OfSpec /\ TsSpec
                  /\ CpSpec /\ TdSpec /\ PlSpec
  <1>1. ServerInit => /\ BindInit /\ JwInit /\ OfInit /\ TsInit
                      /\ CpInit /\ TdInit /\ PlInit
    BY DEF ServerInit
  <1>2. ASSUME [ServerNext]_serverVars
        PROVE  /\ [BindNext]_bindVars /\ [JwNext]_jwVars /\ [OfNext]_ofVars /\ [TsNext]_tsVars
               /\ [CpNext]_cpVars /\ [TdNext]_tdVars /\ [PlNext]_plVars
    <2>1. CASE UNCHANGED serverVars
      BY <2>1 DEF serverVars
    <2>2. CASE BindMoves \/ JwMoves \/ OfMoves \/ TsMoves
      BY <2>2 DEF BindMoves, JwMoves, OfMoves, TsMoves
    <2>3. CASE CpMoves \/ TdMoves \/ PlMoves
      BY <2>3 DEF CpMoves, TdMoves, PlMoves
    <2> QED BY <1>2, <2>1, <2>2, <2>3 DEF ServerNext
  <1> QED BY <1>1, <1>2, PTL
      DEF ServerSpec, BindSpec, JwSpec, OfSpec, TsSpec, CpSpec, TdSpec, PlSpec

\* In every reachable state of the server, for any constants, the state of each part has
\* the shape its Rust types give it.
THEOREM ServerTypeCorrect == ServerSpec => []ServerTypeOK
  <1>1. BindInv => BindTypeOK
    BY DEF BindInv
  <1>2. JwInv => JwTypeOK
    BY DEF JwInv
  <1>3. TsInv => TsTypeOK
    BY DEF TsInv
  <1>4. /\ BindTypeOK /\ JwTypeOK /\ OfTypeOK /\ TsTypeOK /\ CpTypeOK /\ TdTypeOK /\ PlTypeOK
        => ServerTypeOK
    BY DEF ServerTypeOK
  <1> QED BY <1>1, <1>2, <1>3, <1>4, ServerComposed, BindAlways, JwAlways, OfTypeCorrect, TsAlways,
             RegistryTypeCorrect, TdTypeCorrect, PlTypeCorrect, PTL
=============================================================================
