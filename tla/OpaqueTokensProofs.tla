------------------------- MODULE OpaqueTokensProofs -------------------------
(***************************************************************************)
(* For any instances, users, sessions, pairs and requests and any schedule *)
(* of refreshes, hang-ups, lapses, crashes and boots: the three maps of an *)
(* index agree, a request is served as the user its token was minted for,  *)
(* and a mapping that nothing interrupted can be resolved.                 *)
(*                                                                         *)
(* None is inductive.  They rest on a pair having one home, the session it *)
(* was minted for: wherever a pair meets a session (an index, a record, a  *)
(* request, a list of backend operations, a boot), it is that one.  The    *)
(* home is no variable of the code; OpInv says that there is a function    *)
(* home, which a mint extends and nothing else changes.                    *)
(*                                                                         *)
(* The third needs what the lists of backend operations do to each other   *)
(* before the first fault (OpQuiet): the forward mapping is touched first; *)
(* a pair whose forward mapping is not written yet is in no other list;    *)
(* and an inverse entry is deleted only after the forward mapping has left *)
(* its pair, which nothing takes back.                                     *)
(***************************************************************************)
EXTENDS OpaqueTokens, TLAPS, SequenceTheorems, FiniteSetTheorems

OpHomes == [OpPairs -> OpSessions \cup {OpNone}]

\* A backend operation is about a pair and its home, and what it writes is a pair.
OpHomedOp(op, home) ==
    /\ op \in OpOps
    /\ op[3] \in OpPairs => home[op[3]] = op[2]
    /\ op[1] \in OpSetOps => op[3] \in OpPairs
OpHomedList(todo, home) ==
    todo \in Seq(OpOps) /\ \A n \in 1 .. Len(todo) : OpHomedOp(todo[n], home)

\* A request: the home of its pair.
OpKnows(q, home) ==
    /\ (q.pair \in OpPairs /\ q.session \in OpSessions) => home[q.pair] = q.session
    /\ q.pc \in {"inverse", "forward", "hydrate", "token"} =>
           home[q.pair] \in OpSessions /\ q.user = OpLogin[home[q.pair]]
    /\ q.pc \in {"mint", "served"} => q.user = OpLogin[q.session]
    /\ q.pc = "work" /\ q.next = "issued" => home[q.pair] \in OpSessions
OpReqOK(q, home) ==
    q \in OpRequest /\ OpCarries(q) /\ OpKnows(q, home) /\ OpHomedList(q.todo, home)

\* A boot: what it has read, one mapping for a session.
OpBootOK(b, home) ==
    /\ b \in OpBootRec /\ OpHomedList(b.todo, home)
    /\ b.pc # "maps" => b.got = {} /\ b.todo = <<>>
    /\ \A x \in b.got : home[x[2]] = x[1] /\ x[1] \notin b.left
    /\ \A x, y \in b.got : x[1] = y[1] => x = y

OpIndexHomed(home) ==
    \A i \in OpInstances, s \in OpSessions : opMap[i][s] \in OpPairs => home[opMap[i][s]] = s
OpBackendHomed(home) ==
    /\ \A s \in OpSessions : opFwd[s] \in OpPairs => home[opFwd[s]] = s
    /\ \A side \in {"acc", "ref"}, p \in OpPairs :
           opInv[side][p] \in OpSessions => home[p] = opInv[side][p]
OpWorldHomed(home) ==
    /\ opOwner = [p \in OpPairs |-> IF home[p] = OpNone THEN OpNone ELSE OpLogin[home[p]]]
    /\ \A p \in opHeld : home[p] \in OpSessions
    /\ \A s \in OpSessions : opGrant[s] \in {OpNone, OpLogin[s]}

OpIndexOK(home) ==
    /\ opAcc \in [OpInstances -> [OpPairs -> OpSessions \cup {OpNone}]]
    /\ opRef \in [OpInstances -> [OpPairs -> OpSessions \cup {OpNone}]]
    /\ opMap \in [OpInstances -> [OpSessions -> OpPairs \cup {OpNone}]]
    /\ OpIndexHomed(home) /\ IndexCoherent
OpBackendOK(home) ==
    /\ opFwd \in [OpSessions -> OpPairs \cup {OpNone}]
    /\ opInv \in [{"acc", "ref"} -> [OpPairs -> OpSessions \cup {OpNone}]]
    /\ OpBackendHomed(home)
OpWorldOK(home) ==
    /\ opGrant \in [OpSessions -> OpUsers \cup {OpNone}]
    /\ opDead \subseteq OpSessions
    /\ opLapsed \subseteq {"acc", "ref"} \X OpPairs
    /\ opHeld \subseteq OpPairs
    /\ opOwner \in [OpPairs -> OpUsers \cup {OpNone}]
    /\ OpWorldHomed(home)
OpRequestsOK(home) ==
    opReq \in [OpRequests -> OpRequest] /\ \A r \in OpRequests : OpReqOK(opReq[r], home)
OpBootsOK(home) ==
    opBoot \in [OpInstances -> OpBootRec] /\ \A i \in OpInstances : OpBootOK(opBoot[i], home)

OpHomed(home) ==
    OpIndexOK(home) /\ OpBackendOK(home) /\ OpWorldOK(home) /\ OpRequestsOK(home) /\ OpBootsOK(home)

OpInv == \E home \in OpHomes : OpHomed(home)

-----------------------------------------------------------------------------
(* Homes and lists.                                                        *)

\* Init: no pair has a home yet.
LEMMA OpInitInv == OpInit => OpInv
  <1> SUFFICES ASSUME OpInit PROVE OpInv
    OBVIOUS
  <1> DEFINE h == [p \in OpPairs |-> OpNone]
  <1> USE OpAssumption DEF OpInit
  <1>0. h \in OpHomes
    BY DEF OpHomes
  <1>1. OpIndexOK(h)
    BY DEF OpIndexOK, OpIndexHomed, IndexCoherent
  <1>2. OpBackendOK(h)
    BY DEF OpBackendOK, OpBackendHomed
  <1>3. OpWorldOK(h)
    BY DEF OpWorldOK, OpWorldHomed
  <1>4. \A home : OpHomedList(<<>>, home)
    BY DEF OpHomedList
  <1>5. OpIdle \in OpRequest
    BY DEF OpIdle, OpRequest, OpPcs
  <1>6. OpRequestsOK(h)
    BY <1>4, <1>5 DEF OpRequestsOK, OpReqOK, OpCarries, OpKnows, OpIdle
  <1>7. OpBootsOK(h)
    BY <1>4 DEF OpBootsOK, OpBootOK, OpBootRec, OpRunning
  <1> HIDE DEF h
  <1> QED BY <1>0, <1>1, <1>2, <1>3, <1>6, <1>7 DEF OpInv, OpHomed

\* A request that is over is in order whatever the homes.
LEMMA OpIdleOK == ASSUME NEW home PROVE OpReqOK(OpIdle, home)
  <1>1. OpHomedList(<<>>, home)
    BY DEF OpHomedList
  <1>2. OpIdle \in OpRequest
    BY DEF OpIdle, OpRequest, OpPcs
  <1> QED BY <1>1, <1>2, OpAssumption DEF OpReqOK, OpCarries, OpKnows, OpIdle

\* A list of one or three operations is in order when each of them is.
LEMMA OpListOK ==
  ASSUME NEW home, NEW a, NEW b, NEW c, OpHomedOp(a, home)
  PROVE  /\ OpHomedList(<<a>>, home)
         /\ OpHomedOp(b, home) /\ OpHomedOp(c, home) => OpHomedList(<<a, b, c>>, home)
  BY DEF OpHomedList, OpHomedOp

\* The head of a list that is in order is, and so is the rest.
LEMMA OpListTail ==
  ASSUME NEW home, NEW todo, OpHomedList(todo, home), todo # <<>>
  PROVE  OpHomedOp(Head(todo), home) /\ OpHomedList(Tail(todo), home)
  <1>0. todo \in Seq(OpOps) /\ Len(todo) >= 1
    BY DEF OpHomedList
  <1>1. OpHomedOp(Head(todo), home)
    BY <1>0 DEF OpHomedList
  <1>2. Tail(todo) \in Seq(OpOps) /\ Len(Tail(todo)) = Len(todo) - 1
    BY <1>0
  <1>3. \A n \in 1 .. Len(Tail(todo)) : Tail(todo)[n] = todo[n + 1] /\ n + 1 \in 1 .. Len(todo)
    BY <1>0
  <1>4. \A n \in 1 .. Len(Tail(todo)) : OpHomedOp(Tail(todo)[n], home)
    BY <1>3 DEF OpHomedList
  <1> QED BY <1>1, <1>2, <1>4 DEF OpHomedList

\* A list of more than one operation has a rest.
LEMMA OpLongTail == ASSUME NEW l \in Seq(OpOps), Len(l) > 1 PROVE Tail(l) # <<>>
  <1> DEFINE t == Tail(l)
             k == Len(l)
  <1>1. l # <<>> /\ k \in Nat
    OBVIOUS
  <1>2. Len(t) = k - 1
    BY <1>1, HeadTailProperties
  <1>3. k > 1
    OBVIOUS
  <1> HIDE DEF t, k
  <1>4. Len(t) # 0
    BY <1>1, <1>2, <1>3
  <1>5. t # <<>>
    BY <1>4
  <1> QED BY <1>5 DEF t

\* Two lists in order make one.
LEMMA OpConcatOK ==
  ASSUME NEW home, NEW a, NEW b, OpHomedList(a, home), OpHomedList(b, home), a # <<>>
  PROVE  OpHomedList(a \o b, home) /\ a \o b # <<>>
  <1>0. a \in Seq(OpOps) /\ b \in Seq(OpOps) /\ Len(a) \in Nat /\ Len(b) \in Nat
    BY DEF OpHomedList
  <1>1. /\ a \o b \in Seq(OpOps)
        /\ Len(a \o b) = Len(a) + Len(b)
        /\ \A i \in 1 .. Len(a) + Len(b) :
               (a \o b)[i] = IF i <= Len(a) THEN a[i] ELSE b[i - Len(a)]
    BY <1>0, ConcatProperties
  <1>2. ASSUME NEW i \in 1 .. Len(a) + Len(b) PROVE OpHomedOp((a \o b)[i], home)
    <2>1. CASE i <= Len(a)
      <3>1. i \in 1 .. Len(a)
        BY <1>0, <2>1
      <3> QED BY <1>1, <2>1, <3>1 DEF OpHomedList
    <2>2. CASE ~(i <= Len(a))
      <3>1. i - Len(a) \in 1 .. Len(b)
        BY <1>0, <2>2
      <3> QED BY <1>1, <2>2, <3>1 DEF OpHomedList
    <2> QED BY <2>1, <2>2
  <1>3. a \o b # <<>>
    BY <1>0, ConcatEqualIffEmpty
  <1> QED BY <1>1, <1>2, <1>3 DEF OpHomedList

\* The list that deletes a mapping is in order when the mapping is.
LEMMA OpDeleteOK ==
  ASSUME NEW home, NEW s \in OpSessions, NEW p \in OpPairs \cup {OpNone},
         p \in OpPairs => home[p] = s
  PROVE  OpHomedList(OpDelete(s, p), home)
  <1>1. /\ OpHomedOp(<<"del_fwd", s, p>>, home)
        /\ OpHomedOp(<<"del_acc", s, p>>, home)
        /\ OpHomedOp(<<"del_ref", s, p>>, home)
    BY DEF OpHomedOp, OpOps, OpSetOps
  <1> QED BY <1>1, OpListOK DEF OpDelete

\* One backend operation keeps the backend homed.
LEMMA OpApplied ==
  ASSUME NEW home \in OpHomes, OpBackendOK(home), NEW op, OpHomedOp(op, home), OpApply(op)
  PROVE  OpBackendOK(home)'
  <1> DEFINE s == op[2]
             p == op[3]
  <1>0. s \in OpSessions /\ p \in OpPairs \cup {OpNone}
    BY DEF OpHomedOp, OpOps
  <1>1. ASSUME opFwd' = opFwd,
               NEW side \in {"acc", "ref"}, NEW to \in OpSessions \cup {OpNone},
               opInv' = [opInv EXCEPT ![side][p] = to],
               to \in OpSessions => p \in OpPairs /\ home[p] = to
        PROVE  OpBackendOK(home)'
    BY <1>1 DEF OpBackendOK, OpBackendHomed
  <1>2. ASSUME opInv' = opInv, NEW to \in OpPairs \cup {OpNone}, opFwd' = [opFwd EXCEPT ![s] = to],
               to \in OpPairs => home[to] = s
        PROVE  OpBackendOK(home)'
    BY <1>0, <1>2 DEF OpBackendOK, OpBackendHomed
  <1>3. op[1] \in OpSetOps => p \in OpPairs /\ home[p] = s
    BY DEF OpHomedOp
  <1>4. CASE op[1] = "set_fwd"
    BY <1>2, <1>3, <1>4 DEF OpApply, OpSetOps
  <1>5. CASE op[1] = "set_acc"
    BY <1>0, <1>1, <1>3, <1>5, OpAssumption DEF OpApply, OpSetOps
  <1>6. CASE op[1] = "set_ref"
    BY <1>0, <1>1, <1>3, <1>6 DEF OpApply, OpSetOps
  <1>7. CASE op[1] = "del_fwd"
    BY <1>2, <1>7, OpAssumption DEF OpApply
  <1>8. CASE op[1] = "del_acc"
    BY <1>1, <1>8, OpAssumption DEF OpApply
  <1>9. CASE op[1] = "del_ref"
    BY <1>1, <1>9, OpAssumption DEF OpApply
  <1> QED BY <1>4, <1>5, <1>6, <1>7, <1>8, <1>9 DEF OpApply

\* remove_session and insert keep an index coherent and homed: the pair that goes
\* takes its tokens with it, the pair that comes is at home in its session.
LEMMA OpReplaced ==
  ASSUME NEW home \in OpHomes, OpIndexOK(home), NEW i \in OpInstances, NEW s \in OpSessions,
         NEW new \in OpPairs \cup {OpNone}, NEW live \in BOOLEAN,
         new \in OpPairs => home[new] = s,
         replace_session(i, s, new, live)
  PROVE  OpIndexOK(home)'
  <1> USE OpAssumption DEF OpIndexOK
  <1> DEFINE old == opMap[i][s]
  <1>1. opMap' \in [OpInstances -> [OpSessions -> OpPairs \cup {OpNone}]]
    BY DEF replace_session
  <1>2. opRef' \in [OpInstances -> [OpPairs -> OpSessions \cup {OpNone}]]
    BY DEF replace_session
  <1>3. opAcc' \in [OpInstances -> [OpPairs -> OpSessions \cup {OpNone}]]
    BY DEF replace_session
  <1>4. OpIndexHomed(home)'
    BY DEF replace_session, OpIndexHomed
  <1>5. ASSUME NEW j \in OpInstances, NEW p \in OpPairs, NEW t \in OpSessions
        PROVE  /\ opAcc'[j][p] = t => opMap'[j][t] = p
               /\ opRef'[j][p] = t <=> opMap'[j][t] = p
    <2>0. /\ opAcc[j][p] = t => opMap[j][t] = p
          /\ opRef[j][p] = t <=> opMap[j][t] = p
          /\ opMap[j][t] = p => home[p] = t
          /\ opAcc[j][p] = s => opMap[j][s] = p
          /\ opRef[j][p] = s <=> opMap[j][s] = p
      BY DEF IndexCoherent, OpIndexHomed
    <2>1. CASE j # i
      BY <2>0, <2>1 DEF replace_session
    <2>2. CASE j = i
      <3>1. opMap'[i][t] = IF t = s THEN new ELSE opMap[i][t]
        BY DEF replace_session
      <3>2. opAcc'[i][p] = IF p = new /\ live THEN s ELSE IF p \in {old, new} THEN OpNone
                           ELSE opAcc[i][p]
        BY DEF replace_session
      <3>3. opRef'[i][p] = IF p = new THEN s ELSE IF p = old THEN OpNone ELSE opRef[i][p]
        BY DEF replace_session
      <3>4. p = new => home[p] = s
        OBVIOUS
      <3> HIDE DEF old
      <3> QED BY <2>0, <2>2, <3>1, <3>2, <3>3, <3>4 DEF old
    <2> QED BY <2>1, <2>2
  <1>6. IndexCoherent'
    BY <1>5 DEF IndexCoherent
  <1> QED BY <1>1, <1>2, <1>3, <1>4, <1>6

\* The step of one request, the others left alone.
LEMMA OpRequestStep ==
  ASSUME NEW home, OpRequestsOK(home), NEW r \in OpRequests, NEW q, OpReqOK(q, home), OpSet(r, q)
  PROVE  OpRequestsOK(home)'
  BY DEF OpRequestsOK, OpSet, OpReqOK

\* The step of one boot, the others left alone.
LEMMA OpBootStep ==
  ASSUME NEW home, OpBootsOK(home), NEW i \in OpInstances, NEW b, OpBootOK(b, home),
         opBoot' = [opBoot EXCEPT ![i] = b]
  PROVE  OpBootsOK(home)'
  BY DEF OpBootsOK, OpBootOK

\* What a step leaves alone stays in order.
LEMMA OpKeep ==
  ASSUME NEW home
  PROVE  /\ OpIndexOK(home) /\ UNCHANGED opIndex => OpIndexOK(home)'
         /\ OpBackendOK(home) /\ UNCHANGED opBackend => OpBackendOK(home)'
         /\ OpWorldOK(home) /\ UNCHANGED opWorld => OpWorldOK(home)'
         /\ OpRequestsOK(home) /\ UNCHANGED opReq => OpRequestsOK(home)'
         /\ OpBootsOK(home) /\ UNCHANGED opBoot => OpBootsOK(home)'
  <1>1. OpIndexOK(home) /\ UNCHANGED opIndex => OpIndexOK(home)'
    BY DEF opIndex, OpIndexOK, OpIndexHomed, IndexCoherent
  <1>2. OpBackendOK(home) /\ UNCHANGED opBackend => OpBackendOK(home)'
    BY DEF opBackend, OpBackendOK, OpBackendHomed
  <1>3. OpWorldOK(home) /\ UNCHANGED opWorld => OpWorldOK(home)'
    BY DEF opWorld, OpWorldOK, OpWorldHomed
  <1>4. OpRequestsOK(home) /\ UNCHANGED opReq => OpRequestsOK(home)'
    BY DEF OpRequestsOK
  <1>5. OpBootsOK(home) /\ UNCHANGED opBoot => OpBootsOK(home)'
    BY DEF OpBootsOK
  <1> QED BY <1>1, <1>2, <1>3, <1>4, <1>5

\* A request that goes to work on a list.
LEMMA OpThenOK ==
  ASSUME NEW home \in OpHomes, NEW q \in OpRequest, q.inst \in OpInstances,
         q.session \in OpSessions, q.pair \in OpPairs => home[q.pair] = q.session,
         NEW todo, todo # <<>>, OpHomedList(todo, home), NEW next \in {"idle", "issued"},
         next = "issued" => q.pair \in OpPairs
  PROVE  OpReqOK(OpThen(q, todo, next), home)
  <1> DEFINE n == OpThen(q, todo, next)
  <1>1. n \in OpRequest
    BY DEF OpRequest, OpThen, OpPcs, OpHomedList
  <1>2. /\ n.pc = "work" /\ n.todo = todo /\ n.next = next
        /\ n.inst = q.inst /\ n.session = q.session /\ n.pair = q.pair
    BY DEF OpRequest, OpThen
  <1> HIDE DEF n
  <1>3. OpCarries(n) /\ OpKnows(n, home)
    BY <1>2 DEF OpCarries, OpKnows
  <1> QED BY <1>1, <1>2, <1>3 DEF OpReqOK, n

\* A move of one request to another position.
LEMMA OpGotoOK ==
  ASSUME NEW home, OpRequestsOK(home), NEW r \in OpRequests, NEW pc \in OpPcs, OpGoto(r, pc),
         OpCarries([opReq[r] EXCEPT !.pc = pc]), OpKnows([opReq[r] EXCEPT !.pc = pc], home)
  PROVE  OpRequestsOK(home)'
  <1> DEFINE q == [opReq[r] EXCEPT !.pc = pc]
  <1>0. OpReqOK(opReq[r], home)
    BY DEF OpRequestsOK
  <1>1. q \in OpRequest /\ q.todo = opReq[r].todo
    BY <1>0 DEF OpReqOK, OpRequest
  <1>2. OpReqOK(q, home)
    BY <1>0, <1>1 DEF OpReqOK
  <1>3. OpSet(r, q)
    BY DEF OpSet, OpGoto, OpRequestsOK
  <1> QED BY <1>2, <1>3, OpRequestStep

-----------------------------------------------------------------------------
(* One lemma per action.                                                   *)

\* The grant of a login is stored under its key, and it is for the user of the key.
LEMMA OpDoLogin ==
  ASSUME NEW home \in OpHomes, OpHomed(home), NEW r \in OpRequests, NEW i \in OpInstances,
         NEW u \in OpUsers, NEW s \in OpSessions, opaque_token_handler(r, i, u, s)
  PROVE  OpHomed(home)'
  <1> USE DEF OpHomed
  <1> DEFINE q == [OpIdle EXCEPT !.pc = "mint", !.inst = i, !.kind = "login", !.session = s,
                        !.user = u]
  <1>1. OpIdle \in OpRequest /\ OpIdle.todo = <<>> /\ OpHomedList(<<>>, home)
    BY OpIdleOK DEF OpReqOK, OpIdle
  <1>2. q \in OpRequest
    BY <1>1 DEF OpRequest, OpPcs
  <1>3. /\ q.pc = "mint" /\ q.inst = i /\ q.session = s /\ q.user = u /\ q.pair = OpNone
        /\ q.todo = <<>>
    BY DEF OpIdle
  <1>4. u = OpLogin[s] /\ OpSet(r, q) /\ opGrant' = [opGrant EXCEPT ![s] = u]
    BY DEF opaque_token_handler
  <1> HIDE DEF q
  <1>5. OpReqOK(q, home)
    BY <1>1, <1>2, <1>3, <1>4, OpAssumption DEF OpReqOK, OpCarries, OpKnows
  <1>6. OpWorldOK(home)'
    BY <1>4 DEF opaque_token_handler, OpWorldOK, OpWorldHomed
  <1> QED BY <1>4, <1>5, <1>6, OpKeep, OpRequestStep DEF opaque_token_handler

\* A request that comes in carries the session its index has for its token.
LEMMA OpDoResolve ==
  ASSUME NEW home \in OpHomes, OpHomed(home), NEW r \in OpRequests, NEW i \in OpInstances,
         NEW side \in {"acc", "ref"}, NEW p \in OpPairs, resolve_opaque(r, i, side, p)
  PROVE  OpHomed(home)'
  <1> USE DEF OpHomed
  <1> DEFINE s == IF side = "acc" THEN opAcc[i][p] ELSE opRef[i][p]
  <1> DEFINE n(pc) == [OpIdle EXCEPT !.inst = i, !.kind = side, !.pair = p, !.session = s,
                                     !.user = opOwner[p], !.pc = pc]
  <1>1. OpIdle \in OpRequest /\ OpIdle.todo = <<>> /\ OpHomedList(<<>>, home)
    BY OpIdleOK DEF OpReqOK, OpIdle
  <1>2. s \in OpSessions \cup {OpNone} /\ opOwner[p] \in OpUsers \cup {OpNone}
    BY DEF OpIndexOK, OpWorldOK
  <1>3. s \in OpSessions => home[p] = s
    BY DEF OpIndexOK, OpIndexHomed, IndexCoherent
  <1>4. home[p] \in OpSessions /\ opOwner[p] = OpLogin[home[p]]
    BY OpAssumption DEF resolve_opaque, OpWorldOK, OpWorldHomed
  <1> HIDE DEF s
  <1>5. ASSUME NEW pc \in {"token", "expire", "remove", "inverse"},
               pc # "inverse" => s # OpNone, pc = "inverse" => s = OpNone
        PROVE  OpReqOK(n(pc), home)
    <2>1. n(pc) \in OpRequest
      BY <1>1, <1>2 DEF OpRequest, OpPcs
    <2>2. /\ n(pc).pc = pc /\ n(pc).inst = i /\ n(pc).kind = side /\ n(pc).pair = p
          /\ n(pc).session = s /\ n(pc).user = opOwner[p] /\ n(pc).todo = <<>>
      BY DEF OpIdle
    <2> HIDE DEF n
    <2> QED BY <1>1, <1>2, <1>3, <1>4, <1>5, <2>1, <2>2 DEF OpReqOK, OpCarries, OpKnows
  <1>6. \E pc \in {"token", "expire", "remove", "inverse"} :
            /\ pc # "inverse" => s # OpNone
            /\ pc = "inverse" => s = OpNone
            /\ OpSet(r, n(pc))
    BY DEF resolve_opaque, s, OpIdle
  <1> HIDE DEF n
  <1>7. OpRequestsOK(home)'
    BY <1>5, <1>6, OpRequestStep
  <1> QED BY <1>7, OpKeep DEF resolve_opaque

\* What the invariant says of one request.
LEMMA OpOwn ==
  ASSUME NEW home, OpHomed(home), NEW r \in OpRequests
  PROVE  /\ opReq[r] \in OpRequest /\ OpCarries(opReq[r]) /\ OpKnows(opReq[r], home)
         /\ OpHomedList(opReq[r].todo, home)
  BY DEF OpHomed, OpRequestsOK, OpReqOK

\* Leaving an access token out of the index keeps it coherent.
LEMMA OpDoExpire ==
  ASSUME NEW home \in OpHomes, OpHomed(home), NEW r \in OpRequests, expire_opaque_access(r)
  PROVE  OpHomed(home)'
  <1> DEFINE q == opReq[r]
             todo == <<<<"del_acc", q.session, q.pair>>>>
  <1>1. q \in OpRequest /\ OpCarries(q) /\ OpKnows(q, home) /\ q.pc = "expire"
    BY OpOwn DEF expire_opaque_access
  <1>2. q.inst \in OpInstances /\ q.pair \in OpPairs /\ q.session \in OpSessions
        /\ home[q.pair] = q.session
    BY <1>1 DEF OpCarries, OpKnows
  <1>3. OpHomedOp(<<"del_acc", q.session, q.pair>>, home)
    BY <1>2 DEF OpHomedOp, OpOps, OpSetOps
  <1>4. OpHomedList(todo, home) /\ todo # <<>>
    BY <1>3, OpListOK
  <1>5. OpSet(r, OpThen(q, todo, "idle"))
    BY DEF expire_opaque_access
  <1>6. opAcc' = [opAcc EXCEPT ![q.inst][q.pair] = OpNone] /\ UNCHANGED <<opRef, opMap>>
    BY DEF expire_opaque_access
  <1> HIDE DEF q, todo
  <1>7. OpReqOK(OpThen(q, todo, "idle"), home)
    BY <1>1, <1>2, <1>4, OpThenOK
  <1>8. OpIndexOK(home)'
    BY <1>2, <1>6, OpAssumption DEF OpHomed, OpIndexOK, OpIndexHomed, IndexCoherent
  <1> QED BY <1>5, <1>7, <1>8, OpKeep, OpRequestStep DEF OpHomed, expire_opaque_access

\* The inverse entry of a pair names its home.
LEMMA OpDoInverse ==
  ASSUME NEW home \in OpHomes, OpHomed(home), NEW r \in OpRequests, load_inverse(r)
  PROVE  OpHomed(home)'
  <1> DEFINE q == opReq[r]
             s == opInv[q.kind][q.pair]
             n == [q EXCEPT !.pc = "forward", !.session = s]
  <1>1. q \in OpRequest /\ OpCarries(q) /\ OpKnows(q, home) /\ q.pc = "inverse"
        /\ OpHomedList(q.todo, home)
    BY OpOwn DEF load_inverse
  <1>2. q.inst \in OpInstances /\ q.pair \in OpPairs /\ q.kind \in {"acc", "ref"}
    BY <1>1 DEF OpCarries
  <1>3. s \in OpSessions \cup {OpNone} /\ (s # OpNone => home[q.pair] = s)
    BY <1>2 DEF OpHomed, OpBackendOK, OpBackendHomed
  <1>4. s # OpNone => OpReqOK(n, home)
    <2> HAVE s # OpNone
    <2> HIDE DEF q, s
    <2>1. n \in OpRequest
      BY <1>1, <1>3 DEF OpRequest, OpPcs
    <2>2. /\ n.pc = "forward" /\ n.session = s /\ n.inst = q.inst /\ n.kind = q.kind
          /\ n.pair = q.pair /\ n.user = q.user /\ n.todo = q.todo
      BY <1>1 DEF OpRequest
    <2> HIDE DEF n
    <2> QED BY <1>1, <1>2, <1>3, <2>1, <2>2 DEF OpReqOK, OpCarries, OpKnows
  <1>5. OpSet(r, OpIdle) \/ (s # OpNone /\ OpSet(r, n))
    BY DEF load_inverse, OpRefuse
  <1> HIDE DEF n, s
  <1>6. OpRequestsOK(home)'
    BY <1>4, <1>5, OpIdleOK, OpRequestStep DEF OpHomed
  <1> QED BY <1>6, OpKeep DEF OpHomed, load_inverse

\* The forward mapping confirms a pair or an inverse entry is deleted.
LEMMA OpDoForward ==
  ASSUME NEW home \in OpHomes, OpHomed(home), NEW r \in OpRequests, load_opaque_mapping(r)
  PROVE  OpHomed(home)'
  <1> DEFINE q == opReq[r]
             op == <<IF q.kind = "acc" THEN "del_acc" ELSE "del_ref", q.session, q.pair>>
             n == [q EXCEPT !.pc = "hydrate"]
  <1>1. q \in OpRequest /\ OpCarries(q) /\ OpKnows(q, home) /\ q.pc = "forward"
    BY OpOwn DEF load_opaque_mapping
  <1>2. /\ q.inst \in OpInstances /\ q.pair \in OpPairs /\ q.session \in OpSessions
        /\ q.kind \in {"acc", "ref"} /\ home[q.pair] = q.session
    BY <1>1 DEF OpCarries, OpKnows
  <1>3. OpHomedOp(op, home)
    BY <1>2 DEF OpHomedOp, OpOps, OpSetOps
  <1>4. OpCarries(n) /\ OpKnows(n, home)
    <2> HIDE DEF q
    <2>2. /\ n.pc = "hydrate" /\ n.session = q.session /\ n.inst = q.inst /\ n.kind = q.kind
          /\ n.pair = q.pair /\ n.user = q.user
      BY <1>1 DEF OpRequest
    <2> HIDE DEF n
    <2> QED BY <1>1, <1>2, <2>2 DEF OpCarries, OpKnows
  <1>5. \/ OpSet(r, OpIdle) /\ UNCHANGED opBackend
        \/ OpSet(r, OpIdle) /\ OpApply(op)
        \/ OpGoto(r, "hydrate") /\ UNCHANGED opBackend
    BY DEF load_opaque_mapping, OpRefuse
  <1> HIDE DEF op
  <1>6. OpBackendOK(home)'
    BY <1>3, <1>5, OpApplied, OpKeep DEF OpHomed
  <1>7. OpRequestsOK(home)'
    BY <1>4, <1>5, OpIdleOK, OpRequestStep, OpGotoOK DEF OpHomed, OpPcs
  <1> QED BY <1>6, <1>7, OpKeep DEF OpHomed, load_opaque_mapping

\* hydrate_opaque brings a pair into the index of its home session.
LEMMA OpDoHydrate ==
  ASSUME NEW home \in OpHomes, OpHomed(home), NEW r \in OpRequests, hydrate_opaque(r)
  PROVE  OpHomed(home)'
  <1> DEFINE q == opReq[r]
             n == [q EXCEPT !.pc = "token"]
  <1>1. q \in OpRequest /\ OpCarries(q) /\ OpKnows(q, home) /\ q.pc = "hydrate"
    BY OpOwn DEF hydrate_opaque
  <1>2. /\ q.inst \in OpInstances /\ q.pair \in OpPairs /\ q.session \in OpSessions
        /\ home[q.pair] = q.session
    BY <1>1 DEF OpCarries, OpKnows
  <1>3. OpCarries(n) /\ OpKnows(n, home)
    <2> HIDE DEF q
    <2>2. /\ n.pc = "token" /\ n.session = q.session /\ n.inst = q.inst /\ n.kind = q.kind
          /\ n.pair = q.pair /\ n.user = q.user
      BY <1>1 DEF OpRequest
    <2> HIDE DEF n
    <2> QED BY <1>1, <1>2, <2>2 DEF OpCarries, OpKnows
  <1>4. OpRequestsOK(home)'
    BY <1>3, OpGotoOK DEF OpHomed, OpPcs, hydrate_opaque
  <1>5. OpIndexOK(home)'
    <2>1. \/ UNCHANGED opIndex
          \/ replace_session(q.inst, q.session, q.pair, <<"acc", q.pair>> \notin opLapsed)
      BY DEF hydrate_opaque
    <2> QED BY <1>2, <2>1, OpReplaced, OpKeep DEF OpHomed
  <1> QED BY <1>4, <1>5, OpKeep DEF OpHomed, hydrate_opaque

\* A request is served as the user of its session's grant, the user of the login.
LEMMA OpDoServe ==
  ASSUME NEW home \in OpHomes, OpHomed(home), NEW r \in OpRequests, bearer_auth_middleware(r)
  PROVE  OpHomed(home)'
  <1> DEFINE q == opReq[r]
             gone == [q EXCEPT !.pc = "remove"]
             n == [q EXCEPT !.pc = "served", !.user = opGrant[q.session]]
  <1>1. q \in OpRequest /\ OpCarries(q) /\ OpKnows(q, home) /\ q.pc = "token"
        /\ OpHomedList(q.todo, home)
    BY OpOwn DEF bearer_auth_middleware
  <1>2. /\ q.inst \in OpInstances /\ q.pair \in OpPairs /\ q.session \in OpSessions
        /\ q.kind \in {"acc", "ref"} /\ home[q.pair] = q.session
    BY <1>1 DEF OpCarries, OpKnows
  <1>3. OpCarries(gone) /\ OpKnows(gone, home)
    <2> HIDE DEF q
    <2>2. /\ gone.pc = "remove" /\ gone.session = q.session /\ gone.inst = q.inst
          /\ gone.kind = q.kind /\ gone.pair = q.pair /\ gone.user = q.user
      BY <1>1 DEF OpRequest
    <2> HIDE DEF gone
    <2> QED BY <1>1, <1>2, <2>2 DEF OpCarries, OpKnows
  <1>4. get_token_ok(q.session) => OpReqOK(n, home)
    <2> HAVE get_token_ok(q.session)
    <2>0. opGrant[q.session] = OpLogin[q.session] /\ opGrant[q.session] \in OpUsers
      BY <1>2, OpAssumption DEF OpHomed, OpWorldOK, OpWorldHomed, get_token_ok
    <2> HIDE DEF q
    <2>1. n \in OpRequest
      BY <1>1, <2>0 DEF OpRequest, OpPcs
    <2>2. /\ n.pc = "served" /\ n.session = q.session /\ n.inst = q.inst /\ n.kind = q.kind
          /\ n.pair = q.pair /\ n.user = opGrant[q.session] /\ n.todo = q.todo
      BY <1>1 DEF OpRequest
    <2> HIDE DEF n
    <2> QED BY <1>1, <1>2, <2>0, <2>1, <2>2 DEF OpReqOK, OpCarries, OpKnows
  <1>5. OpGoto(r, "remove") \/ (get_token_ok(q.session) /\ OpSet(r, n))
    BY DEF bearer_auth_middleware
  <1> HIDE DEF n
  <1>6. OpRequestsOK(home)'
    BY <1>3, <1>4, <1>5, OpRequestStep, OpGotoOK DEF OpHomed, OpPcs
  <1> QED BY <1>6, OpKeep DEF OpHomed, bearer_auth_middleware

\* A refresh goes on to mint for the user of its session, or to remove.
LEMMA OpDoRefresh ==
  ASSUME NEW home \in OpHomes, OpHomed(home), NEW r \in OpRequests, handle_opaque_refresh(r)
  PROVE  OpHomed(home)'
  <1> DEFINE q == opReq[r]
  <1>1. q \in OpRequest /\ OpCarries(q) /\ OpKnows(q, home) /\ q.pc = "token"
    BY OpOwn DEF handle_opaque_refresh
  <1>2. /\ q.inst \in OpInstances /\ q.pair \in OpPairs /\ q.session \in OpSessions
        /\ q.kind \in {"acc", "ref"} /\ home[q.pair] = q.session /\ q.user = OpLogin[q.session]
    BY <1>1 DEF OpCarries, OpKnows
  <1>3. ASSUME NEW pc \in {"mint", "remove"}
        PROVE  OpCarries([q EXCEPT !.pc = pc]) /\ OpKnows([q EXCEPT !.pc = pc], home)
    <2> DEFINE n == [q EXCEPT !.pc = pc]
    <2> HIDE DEF q
    <2>2. /\ n.pc = pc /\ n.session = q.session /\ n.inst = q.inst /\ n.kind = q.kind
          /\ n.pair = q.pair /\ n.user = q.user
      BY <1>1 DEF OpRequest
    <2> HIDE DEF n
    <2>3. OpCarries(n) /\ OpKnows(n, home)
      BY <1>1, <1>2, <1>3, <2>2 DEF OpCarries, OpKnows
    <2> QED BY <2>3 DEF n
  <1>4. OpGoto(r, "mint") \/ OpGoto(r, "remove")
    BY DEF handle_opaque_refresh
  <1>5. OpRequestsOK(home)'
    BY <1>3, <1>4, OpGotoOK DEF OpHomed, OpPcs
  <1> QED BY <1>5, OpKeep DEF OpHomed, handle_opaque_refresh

\* remove_opaque_for_session empties the session's mapping and deletes what it held.
LEMMA OpDoRemove ==
  ASSUME NEW home \in OpHomes, OpHomed(home), NEW r \in OpRequests, remove_opaque_for_session(r)
  PROVE  OpHomed(home)'
  <1> DEFINE q == opReq[r]
             old == opMap[q.inst][q.session]
             n == [q EXCEPT !.pc = "recover"]
  <1>1. q \in OpRequest /\ OpCarries(q) /\ OpKnows(q, home) /\ q.pc = "remove"
        /\ OpHomedList(q.todo, home)
    BY OpOwn DEF remove_opaque_for_session
  <1>2. /\ q.inst \in OpInstances /\ q.pair \in OpPairs /\ q.session \in OpSessions
        /\ home[q.pair] = q.session
    BY <1>1 DEF OpCarries, OpKnows
  <1>3. old \in OpPairs \cup {OpNone} /\ (old \in OpPairs => home[old] = q.session)
    BY <1>2 DEF OpHomed, OpIndexOK, OpIndexHomed
  <1>4. OpReqOK(n, home)
    <2> HIDE DEF q
    <2>1. n \in OpRequest
      BY <1>1 DEF OpRequest, OpPcs
    <2>2. /\ n.pc = "recover" /\ n.session = q.session /\ n.inst = q.inst /\ n.kind = q.kind
          /\ n.pair = q.pair /\ n.user = q.user /\ n.todo = q.todo
      BY <1>1 DEF OpRequest
    <2> HIDE DEF n
    <2> QED BY <1>1, <1>2, <2>1, <2>2 DEF OpReqOK, OpCarries, OpKnows
  <1>5. OpHomedList(OpDelete(q.session, old), home) /\ OpDelete(q.session, old) # <<>>
    BY <1>2, <1>3, OpDeleteOK DEF OpDelete
  <1>6. OpReqOK(OpThen(q, OpDelete(q.session, old), "idle"), home)
    BY <1>1, <1>2, <1>5, OpThenOK
  <1>7. OpSet(r, n) \/ OpSet(r, OpThen(q, OpDelete(q.session, old), "idle"))
    BY DEF remove_opaque_for_session
  <1>8. OpRequestsOK(home)'
    <2> HIDE DEF n, old, q
    <2> QED BY <1>4, <1>6, <1>7, OpRequestStep DEF OpHomed
  <1>9. OpIndexOK(home)'
    <2>1. replace_session(q.inst, q.session, OpNone, FALSE)
      BY DEF remove_opaque_for_session
    <2> QED BY <1>2, <2>1, OpReplaced, OpAssumption DEF OpHomed
  <1> QED BY <1>8, <1>9, OpKeep DEF OpHomed, remove_opaque_for_session

\* What the index did not know is deleted as the forward mapping has it.
LEMMA OpDoRecover ==
  ASSUME NEW home \in OpHomes, OpHomed(home), NEW r \in OpRequests, recover_opaques(r)
  PROVE  OpHomed(home)'
  <1> DEFINE q == opReq[r]
             p == opFwd[q.session]
             todo == IF p = OpNone THEN <<<<"del_fwd", q.session, q.pair>>>>
                     ELSE OpDelete(q.session, p)
  <1>1. q \in OpRequest /\ OpCarries(q) /\ OpKnows(q, home) /\ q.pc = "recover"
    BY OpOwn DEF recover_opaques
  <1>2. /\ q.inst \in OpInstances /\ q.pair \in OpPairs /\ q.session \in OpSessions
        /\ home[q.pair] = q.session
    BY <1>1 DEF OpCarries, OpKnows
  <1>3. p \in OpPairs \cup {OpNone} /\ (p \in OpPairs => home[p] = q.session)
    BY <1>2 DEF OpHomed, OpBackendOK, OpBackendHomed
  <1>4. OpHomedOp(<<"del_fwd", q.session, q.pair>>, home)
    BY <1>2 DEF OpHomedOp, OpOps, OpSetOps
  <1>5. OpHomedList(todo, home)
    BY <1>2, <1>3, <1>4, OpListOK, OpDeleteOK
  <1>6. todo # <<>>
    BY DEF OpDelete
  <1>7. OpSet(r, OpThen(q, todo, "idle"))
    BY DEF recover_opaques
  <1> HIDE DEF todo, q
  <1>8. OpReqOK(OpThen(q, todo, "idle"), home)
    BY <1>1, <1>2, <1>5, <1>6, OpThenOK
  <1> QED BY <1>7, <1>8, OpKeep, OpRequestStep DEF OpHomed, recover_opaques

\* The cleanup task takes a dead grant and the mapping its index has for it.
LEMMA OpDoPurge ==
  ASSUME NEW home \in OpHomes, OpHomed(home), NEW r \in OpRequests, NEW i \in OpInstances,
         NEW s \in OpSessions, purge_expired(r, i, s)
  PROVE  OpHomed(home)'
  <1> DEFINE q == [OpIdle EXCEPT !.inst = i, !.kind = "purge", !.session = s]
             old == opMap[i][s]
             todo == IF old = OpNone THEN <<<<"del_fwd", s, OpNone>>>> ELSE OpDelete(s, old)
  <1>1. OpIdle \in OpRequest
    BY OpIdleOK DEF OpReqOK
  <1>2. q \in OpRequest /\ q.inst = i /\ q.session = s /\ q.pair = OpNone
    BY <1>1 DEF OpRequest, OpIdle
  <1>3. old \in OpPairs \cup {OpNone} /\ (old \in OpPairs => home[old] = s)
    BY DEF OpHomed, OpIndexOK, OpIndexHomed
  <1>4. OpHomedOp(<<"del_fwd", s, OpNone>>, home)
    BY OpAssumption DEF OpHomedOp, OpOps, OpSetOps
  <1>5. OpHomedList(todo, home)
    BY <1>3, <1>4, OpListOK, OpDeleteOK
  <1>6. todo # <<>>
    BY DEF OpDelete
  <1>7. OpSet(r, OpThen(q, todo, "idle"))
    BY DEF purge_expired
  <1> HIDE DEF todo, q
  <1>8. OpReqOK(OpThen(q, todo, "idle"), home)
    BY <1>2, <1>5, <1>6, OpThenOK, OpAssumption
  <1>9. OpRequestsOK(home)'
    BY <1>7, <1>8, OpRequestStep DEF OpHomed
  <1>10. OpIndexOK(home)'
    BY OpReplaced, OpAssumption DEF OpHomed, purge_expired
  <1>11. OpWorldOK(home)'
    BY DEF OpHomed, purge_expired, OpWorldOK, OpWorldHomed
  <1> QED BY <1>9, <1>10, <1>11, OpKeep DEF OpHomed, purge_expired

\* One backend operation of a request; the last hands the pair to the client.
LEMMA OpDoWork ==
  ASSUME NEW home \in OpHomes, OpHomed(home), NEW r \in OpRequests, OpWork(r)
  PROVE  OpHomed(home)'
  <1> DEFINE q == opReq[r]
             n == [q EXCEPT !.todo = Tail(@)]
  <1>1. q \in OpRequest /\ OpCarries(q) /\ OpKnows(q, home) /\ q.pc = "work"
        /\ OpHomedList(q.todo, home)
    BY OpOwn DEF OpWork
  <1>2. /\ q.todo # <<>> /\ q.inst \in OpInstances /\ q.session \in OpSessions
        /\ q.next = "issued" => q.pair \in OpPairs /\ home[q.pair] \in OpSessions
    BY <1>1 DEF OpCarries, OpKnows
  <1>3. OpHomedOp(Head(q.todo), home) /\ OpHomedList(Tail(q.todo), home)
    BY <1>1, <1>2, OpListTail
  <1>4. Len(q.todo) > 1 => Tail(q.todo) # <<>>
    <2>1. q.todo \in Seq(OpOps)
      BY <1>1 DEF OpHomedList
    <2> QED BY <2>1, OpLongTail
  <1>5. Tail(q.todo) # <<>> => OpReqOK(n, home)
    <2> HAVE Tail(q.todo) # <<>>
    <2> HIDE DEF q
    <2>1. n \in OpRequest
      BY <1>1, <1>3 DEF OpRequest, OpHomedList
    <2>2. /\ n.pc = "work" /\ n.session = q.session /\ n.inst = q.inst /\ n.next = q.next
          /\ n.pair = q.pair /\ n.todo = Tail(q.todo)
      BY <1>1 DEF OpRequest
    <2> HIDE DEF n
    <2> QED BY <1>1, <1>2, <1>3, <2>1, <2>2 DEF OpReqOK, OpCarries, OpKnows
  <1>6. OpApply(Head(q.todo))
    BY DEF OpWork
  <1>7. (OpSet(r, n) /\ Len(q.todo) > 1) \/ OpSet(r, OpIdle)
    BY DEF OpWork
  <1>8. opHeld' = opHeld \/ (q.next = "issued" /\ opHeld' = opHeld \cup {q.pair})
    BY DEF OpWork
  <1>9. UNCHANGED <<opGrant, opDead, opLapsed, opOwner>>
    BY DEF OpWork
  <1> HIDE DEF n, q
  <1>10. OpRequestsOK(home)'
    BY <1>4, <1>5, <1>7, OpIdleOK, OpRequestStep DEF OpHomed
  <1>11. OpBackendOK(home)'
    BY <1>3, <1>6, OpApplied DEF OpHomed
  <1>12. OpWorldOK(home)'
    BY <1>2, <1>8, <1>9 DEF OpHomed, OpWorldOK, OpWorldHomed
  <1> QED BY <1>10, <1>11, <1>12, OpKeep DEF OpHomed, OpWork

\* A request ends, its answer sent or its client gone.
LEMMA OpDoEnd ==
  ASSUME NEW home \in OpHomes, OpHomed(home), NEW r \in OpRequests, OpFinish(r) \/ OpHangUp(r)
  PROVE  OpHomed(home)'
  <1>1. OpSet(r, OpIdle) /\ UNCHANGED <<opIndex, opBackend, opBoot>>
        /\ UNCHANGED <<opGrant, opDead, opLapsed, opOwner, opHeld>>
    BY DEF OpFinish, OpHangUp, opWorld
  <1>2. OpRequestsOK(home)'
    BY <1>1, OpIdleOK, OpRequestStep DEF OpHomed
  <1>3. OpWorldOK(home)'
    BY <1>1 DEF OpHomed, OpWorldOK, OpWorldHomed
  <1> QED BY <1>1, <1>2, <1>3, OpKeep DEF OpHomed

\* A lifetime that ends only takes entries away.
LEMMA OpDoLapse ==
  ASSUME NEW home \in OpHomes, OpHomed(home), NEW side \in {"acc", "ref"}, NEW p \in OpPairs,
         OpLapse(side, p)
  PROVE  OpHomed(home)'
  <1> USE DEF OpHomed, OpBackendOK
  <1>1. OpBackendOK(home)'
    <2>1. opFwd' \in [OpSessions -> OpPairs \cup {OpNone}]
          /\ \A s \in OpSessions : opFwd'[s] \in {opFwd[s], OpNone}
      BY DEF OpLapse
    <2>2. opInv' \in [{"acc", "ref"} -> [OpPairs -> OpSessions \cup {OpNone}]]
          /\ \A x \in {"acc", "ref"}, y \in OpPairs : opInv'[x][y] \in {opInv[x][y], OpNone}
      BY DEF OpLapse
    <2> QED BY <2>1, <2>2, OpAssumption DEF OpBackendHomed
  <1>2. OpWorldOK(home)'
    BY DEF OpLapse, OpWorldOK, OpWorldHomed
  <1> QED BY <1>1, <1>2, OpKeep DEF OpHomed, OpLapse

\* A grant that dies changes no mapping.
LEMMA OpDoDies ==
  ASSUME NEW home \in OpHomes, OpHomed(home), NEW s \in OpSessions, OpGrantDies(s)
  PROVE  OpHomed(home)'
  <1>1. OpWorldOK(home)'
    BY DEF OpHomed, OpGrantDies, OpWorldOK, OpWorldHomed
  <1> QED BY <1>1, OpKeep DEF OpHomed, OpGrantDies

\* A crash empties the index of the instance and ends its requests.
LEMMA OpDoCrash ==
  ASSUME NEW home \in OpHomes, OpHomed(home), NEW i \in OpInstances, OpCrash(i)
  PROVE  OpHomed(home)'
  <1>1. OpIndexOK(home)'
    BY OpAssumption DEF OpHomed, OpCrash, OpIndexOK, OpIndexHomed, IndexCoherent
  <1>2. OpRequestsOK(home)'
    BY OpIdleOK DEF OpHomed, OpCrash, OpRequestsOK, OpReqOK
  <1>3. OpWorldOK(home)'
    BY DEF OpHomed, OpCrash, OpWorldOK, OpWorldHomed
  <1>4. OpBootOK([opBoot[i] EXCEPT !.pc = "tokens"], home)
    BY DEF OpHomed, OpCrash, OpBootsOK, OpBootOK, OpBootRec
  <1>5. opBoot' = [opBoot EXCEPT ![i] = [opBoot[i] EXCEPT !.pc = "tokens"]]
    BY DEF OpCrash, OpHomed, OpBootsOK
  <1>6. OpBootsOK(home)'
    BY <1>4, <1>5, OpBootStep DEF OpHomed
  <1> QED BY <1>1, <1>2, <1>3, <1>6, OpKeep DEF OpHomed, OpCrash

\* A boot reads the sessions that have a token, and the keys of the mappings.
LEMMA OpDoLoadKeys ==
  ASSUME NEW home \in OpHomes, OpHomed(home), NEW i \in OpInstances,
         load_tokens(i) \/ load_opaque_keys(i)
  PROVE  OpHomed(home)'
  <1>0. OpBootOK(opBoot[i], home) /\ opBoot[i] \in OpBootRec /\ opBoot \in [OpInstances -> OpBootRec]
    BY DEF OpHomed, OpBootsOK
  <1>1. CASE load_tokens(i)
    <2> DEFINE n == [opBoot[i] EXCEPT !.pc = "keys",
                         !.valid = {s \in OpSessions : opGrant[s] # OpNone} \ opDead]
    <2>1. opBoot' = [opBoot EXCEPT ![i] = n]
      BY <1>0, <1>1 DEF load_tokens
    <2>2. OpBootOK(n, home)
      BY <1>0, <1>1 DEF load_tokens, OpBootOK, OpBootRec
    <2> HIDE DEF n
    <2>3. OpBootsOK(home)'
      BY <2>1, <2>2, OpBootStep DEF OpHomed
    <2> QED BY <1>1, <2>3, OpKeep DEF OpHomed, load_tokens
  <1>2. CASE load_opaque_keys(i)
    <2> DEFINE n == [opBoot[i] EXCEPT !.pc = "maps", !.left = {s \in OpSessions : opFwd[s] # OpNone}]
    <2>1. opBoot' = [opBoot EXCEPT ![i] = n]
      BY <1>0, <1>2 DEF load_opaque_keys
    <2>2. OpBootOK(n, home)
      BY <1>0, <1>2 DEF load_opaque_keys, OpBootOK, OpBootRec
    <2> HIDE DEF n
    <2>3. OpBootsOK(home)'
      BY <2>1, <2>2, OpBootStep DEF OpHomed
    <2> QED BY <1>2, <2>3, OpKeep DEF OpHomed, load_opaque_keys
  <1> QED BY <1>1, <1>2

\* A boot reads one mapping: it is at home, and the only one of its session.
LEMMA OpDoLoadOne ==
  ASSUME NEW home \in OpHomes, OpHomed(home), NEW i \in OpInstances, NEW s \in OpSessions,
         load_opaque(i, s)
  PROVE  OpHomed(home)'
  <1> DEFINE b == opBoot[i]
             p == opFwd[s]
             orphan == s \notin b.valid
             todo == IF p # OpNone /\ orphan THEN OpDelete(s, p) ELSE <<>>
             got == IF p # OpNone /\ ~orphan THEN b.got \cup {<<s, p>>} ELSE b.got
             n == [b EXCEPT !.left = @ \ {s}, !.todo = todo, !.got = got]
  <1>0. OpBootOK(b, home) /\ b \in OpBootRec
    BY DEF OpHomed, OpBootsOK
  <1>1. b.pc = "maps" /\ b.todo = <<>> /\ s \in b.left
    BY DEF load_opaque
  <1>2. opBoot' = [opBoot EXCEPT ![i] = n]
    BY <1>0 DEF load_opaque, OpBootRec
  <1>3. p \in OpPairs \cup {OpNone} /\ (p # OpNone => home[p] = s)
    BY DEF OpHomed, OpBackendOK, OpBackendHomed
  <1>4. OpHomedList(todo, home)
    <2>1. OpHomedList(<<>>, home)
      BY DEF OpHomedList
    <2> QED BY <2>1, <1>3, OpDeleteOK
  <1> HIDE DEF todo
  <1>5. got \in SUBSET (OpSessions \X OpPairs)
    BY <1>0, <1>3 DEF OpBootRec
  <1>6. /\ \A x \in got : home[x[2]] = x[1] /\ x[1] \notin b.left \ {s}
        /\ \A x, y \in got : x[1] = y[1] => x = y
    <2>1. /\ \A x \in b.got : home[x[2]] = x[1] /\ x[1] \notin b.left
          /\ \A x, y \in b.got : x[1] = y[1] => x = y
      BY <1>0 DEF OpBootOK
    <2>2. \A x \in b.got : x[1] # s
      BY <1>1, <2>1
    <2>3. CASE got = b.got
      BY <2>1, <2>3
    <2>4. CASE got = b.got \cup {<<s, p>>} /\ p # OpNone
      BY <1>3, <2>1, <2>2, <2>4
    <2> QED BY <2>3, <2>4
  <1> HIDE DEF got
  <1>7. n \in OpBootRec /\ n.pc = "maps" /\ n.got = got /\ n.left = b.left \ {s} /\ n.todo = todo
    BY <1>0, <1>1, <1>4, <1>5 DEF OpBootRec, OpHomedList
  <1> HIDE DEF n
  <1>8. OpBootOK(n, home)
    BY <1>4, <1>6, <1>7 DEF OpBootOK
  <1>9. OpBootsOK(home)'
    BY <1>2, <1>8, OpBootStep DEF OpHomed
  <1> QED BY <1>9, OpKeep DEF OpHomed, load_opaque

\* One backend operation of a boot.
LEMMA OpDoOrphan ==
  ASSUME NEW home \in OpHomes, OpHomed(home), NEW i \in OpInstances, delete_orphan(i)
  PROVE  OpHomed(home)'
  <1> DEFINE b == opBoot[i]
             n == [b EXCEPT !.todo = Tail(@)]
  <1>0. OpBootOK(b, home) /\ b \in OpBootRec
    BY DEF OpHomed, OpBootsOK
  <1>1. b.todo # <<>> /\ OpHomedList(b.todo, home) /\ OpApply(Head(b.todo))
    BY <1>0 DEF delete_orphan, OpBootOK
  <1>2. opBoot' = [opBoot EXCEPT ![i] = n]
    BY <1>0 DEF delete_orphan, OpBootRec
  <1>3. OpHomedOp(Head(b.todo), home) /\ OpHomedList(Tail(b.todo), home)
    BY <1>1, OpListTail
  <1> HIDE DEF b
  <1>4. n \in OpBootRec /\ n.pc = b.pc /\ n.got = b.got /\ n.left = b.left /\ n.todo = Tail(b.todo)
    BY <1>0, <1>3 DEF OpBootRec, OpHomedList
  <1> HIDE DEF n
  <1>5. OpBootOK(n, home)
    BY <1>0, <1>1, <1>3, <1>4 DEF OpBootOK
  <1>6. OpBootsOK(home)'
    BY <1>2, <1>5, OpBootStep DEF OpHomed
  <1>7. OpBackendOK(home)'
    BY <1>1, <1>3, OpApplied DEF OpHomed
  <1> QED BY <1>6, <1>7, OpKeep DEF OpHomed, delete_orphan

\* The index a boot builds is coherent: the mappings it read are each at home, one
\* for a session.
LEMMA OpDoLoadDone ==
  ASSUME NEW home \in OpHomes, OpHomed(home), NEW i \in OpInstances, load_done(i)
  PROVE  OpHomed(home)'
  <1> DEFINE b == opBoot[i]
             at(p) == {x \in b.got : x[2] = p}
             of(s) == {x \in b.got : x[1] = s}
             pick(xs, n) == IF xs = {} THEN OpNone ELSE (CHOOSE x \in xs : TRUE)[n]
             ref == [p \in OpPairs |-> pick(at(p), 1)]
             map == [s \in OpSessions |-> pick(of(s), 2)]
             acc == [p \in OpPairs |-> IF <<"acc", p>> \in opLapsed THEN OpNone ELSE pick(at(p), 1)]
  <1>0. OpBootOK(b, home) /\ b.got \subseteq OpSessions \X OpPairs
    BY DEF OpHomed, OpBootsOK, OpBootOK, OpBootRec
  <1>1. ASSUME NEW p \in OpPairs, NEW s \in OpSessions
        PROVE  /\ pick(at(p), 1) = s <=> <<s, p>> \in b.got
               /\ pick(of(s), 2) = p <=> <<s, p>> \in b.got
    <2>1. \A x \in at(p) : x = <<home[p], p>>
      BY <1>0 DEF OpBootOK
    <2>2. \A x, y \in of(s) : x = y
      BY <1>0 DEF OpBootOK
    <2>3. at(p) # {} => (CHOOSE x \in at(p) : TRUE) \in at(p)
      OBVIOUS
    <2>4. of(s) # {} => (CHOOSE x \in of(s) : TRUE) \in of(s)
      OBVIOUS
    <2>5. \A x \in b.got : x = <<x[1], x[2]>>
      BY <1>0
    <2>6. pick(at(p), 1) = s <=> <<s, p>> \in b.got
      <3>1. <<s, p>> \in b.got => <<s, p>> \in at(p)
        OBVIOUS
      <3> QED BY <2>1, <2>3, <2>5, <3>1, OpAssumption
    <2>7. pick(of(s), 2) = p <=> <<s, p>> \in b.got
      <3>1. <<s, p>> \in b.got => <<s, p>> \in of(s)
        OBVIOUS
      <3> QED BY <2>2, <2>4, <2>5, <3>1, OpAssumption
    <2> QED BY <2>6, <2>7
  <1>2. \A p \in OpPairs : pick(at(p), 1) \in OpSessions \cup {OpNone}
    BY <1>0
  <1>3. \A s \in OpSessions : pick(of(s), 2) \in OpPairs \cup {OpNone}
    BY <1>0
  <1>4. /\ opMap' = [opMap EXCEPT ![i] = map]
        /\ opRef' = [opRef EXCEPT ![i] = ref]
        /\ opAcc' = [opAcc EXCEPT ![i] = acc]
        /\ opBoot' = [opBoot EXCEPT ![i] = OpRunning]
    BY DEF load_done
  <1>5. /\ map \in [OpSessions -> OpPairs \cup {OpNone}]
        /\ ref \in [OpPairs -> OpSessions \cup {OpNone}]
        /\ acc \in [OpPairs -> OpSessions \cup {OpNone}]
    BY <1>2, <1>3
  <1>6. \A p \in OpPairs, s \in OpSessions :
            /\ map[s] = p => home[p] = s
            /\ ref[p] = s <=> map[s] = p
            /\ acc[p] = s => map[s] = p
    <2> SUFFICES ASSUME NEW p \in OpPairs, NEW s \in OpSessions
                 PROVE  /\ map[s] = p => home[p] = s
                        /\ ref[p] = s <=> map[s] = p
                        /\ acc[p] = s => map[s] = p
      OBVIOUS
    <2>1. map[s] = pick(of(s), 2) /\ ref[p] = pick(at(p), 1) /\ acc[p] \in {OpNone, pick(at(p), 1)}
      OBVIOUS
    <2>2. <<s, p>> \in b.got => home[p] = s
      BY <1>0 DEF OpBootOK
    <2> HIDE DEF map, ref, acc, pick, at, of
    <2> QED BY <1>1, <2>1, <2>2, OpAssumption
  <1> HIDE DEF map, ref, acc
  <1>7. OpIndexOK(home)'
    BY <1>4, <1>5, <1>6 DEF OpHomed, OpIndexOK, OpIndexHomed, IndexCoherent
  <1>8. OpBootOK(OpRunning, home)
    BY DEF OpBootOK, OpBootRec, OpRunning, OpHomedList
  <1>9. OpBootsOK(home)'
    BY <1>4, <1>8, OpBootStep DEF OpHomed
  <1> QED BY <1>7, <1>9, OpKeep DEF OpHomed, load_done

-----------------------------------------------------------------------------
(* A mint gives a pair its home.                                           *)

\* Pair p gets its home.
OpGrow(home, p, s) == [home EXCEPT ![p] = s]

\* What holds of the homes so far holds when a pair that has none gets one.
LEMMA OpHomeGrows ==
  ASSUME NEW home \in OpHomes, OpHomed(home), NEW p \in OpPairs, home[p] = OpNone,
         NEW s \in OpSessions, NEW grown, grown = OpGrow(home, p, s)
  PROVE  /\ grown \in OpHomes /\ grown[p] = s
         /\ OpIndexOK(grown) /\ OpBackendOK(grown)
         /\ OpRequestsOK(grown) /\ OpBootsOK(grown)
  <1> USE DEF OpHomed
  <1>0. OpNone \notin OpSessions
    BY OpAssumption
  <1>1. grown \in OpHomes /\ grown[p] = s
    BY DEF OpHomes, OpGrow
  <1>2. \A x \in OpPairs : home[x] \in OpSessions => grown[x] = home[x]
    BY <1>0 DEF OpHomes, OpGrow
  <1>3. OpIndexOK(grown)
    BY <1>2 DEF OpIndexOK, OpIndexHomed
  <1>4. OpBackendOK(grown)
    BY <1>2 DEF OpBackendOK, OpBackendHomed
  <1>5. ASSUME NEW todo, OpHomedList(todo, home) PROVE OpHomedList(todo, grown)
    <2> SUFFICES ASSUME NEW n \in 1 .. Len(todo) PROVE OpHomedOp(todo[n], grown)
      BY <1>5 DEF OpHomedList
    <2>1. OpHomedOp(todo[n], home)
      BY <1>5 DEF OpHomedList
    <2> QED BY <1>2, <2>1 DEF OpHomedOp, OpOps
  <1>6. ASSUME NEW r \in OpRequests PROVE OpReqOK(opReq[r], grown)
    <2> DEFINE q == opReq[r]
    <2>1. q \in OpRequest /\ OpCarries(q) /\ OpKnows(q, home) /\ OpHomedList(q.todo, home)
      BY OpOwn
    <2>2. OpKnows(q, grown)
      <3> HIDE DEF q
      <3>1. q.pc \in {"inverse", "forward", "hydrate", "token"} => q.pair \in OpPairs
        BY <2>1 DEF OpCarries
      <3>2. q.pc = "work" /\ q.next = "issued" => q.pair \in OpPairs
        BY <2>1 DEF OpCarries
      <3> QED BY <1>2, <2>1, <3>1, <3>2 DEF OpKnows
    <2> QED BY <1>5, <2>1, <2>2 DEF OpReqOK
  <1>7. OpRequestsOK(grown)
    BY <1>6 DEF OpRequestsOK
  <1>8. ASSUME NEW i \in OpInstances PROVE OpBootOK(opBoot[i], grown)
    <2> DEFINE b == opBoot[i]
    <2>1. OpBootOK(b, home) /\ OpHomedList(b.todo, home) /\ b.got \subseteq OpSessions \X OpPairs
      BY DEF OpBootsOK, OpBootOK, OpBootRec
    <2> HIDE DEF b
    <2>2. \A x \in b.got : grown[x[2]] = x[1]
      BY <1>2, <2>1 DEF OpBootOK
    <2>3. OpBootOK(b, grown)
      BY <1>5, <2>1, <2>2 DEF OpBootOK
    <2> QED BY <2>3 DEF b
  <1>9. OpBootsOK(grown)
    BY <1>8 DEF OpBootsOK
  <1> QED BY <1>1, <1>3, <1>4, <1>7, <1>9

\* What a mint writes is the new pair, for the session of the request.
LEMMA OpMintTodo ==
  ASSUME NEW home, NEW s \in OpSessions, NEW p \in OpPairs, home[p] = s,
         NEW old \in OpPairs \cup {OpNone}, old \in OpPairs => home[old] = s
  PROVE  OpHomedList(mint_todo(s, p, old), home) /\ mint_todo(s, p, old) # <<>>
  <1>1. /\ OpHomedOp(<<"set_fwd", s, p>>, home)
        /\ OpHomedOp(<<"set_acc", s, p>>, home)
        /\ OpHomedOp(<<"set_ref", s, p>>, home)
    BY DEF OpHomedOp, OpOps, OpSetOps
  <1> DEFINE sets == <<<<"set_fwd", s, p>>, <<"set_acc", s, p>>, <<"set_ref", s, p>>>>
             rest == IF old = OpNone THEN <<>> ELSE Tail(OpDelete(s, old))
  <1>2. OpHomedList(sets, home) /\ sets # <<>>
    BY <1>1, OpListOK
  <1>3. OpHomedList(rest, home)
    <2>1. OpHomedList(<<>>, home)
      BY DEF OpHomedList
    <2>2. OpHomedList(Tail(OpDelete(s, old)), home)
      <3>1. OpHomedList(OpDelete(s, old), home) /\ OpDelete(s, old) # <<>>
        BY OpDeleteOK DEF OpDelete
      <3> QED BY <3>1, OpListTail
    <2> QED BY <2>1, <2>2
  <1>4. mint_todo(s, p, old) = sets \o rest
    BY DEF mint_todo
  <1> HIDE DEF sets, rest
  <1> QED BY <1>2, <1>3, <1>4, OpConcatOK

\* build_opaque_response: the fresh pair is at home in the session of the request.
LEMMA OpDoMint ==
  ASSUME NEW home \in OpHomes, OpHomed(home), NEW r \in OpRequests, NEW p \in OpPairs,
         NEW brief \in BOOLEAN, build_opaque_response(r, p, brief)
  PROVE  OpInv'
  <1> DEFINE q == opReq[r]
             n == [q EXCEPT !.pair = p]
  <1>1. q \in OpRequest /\ OpCarries(q) /\ OpKnows(q, home) /\ q.pc = "mint"
    BY OpOwn DEF build_opaque_response
  <1>0. PICK s \in OpSessions : q.session = s
    BY <1>1 DEF OpCarries
  <1> DEFINE old == opMap[q.inst][s]
             todo == mint_todo(s, p, old)
  <1>2. q.inst \in OpInstances /\ q.user = OpLogin[s]
    BY <1>0, <1>1 DEF OpCarries, OpKnows
  <1>3. home[p] = OpNone
    <2>1. p \in OpUnused
      BY OpAssumption DEF build_opaque_response, OpNextPair
    <2>2. opOwner[p] = OpNone
      BY <2>1 DEF OpUnused
    <2>3. opOwner[p] = IF home[p] = OpNone THEN OpNone ELSE OpLogin[home[p]]
      BY DEF OpHomed, OpWorldOK, OpWorldHomed
    <2> QED BY <2>2, <2>3, OpAssumption DEF OpHomes
  <1>4. old \in OpPairs \cup {OpNone}
    BY <1>2 DEF OpHomed, OpIndexOK
  <1>5. /\ opOwner' = [opOwner EXCEPT ![p] = q.user]
        /\ opLapsed' \in {opLapsed, opLapsed \cup {<<"acc", p>>}}
        /\ replace_session(q.inst, s, p, ~brief)
        /\ OpSet(r, OpThen(n, todo, "issued"))
        /\ UNCHANGED <<opBackend, opBoot>> /\ UNCHANGED <<opGrant, opDead, opHeld>>
    BY <1>0 DEF build_opaque_response
  <1> HIDE DEF q
  <1>6. n \in OpRequest /\ n.inst = q.inst /\ n.session = s /\ n.pair = p
    BY <1>0, <1>1 DEF OpRequest
  <1>g. PICK grown : grown = OpGrow(home, p, s)
    OBVIOUS
  <1>7. /\ grown \in OpHomes /\ grown[p] = s
        /\ OpIndexOK(grown) /\ OpBackendOK(grown) /\ OpRequestsOK(grown) /\ OpBootsOK(grown)
    BY <1>3, <1>g, OpHomeGrows
  <1>8. OpWorldOK(grown)'
    <2>1. opOwner' = [x \in OpPairs |-> IF grown[x] = OpNone THEN OpNone ELSE OpLogin[grown[x]]]
      BY <1>2, <1>5, <1>g, OpAssumption DEF OpHomed, OpWorldOK, OpWorldHomed, OpHomes, OpGrow
    <2>2. \A x \in opHeld : grown[x] \in OpSessions
      BY <1>g DEF OpHomed, OpWorldOK, OpWorldHomed, OpHomes, OpGrow
    <2>3. opOwner' \in [OpPairs -> OpUsers \cup {OpNone}]
      BY <1>2, <1>5, OpAssumption DEF OpHomed, OpWorldOK
    <2>4. opLapsed' \subseteq {"acc", "ref"} \X OpPairs
      BY <1>5 DEF OpHomed, OpWorldOK
    <2> QED BY <1>5, <2>1, <2>2, <2>3, <2>4 DEF OpHomed, OpWorldOK, OpWorldHomed
  <1> HIDE DEF n, todo, old
  <1>n. old \in OpPairs => grown[old] = s
    BY <1>2, <1>7 DEF OpIndexOK, OpIndexHomed, old
  <1>9. OpHomedList(todo, grown) /\ todo # <<>>
    BY <1>2, <1>4, <1>7, <1>n, OpMintTodo DEF todo
  <1>10. OpReqOK(OpThen(n, todo, "issued"), grown)
    BY <1>2, <1>6, <1>7, <1>9, OpThenOK
  <1>11. OpRequestsOK(grown)'
    BY <1>5, <1>7, <1>10, OpRequestStep
  <1>12. OpIndexOK(grown)'
    BY <1>2, <1>5, <1>7, OpReplaced
  <1>13. OpBackendOK(grown)' /\ OpBootsOK(grown)'
    BY <1>5, <1>7, OpKeep
  <1> QED BY <1>7, <1>8, <1>11, <1>12, <1>13 DEF OpInv, OpHomed

\* Every step keeps the invariant.
LEMMA OpInvStep == OpInv /\ [OpNext]_opVars => OpInv'
  <1> SUFFICES ASSUME OpInv, [OpNext]_opVars PROVE OpInv'
    OBVIOUS
  <1>1. PICK home \in OpHomes : OpHomed(home)
    BY DEF OpInv
  <1>2. SUFFICES ASSUME ~ \E r \in OpRequests, p \in OpPairs, brief \in BOOLEAN :
                              build_opaque_response(r, p, brief)
                 PROVE  OpHomed(home)'
    BY <1>1, OpDoMint DEF OpInv
  <1>3. CASE UNCHANGED opVars
    BY <1>1, <1>3, OpKeep DEF OpHomed, opVars, opIndex, opBackend, opWorld
  <1>4. ASSUME NEW r \in OpRequests, NEW i \in OpInstances, NEW u \in OpUsers,
               NEW s \in OpSessions, opaque_token_handler(r, i, u, s)
        PROVE  OpHomed(home)'
    BY <1>1, <1>4, OpDoLogin
  <1>5. ASSUME NEW r \in OpRequests, NEW i \in OpInstances, exchange_refused(r, i)
        PROVE  OpHomed(home)'
    BY <1>3, <1>5 DEF exchange_refused
  <1>6. ASSUME NEW r \in OpRequests, NEW i \in OpInstances, NEW side \in {"acc", "ref"},
               NEW p \in OpPairs, resolve_opaque(r, i, side, p)
        PROVE  OpHomed(home)'
    BY <1>1, <1>6, OpDoResolve
  <1>7. ASSUME NEW r \in OpRequests, NEW i \in OpInstances, NEW s \in OpSessions,
               purge_expired(r, i, s)
        PROVE  OpHomed(home)'
    BY <1>1, <1>7, OpDoPurge
  <1>8. ASSUME NEW r \in OpRequests,
               \/ expire_opaque_access(r) \/ load_inverse(r) \/ load_opaque_mapping(r)
               \/ hydrate_opaque(r) \/ bearer_auth_middleware(r) \/ handle_opaque_refresh(r)
        PROVE  OpHomed(home)'
    BY <1>1, <1>8, OpDoExpire, OpDoInverse, OpDoForward, OpDoHydrate, OpDoServe, OpDoRefresh
  <1>9. ASSUME NEW r \in OpRequests,
               \/ remove_opaque_for_session(r) \/ recover_opaques(r) \/ OpWork(r)
               \/ OpFinish(r) \/ OpHangUp(r)
        PROVE  OpHomed(home)'
    BY <1>1, <1>9, OpDoRemove, OpDoRecover, OpDoWork, OpDoEnd
  <1>10. ASSUME NEW side \in {"acc", "ref"}, NEW p \in OpPairs, OpLapse(side, p)
         PROVE  OpHomed(home)'
    BY <1>1, <1>10, OpDoLapse
  <1>11. ASSUME NEW s \in OpSessions, OpGrantDies(s) PROVE OpHomed(home)'
    BY <1>1, <1>11, OpDoDies
  <1>12. ASSUME NEW i \in OpInstances,
                \/ OpCrash(i) \/ load_tokens(i) \/ load_opaque_keys(i)
                \/ delete_orphan(i) \/ load_done(i)
         PROVE  OpHomed(home)'
    BY <1>1, <1>12, OpDoCrash, OpDoLoadKeys, OpDoOrphan, OpDoLoadDone
  <1>13. ASSUME NEW i \in OpInstances, NEW s \in OpSessions, load_opaque(i, s)
         PROVE  OpHomed(home)'
    BY <1>1, <1>13, OpDoLoadOne
  <1> QED
    BY <1>2, <1>3, <1>4, <1>5, <1>6, <1>7, <1>8, <1>9, <1>10, <1>11, <1>12, <1>13 DEF OpNext

\* In every state a pair has one home.
LEMMA OpAlways == OpSpec => []OpInv
  BY OpInitInv, OpInvStep, PTL DEF OpSpec

-----------------------------------------------------------------------------
\* The three maps of an index agree in every state, whatever mix of mints, unlocked
\* hydrates, expiries, purges and boots built it (auth/store.rs OpaqueIndex).
THEOREM IndexAlwaysCoherent == OpSpec => []IndexCoherent
  <1>1. OpInv => IndexCoherent
    BY DEF OpInv, OpHomed, OpIndexOK
  <1> QED BY <1>1, OpAlways, PTL

\* A request is served as the user its opaque token was minted for, on every
\* instance and however the token was resolved (bearer_auth_middleware and
\* auth/proxy.rs opaque_token_handler, which draws a key per login).
THEOREM OpaqueServedAsOwner == OpSpec => []OpaqueIsolation
  <1>1. OpInv => OpaqueIsolation
    <2> SUFFICES ASSUME NEW home \in OpHomes, OpHomed(home), NEW r \in OpRequests,
                        opReq[r].pc = "served"
                 PROVE  opReq[r].user = opOwner[opReq[r].pair]
      BY DEF OpInv, OpaqueIsolation
    <2> DEFINE q == opReq[r]
    <2>1. OpCarries(q) /\ OpKnows(q, home)
      BY OpOwn
    <2>2. q.pair \in OpPairs /\ q.session \in OpSessions /\ home[q.pair] = q.session
          /\ q.user = OpLogin[q.session]
      BY <2>1 DEF OpCarries, OpKnows
    <2> HIDE DEF q
    <2>3. opOwner[q.pair] = OpLogin[q.session]
      BY <2>2, OpAssumption DEF OpHomed, OpWorldOK, OpWorldHomed
    <2> QED BY <2>2, <2>3 DEF q
  <1> QED BY <1>1, OpAlways, PTL

-----------------------------------------------------------------------------
(* Nothing was interrupted yet: the lists of backend operations.           *)

OpInvOps == [acc |-> [set |-> "set_acc", del |-> "del_acc"],
             ref |-> [set |-> "set_ref", del |-> "del_ref"]]

\* The list of a request: about one session, the operation on the forward mapping
\* first, what it writes is the pair the request mints, all of it.
OpOrdered(q) ==
    /\ \A n \in 1 .. Len(q.todo) :
           /\ q.todo[n][2] = q.session
           /\ n > 1 => q.todo[n][1] \notin {"set_fwd", "del_fwd"}
           /\ q.todo[n][1] # "del_fwd" => q.todo[n][3] \in OpPairs
           /\ q.todo[n][1] \in OpSetOps => q.next = "issued" /\ q.todo[n][3] = q.pair
    /\ q.todo[1][1] = "set_fwd" =>
           /\ Len(q.todo) >= 3
           /\ q.todo[2] = <<"set_acc", q.session, q.pair>>
           /\ q.todo[3] = <<"set_ref", q.session, q.pair>>

\* An inverse entry it deletes is over, or the forward mapping has left the pair by then.
OpDeletesStale(q, fwd, lapsed) ==
    \A n \in 1 .. Len(q.todo), side \in {"acc", "ref"} :
        q.todo[n][1] = OpInvOps[side].del =>
            \/ <<side, q.todo[n][3]>> \in lapsed
            \/ q.todo[1][1] \in {"set_fwd", "del_fwd"}
            \/ fwd[q.session] # q.todo[n][3]

\* The list of q still has to delete an inverse entry of p.
OpDeletes(q, p) ==
    q.pc = "work" /\ \E n \in 1 .. Len(q.todo) : q.todo[n][1] \in {"del_acc", "del_ref"} /\ q.todo[n][3] = p

\* The list of q still has to write the inverse entry of p.
OpWrites(q, side, s, p) ==
    q.pc = "work" /\ \E n \in 1 .. Len(q.todo) : q.todo[n] = <<OpInvOps[side].set, s, p>>

OpMinting(q) == q.pc = "work" /\ q.next = "issued"
OpUnwritten(q) == q.pc = "work" /\ q.todo[1][1] = "set_fwd"

\* What a request carries has reached a client; what it expires is over.
OpBrought(q, held, lapsed) ==
    /\ q.pc \in {"expire", "remove", "recover", "inverse", "forward", "hydrate", "token", "served"}
           => q.pair \in held
    /\ q.pc = "expire" => <<"acc", q.pair>> \in lapsed

OpListsOK ==
    \A r \in OpRequests :
        /\ opReq[r].pc = "work" => OpOrdered(opReq[r]) /\ OpDeletesStale(opReq[r], opFwd, opLapsed)
        /\ OpBrought(opReq[r], opHeld, opLapsed)

\* A pair that is being minted is not with a client, and one request mints it; before its
\* forward mapping is written nothing else knows it.
OpMintsOK ==
    /\ \A r \in OpRequests : OpMinting(opReq[r]) => opReq[r].pair \notin opHeld
    /\ \A r, x \in OpRequests :
           OpMinting(opReq[r]) /\ OpMinting(opReq[x]) /\ opReq[r].pair = opReq[x].pair => r = x
    /\ \A r \in OpRequests : OpUnwritten(opReq[r]) =>
           /\ \A s \in OpSessions : opFwd[s] # opReq[r].pair
           /\ \A i \in OpInstances, s \in OpSessions : opMap[i][s] = opReq[r].pair => i = opReq[r].inst
           /\ \A x \in OpRequests : ~OpDeletes(opReq[x], opReq[r].pair)

\* A persisted mapping has its inverse entries, or a request is about to write them.
OpMappingsOK ==
    \A s \in OpSessions, p \in OpPairs, side \in {"acc", "ref"} : opFwd[s] = p =>
        \/ <<side, p>> \in opLapsed
        \/ opInv[side][p] = s
        \/ \E r \in OpRequests : OpWrites(opReq[r], side, s, p)

OpQuiet ==
    /\ \A i \in OpInstances : opBoot[i].pc = "up"
    /\ OpListsOK /\ OpMintsOK /\ OpMappingsOK
OpQuietInv == opFaults \in Nat /\ (opFaults = 0 => OpQuiet)

-----------------------------------------------------------------------------
(* One lemma per kind of step.                                             *)

\* What the invariant says of a request at work.
LEMMA OpAtWork ==
  ASSUME NEW home \in OpHomes, NEW q, OpReqOK(q, home), q.pc = "work", OpOrdered(q)
  PROVE  /\ q.todo \in Seq(OpOps) /\ Len(q.todo) \in Nat /\ Len(q.todo) >= 1
         /\ q.session \in OpSessions
         /\ OpUnwritten(q) => OpMinting(q)
         /\ OpMinting(q) => q.pair \in OpPairs /\ home[q.pair] \in OpSessions
  <1>1. q.todo \in Seq(OpOps) /\ q.todo # <<>> /\ q.session \in OpSessions
    BY DEF OpReqOK, OpCarries, OpHomedList
  <1>2. Len(q.todo) \in Nat /\ Len(q.todo) >= 1
    BY <1>1
  <1>3. 1 \in 1 .. Len(q.todo)
    BY <1>2
  <1>4. OpUnwritten(q) => OpMinting(q)
    BY <1>3 DEF OpUnwritten, OpMinting, OpOrdered, OpSetOps
  <1>5. OpMinting(q) => q.pair \in OpPairs /\ home[q.pair] \in OpSessions
    BY DEF OpReqOK, OpCarries, OpKnows, OpMinting
  <1> QED BY <1>1, <1>2, <1>4, <1>5

\* A request that is not at work moves, perhaps to a list that only deletes; what comes
\* into an index has reached a client.
LEMMA OpMoves ==
  ASSUME NEW home \in OpHomes, OpHomed(home), OpQuiet, NEW r \in OpRequests, NEW q,
         opReq[r].pc # "work", OpSet(r, q), OpReqOK(q, home),
         OpBrought(q, opHeld, opLapsed),
         q.pc = "work" =>
             /\ OpOrdered(q) /\ OpDeletesStale(q, opFwd, opLapsed) /\ q.next = "idle"
             /\ \A x \in OpRequests : OpUnwritten(opReq[x]) => ~OpDeletes(q, opReq[x].pair),
         \A i \in OpInstances, s \in OpSessions :
             opMap'[i][s] = opMap[i][s] \/ opMap'[i][s] = OpNone \/ opMap'[i][s] \in opHeld,
         \A s \in OpSessions, p \in OpPairs, side \in {"acc", "ref"} :
             opFwd[s] = p /\ opInv[side][p] = s /\ <<side, p>> \notin opLapsed => opInv'[side][p] = s,
         UNCHANGED <<opFwd, opLapsed, opHeld, opBoot>>
  PROVE  OpQuiet'
  <1>0. /\ opReq'[r] = q
        /\ \A x \in OpRequests : x # r => opReq'[x] = opReq[x]
    BY DEF OpSet, OpHomed, OpRequestsOK
  <1>1. OpListsOK'
    BY <1>0 DEF OpQuiet, OpListsOK
  <1>2. ~OpMinting(q) /\ ~OpUnwritten(q)
    BY OpAtWork DEF OpMinting, OpUnwritten
  <1>3. \A x \in OpRequests : OpUnwritten(opReq[x]) => OpMinting(opReq[x]) /\ opReq[x].pair \in OpPairs
    BY OpAtWork DEF OpHomed, OpRequestsOK, OpQuiet, OpListsOK, OpUnwritten
  <1>4. OpMintsOK'
    <2>1. \A x \in OpRequests : OpMinting(opReq'[x]) => x # r /\ OpMinting(opReq[x])
      BY <1>0, <1>2
    <2>2. \A x \in OpRequests : OpMinting(opReq'[x]) => opReq'[x].pair \notin opHeld'
      BY <1>0, <2>1 DEF OpQuiet, OpMintsOK
    <2>3. \A y, x \in OpRequests :
              OpMinting(opReq'[y]) /\ OpMinting(opReq'[x]) /\ opReq'[y].pair = opReq'[x].pair => y = x
      BY <1>0, <2>1 DEF OpQuiet, OpMintsOK
    <2>4. ASSUME NEW x \in OpRequests, OpUnwritten(opReq'[x])
          PROVE  /\ \A s \in OpSessions : opFwd'[s] # opReq'[x].pair
                 /\ \A i \in OpInstances, s \in OpSessions :
                        opMap'[i][s] = opReq'[x].pair => i = opReq'[x].inst
                 /\ \A y \in OpRequests : ~OpDeletes(opReq'[y], opReq'[x].pair)
      <3>1. x # r /\ opReq'[x] = opReq[x] /\ OpUnwritten(opReq[x])
        BY <1>0, <1>2, <2>4
      <3>2. opReq[x].pair \notin opHeld /\ opReq[x].pair # OpNone
        BY <1>3, <3>1, OpAssumption DEF OpQuiet, OpMintsOK
      <3>3. \A s \in OpSessions : opFwd'[s] # opReq'[x].pair
        BY <3>1 DEF OpQuiet, OpMintsOK
      <3>4. \A i \in OpInstances, s \in OpSessions :
                opMap'[i][s] = opReq'[x].pair => i = opReq'[x].inst
        BY <3>1, <3>2 DEF OpQuiet, OpMintsOK
      <3>5. ASSUME NEW y \in OpRequests PROVE ~OpDeletes(opReq'[y], opReq'[x].pair)
        <4>1. CASE y = r
          BY <1>0, <3>1, <4>1 DEF OpDeletes
        <4>2. CASE y # r
          BY <1>0, <3>1, <4>2 DEF OpQuiet, OpMintsOK
        <4> QED BY <4>1, <4>2
      <3> QED BY <3>3, <3>4, <3>5
    <2> QED BY <2>2, <2>3, <2>4 DEF OpMintsOK
  <1>5. OpMappingsOK'
    <2> SUFFICES ASSUME NEW s \in OpSessions, NEW p \in OpPairs, NEW side \in {"acc", "ref"},
                        opFwd[s] = p, <<side, p>> \notin opLapsed, opInv'[side][p] # s
                 PROVE  \E x \in OpRequests : OpWrites(opReq'[x], side, s, p)
      BY DEF OpMappingsOK
    <2>1. PICK x \in OpRequests : OpWrites(opReq[x], side, s, p)
      BY DEF OpQuiet, OpMappingsOK
    <2>2. x # r
      BY <2>1 DEF OpWrites
    <2> QED BY <1>0, <2>1, <2>2
  <1> QED BY <1>1, <1>4, <1>5 DEF OpQuiet

\* A lifetime ends: what it takes from the backend is over.
LEMMA OpQuietLapse ==
  ASSUME NEW home \in OpHomes, OpHomed(home), OpQuiet, NEW side \in {"acc", "ref"},
         NEW p \in OpPairs, OpLapse(side, p)
  PROVE  OpQuiet'
  <1> USE DEF OpQuiet
  <1>0. UNCHANGED <<opReq, opMap, opHeld, opBoot>>
    BY DEF OpLapse, opIndex
  <1>1. opLapsed \subseteq opLapsed'
    BY DEF OpLapse
  <1>2. \A s \in OpSessions : opFwd'[s] \in {opFwd[s], OpNone}
    BY DEF OpLapse, OpHomed, OpBackendOK
  <1>3. \A x \in {"acc", "ref"}, y \in OpPairs : <<x, y>> \notin opLapsed' => opInv'[x][y] = opInv[x][y]
    BY DEF OpLapse, OpHomed, OpBackendOK
  <1>4. ASSUME NEW r \in OpRequests, opReq[r].pc = "work"
        PROVE  OpDeletesStale(opReq[r], opFwd', opLapsed')
    <2> DEFINE q == opReq[r]
    <2>1. OpOrdered(q) /\ OpDeletesStale(q, opFwd, opLapsed)
      BY <1>4 DEF OpListsOK
    <2>2. q.session \in OpSessions
      BY <1>4, OpOwn DEF OpCarries
    <2> HIDE DEF q
    <2>3. \A n \in 1 .. Len(q.todo), x \in {"acc", "ref"} :
              q.todo[n][1] = OpInvOps[x].del => q.todo[n][3] \in OpPairs
      BY <2>1 DEF OpOrdered, OpInvOps
    <2>4. OpDeletesStale(q, opFwd', opLapsed')
      BY <1>1, <1>2, <2>1, <2>2, <2>3, OpAssumption DEF OpDeletesStale
    <2> QED BY <2>4 DEF q
  <1>5. OpListsOK'
    BY <1>0, <1>1, <1>4 DEF OpListsOK, OpBrought
  <1>6. OpMintsOK'
    <2>1. \A r \in OpRequests : OpUnwritten(opReq[r]) => opReq[r].pair # OpNone
      BY OpAtWork, OpAssumption DEF OpHomed, OpRequestsOK, OpListsOK, OpUnwritten
    <2> QED BY <1>0, <1>2, <2>1 DEF OpMintsOK
  <1>7. OpMappingsOK'
    <2> SUFFICES ASSUME NEW s \in OpSessions, NEW y \in OpPairs, NEW x \in {"acc", "ref"},
                        opFwd'[s] = y, <<x, y>> \notin opLapsed', opInv'[x][y] # s
                 PROVE  \E r \in OpRequests : OpWrites(opReq'[r], x, s, y)
      BY DEF OpMappingsOK
    <2>1. opFwd[s] = y
      BY <1>2, OpAssumption
    <2>2. <<x, y>> \notin opLapsed /\ opInv[x][y] # s
      BY <1>1, <1>3
    <2> QED BY <1>0, <2>1, <2>2 DEF OpMappingsOK
  <1> QED BY <1>0, <1>5, <1>6, <1>7

\* The list of a mint: the new pair forward, its inverse entries, then the inverse
\* entries of the pair it replaces.
LEMMA OpMintList ==
  ASSUME NEW s \in OpSessions, NEW p \in OpPairs, NEW old \in OpPairs \cup {OpNone},
         NEW t, t = mint_todo(s, p, old)
  PROVE  /\ Len(t) >= 3
         /\ t[1] = <<"set_fwd", s, p>> /\ t[2] = <<"set_acc", s, p>> /\ t[3] = <<"set_ref", s, p>>
         /\ \A n \in 1 .. Len(t) : n > 3 =>
                old \in OpPairs /\ t[n] \in {<<"del_acc", s, old>>, <<"del_ref", s, old>>}
  <1> DEFINE sets == <<<<"set_fwd", s, p>>, <<"set_acc", s, p>>, <<"set_ref", s, p>>>>
             dels == <<<<"del_acc", s, old>>, <<"del_ref", s, old>>>>
             rest == IF old = OpNone THEN <<>> ELSE dels
  <1>1. t = sets \o rest
    <2>1. Tail(OpDelete(s, old)) = dels
      BY DEF OpDelete
    <2> QED BY <2>1 DEF mint_todo
  <1>2. sets \in Seq(OpOps) /\ rest \in Seq(OpOps)
    <2>1. /\ <<"set_fwd", s, p>> \in OpOps /\ <<"set_acc", s, p>> \in OpOps
          /\ <<"set_ref", s, p>> \in OpOps
          /\ <<"del_acc", s, old>> \in OpOps /\ <<"del_ref", s, old>> \in OpOps
      BY DEF OpOps, OpSetOps
    <2>2. sets \in Seq(OpOps) /\ dels \in Seq(OpOps)
      BY <2>1
    <2>3. <<>> \in Seq(OpOps)
      OBVIOUS
    <2> HIDE DEF sets, dels
    <2> QED BY <2>2, <2>3
  <1>3. Len(sets) = 3 /\ sets[1] = <<"set_fwd", s, p>> /\ sets[2] = <<"set_acc", s, p>>
        /\ sets[3] = <<"set_ref", s, p>>
    OBVIOUS
  <1>4. Len(rest) \in Nat /\ \A n \in 1 .. Len(rest) :
            old \in OpPairs /\ rest[n] \in {<<"del_acc", s, old>>, <<"del_ref", s, old>>}
    <2>1. CASE old = OpNone
      BY <2>1
    <2>2. CASE old # OpNone
      BY <2>2
    <2> QED BY <2>1, <2>2
  <1> HIDE DEF sets, rest
  <1>5. /\ Len(t) = 3 + Len(rest)
        /\ \A n \in 1 .. 3 + Len(rest) : t[n] = IF n <= 3 THEN sets[n] ELSE rest[n - 3]
    <2>1. /\ Len(sets \o rest) = Len(sets) + Len(rest)
          /\ \A n \in 1 .. Len(sets) + Len(rest) :
                 (sets \o rest)[n] = IF n <= Len(sets) THEN sets[n] ELSE rest[n - Len(sets)]
      BY <1>2, ConcatProperties
    <2> QED BY <1>1, <1>3, <2>1
  <1>6. t[1] = sets[1] /\ t[2] = sets[2] /\ t[3] = sets[3] /\ Len(t) >= 3
    BY <1>4, <1>5
  <1>7. ASSUME NEW n \in 1 .. Len(t), n > 3
        PROVE  old \in OpPairs /\ t[n] \in {<<"del_acc", s, old>>, <<"del_ref", s, old>>}
    <2>1. t[n] = rest[n - 3] /\ n - 3 \in 1 .. Len(rest)
      BY <1>4, <1>5, <1>7
    <2> QED BY <1>4, <2>1
  <1> QED BY <1>3, <1>6, <1>7

\* A pair without a home is known nowhere.
LEMMA OpUnknown ==
  ASSUME NEW home \in OpHomes, OpHomed(home), OpQuiet, NEW p \in OpPairs, home[p] = OpNone
  PROVE  /\ p \notin opHeld
         /\ \A s \in OpSessions : opFwd[s] # p
         /\ \A i \in OpInstances, s \in OpSessions : opMap[i][s] # p
         /\ \A x \in OpRequests : OpMinting(opReq[x]) => opReq[x].pair # p
         /\ \A x \in OpRequests : ~OpDeletes(opReq[x], p)
  <1>0. OpNone \notin OpSessions
    BY OpAssumption
  <1>1. p \notin opHeld
    BY <1>0 DEF OpHomed, OpWorldOK, OpWorldHomed
  <1>2. \A s \in OpSessions : opFwd[s] # p
    BY <1>0 DEF OpHomed, OpBackendOK, OpBackendHomed
  <1>3. \A i \in OpInstances, s \in OpSessions : opMap[i][s] # p
    BY <1>0 DEF OpHomed, OpIndexOK, OpIndexHomed
  <1>4. \A x \in OpRequests : OpMinting(opReq[x]) => opReq[x].pair # p
    BY <1>0, OpOwn DEF OpMinting, OpKnows
  <1>5. ASSUME NEW x \in OpRequests, OpDeletes(opReq[x], p) PROVE FALSE
    <2>1. OpHomedList(opReq[x].todo, home)
      BY OpOwn
    <2>2. PICK n \in 1 .. Len(opReq[x].todo) : opReq[x].todo[n][3] = p
      BY <1>5 DEF OpDeletes
    <2>3. OpHomedOp(opReq[x].todo[n], home)
      BY <2>1, <2>2 DEF OpHomedList
    <2>4. opReq[x].todo[n][2] \in OpSessions
      BY <2>3 DEF OpHomedOp, OpOps
    <2> QED BY <1>0, <2>2, <2>3, <2>4 DEF OpHomedOp
  <1> QED BY <1>1, <1>2, <1>3, <1>4, <1>5

\* A mint: the pair is fresh, and the one it replaces in the index has its forward mapping.
LEMMA OpQuietMint ==
  ASSUME NEW home \in OpHomes, OpHomed(home), OpQuiet, NEW r \in OpRequests, NEW p \in OpPairs,
         NEW brief \in BOOLEAN, build_opaque_response(r, p, brief)
  PROVE  OpQuiet'
  <1> DEFINE q == opReq[r]
             s == q.session
             old == opMap[q.inst][s]
             todo == mint_todo(s, p, old)
             n == OpThen([q EXCEPT !.pair = p], todo, "issued")
  <1>1. q \in OpRequest /\ OpCarries(q) /\ q.pc = "mint"
    BY OpOwn DEF build_opaque_response
  <1>2. q.inst \in OpInstances /\ s \in OpSessions
    BY <1>1 DEF OpCarries
  <1>3. home[p] = OpNone
    <2>1. p \in OpUnused
      BY OpAssumption DEF build_opaque_response, OpNextPair
    <2>2. opOwner[p] = OpNone
      BY <2>1 DEF OpUnused
    <2>3. opOwner[p] = IF home[p] = OpNone THEN OpNone ELSE OpLogin[home[p]]
      BY DEF OpHomed, OpWorldOK, OpWorldHomed
    <2> QED BY <2>2, <2>3, OpAssumption DEF OpHomes
  <1>4. old \in OpPairs \cup {OpNone} /\ old # p
    BY <1>2, <1>3, OpUnknown DEF OpHomed, OpIndexOK
  <1>5. /\ opLapsed \subseteq opLapsed' /\ OpUnlocked(q.inst)
        /\ OpSet(r, n) /\ UNCHANGED <<opFwd, opInv, opHeld, opBoot>>
        /\ replace_session(q.inst, s, p, ~brief)
    BY DEF build_opaque_response, opBackend
  <1>6. \A i \in OpInstances, t \in OpSessions :
            opMap'[i][t] = opMap[i][t] \/ (i = q.inst /\ opMap'[i][t] = p)
    BY <1>2, <1>5 DEF OpHomed, OpIndexOK, replace_session
  <1>7. /\ n.pc = "work" /\ n.next = "issued" /\ n.pair = p /\ n.session = s /\ n.todo = todo
        /\ n.inst = q.inst
    BY <1>1 DEF OpThen, OpRequest
  <1>8. /\ opReq'[r] = n
        /\ \A x \in OpRequests : x # r => opReq'[x] = opReq[x]
    BY <1>5 DEF OpSet, OpHomed, OpRequestsOK
  <1>9. /\ Len(todo) >= 3 /\ todo[1] = <<"set_fwd", s, p>>
        /\ todo[2] = <<"set_acc", s, p>> /\ todo[3] = <<"set_ref", s, p>>
        /\ \A k \in 1 .. Len(todo) : k > 3 =>
               old \in OpPairs /\ todo[k] \in {<<"del_acc", s, old>>, <<"del_ref", s, old>>}
    BY <1>2, <1>4, OpMintList
  <1>10. \A x \in OpRequests : OpUnwritten(opReq[x]) => opReq[x].pair # old
    BY <1>2, <1>5 DEF OpQuiet, OpMintsOK, OpUnwritten, OpUnlocked
  <1> HIDE DEF n, todo, old, s, q
  <1>11. \A k \in 1 .. Len(todo) : \/ k = 1 \/ k = 2 \/ k = 3
                                   \/ k > 3
    OBVIOUS
  <1>12. OpOrdered(n)
    BY <1>2, <1>7, <1>9, <1>11 DEF OpOrdered, OpSetOps
  <1>13. OpDeletesStale(n, opFwd', opLapsed')
    BY <1>7, <1>9 DEF OpDeletesStale
  <1>14. \A x : OpDeletes(n, x) => x = old
    BY <1>7, <1>9, <1>11 DEF OpDeletes
  <1>15. OpListsOK'
    <2>1. \A x \in OpRequests : opReq[x].pc = "work" => OpDeletesStale(opReq[x], opFwd', opLapsed')
      BY <1>5 DEF OpQuiet, OpListsOK, OpDeletesStale
    <2>2. \A x \in OpRequests : OpBrought(opReq[x], opHeld', opLapsed')
      BY <1>5 DEF OpQuiet, OpListsOK, OpBrought
    <2>3. OpBrought(n, opHeld', opLapsed')
      BY <1>7 DEF OpBrought
    <2> QED BY <1>8, <1>12, <1>13, <2>1, <2>2, <2>3 DEF OpQuiet, OpListsOK
  <1>16. OpMintsOK'
    <2>1. /\ p \notin opHeld
          /\ \A t \in OpSessions : opFwd[t] # p
          /\ \A i \in OpInstances, t \in OpSessions : opMap[i][t] # p
          /\ \A x \in OpRequests : OpMinting(opReq[x]) => opReq[x].pair # p
          /\ \A x \in OpRequests : ~OpDeletes(opReq[x], p)
      BY <1>3, OpUnknown
    <2>2. \A x \in OpRequests : OpMinting(opReq'[x]) => opReq'[x].pair \notin opHeld'
      BY <1>5, <1>7, <1>8, <2>1 DEF OpQuiet, OpMintsOK
    <2>3. \A y, x \in OpRequests :
              OpMinting(opReq'[y]) /\ OpMinting(opReq'[x]) /\ opReq'[y].pair = opReq'[x].pair => y = x
      BY <1>7, <1>8, <2>1 DEF OpQuiet, OpMintsOK
    <2>4. ASSUME NEW x \in OpRequests, OpUnwritten(opReq'[x])
          PROVE  /\ \A t \in OpSessions : opFwd'[t] # opReq'[x].pair
                 /\ \A i \in OpInstances, t \in OpSessions :
                        opMap'[i][t] = opReq'[x].pair => i = opReq'[x].inst
                 /\ \A y \in OpRequests : ~OpDeletes(opReq'[y], opReq'[x].pair)
      <3>1. CASE x = r
        BY <1>4, <1>5, <1>6, <1>7, <1>8, <1>14, <2>1, <3>1
      <3>2. CASE x # r
        <4>1. opReq'[x] = opReq[x] /\ OpUnwritten(opReq[x])
          BY <1>8, <2>4, <3>2
        <4>2. opReq[x].pair # p
          BY <2>1, <4>1, OpAtWork DEF OpHomed, OpRequestsOK, OpQuiet, OpListsOK, OpUnwritten
        <4>3. /\ \A t \in OpSessions : opFwd'[t] # opReq'[x].pair
              /\ \A i \in OpInstances, t \in OpSessions :
                     opMap'[i][t] = opReq'[x].pair => i = opReq'[x].inst
          BY <1>5, <1>6, <4>1, <4>2 DEF OpQuiet, OpMintsOK
        <4>4. \A y \in OpRequests : ~OpDeletes(opReq'[y], opReq'[x].pair)
          BY <1>8, <1>10, <1>14, <4>1 DEF OpQuiet, OpMintsOK
        <4> QED BY <4>3, <4>4
      <3> QED BY <3>1, <3>2
    <2> QED BY <2>2, <2>3, <2>4 DEF OpMintsOK
  <1>17. OpMappingsOK'
    <2> SUFFICES ASSUME NEW t \in OpSessions, NEW y \in OpPairs, NEW side \in {"acc", "ref"},
                        opFwd[t] = y, <<side, y>> \notin opLapsed', opInv[side][y] # t
                 PROVE  \E x \in OpRequests : OpWrites(opReq'[x], side, t, y)
      BY <1>5 DEF OpMappingsOK
    <2>1. PICK x \in OpRequests : OpWrites(opReq[x], side, t, y)
      BY <1>5 DEF OpQuiet, OpMappingsOK
    <2>2. x # r
      BY <1>1, <2>1 DEF OpWrites, q
    <2> QED BY <1>8, <2>1, <2>2
  <1> QED BY <1>5, <1>15, <1>16, <1>17 DEF OpQuiet

\* One operation of a list: what it deletes is stale, and what it has written or deleted
\* is what the rest of the list counts on.
LEMMA OpQuietWork ==
  ASSUME NEW home \in OpHomes, OpHomed(home), OpQuiet, NEW r \in OpRequests, OpWork(r)
  PROVE  OpQuiet'
  <1> DEFINE q == opReq[r]
             s == q.session
             op == q.todo[1]
             n == [q EXCEPT !.todo = Tail(@)]
  <1>1. OpReqOK(q, home) /\ q \in OpRequest /\ q.pc = "work"
    BY DEF OpHomed, OpRequestsOK, OpReqOK, OpWork
  <1>2. OpOrdered(q) /\ OpDeletesStale(q, opFwd, opLapsed)
    BY <1>1 DEF OpQuiet, OpListsOK
  <1>3. /\ q.todo \in Seq(OpOps) /\ Len(q.todo) \in Nat /\ Len(q.todo) >= 1 /\ s \in OpSessions
        /\ OpUnwritten(q) => OpMinting(q)
        /\ OpMinting(q) => q.pair \in OpPairs /\ home[q.pair] \in OpSessions
    BY <1>1, <1>2, OpAtWork
  <1>l. (Len(q.todo) > 1 => Len(q.todo) # 1) /\ (~(Len(q.todo) > 1) => Len(q.todo) = 1)
    <2> DEFINE k == Len(q.todo)
    <2>1. k \in Nat /\ k >= 1
      BY <1>3
    <2> HIDE DEF k
    <2>2. (k > 1 => k # 1) /\ (~(k > 1) => k = 1)
      BY <2>1
    <2> QED BY <2>2 DEF k
  <1>4. /\ op \in OpOps /\ op[2] = s /\ OpHomedOp(op, home)
        /\ op[1] # "del_fwd" => op[3] \in OpPairs
        /\ op[1] \in OpSetOps => q.next = "issued" /\ op[3] = q.pair
    <2>1. 1 \in 1 .. Len(q.todo) /\ OpHomedList(q.todo, home)
      BY <1>1, <1>3 DEF OpReqOK
    <2> HIDE DEF q
    <2> QED BY <1>2, <2>1 DEF OpHomedList, OpHomedOp, OpOrdered
  <1>5. OpApply(op) /\ UNCHANGED <<opMap, opLapsed, opBoot>>
    <2>1. Head(q.todo) = op
      BY <1>3
    <2> QED BY <2>1 DEF OpWork, opIndex
  <1>6. \/ Len(q.todo) > 1 /\ OpSet(r, n) /\ opHeld' = opHeld
        \/ /\ Len(q.todo) = 1 /\ OpSet(r, OpIdle)
           /\ opHeld' = IF q.next = "issued" THEN opHeld \cup {q.pair} ELSE opHeld
    <2>1. CASE Len(q.todo) > 1
      BY <2>1 DEF OpWork
    <2>2. CASE ~(Len(q.todo) > 1)
      <3>1. Len(q.todo) = 1
        BY <1>l, <2>2
      <3> QED BY <2>2, <3>1 DEF OpWork
    <2> QED BY <2>1, <2>2
  <1>7. Len(q.todo) > 1 =>
            /\ n.pc = "work" /\ n.next = q.next /\ n.pair = q.pair /\ n.session = s
            /\ n.inst = q.inst /\ Len(n.todo) = Len(q.todo) - 1
            /\ \A k \in 1 .. Len(n.todo) : n.todo[k] = q.todo[k + 1] /\ k + 1 \in 2 .. Len(q.todo)
    <2> HIDE DEF q
    <2>1. n.pc = "work" /\ n.next = q.next /\ n.pair = q.pair /\ n.session = s /\ n.inst = q.inst
          /\ n.todo = Tail(q.todo)
      BY <1>1 DEF OpRequest
    <2>2. q.todo # <<>>
      BY <1>3
    <2>3. /\ Len(Tail(q.todo)) = Len(q.todo) - 1
          /\ \A k \in 1 .. Len(Tail(q.todo)) : Tail(q.todo)[k] = q.todo[k + 1]
      BY <1>3, <2>2, HeadTailProperties
    <2> QED BY <1>3, <2>1, <2>3
  <1>8. \A x \in OpRequests : x # r => opReq'[x] = opReq[x]
    BY <1>6 DEF OpSet, OpHomed, OpRequestsOK
  <1>9. opReq'[r] = IF Len(q.todo) > 1 THEN n ELSE OpIdle
    <2>1. Len(q.todo) = 1 => ~(Len(q.todo) > 1)
      BY <1>3
    <2>2. \A x : OpSet(r, x) => opReq'[r] = x
      BY DEF OpSet, OpHomed, OpRequestsOK
    <2> HIDE DEF n, q
    <2> QED BY <1>6, <2>1, <2>2
  <1>10. OpUnwritten(q) <=> op[1] = "set_fwd"
    BY <1>1 DEF OpUnwritten
  <1>u. OpUnwritten(q) => \A x \in OpRequests : ~OpDeletes(opReq[x], q.pair)
    BY DEF OpQuiet, OpMintsOK
  <1>m. \A x \in OpRequests : x # r /\ OpMinting(q) /\ OpMinting(opReq[x]) => opReq[x].pair # q.pair
    BY DEF OpQuiet, OpMintsOK
  <1>i. ~OpMinting(OpIdle) /\ ~OpUnwritten(OpIdle) /\ \A p : ~OpDeletes(OpIdle, p)
    BY DEF OpMinting, OpUnwritten, OpDeletes, OpIdle
  \* What the operation does to the backend.
  <1>11. /\ op[1] = "set_fwd" => opFwd' = [opFwd EXCEPT ![s] = q.pair]
         /\ op[1] = "del_fwd" => opFwd' = [opFwd EXCEPT ![s] = OpNone]
         /\ op[1] \notin {"set_fwd", "del_fwd"} => opFwd' = opFwd
    BY <1>4, <1>5 DEF OpApply, OpSetOps
  <1>12. ASSUME NEW side \in {"acc", "ref"}, NEW p \in OpPairs
         PROVE  \/ opInv'[side][p] = opInv[side][p]
                \/ op = <<OpInvOps[side].set, s, p>> /\ opInv'[side][p] = s
                \/ op = <<OpInvOps[side].set, s, p>> /\ <<side, p>> \in opLapsed
                \/ op[1] = OpInvOps[side].del /\ op[3] = p
    <2>1. opInv \in [{"acc", "ref"} -> [OpPairs -> OpSessions \cup {OpNone}]]
      BY DEF OpHomed, OpBackendOK
    <2>2. op = <<op[1], op[2], op[3]>>
      BY <1>4 DEF OpOps
    <2> HIDE DEF op, q, s
    <2>3. CASE op[1] \in {"set_fwd", "del_fwd"}
      BY <1>5, <2>3 DEF OpApply
    <2>4. CASE op[1] = "set_acc"
      BY <1>4, <1>5, <2>1, <2>2, <2>4 DEF OpApply, OpInvOps
    <2>5. CASE op[1] = "set_ref"
      BY <1>4, <1>5, <2>1, <2>2, <2>5 DEF OpApply, OpInvOps
    <2>6. CASE op[1] = "del_acc"
      BY <1>4, <1>5, <2>1, <2>2, <2>6 DEF OpApply, OpInvOps
    <2>7. CASE op[1] = "del_ref"
      BY <1>4, <1>5, <2>1, <2>2, <2>7 DEF OpApply, OpInvOps
    <2> QED BY <1>5, <2>3, <2>4, <2>5, <2>6, <2>7 DEF OpApply
  <1>13. \A t \in OpSessions, p \in OpPairs : opFwd'[t] = p =>
             opFwd[t] = p \/ (OpUnwritten(q) /\ t = s /\ p = q.pair)
    <2>1. opFwd \in [OpSessions -> OpPairs \cup {OpNone}]
      BY DEF OpHomed, OpBackendOK
    <2> HIDE DEF q, s, op
    <2> QED BY <1>3, <1>10, <1>11, <2>1, OpAssumption
  <1>h. opHeld \subseteq opHeld' /\ opHeld' \subseteq opHeld \cup {q.pair}
    BY <1>6
  <1> HIDE DEF n, op, s, q
  \* The lists.
  <1>14. ASSUME NEW x \in OpRequests, x # r, opReq[x].pc = "work"
         PROVE  OpDeletesStale(opReq[x], opFwd', opLapsed')
    <2> DEFINE y == opReq[x]
    <2>1. OpOrdered(y) /\ OpDeletesStale(y, opFwd, opLapsed) /\ y.session \in OpSessions
      BY <1>14, OpOwn DEF OpQuiet, OpListsOK, OpCarries
    <2>2. OpUnwritten(q) => ~OpDeletes(y, q.pair)
      BY <1>u
    <2>3. y.pc = "work"
      BY <1>14
    <2> HIDE DEF y
    <2> SUFFICES ASSUME NEW k \in 1 .. Len(y.todo), NEW side \in {"acc", "ref"},
                        y.todo[k][1] = OpInvOps[side].del,
                        <<side, y.todo[k][3]>> \notin opLapsed,
                        y.todo[1][1] \notin {"set_fwd", "del_fwd"}
                 PROVE  opFwd'[y.session] # y.todo[k][3]
      BY <1>5 DEF OpDeletesStale, y
    <2>4. opFwd[y.session] # y.todo[k][3]
      BY <2>1 DEF OpDeletesStale
    <2>5. y.todo[k][3] \in OpPairs
      BY <2>1 DEF OpOrdered, OpInvOps
    <2>6. OpDeletes(y, y.todo[k][3])
      BY <2>3 DEF OpDeletes, OpInvOps
    <2> QED BY <1>13, <2>1, <2>2, <2>4, <2>5, <2>6
  <1>15. Len(q.todo) > 1 => OpOrdered(n) /\ n.todo[1][1] \notin {"set_fwd", "del_fwd"}
    <2> HAVE Len(q.todo) > 1
    <2>1. 1 \in 1 .. Len(n.todo)
      BY <1>3, <1>7
    <2>2. \A k \in 2 .. Len(q.todo) : k \in 1 .. Len(q.todo) /\ k > 1
      BY <1>3
    <2>3. n.todo[1][1] \notin {"set_fwd", "del_fwd"}
      BY <1>2, <1>7, <2>1, <2>2 DEF OpOrdered
    <2>4. \A k \in 1 .. Len(n.todo) :
              /\ n.todo[k][2] = n.session
              /\ n.todo[k][1] \notin {"set_fwd", "del_fwd"}
              /\ n.todo[k][1] # "del_fwd" => n.todo[k][3] \in OpPairs
              /\ n.todo[k][1] \in OpSetOps => n.next = "issued" /\ n.todo[k][3] = n.pair
      BY <1>2, <1>7, <2>2 DEF OpOrdered, s
    <2> QED BY <2>3, <2>4 DEF OpOrdered
  <1>16. Len(q.todo) > 1 => OpDeletesStale(n, opFwd', opLapsed')
    <2> SUFFICES ASSUME Len(q.todo) > 1, NEW k \in 1 .. Len(n.todo), NEW side \in {"acc", "ref"},
                        n.todo[k][1] = OpInvOps[side].del, <<side, n.todo[k][3]>> \notin opLapsed
                 PROVE  opFwd'[n.session] # n.todo[k][3]
      BY <1>5 DEF OpDeletesStale
    <2> DEFINE x == n.todo[k][3]
    <2>1. n.todo[k] = q.todo[k + 1] /\ k + 1 \in 1 .. Len(q.todo) /\ n.session = s
      BY <1>3, <1>7
    <2>2. x \in OpPairs
      BY <1>2, <2>1 DEF OpOrdered, OpInvOps
    <2>3. OpUnwritten(q) => x # q.pair
      <3>1. OpDeletes(q, x)
        BY <1>1, <2>1 DEF OpDeletes, OpInvOps
      <3> QED BY <1>u, <3>1 DEF q
    <2>4. \/ op[1] \in {"set_fwd", "del_fwd"}
          \/ opFwd[s] # x
      BY <1>2, <2>1 DEF OpDeletesStale, op, s
    <2>5. opFwd \in [OpSessions -> OpPairs \cup {OpNone}]
      BY DEF OpHomed, OpBackendOK
    <2> HIDE DEF x
    <2>6. opFwd'[s] # x
      BY <1>3, <1>10, <1>11, <2>2, <2>3, <2>4, <2>5, OpAssumption
    <2> QED BY <2>1, <2>6 DEF x
  <1>17. OpListsOK'
    <2>1. ASSUME NEW x \in OpRequests, x # r PROVE OpBrought(opReq'[x], opHeld', opLapsed')
      BY <1>5, <1>8, <1>h, <2>1 DEF OpQuiet, OpListsOK, OpBrought
    <2>2. OpBrought(opReq'[r], opHeld', opLapsed')
      BY <1>7, <1>9 DEF OpBrought, OpIdle
    <2>3. opReq'[r].pc = "work" => OpOrdered(opReq'[r]) /\ OpDeletesStale(opReq'[r], opFwd', opLapsed')
      BY <1>9, <1>15, <1>16 DEF OpIdle
    <2>4. \A x \in OpRequests : x # r /\ opReq'[x].pc = "work" =>
              OpOrdered(opReq'[x]) /\ OpDeletesStale(opReq'[x], opFwd', opLapsed')
      BY <1>8, <1>14 DEF OpQuiet, OpListsOK
    <2> QED BY <2>1, <2>2, <2>3, <2>4 DEF OpListsOK
  \* The mints.
  <1>18. \A x \in OpRequests : OpMinting(opReq'[x]) =>
             OpMinting(opReq[x]) /\ opReq'[x].pair = opReq[x].pair /\ (x = r => Len(q.todo) > 1)
    BY <1>1, <1>7, <1>8, <1>9, <1>i DEF OpMinting, q
  <1>19. \A x \in OpRequests : OpUnwritten(opReq'[x]) => x # r
    BY <1>9, <1>15, <1>i DEF OpUnwritten
  <1>20. \A x \in OpRequests : \A p : OpDeletes(opReq'[x], p) => OpDeletes(opReq[x], p)
    <2>1. ASSUME NEW p, Len(q.todo) > 1, OpDeletes(n, p) PROVE OpDeletes(q, p)
      <3>1. \A k \in 1 .. Len(n.todo) : k + 1 \in 1 .. Len(q.todo)
        BY <1>3, <1>7, <2>1
      <3> QED BY <1>1, <1>7, <2>1, <3>1 DEF OpDeletes
    <2> QED BY <1>8, <1>9, <1>i, <2>1 DEF q
  <1>21. OpMintsOK'
    <2>1. ASSUME NEW x \in OpRequests, OpMinting(opReq'[x]) PROVE opReq'[x].pair \notin opHeld'
      <3>1. OpMinting(opReq[x]) /\ opReq'[x].pair = opReq[x].pair /\ opReq[x].pair \notin opHeld
        BY <1>18, <2>1 DEF OpQuiet, OpMintsOK
      <3>2. CASE x = r
        <4>0. Len(q.todo) > 1
          BY <1>18, <2>1, <3>2
        <4>1. Len(q.todo) # 1
          BY <1>l, <4>0
        <4> QED BY <1>6, <3>1, <4>1
      <3>3. CASE x # r
        <4>1. opHeld' = opHeld \/ (OpMinting(q) /\ opHeld' = opHeld \cup {q.pair})
          BY <1>1, <1>6 DEF OpMinting
        <4> QED BY <1>m, <3>1, <3>3, <4>1
      <3> QED BY <3>2, <3>3
    <2>2. \A y, x \in OpRequests :
              OpMinting(opReq'[y]) /\ OpMinting(opReq'[x]) /\ opReq'[y].pair = opReq'[x].pair => y = x
      BY <1>18 DEF OpQuiet, OpMintsOK
    <2>3. ASSUME NEW x \in OpRequests, OpUnwritten(opReq'[x])
          PROVE  /\ \A t \in OpSessions : opFwd'[t] # opReq'[x].pair
                 /\ \A i \in OpInstances, t \in OpSessions :
                        opMap'[i][t] = opReq'[x].pair => i = opReq'[x].inst
                 /\ \A y \in OpRequests : ~OpDeletes(opReq'[y], opReq'[x].pair)
      <3>1. x # r /\ opReq'[x] = opReq[x] /\ OpUnwritten(opReq[x])
        BY <1>8, <1>19, <2>3
      <3>2. OpMinting(opReq[x]) /\ opReq[x].pair \in OpPairs
        BY <3>1, OpAtWork DEF OpHomed, OpRequestsOK, OpQuiet, OpListsOK, OpUnwritten
      <3>3. \A t \in OpSessions : opFwd'[t] # opReq[x].pair
        BY <1>3, <1>13, <1>m, <3>1, <3>2 DEF OpQuiet, OpMintsOK
      <3>4. \A i \in OpInstances, t \in OpSessions :
                opMap'[i][t] = opReq[x].pair => i = opReq[x].inst
        BY <1>5, <3>1 DEF OpQuiet, OpMintsOK
      <3>5. \A y \in OpRequests : ~OpDeletes(opReq'[y], opReq[x].pair)
        BY <1>20, <3>1 DEF OpQuiet, OpMintsOK
      <3> QED BY <3>1, <3>3, <3>4, <3>5
    <2> QED BY <2>1, <2>2, <2>3 DEF OpMintsOK
  \* The mappings.
  <1>22. OpMappingsOK'
    <2> SUFFICES ASSUME NEW t \in OpSessions, NEW p \in OpPairs, NEW side \in {"acc", "ref"},
                        opFwd'[t] = p, <<side, p>> \notin opLapsed, opInv'[side][p] # t
                 PROVE  \E x \in OpRequests : OpWrites(opReq'[x], side, t, p)
      BY <1>5 DEF OpMappingsOK
    <2>1. CASE OpUnwritten(q) /\ t = s /\ p = q.pair
      <3>1. /\ Len(q.todo) >= 3 /\ q.todo[2] = <<"set_acc", s, p>> /\ q.todo[3] = <<"set_ref", s, p>>
        BY <1>2, <1>10, <2>1 DEF OpOrdered, op, s
      <3>2. Len(q.todo) > 1 /\ 1 \in 1 .. Len(n.todo) /\ 2 \in 1 .. Len(n.todo)
        BY <1>3, <1>7, <3>1
      <3>3. n.todo[1] = q.todo[2] /\ n.todo[2] = q.todo[3]
        BY <1>7, <3>2
      <3>4. OpWrites(n, side, t, p)
        BY <1>7, <2>1, <3>1, <3>2, <3>3 DEF OpWrites, OpInvOps
      <3> QED BY <1>9, <3>2, <3>4
    <2>2. CASE opFwd[t] = p
      <3>1. home[p] = t
        BY <2>2 DEF OpHomed, OpBackendOK, OpBackendHomed
      <3>2. op[3] = p => s = t
        BY <1>4, <3>1 DEF OpHomedOp
      <3>3. op # <<OpInvOps[side].set, t, p>>
        <4> SUFFICES ASSUME op = <<OpInvOps[side].set, t, p>> PROVE FALSE
          OBVIOUS
        <4>1. op[1] = OpInvOps[side].set /\ op[3] = p /\ s = t
          BY <3>2
        <4>2. op[1] # OpInvOps[side].del /\ op[1] \in {"set_acc", "set_ref"}
          BY <4>1 DEF OpInvOps
        <4>3. opInv'[side][p] = s
          <5>1. CASE op[1] = "set_acc"
            BY <1>4, <1>5, <4>1, <5>1 DEF OpApply, OpInvOps, OpHomed, OpBackendOK
          <5>2. CASE op[1] = "set_ref"
            BY <1>4, <1>5, <4>1, <5>2 DEF OpApply, OpInvOps, OpHomed, OpBackendOK
          <5> QED BY <4>2, <5>1, <5>2
        <4> QED BY <4>1, <4>3
      <3>4. ~(op[1] = OpInvOps[side].del /\ op[3] = p)
        <4> SUFFICES ASSUME op[1] = OpInvOps[side].del, op[3] = p PROVE FALSE
          OBVIOUS
        <4>1. 1 \in 1 .. Len(q.todo) /\ op[1] \notin {"set_fwd", "del_fwd"}
          BY <1>3 DEF OpInvOps
        <4>2. opFwd[s] # p
          BY <1>2, <4>1 DEF OpDeletesStale, op, s
        <4> QED BY <2>2, <3>2, <4>2
      <3>5. opInv[side][p] # t
        BY <1>12, <3>2, <3>3, <3>4
      <3>6. PICK x \in OpRequests : OpWrites(opReq[x], side, t, p)
        BY <2>2, <3>5 DEF OpQuiet, OpMappingsOK
      <3>7. CASE x # r
        BY <1>8, <3>6, <3>7
      <3>8. CASE x = r
        <4>1. PICK k \in 1 .. Len(q.todo) : q.todo[k] = <<OpInvOps[side].set, t, p>>
          BY <3>6, <3>8 DEF OpWrites, q
        <4>2. k # 1
          BY <3>3, <4>1 DEF op
        <4>3. Len(q.todo) > 1 /\ k - 1 \in 1 .. Len(n.todo)
          BY <1>3, <1>7, <4>2
        <4>4. n.todo[k - 1] = q.todo[k]
          BY <1>7, <4>3
        <4>5. OpWrites(n, side, t, p)
          BY <1>7, <4>1, <4>3, <4>4 DEF OpWrites
        <4> QED BY <1>9, <4>3, <4>5
      <3> QED BY <3>7, <3>8
    <2> QED BY <1>13, <2>1, <2>2
  <1> QED BY <1>5, <1>17, <1>21, <1>22 DEF OpQuiet

\* A request that was not at work and is not now has moved: what it carries has reached
\* a client, and what it deleted in the backend was stale.
LEMMA OpMovesAside ==
  ASSUME NEW home \in OpHomes, OpHomed(home), OpHomed(home)', OpQuiet, NEW r \in OpRequests,
         NEW q, OpSet(r, q), opReq[r].pc # "work", q.pc # "work",
         \/ q.pc \in {"idle", "mint"}
         \/ q.pair \in opHeld /\ (q.pc = "expire" => <<"acc", q.pair>> \in opLapsed),
         \A i \in OpInstances, s \in OpSessions :
             opMap'[i][s] = opMap[i][s] \/ opMap'[i][s] = OpNone \/ opMap'[i][s] \in opHeld,
         \A s \in OpSessions, p \in OpPairs, side \in {"acc", "ref"} :
             opFwd[s] = p /\ opInv[side][p] = s /\ <<side, p>> \notin opLapsed => opInv'[side][p] = s,
         UNCHANGED <<opFwd, opLapsed, opHeld, opBoot>>
  PROVE  OpQuiet'
  <1>1. OpReqOK(q, home)
    <2>1. opReq'[r] = q
      BY DEF OpSet, OpHomed, OpRequestsOK
    <2> QED BY <2>1 DEF OpHomed, OpRequestsOK
  <1>2. OpBrought(q, opHeld, opLapsed)
    BY DEF OpBrought
  <1> QED BY <1>1, <1>2, OpMoves

\* A request that goes to work on a list that deletes mapping x of its session, or only
\* the forward mapping.
LEMMA OpMovesToWork ==
  ASSUME NEW home \in OpHomes, OpHomed(home), OpHomed(home)', OpQuiet, NEW r \in OpRequests,
         NEW q \in OpRequest, NEW todo, OpSet(r, OpThen(q, todo, "idle")), opReq[r].pc # "work",
         NEW s \in OpSessions, q.session = s,
         \/ \E x \in OpPairs : /\ todo = OpDelete(s, x)
                               /\ \A y \in OpRequests : OpUnwritten(opReq[y]) => opReq[y].pair # x
         \/ \E x : todo = <<<<"del_fwd", s, x>>>>
         \/ \E x \in opHeld : todo = <<<<"del_acc", s, x>>>> /\ <<"acc", x>> \in opLapsed,
         \A i \in OpInstances, t \in OpSessions : opMap'[i][t] \in {opMap[i][t], OpNone},
         UNCHANGED <<opFwd, opInv, opLapsed, opHeld, opBoot>>
  PROVE  OpQuiet'
  <1> DEFINE n == OpThen(q, todo, "idle")
  <1>1. OpReqOK(n, home)
    <2>1. opReq'[r] = n
      BY DEF OpSet, OpHomed, OpRequestsOK
    <2> QED BY <2>1 DEF OpHomed, OpRequestsOK
  <1>2. n.pc = "work" /\ n.next = "idle" /\ n.session = s /\ n.todo = todo
    BY DEF OpThen, OpRequest
  <1>3. \A x \in OpRequests : OpUnwritten(opReq[x]) => opReq[x].pair \notin opHeld
    BY OpAtWork DEF OpHomed, OpRequestsOK, OpQuiet, OpListsOK, OpMintsOK, OpUnwritten
  <1>h. opHeld \subseteq OpPairs
    BY DEF OpHomed, OpWorldOK
  <1> HIDE DEF n
  <1>4. /\ OpOrdered(n) /\ OpDeletesStale(n, opFwd, opLapsed)
        /\ \A x \in OpRequests : OpUnwritten(opReq[x]) => ~OpDeletes(n, opReq[x].pair)
    <2>1. CASE \E x \in OpPairs : /\ todo = OpDelete(s, x)
                                  /\ \A y \in OpRequests : OpUnwritten(opReq[y]) => opReq[y].pair # x
      <3>1. PICK x \in OpPairs : /\ todo = OpDelete(s, x)
                                 /\ \A y \in OpRequests : OpUnwritten(opReq[y]) => opReq[y].pair # x
        BY <2>1
      <3>2. /\ Len(todo) = 3 /\ todo[1] = <<"del_fwd", s, x>> /\ todo[2] = <<"del_acc", s, x>>
            /\ todo[3] = <<"del_ref", s, x>>
        BY <3>1 DEF OpDelete
      <3>3. \A k \in 1 .. Len(todo) : k = 1 \/ k = 2 \/ k = 3
        BY <3>2
      <3>4. OpOrdered(n)
        BY <1>2, <3>2, <3>3 DEF OpOrdered, OpSetOps
      <3>5. OpDeletesStale(n, opFwd, opLapsed)
        BY <1>2, <3>2 DEF OpDeletesStale
      <3>6. \A z : OpDeletes(n, z) => z = x
        BY <1>2, <3>2, <3>3 DEF OpDeletes
      <3> QED BY <3>1, <3>4, <3>5, <3>6
    <2>2. CASE \E x : todo = <<<<"del_fwd", s, x>>>>
      <3>1. PICK x : todo = <<<<"del_fwd", s, x>>>>
        BY <2>2
      <3>2. Len(todo) = 1 /\ todo[1] = <<"del_fwd", s, x>> /\ \A k \in 1 .. Len(todo) : k = 1
        BY <3>1
      <3> QED BY <1>2, <3>2 DEF OpOrdered, OpDeletesStale, OpDeletes, OpSetOps
    <2>3. CASE \E x \in opHeld : todo = <<<<"del_acc", s, x>>>> /\ <<"acc", x>> \in opLapsed
      <3>1. PICK x \in opHeld : todo = <<<<"del_acc", s, x>>>> /\ <<"acc", x>> \in opLapsed
        BY <2>3
      <3>2. Len(todo) = 1 /\ todo[1] = <<"del_acc", s, x>> /\ \A k \in 1 .. Len(todo) : k = 1
        BY <3>1
      <3>3. OpOrdered(n)
        BY <1>2, <1>h, <3>2 DEF OpOrdered, OpSetOps
      <3>4. OpDeletesStale(n, opFwd, opLapsed)
        BY <1>2, <3>1, <3>2 DEF OpDeletesStale, OpInvOps
      <3>5. \A z : OpDeletes(n, z) => z = x
        BY <1>2, <3>2 DEF OpDeletes
      <3> QED BY <1>3, <3>3, <3>4, <3>5
    <2> QED BY <2>1, <2>2, <2>3
  <1>5. OpBrought(n, opHeld, opLapsed)
    BY <1>2 DEF OpBrought
  <1>6. OpSet(r, n)
    BY DEF n
  <1> QED BY <1>1, <1>2, <1>4, <1>5, <1>6, OpMoves

\* Arrivals.
LEMMA OpQuietArrive ==
  ASSUME NEW home \in OpHomes, OpHomed(home), OpHomed(home)', OpQuiet, NEW r \in OpRequests,
         NEW i \in OpInstances,
         \/ \E u \in OpUsers, s \in OpSessions : opaque_token_handler(r, i, u, s)
         \/ \E side \in {"acc", "ref"}, p \in OpPairs : resolve_opaque(r, i, side, p)
  PROVE  OpQuiet'
  <1>1. ASSUME NEW u \in OpUsers, NEW s \in OpSessions, opaque_token_handler(r, i, u, s)
        PROVE  OpQuiet'
    <2> DEFINE n == [OpIdle EXCEPT !.pc = "mint", !.inst = i, !.kind = "login", !.session = s,
                        !.user = u]
    <2>1. OpSet(r, n) /\ n.pc = "mint" /\ opReq[r].pc # "work"
      BY <1>1 DEF opaque_token_handler, OpIdle, OpArrive
    <2>2. UNCHANGED <<opMap, opInv, opFwd, opLapsed, opHeld, opBoot>>
      BY <1>1 DEF opaque_token_handler, opIndex, opBackend
    <2> HIDE DEF n
    <2> QED BY <2>1, <2>2, OpMovesAside
  <1>2. ASSUME NEW side \in {"acc", "ref"}, NEW p \in OpPairs, resolve_opaque(r, i, side, p)
        PROVE  OpQuiet'
    <2>1. PICK n : /\ OpSet(r, n) /\ n.pair = p
                   /\ n.pc \in {"token", "expire", "remove", "inverse"}
                   /\ n.pc = "expire" => <<"acc", p>> \in opLapsed
      <3> DEFINE s == IF side = "acc" THEN opAcc[i][p] ELSE opRef[i][p]
                 q == [OpIdle EXCEPT !.inst = i, !.kind = side, !.pair = p, !.session = s,
                        !.user = opOwner[p]]
                 m(pc) == [q EXCEPT !.pc = pc]
      <3>1. \A pc : m(pc).pair = p /\ m(pc).pc = pc
        BY DEF OpIdle
      <3>2. \/ OpSet(r, m("token"))
            \/ <<side, p>> \in opLapsed /\ OpSet(r, m(IF side = "acc" THEN "expire" ELSE "remove"))
            \/ OpSet(r, m("inverse"))
        BY <1>2 DEF resolve_opaque
      <3> HIDE DEF m
      <3> QED BY <3>1, <3>2
    <2>2. opReq[r].pc # "work" /\ p \in opHeld
      BY <1>2 DEF resolve_opaque, OpArrive
    <2>3. UNCHANGED <<opMap, opInv, opFwd, opLapsed, opHeld, opBoot>>
      BY <1>2 DEF resolve_opaque, opIndex, opBackend, opWorld
    <2> QED BY <2>1, <2>2, <2>3, OpMovesAside
  <1> QED BY <1>1, <1>2

\* Setting one entry of an index leaves the others.
LEMMA OpMapSet ==
  ASSUME NEW home, OpHomed(home), NEW i \in OpInstances, NEW s \in OpSessions, NEW p,
         opMap' = [opMap EXCEPT ![i][s] = p], NEW j \in OpInstances, NEW t \in OpSessions
  PROVE  opMap'[j][t] \in {opMap[j][t], p}
  <1>1. opMap \in [OpInstances -> [OpSessions -> OpPairs \cup {OpNone}]]
    BY DEF OpHomed, OpIndexOK
  <1>2. CASE j = i
    BY <1>1, <1>2
  <1>3. CASE j # i
    BY <1>1, <1>3
  <1> QED BY <1>2, <1>3

\* A goto as the setting of a request.
LEMMA OpGotoSet ==
  ASSUME NEW home, OpHomed(home), NEW r \in OpRequests, NEW pc, OpGoto(r, pc)
  PROVE  \E n : OpSet(r, n) /\ n.pc = pc /\ n.pair = opReq[r].pair
  <1> DEFINE n == [opReq[r] EXCEPT !.pc = pc]
  <1>1. n.pc = pc /\ n.pair = opReq[r].pair
    BY OpOwn DEF OpRequest
  <1>2. OpSet(r, n)
    BY DEF OpSet, OpGoto, OpHomed, OpRequestsOK
  <1> QED BY <1>1, <1>2

\* The lookups in the backend: an inverse entry they delete is over, or the forward
\* mapping of its home is another pair.
LEMMA OpQuietLookup ==
  ASSUME NEW home \in OpHomes, OpHomed(home), OpHomed(home)', OpQuiet, NEW r \in OpRequests,
         load_inverse(r) \/ load_opaque_mapping(r) \/ hydrate_opaque(r)
  PROVE  OpQuiet'
  <1> DEFINE q == opReq[r]
  <1>0. q.pc \in {"inverse", "forward", "hydrate"} /\ q \in OpRequest
    BY OpOwn DEF load_inverse, load_opaque_mapping, hydrate_opaque
  <1>1. q.pair \in opHeld /\ q.pair \in OpPairs /\ q.kind \in {"acc", "ref"} /\ q.inst \in OpInstances
    BY <1>0, OpOwn DEF OpQuiet, OpListsOK, OpBrought, OpCarries
  <1>2. UNCHANGED <<opLapsed, opHeld, opBoot>>
    BY DEF load_inverse, load_opaque_mapping, hydrate_opaque, opWorld
  <1>i. OpIdle.pc = "idle"
    BY DEF OpIdle
  <1>3. CASE load_inverse(r)
    <2>1. PICK n : OpSet(r, n) /\ (n.pc = "idle" \/ (n.pc = "forward" /\ n.pair = q.pair))
      <3> DEFINE m == [q EXCEPT !.pc = "forward", !.session = opInv[q.kind][q.pair]]
      <3>1. m.pc = "forward" /\ m.pair = q.pair
        BY <1>0 DEF OpRequest
      <3>2. OpSet(r, OpIdle) \/ OpSet(r, m)
        BY <1>3 DEF load_inverse, OpRefuse
      <3> HIDE DEF m
      <3> QED BY <1>i, <3>1, <3>2
    <2>2. UNCHANGED <<opMap, opInv, opFwd>>
      BY <1>3 DEF load_inverse, opIndex, opBackend
    <2> HIDE DEF q
    <2>3. opReq[r].pc # "work"
      BY <1>0 DEF q
    <2> QED BY <1>1, <1>2, <2>1, <2>2, <2>3, OpMovesAside
  <1>4. CASE load_opaque_mapping(r)
    <2> DEFINE p == opFwd[q.session]
               op == <<IF q.kind = "acc" THEN "del_acc" ELSE "del_ref", q.session, q.pair>>
    <2>0. home[q.pair] = q.session /\ q.session \in OpSessions
      BY <1>1, <1>4, OpOwn DEF OpKnows, OpCarries, load_opaque_mapping
    <2>1. PICK n : OpSet(r, n) /\ (n.pc = "idle" \/ (n.pc = "hydrate" /\ n.pair = q.pair))
      BY <1>4, <1>i, OpGotoSet DEF load_opaque_mapping, OpRefuse
    <2>2. UNCHANGED opMap
      BY <1>4 DEF load_opaque_mapping, opIndex
    <2>3. \/ UNCHANGED <<opFwd, opInv>>
          \/ (p # q.pair \/ <<q.kind, q.pair>> \in opLapsed) /\ OpApply(op)
      BY <1>4 DEF load_opaque_mapping, opBackend
    <2>4. OpApply(op) => opFwd' = opFwd /\ opInv' = [opInv EXCEPT ![q.kind][q.pair] = OpNone]
      BY <1>1 DEF OpApply
    <2>5. opFwd' = opFwd
      BY <2>3, <2>4
    <2>6. ASSUME NEW t \in OpSessions, NEW y \in OpPairs, NEW side \in {"acc", "ref"},
                 opFwd[t] = y, opInv[side][y] = t, <<side, y>> \notin opLapsed
          PROVE  opInv'[side][y] = t
      <3>1. home[y] = t
        BY <2>6 DEF OpHomed, OpBackendOK, OpBackendHomed
      <3>2. y = q.pair => p = q.pair
        BY <2>0, <2>6, <3>1
      <3>3. CASE UNCHANGED <<opFwd, opInv>>
        BY <2>6, <3>3
      <3>4. CASE (p # q.pair \/ <<q.kind, q.pair>> \in opLapsed) /\ OpApply(op)
        <4>1. y # q.pair \/ side # q.kind
          BY <2>6, <3>2, <3>4
        <4> HIDE DEF op, p, q
        <4> QED BY <1>1, <2>4, <2>6, <3>4, <4>1 DEF OpHomed, OpBackendOK
      <3> QED BY <2>3, <3>3, <3>4
    <2>7. opReq[r].pc # "work"
      BY <1>0
    <2> HIDE DEF q, p, op
    <2> QED BY <1>1, <1>2, <2>1, <2>2, <2>5, <2>6, <2>7, OpMovesAside
  <1>5. CASE hydrate_opaque(r)
    <2>0. q.session \in OpSessions
      BY <1>5, OpOwn DEF OpCarries, hydrate_opaque
    <2>1. PICK n : OpSet(r, n) /\ n.pc = "token" /\ n.pair = q.pair
      BY <1>5, OpGotoSet DEF hydrate_opaque
    <2>2. UNCHANGED <<opFwd, opInv>>
      BY <1>5 DEF hydrate_opaque, opBackend
    <2>3. \A i \in OpInstances, s \in OpSessions : opMap'[i][s] \in {opMap[i][s], q.pair}
      <3>1. opMap' = opMap \/ opMap' = [opMap EXCEPT ![q.inst][q.session] = q.pair]
        BY <1>5 DEF hydrate_opaque, replace_session, opIndex
      <3> HIDE DEF q
      <3> QED BY <1>1, <2>0, <3>1, OpMapSet
    <2>4. opReq[r].pc # "work"
      BY <1>0
    <2> HIDE DEF q
    <2> QED BY <1>1, <1>2, <2>1, <2>2, <2>3, <2>4, OpMovesAside
  <1> QED BY <1>3, <1>4, <1>5

\* The token is resolved, or the request is over.
LEMMA OpQuietAnswer ==
  ASSUME NEW home \in OpHomes, OpHomed(home), OpHomed(home)', OpQuiet, NEW r \in OpRequests,
         \/ bearer_auth_middleware(r) \/ handle_opaque_refresh(r) \/ OpFinish(r)
         \/ OpHangUp(r) /\ opReq[r].pc = "mint"
  PROVE  OpQuiet'
  <1> DEFINE q == opReq[r]
  <1>0. q.pc \in {"token", "served", "mint"} /\ q \in OpRequest
    BY OpOwn DEF bearer_auth_middleware, handle_opaque_refresh, OpFinish
  <1>1. UNCHANGED <<opMap, opInv, opFwd, opLapsed, opHeld, opBoot>>
    BY DEF bearer_auth_middleware, handle_opaque_refresh, OpFinish, OpHangUp, opIndex, opBackend, opWorld
  <1>2. PICK n : OpSet(r, n) /\ (\/ n.pc \in {"idle", "mint"}
                                 \/ n.pc \in {"served", "remove"} /\ n.pair = q.pair /\ q.pc = "token")
    <2>1. CASE OpFinish(r) \/ OpHangUp(r)
      BY <2>1 DEF OpFinish, OpHangUp, OpIdle
    <2>2. CASE handle_opaque_refresh(r)
      BY <2>2, OpGotoSet DEF handle_opaque_refresh
    <2>3. CASE bearer_auth_middleware(r)
      <3> DEFINE m == [q EXCEPT !.pc = "served", !.user = opGrant[q.session]]
      <3>1. m.pc = "served" /\ m.pair = q.pair
        BY <1>0 DEF OpRequest
      <3>2. q.pc = "token" /\ (OpGoto(r, "remove") \/ OpSet(r, m))
        BY <2>3 DEF bearer_auth_middleware
      <3> HIDE DEF m
      <3> QED BY <3>1, <3>2, OpGotoSet
    <2> QED BY <2>1, <2>2, <2>3
  <1>3. q.pc = "token" => q.pair \in opHeld
    BY DEF OpQuiet, OpListsOK, OpBrought
  <1>4. opReq[r].pc # "work"
    BY <1>0
  <1> HIDE DEF q
  <1> QED BY <1>1, <1>2, <1>3, <1>4, OpMovesAside

\* The removals: what the index or the forward mapping names has its forward mapping
\* written, since the instance is not minting and a client has what it brought.
LEMMA OpQuietRemove ==
  ASSUME NEW home \in OpHomes, OpHomed(home), OpHomed(home)', OpQuiet, NEW r \in OpRequests,
         \/ expire_opaque_access(r) \/ remove_opaque_for_session(r) \/ recover_opaques(r)
         \/ \E i \in OpInstances, s \in OpSessions : purge_expired(r, i, s)
  PROVE  OpQuiet'
  <1> DEFINE q == opReq[r]
  <1>u. \A i \in OpInstances, s \in OpSessions, y \in OpRequests :
            OpUnlocked(i) /\ OpUnwritten(opReq[y]) => opReq[y].pair # opMap[i][s]
    BY DEF OpQuiet, OpMintsOK, OpUnwritten, OpUnlocked
  <1>1. CASE expire_opaque_access(r)
    <2>1. q \in OpRequest /\ q.session \in OpSessions /\ q.pair \in opHeld /\ q.pc # "work"
          /\ <<"acc", q.pair>> \in opLapsed
      BY <1>1, OpOwn DEF expire_opaque_access, OpCarries, OpQuiet, OpListsOK, OpBrought
    <2>2. /\ OpSet(r, OpThen(q, <<<<"del_acc", q.session, q.pair>>>>, "idle"))
          /\ UNCHANGED <<opMap, opFwd, opInv, opLapsed, opHeld, opBoot>>
      BY <1>1 DEF expire_opaque_access, opBackend, opWorld
    <2> QED BY <2>1, <2>2, OpMovesToWork
  <1>2. CASE remove_opaque_for_session(r)
    <2> DEFINE old == opMap[q.inst][q.session]
    <2>1. q \in OpRequest /\ q.session \in OpSessions /\ q.inst \in OpInstances
          /\ q.pair \in opHeld /\ q.pc # "work"
      BY <1>2, OpOwn DEF remove_opaque_for_session, OpCarries, OpQuiet, OpListsOK, OpBrought
    <2>2. UNCHANGED <<opFwd, opInv, opLapsed, opHeld, opBoot>> /\ OpUnlocked(q.inst)
      BY <1>2 DEF remove_opaque_for_session, opBackend, opWorld
    <2>3. \A i \in OpInstances, t \in OpSessions : opMap'[i][t] \in {opMap[i][t], OpNone}
      BY <1>2, <2>1 DEF remove_opaque_for_session, replace_session, OpHomed, OpIndexOK
    <2>4. old \in OpPairs \cup {OpNone}
      BY <2>1 DEF OpHomed, OpIndexOK
    <2>5. CASE old = OpNone
      <3>1. PICK n : OpSet(r, n) /\ n.pc = "recover" /\ n.pair = q.pair
        <4> DEFINE m == [q EXCEPT !.pc = "recover"]
        <4>1. m.pc = "recover" /\ m.pair = q.pair
          BY <2>1 DEF OpRequest
        <4>2. OpSet(r, m)
          BY <1>2, <2>5 DEF remove_opaque_for_session
        <4> HIDE DEF m
        <4> QED BY <4>1, <4>2
      <3> QED BY <2>1, <2>2, <2>3, <3>1, OpMovesAside
    <2>6. CASE old # OpNone
      <3>1. OpSet(r, OpThen(q, OpDelete(q.session, old), "idle"))
        BY <1>2, <2>6 DEF remove_opaque_for_session
      <3>2. \A y \in OpRequests : OpUnwritten(opReq[y]) => opReq[y].pair # old
        BY <1>u, <2>1, <2>2
      <3> HIDE DEF old
      <3> QED BY <2>1, <2>2, <2>3, <2>4, <2>6, <3>1, <3>2, OpMovesToWork
    <2> QED BY <2>5, <2>6
  <1>3. CASE recover_opaques(r)
    <2> DEFINE p == opFwd[q.session]
               todo == IF p = OpNone THEN <<<<"del_fwd", q.session, q.pair>>>>
                       ELSE OpDelete(q.session, p)
    <2>1. q \in OpRequest /\ q.session \in OpSessions /\ q.pc # "work"
      BY <1>3, OpOwn DEF recover_opaques, OpCarries
    <2>2. /\ OpSet(r, OpThen(q, todo, "idle"))
          /\ UNCHANGED <<opMap, opFwd, opInv, opLapsed, opHeld, opBoot>>
      BY <1>3 DEF recover_opaques, opIndex, opBackend, opWorld
    <2>3. p \in OpPairs \cup {OpNone}
      BY <2>1 DEF OpHomed, OpBackendOK
    <2>4. \A y \in OpRequests : OpUnwritten(opReq[y]) => opReq[y].pair # p
      BY <2>1 DEF OpQuiet, OpMintsOK
    <2> HIDE DEF p
    <2>5. \/ \E x \in OpPairs : /\ todo = OpDelete(q.session, x)
                                /\ \A y \in OpRequests : OpUnwritten(opReq[y]) => opReq[y].pair # x
          \/ \E x : todo = <<<<"del_fwd", q.session, x>>>>
      BY <2>3, <2>4
    <2> HIDE DEF todo
    <2> QED BY <2>1, <2>2, <2>5, OpMovesToWork
  <1>4. ASSUME NEW i \in OpInstances, NEW s \in OpSessions, purge_expired(r, i, s) PROVE OpQuiet'
    <2> DEFINE old == opMap[i][s]
               n == [OpIdle EXCEPT !.inst = i, !.kind = "purge", !.session = s]
               todo == IF old = OpNone THEN <<<<"del_fwd", s, OpNone>>>> ELSE OpDelete(s, old)
    <2>1. n \in OpRequest /\ n.session = s
      BY OpIdleOK DEF OpReqOK, OpRequest, OpIdle
    <2>2. /\ OpSet(r, OpThen(n, todo, "idle")) /\ q.pc # "work" /\ OpUnlocked(i)
          /\ UNCHANGED <<opFwd, opInv, opLapsed, opHeld, opBoot>>
      BY <1>4 DEF purge_expired, OpArrive, opBackend
    <2>3. \A j \in OpInstances, t \in OpSessions : opMap'[j][t] \in {opMap[j][t], OpNone}
      <3>1. opMap' = [opMap EXCEPT ![i][s] = OpNone]
        BY <1>4 DEF purge_expired, replace_session
      <3> QED BY <3>1, OpMapSet
    <2>4. old \in OpPairs \cup {OpNone}
      BY DEF OpHomed, OpIndexOK
    <2>5. \A y \in OpRequests : OpUnwritten(opReq[y]) => opReq[y].pair # old
      BY <1>u, <2>2
    <2> HIDE DEF old, n
    <2>6. \/ \E x \in OpPairs : /\ todo = OpDelete(s, x)
                                /\ \A y \in OpRequests : OpUnwritten(opReq[y]) => opReq[y].pair # x
          \/ \E x : todo = <<<<"del_fwd", s, x>>>>
      BY <2>4, <2>5
    <2> HIDE DEF todo
    <2> QED BY <2>1, <2>2, <2>3, <2>6, OpMovesToWork
  <1> QED BY <1>1, <1>2, <1>3, <1>4

\* Every step keeps it: a fault ends what it is about, and an instance that did not
\* crash does not load.
LEMMA OpQuietStep == OpInv /\ OpQuietInv /\ [OpNext]_opVars => OpQuietInv'
  <1> SUFFICES ASSUME OpInv, OpQuietInv, [OpNext]_opVars PROVE OpQuietInv'
    OBVIOUS
  <1>0. PICK home \in OpHomes : OpHomed(home)
    BY DEF OpInv
  <1>1. opFaults' \in {opFaults, opFaults + 1}
    <2>1. ASSUME NEW r \in OpRequests, NEW i \in OpInstances,
                 \/ \E u \in OpUsers, s \in OpSessions : opaque_token_handler(r, i, u, s)
                 \/ exchange_refused(r, i)
                 \/ \E side \in {"acc", "ref"}, p \in OpPairs : resolve_opaque(r, i, side, p)
                 \/ \E s \in OpSessions : purge_expired(r, i, s)
          PROVE  opFaults' = opFaults
      BY <2>1 DEF opaque_token_handler, exchange_refused, resolve_opaque, purge_expired, opVars,
                  opWorld
    <2>2. ASSUME NEW r \in OpRequests, NEW p \in OpPairs, NEW brief \in BOOLEAN,
                 build_opaque_response(r, p, brief)
          PROVE  opFaults' = opFaults
      BY <2>2 DEF build_opaque_response
    <2>3. ASSUME NEW r \in OpRequests,
                 \/ expire_opaque_access(r) \/ load_inverse(r) \/ load_opaque_mapping(r)
                 \/ hydrate_opaque(r) \/ bearer_auth_middleware(r) \/ handle_opaque_refresh(r)
                 \/ remove_opaque_for_session(r) \/ recover_opaques(r) \/ OpWork(r) \/ OpFinish(r)
          PROVE  opFaults' = opFaults
      BY <2>3 DEF expire_opaque_access, load_inverse, load_opaque_mapping, hydrate_opaque,
                  bearer_auth_middleware, handle_opaque_refresh, remove_opaque_for_session,
                  recover_opaques, OpWork, OpFinish, opWorld
    <2>4. ASSUME NEW r \in OpRequests, OpHangUp(r)
          PROVE  opFaults' \in {opFaults, opFaults + 1}
      BY <2>4 DEF OpHangUp
    <2>5. ASSUME NEW side \in {"acc", "ref"}, NEW p \in OpPairs, OpLapse(side, p)
          PROVE  opFaults' = opFaults
      BY <2>5 DEF OpLapse
    <2>6. ASSUME NEW s \in OpSessions, OpGrantDies(s) PROVE opFaults' = opFaults
      BY <2>6 DEF OpGrantDies
    <2>7. ASSUME NEW i \in OpInstances,
                 \/ load_tokens(i) \/ load_opaque_keys(i) \/ delete_orphan(i) \/ load_done(i)
                 \/ \E s \in OpSessions : load_opaque(i, s)
          PROVE  opFaults' = opFaults
      BY <2>7 DEF load_tokens, load_opaque_keys, delete_orphan, load_done, load_opaque, opWorld
    <2>8. ASSUME NEW i \in OpInstances, OpCrash(i) PROVE opFaults' = opFaults + 1
      BY <2>8 DEF OpCrash
    <2>9. CASE UNCHANGED opVars
      BY <2>9 DEF opVars
    <2> QED BY <2>1, <2>2, <2>3, <2>4, <2>5, <2>6, <2>7, <2>8, <2>9 DEF OpNext
  <1>2. opFaults' \in Nat /\ (opFaults' = 0 => opFaults = 0 /\ opFaults' = opFaults)
    BY <1>1 DEF OpQuietInv
  <1>3. SUFFICES ASSUME OpQuiet, opFaults' = opFaults, opFaults \in Nat PROVE OpQuiet'
    BY <1>2 DEF OpQuietInv
  <1>4. ASSUME NEW r \in OpRequests, NEW p \in OpPairs, NEW brief \in BOOLEAN,
               build_opaque_response(r, p, brief)
        PROVE  OpQuiet'
    BY <1>0, <1>3, <1>4, OpQuietMint
  <1>5. ASSUME NEW r \in OpRequests, NEW i \in OpInstances,
               \/ \E u \in OpUsers, s \in OpSessions : opaque_token_handler(r, i, u, s)
               \/ \E side \in {"acc", "ref"}, p \in OpPairs : resolve_opaque(r, i, side, p)
        PROVE  OpQuiet'
    <2>1. OpHomed(home)'
      BY <1>0, <1>5, OpDoLogin, OpDoResolve
    <2> QED BY <1>0, <1>3, <1>5, <2>1, OpQuietArrive
  <1>6. ASSUME NEW r \in OpRequests,
               load_inverse(r) \/ load_opaque_mapping(r) \/ hydrate_opaque(r)
        PROVE  OpQuiet'
    <2>1. OpHomed(home)'
      BY <1>0, <1>6, OpDoInverse, OpDoForward, OpDoHydrate
    <2> QED BY <1>0, <1>3, <1>6, <2>1, OpQuietLookup
  <1>7. ASSUME NEW r \in OpRequests,
               \/ bearer_auth_middleware(r) \/ handle_opaque_refresh(r) \/ OpFinish(r)
               \/ OpHangUp(r)
        PROVE  OpQuiet'
    <2>1. OpHomed(home)'
      BY <1>0, <1>7, OpDoServe, OpDoRefresh, OpDoEnd
    <2>2. OpHangUp(r) => opReq[r].pc = "mint"
      BY <1>3 DEF OpHangUp
    <2> QED BY <1>0, <1>3, <1>7, <2>1, <2>2, OpQuietAnswer
  <1>8. ASSUME NEW r \in OpRequests,
               \/ expire_opaque_access(r) \/ remove_opaque_for_session(r) \/ recover_opaques(r)
               \/ \E i \in OpInstances, s \in OpSessions : purge_expired(r, i, s)
        PROVE  OpQuiet'
    <2>1. OpHomed(home)'
      BY <1>0, <1>8, OpDoExpire, OpDoRemove, OpDoRecover, OpDoPurge
    <2> QED BY <1>0, <1>3, <1>8, <2>1, OpQuietRemove
  <1>9. ASSUME NEW r \in OpRequests, OpWork(r) PROVE OpQuiet'
    BY <1>0, <1>3, <1>9, OpQuietWork
  <1>10. ASSUME NEW side \in {"acc", "ref"}, NEW p \in OpPairs, OpLapse(side, p) PROVE OpQuiet'
    BY <1>0, <1>3, <1>10, OpQuietLapse
  <1>11. CASE UNCHANGED <<opMap, opFwd, opInv, opLapsed, opHeld, opReq, opBoot>>
    BY <1>3, <1>11 DEF OpQuiet, OpListsOK, OpMintsOK, OpMappingsOK
  <1>12. ASSUME NEW i \in OpInstances,
                \/ OpCrash(i) \/ load_tokens(i) \/ load_opaque_keys(i)
                \/ delete_orphan(i) \/ load_done(i) \/ \E s \in OpSessions : load_opaque(i, s)
         PROVE  FALSE
    <2>1. opBoot[i].pc = "up" /\ opBoot[i].todo = <<>>
      BY <1>0, <1>3 DEF OpQuiet, OpHomed, OpBootsOK, OpBootOK
    <2>2. ~OpCrash(i)
      BY <1>3 DEF OpCrash
    <2> QED BY <1>12, <2>1, <2>2 DEF load_tokens, load_opaque_keys, delete_orphan, load_done,
                                     load_opaque
  <1>13. ASSUME NEW r \in OpRequests, NEW i \in OpInstances, exchange_refused(r, i) PROVE OpQuiet'
    BY <1>11, <1>13 DEF exchange_refused, opVars
  <1>14. ASSUME NEW s \in OpSessions, OpGrantDies(s) PROVE OpQuiet'
    BY <1>11, <1>14 DEF OpGrantDies, opIndex, opBackend
  <1>15. CASE UNCHANGED opVars
    BY <1>11, <1>15 DEF opVars
  <1> QED BY <1>4, <1>5, <1>6, <1>7, <1>8, <1>9, <1>10, <1>12, <1>13, <1>14, <1>15 DEF OpNext

\* It holds in every state.
LEMMA OpQuietAlways == OpSpec => []OpQuietInv
  <1>1. OpInit => OpQuietInv
    <2> SUFFICES ASSUME OpInit PROVE OpQuietInv
      OBVIOUS
    <2>1. \A r \in OpRequests : opReq[r].pc = "idle"
      BY DEF OpInit, OpIdle
    <2>2. OpListsOK
      BY <2>1 DEF OpListsOK, OpBrought
    <2>3. OpMintsOK
      BY <2>1 DEF OpMintsOK, OpMinting, OpUnwritten
    <2>4. OpMappingsOK
      BY OpAssumption DEF OpInit, OpMappingsOK
    <2>5. opFaults = 0 /\ \A i \in OpInstances : opBoot[i].pc = "up"
      BY DEF OpInit, OpRunning
    <2> QED BY <2>2, <2>3, <2>4, <2>5 DEF OpQuietInv, OpQuiet
  <1> QED BY <1>1, OpQuietStep, OpAlways, PTL DEF OpSpec

\* When no request is working off a list and none was interrupted, every token of a
\* persisted mapping that is still good has its inverse entry, so that every instance
\* resolves it (auth/store.rs store_opaque_mapping writes the forward mapping first and
\* deletes the inverse entries of the mapping it replaces last).
THEOREM MappingAlwaysResolvable == OpSpec => []MappingResolvable
  <1>1. OpQuietInv => MappingResolvable
    BY DEF OpQuietInv, OpQuiet, OpMappingsOK, OpWrites, MappingResolvable
  <1> QED BY <1>1, OpQuietAlways, PTL


-----------------------------------------------------------------------------
(***************************************************************************)
(* Types.  All but the bound on faults follow from OpInv; the bound needs  *)
(* that only finitely many lifetimes are over, whatever the set of pairs.  *)
(***************************************************************************)

OpCounted == IsFiniteSet(opLapsed) /\ opFaults \in 0 .. OpMaxEvents

\* A step either lets lifetimes end, two at most, or has one more fault, which OpEvent
\* allows, or does neither.
LEMMA OpCounts ==
    ASSUME [OpNext]_opVars
    PROVE  \/ UNCHANGED <<opLapsed, opFaults>>
           \/ /\ opFaults' = opFaults
              /\ \E p : opLapsed' \subseteq (opLapsed \cup {<<"acc", p>>}) \cup {<<"ref", p>>}
           \/ opLapsed' = opLapsed /\ OpEvent /\ opFaults' = opFaults + 1
  <1> DEFINE Counts ==
          \/ UNCHANGED <<opLapsed, opFaults>>
          \/ /\ opFaults' = opFaults
             /\ \E p : opLapsed' \subseteq (opLapsed \cup {<<"acc", p>>}) \cup {<<"ref", p>>}
          \/ opLapsed' = opLapsed /\ OpEvent /\ opFaults' = opFaults + 1
  <1>1. ASSUME NEW r \in OpRequests, NEW i \in OpInstances, NEW u \in OpUsers, NEW s \in OpSessions,
               opaque_token_handler(r, i, u, s)
        PROVE  Counts
    BY <1>1 DEF opaque_token_handler
  <1>2. ASSUME NEW r \in OpRequests, NEW i \in OpInstances, exchange_refused(r, i) PROVE Counts
    BY <1>2 DEF exchange_refused, opVars
  <1>3. ASSUME NEW r \in OpRequests, NEW i \in OpInstances, NEW side \in {"acc", "ref"},
               NEW p \in OpPairs, resolve_opaque(r, i, side, p)
        PROVE  Counts
    BY <1>3 DEF resolve_opaque, opWorld
  <1>4. ASSUME NEW r \in OpRequests, NEW i \in OpInstances, NEW s \in OpSessions,
               purge_expired(r, i, s)
        PROVE  Counts
    BY <1>4 DEF purge_expired
  <1>5. ASSUME NEW r \in OpRequests, NEW p \in OpPairs, NEW brief \in BOOLEAN,
               build_opaque_response(r, p, brief)
        PROVE  Counts
    <2>1. /\ opLapsed' = IF brief THEN opLapsed \cup {<<"acc", p>>} ELSE opLapsed
          /\ opFaults' = opFaults
      BY <1>5 DEF build_opaque_response
    <2>2. opLapsed' \subseteq (opLapsed \cup {<<"acc", p>>}) \cup {<<"ref", p>>}
      BY <2>1
    <2> QED BY <2>1, <2>2
  <1>6. ASSUME NEW r \in OpRequests,
               \/ expire_opaque_access(r) \/ load_inverse(r) \/ load_opaque_mapping(r)
               \/ hydrate_opaque(r) \/ bearer_auth_middleware(r) \/ handle_opaque_refresh(r)
               \/ remove_opaque_for_session(r) \/ recover_opaques(r) \/ OpFinish(r)
        PROVE  Counts
    <2>1. UNCHANGED opWorld
      BY <1>6 DEF expire_opaque_access, load_inverse, load_opaque_mapping, hydrate_opaque,
                  bearer_auth_middleware, handle_opaque_refresh, remove_opaque_for_session,
                  recover_opaques, OpFinish
    <2> QED BY <2>1 DEF opWorld
  <1>7. ASSUME NEW r \in OpRequests, OpWork(r) PROVE Counts
    BY <1>7 DEF OpWork
  <1>8. ASSUME NEW r \in OpRequests, OpHangUp(r) PROVE Counts
    BY <1>8 DEF OpHangUp
  <1>9. ASSUME NEW side \in {"acc", "ref"}, NEW p \in OpPairs, OpLapse(side, p) PROVE Counts
    <2>1. /\ opLapsed' = opLapsed \cup ((IF side = "acc" THEN {"acc"} ELSE {"acc", "ref"}) \X {p})
          /\ opFaults' = opFaults
      BY <1>9 DEF OpLapse
    <2>2. opLapsed' \subseteq (opLapsed \cup {<<"acc", p>>}) \cup {<<"ref", p>>}
      BY <2>1
    <2> QED BY <2>1, <2>2
  <1>10. ASSUME NEW s \in OpSessions, OpGrantDies(s) PROVE Counts
    BY <1>10 DEF OpGrantDies
  <1>11. ASSUME NEW i \in OpInstances, OpCrash(i) PROVE Counts
    BY <1>11 DEF OpCrash
  <1>12. ASSUME NEW i \in OpInstances,
                \/ load_tokens(i) \/ load_opaque_keys(i) \/ delete_orphan(i) \/ load_done(i)
                \/ \E s \in OpSessions : load_opaque(i, s)
         PROVE  Counts
    <2>1. UNCHANGED opWorld
      BY <1>12 DEF load_tokens, load_opaque_keys, delete_orphan, load_done, load_opaque
    <2> QED BY <2>1 DEF opWorld
  <1>13. ASSUME UNCHANGED opVars PROVE Counts
    BY <1>13 DEF opVars
  <1> HIDE DEF Counts
  <1>14. Counts
    BY <1>1, <1>2, <1>3, <1>4, <1>5, <1>6, <1>7, <1>8, <1>9, <1>10, <1>11, <1>12, <1>13 DEF OpNext
  <1> QED BY <1>14 DEF Counts

\* Faults stay within their bound, and only finitely many lifetimes are over.
LEMMA OpCountedAlways == OpSpec => []OpCounted
  <1>1. OpInit => OpCounted
    BY OpAssumption, FS_EmptySet DEF OpInit, OpCounted
  <1>2. ASSUME OpCounted, [OpNext]_opVars PROVE OpCounted'
    <2>1. CASE UNCHANGED <<opLapsed, opFaults>>
      BY <1>2, <2>1 DEF OpCounted
    <2>2. CASE /\ opFaults' = opFaults
               /\ \E p : opLapsed' \subseteq (opLapsed \cup {<<"acc", p>>}) \cup {<<"ref", p>>}
      <3>1. PICK p : opLapsed' \subseteq (opLapsed \cup {<<"acc", p>>}) \cup {<<"ref", p>>}
        BY <2>2
      <3>2. IsFiniteSet(opLapsed \cup {<<"acc", p>>})
        BY <1>2, FS_AddElement DEF OpCounted
      <3>3. IsFiniteSet((opLapsed \cup {<<"acc", p>>}) \cup {<<"ref", p>>})
        BY <3>2, FS_AddElement
      <3>4. IsFiniteSet(opLapsed')
        BY <3>1, <3>3, FS_Subset
      <3> QED BY <1>2, <2>2, <3>4 DEF OpCounted
    <2>3. CASE opLapsed' = opLapsed /\ OpEvent /\ opFaults' = opFaults + 1
      <3> DEFINE over == {x \in opLapsed : x[1] = "acc"}
      <3>1. IsFiniteSet(over)
        BY <1>2, FS_Subset DEF OpCounted
      <3>2. Cardinality(over) \in Nat
        BY <3>1, FS_CardinalityType
      <3>3. opFaults + Cardinality(over) < OpMaxEvents
        BY <2>3 DEF OpEvent
      <3> HIDE DEF over
      <3>4. opFaults + 1 \in 0 .. OpMaxEvents
        BY <1>2, <3>2, <3>3, OpAssumption DEF OpCounted
      <3> QED BY <1>2, <2>3, <3>4 DEF OpCounted
    <2> QED BY <1>2, <2>1, <2>2, <2>3, OpCounts
  <1> QED BY <1>1, <1>2, PTL DEF OpSpec

\* The index, the backend, the grants and the pairs stay what their Rust types make
\* them; a request carries at each await the pair and the session the code after it
\* uses, and has backend operations left to do as long as it works off a list; a boot
\* has read mappings, and owes the deletion of orphans, only once it has read its keys
\* (auth/store.rs OpaqueIndex, load_persisted).
THEOREM OpTypeCorrect == OpSpec => []OpTypeOK
  <1>1. OpInv /\ OpCounted => OpTypeOK
    BY DEF OpInv, OpHomed, OpIndexOK, OpBackendOK, OpWorldOK, OpRequestsOK, OpReqOK, OpBootsOK,
           OpBootOK, OpCounted, OpTypeOK
  <1> QED BY <1>1, OpAlways, OpCountedAlways, PTL
=============================================================================
