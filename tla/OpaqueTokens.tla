---------------------------- MODULE OpaqueTokens ----------------------------
(***************************************************************************)
(* Opaque mode: the client holds a pair of opaque tokens that stand for a  *)
(* session; the grant of the session stays with the server (auth/store.rs  *)
(* opaque section, auth/proxy.rs opaque handlers, the opaque branch of     *)
(* auth/middleware.rs).                                                    *)
(*                                                                         *)
(* Each instance keeps an index in memory; the backend keeps the forward   *)
(* mapping of a session and two inverse entries per pair.  Backend calls   *)
(* are made one after the other: a mutation changes the index under its    *)
(* lock and then works off a list of backend operations, and readers,      *)
(* peers, expiry, hang-ups, crashes and boots come in between.  A pair     *)
(* stands for both its tokens.  The grants themselves are module           *)
(* TokenRefresh: here a session's grant is present, and works or not.      *)
(***************************************************************************)
EXTENDS Integers, Sequences, FiniteSets

CONSTANTS
    OpInstances,   \* the server processes
    OpUsers,       \* users
    OpSessions,    \* session keys (fresh UUIDs, one per login)
    OpPairs,       \* opaque pairs (fresh UUIDs, one per token response)
    OpRequests,    \* request slots
    OpArrivals,    \* OpArrivals[r]: the <<kind, instance>> of what slot r may carry
    OpLogin,       \* OpLogin[s]: the user whose login draws key s
    OpMortal,      \* bound: the sessions whose grant may die
    OpRefreshers,  \* bound: the users whose client ever refreshes
    OpNone,        \* no session, no pair, no user
    OpSlack,       \* bound: such events leave that many pairs unused, a dying grant one more
    OpMaxEvents    \* bound: hang-ups, crashes and token lifetimes that end

ASSUME OpAssumption ==
    /\ OpNone \notin OpInstances \cup OpUsers \cup OpSessions \cup OpPairs \cup OpRequests
    /\ OpLogin \in [OpSessions -> OpUsers]
    /\ OpArrivals \in [OpRequests -> SUBSET ({"login", "acc", "ref", "purge"} \X OpInstances)]
    /\ OpMortal \subseteq OpSessions
    /\ OpRefreshers \subseteq OpUsers
    /\ OpSlack \in Nat /\ OpMaxEvents \in Nat

VARIABLES
    opAcc,      \* opAcc[i][p]: access_to_session
    opRef,      \* opRef[i][p]: refresh_to_session
    opMap,      \* opMap[i][s]: session_to_opaques
    opFwd,      \* backend NS_OPAQUE: the pair of a session
    opInv,      \* backend NS_OPAQUE_ACCESS and NS_OPAQUE_REFRESH
    opGrant,    \* opGrant[s]: the user whose grant is stored under s
    opDead,     \* sessions whose grant has expired and cannot be refreshed
    opLapsed,   \* <<"acc" or "ref", p>>: the lifetime of that token is over
    opOwner,    \* history, opOwner[p]: the user p was minted for
    opHeld,     \* pairs that reached their client
    opReq,      \* the requests
    opBoot,     \* instances that are loading, and what they have read
    opFaults    \* faults so far

opVars == <<opAcc, opRef, opMap, opFwd, opInv, opGrant, opDead, opLapsed, opOwner, opHeld,
            opReq, opBoot, opFaults>>
opIndex == <<opAcc, opRef, opMap>>
opBackend == <<opFwd, opInv>>
opWorld == <<opGrant, opDead, opLapsed, opOwner, opHeld, opFaults>>

OpIdle == [pc |-> "idle", inst |-> OpNone, kind |-> "none", pair |-> OpNone,
           session |-> OpNone, user |-> OpNone, todo |-> <<>>, next |-> "idle"]
OpRunning == [pc |-> "up", valid |-> {}, left |-> {}, got |-> {}, todo |-> <<>>]

OpInit ==
    /\ opAcc = [i \in OpInstances |-> [p \in OpPairs |-> OpNone]]
    /\ opRef = [i \in OpInstances |-> [p \in OpPairs |-> OpNone]]
    /\ opMap = [i \in OpInstances |-> [s \in OpSessions |-> OpNone]]
    /\ opFwd = [s \in OpSessions |-> OpNone]
    /\ opInv = [side \in {"acc", "ref"} |-> [p \in OpPairs |-> OpNone]]
    /\ opGrant = [s \in OpSessions |-> OpNone]
    /\ opDead = {}
    /\ opLapsed = {}
    /\ opOwner = [p \in OpPairs |-> OpNone]
    /\ opHeld = {}
    /\ opReq = [r \in OpRequests |-> OpIdle]
    /\ opBoot = [i \in OpInstances |-> OpRunning]
    /\ opFaults = 0

\* Slot r is free and the instance is up.
OpArrive(r, kind, i) ==
    /\ <<kind, i>> \in OpArrivals[r]
    /\ opReq[r].pc = "idle" /\ opBoot[i].pc = "up"

OpUnused == {p \in OpPairs : opOwner[p] = OpNone}
OpEvent ==
    /\ Cardinality(OpUnused) >= OpSlack
    /\ opFaults + Cardinality({x \in opLapsed : x[1] = "acc"}) < OpMaxEvents
OpSet(r, q) == opReq' = [opReq EXCEPT ![r] = q]
OpGoto(r, pc) == opReq' = [opReq EXCEPT ![r].pc = pc]
OpRefuse(r) == OpSet(r, OpIdle)

\* mutation_lock of instance i is free: no request there is between its change
\* of the index and the last of its backend operations.
OpUnlocked(i) == \A r \in OpRequests : ~(opReq[r].inst = i /\ opReq[r].pc \in {"recover", "work"})

-----------------------------------------------------------------------------
(* OpaqueIndex.                                                            *)

\* Mutant: the tokens of the mapping that is replaced stay in the index.
replace_session_keeps_tokens(i, s, new, live) ==
    /\ opMap' = [opMap EXCEPT ![i][s] = new]
    /\ opAcc' = [opAcc EXCEPT ![i] = [p \in OpPairs |-> IF p = new /\ live THEN s ELSE @[p]]]
    /\ opRef' = [opRef EXCEPT ![i] = [p \in OpPairs |-> IF p = new THEN s ELSE @[p]]]

\* remove_session followed by insert of pair new (OpNone: remove_session alone).
\* An access token that is not live any more is left out.
replace_session(i, s, new, live) ==
    LET old == opMap[i][s]
    IN
    /\ opMap' = [opMap EXCEPT ![i][s] = new]
    /\ opAcc' = [opAcc EXCEPT ![i] = [p \in OpPairs |->
           IF p = new /\ live THEN s ELSE IF p \in {old, new} THEN OpNone ELSE @[p]]]
    /\ opRef' = [opRef EXCEPT ![i] = [p \in OpPairs |->
           IF p = new THEN s ELSE IF p = old THEN OpNone ELSE @[p]]]

\* The backend operations that delete a mapping.
OpDelete(s, p) == <<<<"del_fwd", s, p>>, <<"del_acc", s, p>>, <<"del_ref", s, p>>>>

\* Mutant: the inverse entries hold the token in place of the session.
OpApply_token_for_session(op) ==
    LET s == op[2] p == op[3]
        inv(side, to) == opInv' = [opInv EXCEPT ![side][p] = to] /\ UNCHANGED opFwd
    IN
    \/ op[1] \in {"set_fwd", "del_fwd"} /\ UNCHANGED opInv
           /\ opFwd' = [opFwd EXCEPT ![s] = IF op[1] = "set_fwd" THEN p ELSE OpNone]
    \/ op[1] \in {"set_acc", "del_acc"} /\ inv("acc", IF op[1] = "set_acc" THEN p ELSE OpNone)
    \/ op[1] \in {"set_ref", "del_ref"} /\ inv("ref", IF op[1] = "set_ref" THEN p ELSE OpNone)

\* One backend operation.  An entry whose lifetime is over is not there.
OpApply(op) ==
    LET s == op[2] p == op[3]
        inv(side, to) == opInv' = [opInv EXCEPT ![side][p] = to] /\ UNCHANGED opFwd
    IN
    \/ op[1] = "set_fwd" /\ opFwd' = [opFwd EXCEPT ![s] = p] /\ UNCHANGED opInv
    \/ op[1] = "set_acc" /\ inv("acc", IF <<"acc", p>> \in opLapsed THEN OpNone ELSE s)
    \/ op[1] = "set_ref" /\ inv("ref", s)
    \/ op[1] = "del_fwd" /\ opFwd' = [opFwd EXCEPT ![s] = OpNone] /\ UNCHANGED opInv
    \/ op[1] = "del_acc" /\ inv("acc", OpNone)
    \/ op[1] = "del_ref" /\ inv("ref", OpNone)

\* One backend operation of the list; after the last the lock is released.
OpWork(r) ==
    LET q == opReq[r]
    IN
    /\ q.pc = "work"
    /\ OpApply(Head(q.todo))
    /\ IF Len(q.todo) > 1 THEN OpSet(r, [q EXCEPT !.todo = Tail(@)]) /\ UNCHANGED opHeld
       ELSE /\ OpSet(r, OpIdle)
            /\ opHeld' = IF q.next = "issued" THEN opHeld \cup {q.pair} ELSE opHeld
    /\ UNCHANGED <<opIndex, opGrant, opDead, opLapsed, opOwner, opBoot, opFaults>>

OpThen(q, todo, next) ==
    [q EXCEPT !.pc = "work", !.todo = todo, !.next = next, !.user = OpNone]

-----------------------------------------------------------------------------
(* Arrivals.                                                               *)

\* Mutant: every login lands on one session key.
login_shared_key(r, i, u, s) ==
    /\ OpArrive(r, "login", i)
    /\ s = CHOOSE x \in OpSessions : TRUE
    /\ opGrant' = [opGrant EXCEPT ![s] = u]
    /\ OpSet(r, [OpIdle EXCEPT !.pc = "mint", !.inst = i, !.kind = "login", !.session = s,
                        !.user = u])
    /\ UNCHANGED <<opIndex, opBackend, opDead, opLapsed, opOwner, opHeld, opBoot, opFaults>>

\* opaque_token_handler: the code was exchanged and the grant is stored under a
\* fresh session key; the pair is minted next.
opaque_token_handler(r, i, u, s) ==
    /\ OpArrive(r, "login", i)
    /\ u = OpLogin[s] /\ opGrant[s] = OpNone /\ s \notin opDead
    /\ \A x \in OpRequests : opReq[x].session # s
    /\ opFwd[s] = OpNone
    /\ opGrant' = [opGrant EXCEPT ![s] = u]
    /\ OpSet(r, [OpIdle EXCEPT !.pc = "mint", !.inst = i, !.kind = "login", !.session = s,
                        !.user = u])
    /\ UNCHANGED <<opIndex, opBackend, opDead, opLapsed, opOwner, opHeld, opBoot, opFaults>>

\* Keycloak refuses the exchange: its answer is passed on and nothing changes.
exchange_refused(r, i) ==
    /\ OpArrive(r, "login", i)
    /\ UNCHANGED opVars

\* A client uses its access token (bearer_auth_middleware) or its refresh token
\* (handle_opaque_refresh): the index is looked up first.  A cached token whose
\* time is over is expired, a cached refresh token takes its session with it.
resolve_opaque(r, i, side, p) ==
    LET s == IF side = "acc" THEN opAcc[i][p] ELSE opRef[i][p]
        q == [OpIdle EXCEPT !.inst = i, !.kind = side, !.pair = p, !.session = s,
                        !.user = opOwner[p]]
    IN
    /\ OpArrive(r, side, i) /\ p \in opHeld
    /\ side = "acc" \/ opOwner[p] \in OpRefreshers
    /\ \/ s # OpNone /\ <<side, p>> \notin opLapsed /\ OpSet(r, [q EXCEPT !.pc = "token"])
       \/ s # OpNone /\ <<side, p>> \in opLapsed
              /\ OpSet(r, [q EXCEPT !.pc = IF side = "acc" THEN "expire" ELSE "remove"])
       \/ s = OpNone /\ OpSet(r, [q EXCEPT !.pc = "inverse"])
    /\ UNCHANGED <<opIndex, opBackend, opWorld, opBoot>>

\* expire_opaque_access.
expire_opaque_access(r) ==
    LET q == opReq[r]
    IN
    /\ q.pc = "expire" /\ OpUnlocked(q.inst)
    /\ opAcc' = [opAcc EXCEPT ![q.inst][q.pair] = OpNone]
    /\ OpSet(r, OpThen(q, <<<<"del_acc", q.session, q.pair>>>>, "idle"))
    /\ UNCHANGED <<opRef, opMap, opBackend, opWorld, opBoot>>

\* Not in the index: the persisted inverse entry names the session ...
load_inverse(r) ==
    LET q == opReq[r]
        s == opInv[q.kind][q.pair]
    IN
    /\ q.pc = "inverse"
    /\ IF s = OpNone THEN OpRefuse(r)
       ELSE OpSet(r, [q EXCEPT !.pc = "forward", !.session = s])
    /\ UNCHANGED <<opIndex, opBackend, opWorld, opBoot>>

\* ... and the forward mapping has to confirm it; an entry it does not confirm is
\* deleted.
load_opaque_mapping(r) ==
    LET q == opReq[r]
        p == opFwd[q.session]
    IN
    /\ q.pc = "forward"
    /\ \/ p = OpNone /\ OpRefuse(r) /\ UNCHANGED opBackend
       \/ /\ p # OpNone /\ (p # q.pair \/ <<q.kind, p>> \in opLapsed)
          /\ OpApply(<<IF q.kind = "acc" THEN "del_acc" ELSE "del_ref", q.session, q.pair>>)
          /\ OpRefuse(r)
       \/ /\ p = q.pair /\ <<q.kind, p>> \notin opLapsed
          /\ OpGoto(r, "hydrate") /\ UNCHANGED opBackend
    /\ UNCHANGED <<opIndex, opWorld, opBoot>>

\* hydrate_opaque: under the index's own lock only.
hydrate_opaque(r) ==
    LET q == opReq[r]
    IN
    /\ q.pc = "hydrate"
    /\ IF <<"ref", q.pair>> \in opLapsed THEN UNCHANGED opIndex
       ELSE replace_session(q.inst, q.session, q.pair, <<"acc", q.pair>> \notin opLapsed)
    /\ OpGoto(r, "token")
    /\ UNCHANGED <<opBackend, opWorld, opBoot>>

\* get_token (module TokenRefresh) finds a grant that works.
get_token_ok(s) == opGrant[s] # OpNone /\ s \notin opDead

\* The access token is resolved: a grant that works serves the request, otherwise
\* the session's opaque tokens are removed.
bearer_auth_middleware(r) ==
    LET q == opReq[r]
    IN
    /\ q.pc = "token" /\ q.kind = "acc"
    /\ \/ ~get_token_ok(q.session) /\ OpGoto(r, "remove")
       \/ /\ get_token_ok(q.session)
          /\ OpSet(r, [q EXCEPT !.pc = "served", !.user = opGrant[q.session]])
    /\ UNCHANGED <<opIndex, opBackend, opWorld, opBoot>>

\* The refresh token is resolved: a grant that works lets it mint the next pair.
handle_opaque_refresh(r) ==
    LET q == opReq[r]
    IN
    /\ q.pc = "token" /\ q.kind = "ref"
    /\ OpGoto(r, IF get_token_ok(q.session) THEN "mint" ELSE "remove")
    /\ UNCHANGED <<opIndex, opBackend, opWorld, opBoot>>

\* Mutant: the inverse entries of the new pair are forgotten.
mint_todo_forward_only(s, p, old) == <<<<"set_fwd", s, p>>>>

\* store_opaque_mapping: forward first, then the inverse entries, then the
\* inverse entries of the pair it replaces.
mint_todo(s, p, old) ==
    <<<<"set_fwd", s, p>>, <<"set_acc", s, p>>, <<"set_ref", s, p>>>>
        \o (IF old = OpNone THEN <<>> ELSE Tail(OpDelete(s, old)))

\* A fresh pair; which of the unused ones makes no difference.
OpNextPair == IF OpUnused = {} THEN OpNone ELSE CHOOSE p \in OpUnused : TRUE

\* build_opaque_response: a fresh pair; the access token may be over at once (the
\* grant has less than a second left).
build_opaque_response(r, p, brief) ==
    LET q == opReq[r]
    IN
    /\ q.pc = "mint" /\ OpUnlocked(q.inst)
    /\ p = OpNextPair
    /\ opOwner' = [opOwner EXCEPT ![p] = q.user]
    /\ brief => OpEvent
    /\ opLapsed' = IF brief THEN opLapsed \cup {<<"acc", p>>} ELSE opLapsed
    /\ replace_session(q.inst, q.session, p, ~brief)
    /\ OpSet(r, OpThen([q EXCEPT !.pair = p],
                       mint_todo(q.session, p, opMap[q.inst][q.session]), "issued"))
    /\ UNCHANGED <<opBackend, opGrant, opDead, opHeld, opBoot, opFaults>>

\* remove_opaque_for_session: what the index does not know is read from the
\* forward mapping.
remove_opaque_for_session(r) ==
    LET q == opReq[r]
        old == opMap[q.inst][q.session]
    IN
    /\ q.pc = "remove" /\ OpUnlocked(q.inst)
    /\ replace_session(q.inst, q.session, OpNone, FALSE)
    /\ OpSet(r, IF old = OpNone THEN [q EXCEPT !.pc = "recover"]
                ELSE OpThen(q, OpDelete(q.session, old), "idle"))
    /\ UNCHANGED <<opBackend, opWorld, opBoot>>

recover_opaques(r) ==
    LET q == opReq[r]
        p == opFwd[q.session]
    IN
    /\ q.pc = "recover"
    /\ OpSet(r, OpThen(q, IF p = OpNone THEN <<<<"del_fwd", q.session, q.pair>>>>
                          ELSE OpDelete(q.session, p), "idle"))
    /\ UNCHANGED <<opIndex, opBackend, opWorld, opBoot>>

\* purge_expired of the cleanup task: a grant that is over goes, with the opaque
\* tokens the index has for it.
purge_expired(r, i, s) ==
    LET old == opMap[i][s]
    IN
    /\ OpArrive(r, "purge", i) /\ OpUnlocked(i)
    /\ s \in opDead /\ opGrant[s] # OpNone
    /\ opGrant' = [opGrant EXCEPT ![s] = OpNone]
    /\ replace_session(i, s, OpNone, FALSE)
    /\ OpSet(r, OpThen([OpIdle EXCEPT !.inst = i, !.kind = "purge", !.session = s],
                       IF old = OpNone THEN <<<<"del_fwd", s, OpNone>>>> ELSE OpDelete(s, old),
                       "idle"))
    /\ UNCHANGED <<opBackend, opDead, opLapsed, opOwner, opHeld, opBoot, opFaults>>

-----------------------------------------------------------------------------
(* Time, hang-ups, crashes and boots.                                      *)

OpFinish(r) ==
    /\ opReq[r].pc = "served"
    /\ OpSet(r, OpIdle)
    /\ UNCHANGED <<opIndex, opBackend, opWorld, opBoot>>

\* The client hangs up: what is left of the list is not done, the lock is free.
OpHangUp(r) ==
    /\ opReq[r].kind # "purge"
    /\ \/ opReq[r].pc = "mint" /\ UNCHANGED opFaults
       \/ opReq[r].pc \in {"recover", "work"} /\ OpEvent /\ opFaults' = opFaults + 1
    /\ OpSet(r, OpIdle)
    /\ UNCHANGED <<opIndex, opBackend, opGrant, opDead, opLapsed, opOwner, opHeld, opBoot>>

\* A token's lifetime ends: the backend drops its inverse entry; with the refresh
\* token, which lives longer, the access token is over and the forward mapping goes.
OpLapse(side, p) ==
    LET over == IF side = "acc" THEN {"acc"} ELSE {"acc", "ref"}
    IN
    /\ opOwner[p] # OpNone /\ <<side, p>> \notin opLapsed
    /\ OpEvent \/ <<"acc", p>> \in opLapsed
    /\ opLapsed' = opLapsed \cup (over \X {p})
    /\ opInv' = [x \in {"acc", "ref"} |->
                    IF x \in over THEN [opInv[x] EXCEPT ![p] = OpNone] ELSE opInv[x]]
    /\ opFwd' = [s \in OpSessions |-> IF side = "ref" /\ opFwd[s] = p THEN OpNone ELSE opFwd[s]]
    /\ UNCHANGED <<opIndex, opGrant, opDead, opOwner, opHeld, opReq, opBoot, opFaults>>

\* The grant of s expires and cannot be refreshed.
OpGrantDies(s) ==
    /\ s \in OpMortal /\ Cardinality(OpUnused) > OpSlack
    /\ opGrant[s] # OpNone /\ s \notin opDead
    /\ opDead' = opDead \cup {s}
    /\ UNCHANGED <<opIndex, opBackend, opGrant, opLapsed, opOwner, opHeld, opReq, opBoot, opFaults>>

OpCrash(i) ==
    /\ opBoot[i].pc = "up"
    /\ OpEvent /\ opFaults' = opFaults + 1
    /\ opAcc' = [opAcc EXCEPT ![i] = [p \in OpPairs |-> OpNone]]
    /\ opRef' = [opRef EXCEPT ![i] = [p \in OpPairs |-> OpNone]]
    /\ opMap' = [opMap EXCEPT ![i] = [s \in OpSessions |-> OpNone]]
    /\ opReq' = [r \in OpRequests |-> IF opReq[r].inst = i THEN OpIdle ELSE opReq[r]]
    /\ opBoot' = [opBoot EXCEPT ![i].pc = "tokens"]
    /\ UNCHANGED <<opBackend, opGrant, opDead, opLapsed, opOwner, opHeld>>

\* load_persisted: the sessions that have a token, then the keys of the mappings ...
load_tokens(i) ==
    /\ opBoot[i].pc = "tokens"
    /\ opBoot' = [opBoot EXCEPT ![i].pc = "keys",
                                ![i].valid = {s \in OpSessions : opGrant[s] # OpNone} \ opDead]
    /\ UNCHANGED <<opIndex, opBackend, opWorld, opReq>>

load_opaque_keys(i) ==
    /\ opBoot[i].pc = "keys"
    /\ opBoot' = [opBoot EXCEPT ![i].pc = "maps",
                                ![i].left = {s \in OpSessions : opFwd[s] # OpNone}]
    /\ UNCHANGED <<opIndex, opBackend, opWorld, opReq>>

\* ... then each mapping: without a token it is an orphan and is deleted ...
load_opaque(i, s) ==
    LET b == opBoot[i]
        p == opFwd[s]
        orphan == s \notin b.valid
    IN
    /\ b.pc = "maps" /\ b.todo = <<>> /\ s \in b.left
    /\ opBoot' = [opBoot EXCEPT ![i] =
           [b EXCEPT !.left = @ \ {s},
                     !.todo = IF p # OpNone /\ orphan THEN OpDelete(s, p) ELSE <<>>,
                     !.got = IF p # OpNone /\ ~orphan THEN @ \cup {<<s, p>>} ELSE @]]
    /\ UNCHANGED <<opIndex, opBackend, opWorld, opReq>>

delete_orphan(i) ==
    /\ opBoot[i].todo # <<>>
    /\ OpApply(Head(opBoot[i].todo))
    /\ opBoot' = [opBoot EXCEPT ![i].todo = Tail(@)]
    /\ UNCHANGED <<opIndex, opWorld, opReq>>

\* ... and what was read fills the index.
load_done(i) ==
    LET b == opBoot[i]
        at(p) == {x \in b.got : x[2] = p}
        of(s) == {x \in b.got : x[1] = s}
        pick(xs, n) == IF xs = {} THEN OpNone ELSE (CHOOSE x \in xs : TRUE)[n]
    IN
    /\ b.pc = "maps" /\ b.todo = <<>> /\ b.left = {}
    /\ opMap' = [opMap EXCEPT ![i] = [s \in OpSessions |-> pick(of(s), 2)]]
    /\ opRef' = [opRef EXCEPT ![i] = [p \in OpPairs |-> pick(at(p), 1)]]
    /\ opAcc' = [opAcc EXCEPT ![i] = [p \in OpPairs |->
                    IF <<"acc", p>> \in opLapsed THEN OpNone ELSE pick(at(p), 1)]]
    /\ opBoot' = [opBoot EXCEPT ![i] = OpRunning]
    /\ UNCHANGED <<opBackend, opWorld, opReq>>

OpNext ==
    \/ \E r \in OpRequests :
           \/ \E i \in OpInstances, u \in OpUsers, s \in OpSessions : opaque_token_handler(r, i, u, s)
           \/ \E i \in OpInstances : exchange_refused(r, i)
           \/ \E i \in OpInstances, side \in {"acc", "ref"}, p \in OpPairs : resolve_opaque(r, i, side, p)
           \/ \E i \in OpInstances, s \in OpSessions : purge_expired(r, i, s)
           \/ \E p \in OpPairs, brief \in BOOLEAN : build_opaque_response(r, p, brief)
           \/ expire_opaque_access(r) \/ load_inverse(r) \/ load_opaque_mapping(r)
           \/ hydrate_opaque(r) \/ bearer_auth_middleware(r) \/ handle_opaque_refresh(r)
           \/ remove_opaque_for_session(r)
           \/ recover_opaques(r) \/ OpWork(r) \/ OpFinish(r) \/ OpHangUp(r)
    \/ \E side \in {"acc", "ref"}, p \in OpPairs : OpLapse(side, p)
    \/ \E s \in OpSessions : OpGrantDies(s)
    \/ \E i \in OpInstances :
           \/ OpCrash(i) \/ load_tokens(i) \/ load_opaque_keys(i)
           \/ delete_orphan(i) \/ load_done(i)
           \/ \E s \in OpSessions : load_opaque(i, s)

OpSpec == OpInit /\ [][OpNext]_opVars

-----------------------------------------------------------------------------
\* Backend operations: what is done, the session and the pair.
OpSetOps == {"set_fwd", "set_acc", "set_ref"}
OpOps == (OpSetOps \cup {"del_fwd", "del_acc", "del_ref"}) \X OpSessions \X (OpPairs \cup {OpNone})

OpPcs == {"idle", "token", "expire", "remove", "inverse", "forward", "hydrate", "mint", "served",
          "recover", "work"}
OpRequest == [pc : OpPcs, inst : OpInstances \cup {OpNone},
              kind : {"none", "login", "acc", "ref", "purge"},
              pair : OpPairs \cup {OpNone}, session : OpSessions \cup {OpNone},
              user : OpUsers \cup {OpNone}, todo : Seq(OpOps), next : {"idle", "issued"}]

\* A request: what it carries at each position.
OpCarries(q) ==
    /\ q.pc # "idle" => q.inst \in OpInstances
    /\ q.pc \in {"expire", "remove", "recover", "inverse", "forward", "hydrate", "token", "served"}
           => q.pair \in OpPairs /\ q.kind \in {"acc", "ref"}
    /\ q.pc \in {"expire", "remove", "recover", "forward", "hydrate", "token", "served", "mint",
                 "work"} => q.session \in OpSessions
    /\ q.pc = "inverse" => q.session = OpNone
    /\ q.pc = "work" => q.todo # <<>> /\ (q.next = "issued" => q.pair \in OpPairs)

\* A boot: the sessions with a token, the mappings still to read, those read, and the
\* deletions of an orphan.
OpBootRec == [pc : {"up", "tokens", "keys", "maps"}, valid : SUBSET OpSessions,
              left : SUBSET OpSessions, got : SUBSET (OpSessions \X OpPairs), todo : Seq(OpOps)]

OpTypeOK ==
    /\ opAcc \in [OpInstances -> [OpPairs -> OpSessions \cup {OpNone}]]
    /\ opRef \in [OpInstances -> [OpPairs -> OpSessions \cup {OpNone}]]
    /\ opMap \in [OpInstances -> [OpSessions -> OpPairs \cup {OpNone}]]
    /\ opFwd \in [OpSessions -> OpPairs \cup {OpNone}]
    /\ opInv \in [{"acc", "ref"} -> [OpPairs -> OpSessions \cup {OpNone}]]
    /\ opGrant \in [OpSessions -> OpUsers \cup {OpNone}]
    /\ opDead \subseteq OpSessions
    /\ opLapsed \subseteq {"acc", "ref"} \X OpPairs
    /\ opOwner \in [OpPairs -> OpUsers \cup {OpNone}]
    /\ opHeld \subseteq OpPairs
    /\ opFaults \in 0 .. OpMaxEvents
    /\ opReq \in [OpRequests -> OpRequest] /\ \A r \in OpRequests : OpCarries(opReq[r])
    /\ opBoot \in [OpInstances -> OpBootRec]
    /\ \A i \in OpInstances :
           opBoot[i].pc # "maps" => opBoot[i].got = {} /\ opBoot[i].todo = <<>>

\* The three maps of the index agree: a token leads to the session whose mapping
\* it is in, so that replacing or removing a mapping takes both tokens with it,
\* whatever mix of mints, unlocked hydrates, expiries, purges and boots built the
\* index (store.rs OpaqueIndex: "a single RwLock to ensure atomicity").
IndexCoherent ==
    \A i \in OpInstances, p \in OpPairs, s \in OpSessions :
        /\ opAcc[i][p] = s => opMap[i][s] = p
        /\ opRef[i][p] = s <=> opMap[i][s] = p

\* A request is served as the user its opaque token was minted for, on every
\* instance, in whatever way the token was resolved (proxy.rs: sharing a session
\* key "collapsed every user").
OpaqueIsolation ==
    \A r \in OpRequests :
        opReq[r].pc = "served" => opReq[r].user = opOwner[opReq[r].pair]

\* No half-written mapping is left behind: when nothing is under way and nothing
\* was interrupted, the tokens of a persisted mapping that are still good can be
\* resolved by every instance (store.rs store_opaque_mapping).
MappingResolvable ==
    (/\ opFaults = 0
     /\ \A r \in OpRequests : opReq[r].pc # "work")
        => \A s \in OpSessions, p \in OpPairs : opFwd[s] = p =>
               /\ <<"acc", p>> \in opLapsed \/ opInv["acc"][p] = s
               /\ <<"ref", p>> \in opLapsed \/ opInv["ref"][p] = s
=============================================================================
