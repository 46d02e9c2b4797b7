--------------------------- MODULE SessionBindings ---------------------------
(***************************************************************************)
(* Resource-server mode (auth/binding.rs and the resource-server branch of *)
(* auth/middleware.rs).  The server keeps no token; what it keeps is which *)
(* verified identity opened which protocol session, on each instance in a  *)
(* bounded table and in a shared record.                                   *)
(*                                                                         *)
(* A request is validated, its claim reads the local table under the read  *)
(* lock, then the shared record, then writes the local table under the     *)
(* write lock; the shared record is written by a detached task.  Every     *)
(* step between two awaits is one action.                                  *)
(***************************************************************************)
EXTENDS Integers, FiniteSets

CONSTANTS
    BindInstances,    \* the server processes
    BindSessions,     \* protocol session ids a client may send
    BindIdentities,   \* credential_session_key values of genuine bearers
    BindRequests,     \* request slots
    BindArrivals,     \* bound: the (instance, session, identity) that may arrive
    NoOne,            \* no identity: an empty table entry or record
    BindTtl,          \* the ttl of a binding, in clock ticks
    BindMaxEntries,   \* SESSION_BINDING_MAX_ENTRIES
    BindMaxWrites,    \* bound: detached writes pending at once
    BindMaxFaults     \* bound: crashes, failed or garbled backend calls

ASSUME BindAssumption ==
    /\ NoOne \notin BindIdentities \cup BindInstances \cup BindSessions
    /\ BindArrivals \subseteq BindInstances \X BindSessions \X BindIdentities
    /\ IsFiniteSet(BindSessions) /\ BindTtl \in Nat
    /\ BindMaxEntries \in Nat \ {0}
    /\ BindMaxWrites \in Nat
    /\ BindMaxFaults \in Nat

VARIABLES
    bindings,     \* bindings[i][s]: the Binding instance i holds for s
    bindRecord,   \* bindRecord[s]: the shared record in NS_SESSION_BINDING
    bindReq,      \* the requests in flight
    bindWrites,   \* detached write-through tasks that have not run yet
    bindFaults    \* faults so far

bindVars == <<bindings, bindRecord, bindReq, bindWrites, bindFaults>>

\* An entry and the time it has left: expires_at minus now, 0 once expired.
Binding == [identity : BindIdentities \cup {NoOne}, left : 0 .. BindTtl]
Unbound == [identity |-> NoOne, left |-> 0]
BindingOf(y) == [identity |-> y, left |-> BindTtl]
Held(b) == {s \in BindSessions : b[s].identity # NoOne}
Live(e) == e.identity # NoOne /\ e.left > 0

\* A request slot.  peer is the identity the claim is about to remember.
BindRequest == [pc : {"idle", "cold", "peer", "own", "served", "refused"},
                inst : BindInstances \cup {NoOne}, session : BindSessions \cup {NoOne},
                who : BindIdentities \cup {NoOne}, peer : BindIdentities \cup {NoOne}]
BindIdle == [pc |-> "idle", inst |-> NoOne, session |-> NoOne, who |-> NoOne,
             peer |-> NoOne]

BindInit ==
    /\ bindings = [i \in BindInstances |-> [s \in BindSessions |-> Unbound]]
    /\ bindRecord = [s \in BindSessions |-> Unbound]
    /\ bindReq = [r \in BindRequests |-> BindIdle]
    /\ bindWrites = {}
    /\ bindFaults = 0

BindFault == bindFaults < BindMaxFaults /\ bindFaults' = bindFaults + 1
BindGoto(r, pc) == bindReq' = [bindReq EXCEPT ![r].pc = pc, ![r].peer = NoOne]
BindRefuse(r) == bindReq' = [bindReq EXCEPT ![r] = [BindIdle EXCEPT !.pc = "refused"]]

-----------------------------------------------------------------------------
(* A bearer arrives.  One the issuer's keys do not vouch for is answered   *)
(* 401 and leaves no trace, and a request without mcp-session-id runs      *)
(* under an id derived from its own credential and claims nothing: neither *)
(* is a step of this module.  Otherwise the claim starts with the hot      *)
(* path: the clock and the local table, under the read lock.  A live entry *)
(* of another identity refuses; the claimant's own entry admits it, unless *)
(* it is past half-life, when the claim goes on to renew it.               *)
authorize_as_resource_server(r, i, s, y) ==
    LET e == bindings[i][s]
        claim(pc) == bindReq' = [bindReq EXCEPT ![r] =
            [pc |-> pc, inst |-> i, session |-> s, who |-> y, peer |-> NoOne]]
    IN
    /\ bindReq[r].pc = "idle"
    /\ \/ Live(e) /\ e.identity # y /\ BindRefuse(r)
       \/ Live(e) /\ e.identity = y /\ 2 * e.left > BindTtl /\ claim("served")
       \/ Live(e) /\ e.identity = y /\ 2 * e.left <= BindTtl /\ claim("cold")
       \/ ~Live(e) /\ claim("cold")
    /\ UNCHANGED <<bindings, bindRecord, bindWrites, bindFaults>>

\* Cold path: the shared record.  A live record decides whose session it is;
\* none, an unreadable one and a backend error leave it unclaimed (fail open).
claim_cold(r) ==
    LET q == bindReq[r]
        live == Live(bindRecord[q.session])
        unclaimed == bindReq' = [bindReq EXCEPT ![r].pc = "own", ![r].peer = q.who]
    IN
    /\ q.pc = "cold"
    /\ \/ /\ live
          /\ bindReq' = [bindReq EXCEPT ![r].pc = "peer",
                                        ![r].peer = bindRecord[q.session].identity]
          /\ UNCHANGED bindFaults
       \/ ~live /\ unclaimed /\ UNCHANGED bindFaults
       \/ BindFault /\ unclaimed
    /\ UNCHANGED <<bindings, bindRecord, bindWrites>>

\* The sets of entries that may survive an insertion of s: a full table drops
\* its expired entries, then the ones closest to expiring.
Survivors(b, s) ==
    IF Cardinality(Held(b)) < BindMaxEntries \/ s \in Held(b)
    THEN {Held(b)}
    ELSE LET live == {x \in Held(b) : Live(b[x])}
             room == IF Cardinality(live) < BindMaxEntries
                     THEN Cardinality(live) ELSE BindMaxEntries - 1
         IN  {k \in SUBSET live :
                 /\ Cardinality(k) = room
                 /\ \A out \in live \ k, x \in k : b[out].left <= b[x].left}

\* Mutant: only expired entries are dropped from a full table.
remember_retain_only(i, s, y) ==
    bindings' = [bindings EXCEPT ![i] =
        [x \in BindSessions |-> IF x = s THEN BindingOf(y)
                                ELSE IF Live(bindings[i][x]) THEN bindings[i][x]
                                ELSE Unbound]]

\* Insert or renew the entry of s on instance i, under the write lock.
remember(i, s, y) ==
    \E keep \in Survivors(bindings[i], s) :
        bindings' = [bindings EXCEPT ![i] =
            [x \in BindSessions |-> IF x = s THEN BindingOf(y)
                                    ELSE IF x \in keep THEN bindings[i][x]
                                    ELSE Unbound]]

\* Mutant: the record's identity is remembered and never compared.
claim_peer_unchecked(r) ==
    LET q == bindReq[r]
    IN
    /\ q.pc = "peer"
    /\ remember(q.inst, q.session, q.peer)
    /\ BindGoto(r, "served")
    /\ UNCHANGED <<bindRecord, bindWrites, bindFaults>>

\* The record's verdict is remembered whichever way it goes; the record itself
\* keeps the expiry it had.
claim_peer(r) ==
    LET q == bindReq[r]
    IN
    /\ q.pc = "peer"
    /\ remember(q.inst, q.session, q.peer)
    /\ IF q.peer = q.who THEN BindGoto(r, "served") ELSE BindRefuse(r)
    /\ UNCHANGED <<bindRecord, bindWrites, bindFaults>>

\* The session was unclaimed: remember the claimant and spawn the write.
claim_own(r) ==
    LET q == bindReq[r]
    IN
    /\ q.pc = "own"
    /\ Cardinality(bindWrites) < BindMaxWrites
    /\ remember(q.inst, q.session, q.who)
    /\ bindWrites' = bindWrites \cup {[inst |-> q.inst, session |-> q.session, who |-> q.who]}
    /\ BindGoto(r, "served")
    /\ UNCHANGED <<bindRecord, bindFaults>>

\* The detached task runs: the record is set with a full ttl, or the write fails.
claim_write(w) ==
    /\ w \in bindWrites
    /\ bindWrites' = bindWrites \ {w}
    /\ \/ /\ bindRecord' = [bindRecord EXCEPT ![w.session] = BindingOf(w.who)]
          /\ UNCHANGED bindFaults
       \/ BindFault /\ UNCHANGED bindRecord
    /\ UNCHANGED <<bindings, bindReq>>

\* The handler has answered, or the client hung up at an await.
BindFinish(r) ==
    /\ bindReq[r].pc # "idle"
    /\ bindReq' = [bindReq EXCEPT ![r] = BindIdle]
    /\ UNCHANGED <<bindings, bindRecord, bindWrites, bindFaults>>

\* An instance restarts: its table, its requests and its detached writes are gone.
BindCrash(i) ==
    /\ BindFault
    /\ bindings' = [bindings EXCEPT ![i] = [s \in BindSessions |-> Unbound]]
    /\ bindReq' = [r \in BindRequests |->
                      IF bindReq[r].inst = i THEN BindIdle ELSE bindReq[r]]
    /\ bindWrites' = {w \in bindWrites : w.inst # i}
    /\ UNCHANGED bindRecord

Older(e) == [e EXCEPT !.left = IF @ > 0 THEN @ - 1 ELSE 0]

\* Time passes: every entry ages; the backend drops a record whose ttl is up,
\* an expired entry of a table stays until it is looked at or evicted.
BindTick ==
    /\ bindings' = [i \in BindInstances |-> [s \in BindSessions |-> Older(bindings[i][s])]]
    /\ bindRecord' = [s \in BindSessions |-> IF bindRecord[s].left <= 1 THEN Unbound
                                             ELSE Older(bindRecord[s])]
    /\ UNCHANGED <<bindReq, bindWrites, bindFaults>>

BindNext ==
    \/ \E r \in BindRequests :
           \/ \E a \in BindArrivals : authorize_as_resource_server(r, a[1], a[2], a[3])
           \/ claim_cold(r) \/ claim_peer(r) \/ claim_own(r) \/ BindFinish(r)
    \/ \E w \in bindWrites : claim_write(w)
    \/ \E i \in BindInstances : BindCrash(i)
    \/ BindTick

BindSpec == BindInit /\ [][BindNext]_bindVars

-----------------------------------------------------------------------------
BindTypeOK ==
    /\ bindings \in [BindInstances -> [BindSessions -> Binding]]
    /\ bindRecord \in [BindSessions -> Binding]
    /\ bindReq \in [BindRequests -> BindRequest]
    /\ bindWrites \subseteq [inst : BindInstances, session : BindSessions, who : BindIdentities]
    /\ bindFaults \in Nat

\* The session is settled on x: the record is live and names x, and no table, claim
\* under way or detached write names anybody else.
Settled(s, x) ==
    /\ Live(bindRecord[s]) /\ bindRecord[s].identity = x
    /\ \A i \in BindInstances : Live(bindings[i][s]) => bindings[i][s].identity = x
    /\ \A w \in bindWrites : w.session = s => w.who = x
    /\ \A r \in BindRequests :
           bindReq[r].session = s /\ bindReq[r].pc \in {"peer", "own"} => bindReq[r].peer = x

\* A claim is admitted in this step.
Admitted(r) == bindReq[r].pc # "served" /\ bindReq'[r].pc = "served"

\* A claim goes on as if s were unclaimed although the record says whose it is: the
\* backend failed or the record is unreadable ("Fail open").
FailsOpen(s) ==
    \E r \in BindRequests : /\ bindReq[r].session = s /\ Live(bindRecord[s])
                            /\ bindReq[r].pc = "cold" /\ bindReq'[r].pc = "own"

\* A settled session stays its owner's for as long as the record lives: through
\* crashes, evictions from full tables, renewals and lost writes nobody else is
\* admitted on any instance and the session stays settled, unless a claim fails open
\* (binding.rs claim: "a peer instance enforces the same binding").
SettledSessionKept ==
    [][\A s \in BindSessions, x \in BindIdentities :
           Settled(s, x) /\ Live(bindRecord'[s]) /\ ~FailsOpen(s) =>
               /\ Settled(s, x)'
               /\ \A r \in BindRequests :
                      Admitted(r) /\ bindReq'[r].session = s => bindReq'[r].who = x]_bindVars

\* The table of an instance never grows past max_entries, whatever is live in
\* it when a new session arrives (binding.rs remember).
TableBounded ==
    \A i \in BindInstances : Cardinality(Held(bindings[i])) <= BindMaxEntries
=============================================================================
