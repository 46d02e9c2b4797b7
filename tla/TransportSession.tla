-------------------------- MODULE TransportSession --------------------------
(***************************************************************************)
(* Recovery of protocol sessions (transport/session_persistence.rs) over   *)
(* the Redis backend (persistence_redis.rs).  rmcp stores a session once,  *)
(* when it is initialised, loads it on an instance that does not have it,  *)
(* and deletes it when the client ends it.  A load is two round trips, get *)
(* and touch, and a peer may delete the session, or its ttl may run out,   *)
(* between them.  The backend keeps, beside the keys, an index of the keys *)
(* it was given: keys() answers from the index.                            *)
(***************************************************************************)
EXTENDS Integers

CONSTANTS
    TsSessions,    \* protocol session ids; rmcp never reuses one
    TsLoads,       \* slots for loads in progress
    TsTtl          \* the ttl of a record, in clock ticks

ASSUME TsAssumption == TsTtl \in Nat \ {0}

VARIABLES
    tsTouches,    \* does the backend override PersistenceBackend::touch?
    tsLeft,       \* tsLeft[s]: ticks the record of s has left, 0 = no record
    tsIndex,      \* the members of the namespace index
    tsPhase,      \* history, tsPhase[s]: "new", "stored" or "deleted" (by rmcp)
    tsLoad        \* the loads in progress

tsVars == <<tsTouches, tsLeft, tsIndex, tsPhase, tsLoad>>

TsIdle == [pc |-> "idle", session |-> "none"]

TsInit ==
    /\ tsTouches \in BOOLEAN
    /\ tsLeft = [s \in TsSessions |-> 0]
    /\ tsIndex = {}
    /\ tsPhase = [s \in TsSessions |-> "new"]
    /\ tsLoad = [l \in TsLoads |-> TsIdle]

-----------------------------------------------------------------------------
\* Mutant: the value is written without being added to the index.
redis_set_unindexed(s) ==
    /\ tsLeft' = [tsLeft EXCEPT ![s] = TsTtl]
    /\ UNCHANGED tsIndex

\* SADD, SET and EXPIRE in one MULTI.
redis_set(s) ==
    /\ tsLeft' = [tsLeft EXCEPT ![s] = TsTtl]
    /\ tsIndex' = tsIndex \cup {s}

\* DEL and SREM in one MULTI.
redis_delete(s) ==
    /\ tsLeft' = [tsLeft EXCEPT ![s] = 0]
    /\ tsIndex' = tsIndex \ {s}

\* Mutant: re-arming writes the value again.
touch_by_set(s) ==
    IF tsTouches THEN redis_set(s) ELSE UNCHANGED <<tsLeft, tsIndex>>

\* Mutant: re-arming adds to the time that is left.
touch_adds(s) ==
    /\ tsLeft' = [tsLeft EXCEPT ![s] = IF tsTouches /\ @ > 0 THEN @ + TsTtl ELSE @]
    /\ UNCHANGED tsIndex

\* EXPIRE: re-arms a key that exists and does nothing to one that does not.
\* A backend without touch answers Unsupported and does nothing.
touch(s) ==
    /\ tsLeft' = [tsLeft EXCEPT ![s] = IF tsTouches /\ @ > 0 THEN TsTtl ELSE @]
    /\ UNCHANGED tsIndex

\* rmcp has initialised a session; the write fails or lands.
store(s) ==
    /\ tsPhase[s] = "new"
    /\ tsPhase' = [tsPhase EXCEPT ![s] = "stored"]
    /\ redis_set(s) \/ UNCHANGED <<tsLeft, tsIndex>>
    /\ UNCHANGED <<tsTouches, tsLoad>>

\* The client ends the session.
delete(s) ==
    /\ tsPhase[s] = "stored"
    /\ tsPhase' = [tsPhase EXCEPT ![s] = "deleted"]
    /\ redis_delete(s)
    /\ UNCHANGED <<tsTouches, tsLoad>>

\* load, first half: get.  Nothing there, or an error, ends the load.
load_get(l, s) ==
    /\ tsLoad[l].pc = "idle"
    /\ tsLeft[s] > 0
    /\ tsLoad' = [tsLoad EXCEPT ![l] = [pc |-> "read", session |-> s]]
    /\ UNCHANGED <<tsTouches, tsLeft, tsIndex, tsPhase>>

\* load, second half: touch.  Armed and Unsupported answer the state that was
\* read; Missing answers none; so does an error, whether EXPIRE ran or not.
load_touch(l) ==
    LET s == tsLoad[l].session
        answer(found) == tsLoad' = [tsLoad EXCEPT ![l].pc = IF found THEN "some" ELSE "none"]
    IN
    /\ tsLoad[l].pc = "read"
    /\ \/ touch(s) /\ answer(~tsTouches \/ tsLeft[s] > 0)
       \/ (touch(s) \/ UNCHANGED <<tsLeft, tsIndex>>) /\ answer(FALSE)
    /\ UNCHANGED <<tsTouches, tsPhase>>

\* rmcp has the answer, or the request was dropped between the round trips.
TsFinish(l) ==
    /\ tsLoad[l].pc # "idle"
    /\ tsLoad' = [tsLoad EXCEPT ![l] = TsIdle]
    /\ UNCHANGED <<tsTouches, tsLeft, tsIndex, tsPhase>>

\* Time passes.  A key that expires stays in the index.
TsTick ==
    /\ tsLeft' = [s \in TsSessions |-> IF tsLeft[s] > 0 THEN tsLeft[s] - 1 ELSE 0]
    /\ UNCHANGED <<tsTouches, tsIndex, tsPhase, tsLoad>>

TsNext ==
    \/ \E s \in TsSessions : store(s) \/ delete(s) \/ (\E l \in TsLoads : load_get(l, s))
    \/ \E l \in TsLoads : load_touch(l) \/ TsFinish(l)
    \/ TsTick

TsSpec == TsInit /\ [][TsNext]_tsVars

-----------------------------------------------------------------------------
TsTypeOK ==
    /\ tsTouches \in BOOLEAN
    /\ tsLeft \in [TsSessions -> 0 .. TsTtl]
    /\ tsIndex \subseteq TsSessions
    /\ tsPhase \in [TsSessions -> {"new", "stored", "deleted"}]
    /\ tsLoad \in [TsLoads -> [pc : {"idle", "read", "some", "none"},
                               session : TsSessions \cup {"none"}]]

\* The record of a session a client has ended never comes back: no load that was under
\* way when it was deleted re-creates it (session_persistence.rs load).  What that load
\* answers from the state it had read is not part of this.
DeletedStaysDeleted ==
    \A s \in TsSessions : tsPhase[s] = "deleted" => tsLeft[s] = 0

\* keys() lists every key that exists: a key is in the index as long as it is
\* readable, whatever expired, was re-armed or was deleted in between
\* (persistence_redis.rs set, touch, delete).
IndexCoversKeys ==
    \A s \in TsSessions : tsLeft[s] > 0 => s \in tsIndex
=============================================================================
