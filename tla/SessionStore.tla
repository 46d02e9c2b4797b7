---------------------------- MODULE SessionStore ----------------------------
(***************************************************************************)
(* SessionStore<T> (src/session/mod.rs) for ONE session id, replicated over *)
(* server instances that share a persistence backend.  Every operation runs *)
(* under the replica's mutation_lock, so a replica is a process running one *)
(* operation at a time: it takes the backend's lease, reads the record,     *)
(* merges it with its cache, writes the record back and releases the lease. *)
(*                                                                         *)
(* Session data is the set of updates applied to the default value; an     *)
(* update is used once.  Without a backend there is one replica and the    *)
(* mutation_lock alone orders it, so every replica here has the backend.    *)
(***************************************************************************)
EXTENDS Naturals, FiniteSets

CONSTANTS
    Instances,     \* replicas
    Updates,       \* bound: the closures given to update, each used once
    Events,        \* what may go wrong or happen besides, from EventKinds
    Free, Orphan,  \* lease values: nobody's, and a dead acquisition's
    None           \* no session, and no value in hand

EventKinds == {"crash", "lapse", "timeout", "backend", "remove", "expire"}

ASSUME SessionConstantsAssumption ==
    /\ Events \subseteq EventKinds
    /\ Free \notin Instances /\ Orphan \notin Instances /\ Free # Orphan
    /\ None \notin Updates /\ \A data \in SUBSET Updates : data # None

VARIABLES
    cache,    \* SessionStore::sessions of each replica
    aged,     \* the cached entry's last_access is a TTL ago
    record,   \* the backend's record in NS_SESSIONS
    overdue,  \* the record's expires_at_unix_ms has passed
    lease,    \* the backend's lease in NS_SESSION_LOCK
    holding,  \* a replica's lease: "lapsed" once its TTL has passed unnoticed
    pc,       \* where a replica is in its operation
    op,       \* the operation
    upd,      \* the closure of an update
    seen,     \* what the operation has read from the backend
    late,     \* a lease has ended while the replica waited
    unused,   \* updates nobody has made yet
    past,     \* ghost: the values the record has had
    acked     \* ghost: updates that returned, with a record, since it last went

local   == <<op, upd>>
ghosts  == <<past, acked>>
vars == <<cache, aged, record, overdue, lease, holding, pc, op, upd, seen, late,
          unused, past, acked>>

Data    == SUBSET Updates
OptData == Data \cup {None}

Ops    == {"none", "get_or_create", "get", "update", "remove", "purge"}
Leased == {"load", "expire", "apply", "persist", "delete", "release"}
Points == Leased \cup {"idle", "acquire", "start", "clean", "insert"}

Goto(i, p) == pc' = [pc EXCEPT ![i] = p]

\* The wait for the lease is over.
NotWaiting(i) == late' = [late EXCEPT ![i] = FALSE]

\* What the operation had in hand is dropped.
Forget(i) ==
    /\ op' = [op EXCEPT ![i] = "none"]
    /\ upd' = [upd EXCEPT ![i] = None]
    /\ seen' = [seen EXCEPT ![i] = None]

Failing == "backend" \in Events

-----------------------------------------------------------------------------
(***************************************************************************)
(* The record in the backend; a call that fails is only logged.            *)
(***************************************************************************)

\* The record is written, its deadline a TTL from now.
WriteRecord(data) ==
    /\ record' = data /\ overdue' = FALSE
    /\ past' = past \cup {data}
    /\ acked' = acked

\* The record is deleted.
DeleteRecord ==
    /\ record' = None /\ overdue' = FALSE
    /\ acked' = {}
    /\ past' = past

NoWrite == UNCHANGED <<record, overdue, ghosts>>

-----------------------------------------------------------------------------
(***************************************************************************)
(* An operation begins: its replica's mutation_lock is free.               *)
(***************************************************************************)

Begin(i, o) ==
    /\ pc[i] = "idle"
    /\ op' = [op EXCEPT ![i] = o]
    /\ Goto(i, "acquire")
    /\ UNCHANGED <<record, overdue, lease, holding, seen, late, ghosts>>

Update(i, u) ==
    /\ u \in unused
    /\ Begin(i, "update")
    /\ upd' = [upd EXCEPT ![i] = u]
    /\ unused' = unused \ {u}
    /\ UNCHANGED <<cache, aged>>

Access(i) ==
    /\ Begin(i, "get_or_create") \/ Begin(i, "get")
    /\ UNCHANGED <<cache, aged, upd, unused>>

Remove(i) ==
    /\ "remove" \in Events
    /\ Begin(i, "remove")
    /\ UNCHANGED <<cache, aged, upd, unused>>

\* Mutant: the record is looked at without the lease.
PurgeUnlocked(i) ==
    /\ cache[i] # None /\ aged[i] /\ pc[i] = "idle"
    /\ op' = [op EXCEPT ![i] = "purge"]
    /\ Goto(i, "load")
    /\ cache' = [cache EXCEPT ![i] = None]
    /\ aged' = [aged EXCEPT ![i] = FALSE]
    /\ UNCHANGED <<record, overdue, lease, holding, seen, late, ghosts, upd, unused>>

\* purge_expired drops the aged entry first, then looks at the record.
PurgeExpired(i) ==
    /\ cache[i] # None /\ aged[i]
    /\ Begin(i, "purge")
    /\ cache' = [cache EXCEPT ![i] = None]
    /\ aged' = [aged EXCEPT ![i] = FALSE]
    /\ UNCHANGED <<upd, unused>>

-----------------------------------------------------------------------------
(***************************************************************************)
(* acquire_persistence_lock and release_persistence_lock.                  *)
(***************************************************************************)

\* Mutant: SET without NX.
AcquireAnyway(i) ==
    /\ pc[i] = "acquire"
    /\ lease' = i
    /\ holding' = [holding EXCEPT ![i] = "held"]
    /\ NotWaiting(i)
    /\ Goto(i, "load")
    /\ UNCHANGED <<cache, aged, record, overdue, local, seen, unused, ghosts>>

Acquire(i) ==
    /\ pc[i] = "acquire" /\ lease = Free
    /\ lease' = i
    /\ holding' = [holding EXCEPT ![i] = "held"]
    /\ NotWaiting(i)
    /\ Goto(i, "load")
    /\ UNCHANGED <<cache, aged, record, overdue, local, seen, unused, ghosts>>

\* try_acquire_lock fails: the operation goes on without the lease.
AcquireError(i) ==
    /\ pc[i] = "acquire" /\ Failing
    /\ NotWaiting(i)
    /\ Goto(i, "load")
    /\ UNCHANGED <<cache, aged, record, overdue, lease, holding, local, seen, unused,
                   ghosts>>

\* Mutant: only a dead holder is given up on.
WaitTimeoutOnce(i) ==
    /\ pc[i] = "acquire" /\ "timeout" \in Events /\ lease = Orphan /\ late[i]
    /\ NotWaiting(i)
    /\ Goto(i, "load")
    /\ UNCHANGED <<cache, aged, record, overdue, lease, holding, local, seen, unused,
                   ghosts>>

\* SESSION_LOCK_WAIT has passed: the operation goes on without the lease. The
\* wait exceeds SESSION_LOCK_TTL, so some lease has ended meanwhile.
WaitTimeout(i) ==
    /\ pc[i] = "acquire" /\ "timeout" \in Events /\ lease # Free /\ late[i]
    /\ NotWaiting(i)
    /\ Goto(i, "load")
    /\ UNCHANGED <<cache, aged, record, overdue, lease, holding, local, seen, unused,
                   ghosts>>

LeaseEnds == late' = [j \in Instances |-> late[j] \/ pc[j] = "acquire"]

\* A dead acquisition stays in the backend under a UUID nobody will present.
Orphaned(i) == IF lease = i THEN Orphan ELSE lease

\* Mutant: release_lock deletes whatever is there.
ReleasedBlindly(i) == Free

\* release_lock is compare-and-delete.
ReleasedBy(i) == IF lease = i THEN Free ELSE lease

\* The operation returns; an update has succeeded as far as its caller knows.
Release(i) ==
    /\ pc[i] = "release"
    /\ IF holding[i] = "none"
       THEN UNCHANGED <<lease, late>>
       ELSE \/ /\ lease' = ReleasedBy(i)
               /\ IF lease = i THEN LeaseEnds ELSE late' = late
            \/ Failing /\ lease' = Orphaned(i) /\ late' = late
    /\ holding' = [holding EXCEPT ![i] = "none"]
    /\ acked' = IF op[i] = "update" /\ record # None THEN acked \cup {upd[i]} ELSE acked
    /\ Forget(i)
    /\ Goto(i, "idle")
    /\ UNCHANGED <<cache, aged, record, overdue, unused, past>>

-----------------------------------------------------------------------------
(***************************************************************************)
(* load_session_from_backend.                                              *)
(***************************************************************************)

\* What reading the record yields: nothing when the backend fails.
Readable == {record} \cup {x \in {None} : Failing}

\* A record past its deadline is deleted in a step of its own.
Load(i) ==
    /\ pc[i] = "load"
    /\ \E data \in Readable :
         IF data # None /\ overdue
         THEN Goto(i, "expire") /\ seen' = seen
         ELSE Goto(i, "apply") /\ seen' = [seen EXCEPT ![i] = data]
    /\ UNCHANGED <<cache, aged, record, overdue, lease, holding, local, late, unused,
                   ghosts>>

Expire(i) ==
    /\ pc[i] = "expire"
    /\ DeleteRecord \/ (Failing /\ NoWrite)
    /\ Goto(i, "apply")
    /\ UNCHANGED <<cache, aged, lease, holding, local, seen, late, unused>>

-----------------------------------------------------------------------------
(***************************************************************************)
(* The body of each operation: the cache is written, the record follows.   *)
(***************************************************************************)

\* Mutant: the cached entry wins over the record.
MergedCacheFirst(i) == IF cache[i] # None THEN cache[i] ELSE seen[i]

\* The record is authoritative; the cached entry stands in when there is none.
Merged(i) == IF seen[i] # None THEN seen[i] ELSE cache[i]

OrDefault(data) == IF data = None THEN {} ELSE data

Cache(i, data) ==
    /\ cache' = [cache EXCEPT ![i] = data]
    /\ aged' = [aged EXCEPT ![i] = FALSE]

\* The data is cached, and persisted in the next step.
Keep(i, data) ==
    /\ Cache(i, data)
    /\ Goto(i, "persist")
    /\ UNCHANGED <<record, overdue, lease, holding, local, seen, late, unused, ghosts>>

\* Mutant: nothing is created.
GetOrCreateNothing(i) ==
    /\ pc[i] = "apply" /\ op[i] = "get_or_create"
    /\ Keep(i, Merged(i))

GetOrCreate(i) ==
    /\ pc[i] = "apply" /\ op[i] = "get_or_create"
    /\ Keep(i, OrDefault(Merged(i)))

Get(i) ==
    /\ pc[i] = "apply" /\ op[i] = "get" /\ Merged(i) # None
    /\ Keep(i, Merged(i))

ApplyUpdate(i) ==
    /\ pc[i] = "apply" /\ op[i] = "update"
    /\ Keep(i, OrDefault(Merged(i)) \cup {upd[i]})

ApplyRemove(i) ==
    /\ pc[i] = "apply" /\ op[i] = "remove"
    /\ Cache(i, None)
    /\ Goto(i, IF Merged(i) # None THEN "delete" ELSE "release")
    /\ UNCHANGED <<record, overdue, lease, holding, local, seen, late, unused, ghosts>>

\* purge_expired only wanted the record looked at; get has found no session.
NothingToWrite(i) ==
    /\ pc[i] = "apply"
    /\ op[i] = "purge" \/ (op[i] = "get" /\ Merged(i) = None)
    /\ Goto(i, "release")
    /\ UNCHANGED <<cache, aged, record, overdue, lease, holding, local, seen, late, unused,
                   ghosts>>

Persist(i) ==
    /\ pc[i] = "persist"
    /\ WriteRecord(cache[i]) \/ (Failing /\ NoWrite)
    /\ Goto(i, "release")
    /\ UNCHANGED <<cache, aged, lease, holding, local, seen, late, unused>>

Delete(i) ==
    /\ pc[i] = "delete"
    /\ DeleteRecord \/ (Failing /\ NoWrite)
    /\ Goto(i, "release")
    /\ UNCHANGED <<cache, aged, lease, holding, local, seen, late, unused>>

-----------------------------------------------------------------------------
(***************************************************************************)
(* Crash, and load_persisted at the next start: no lease is taken.         *)
(***************************************************************************)

Crash(i) ==
    /\ "crash" \in Events
    /\ cache' = [cache EXCEPT ![i] = None]
    /\ aged' = [aged EXCEPT ![i] = FALSE]
    /\ lease' = Orphaned(i)
    /\ holding' = [holding EXCEPT ![i] = "none"]
    /\ NotWaiting(i)
    /\ Forget(i)
    /\ Goto(i, "start")
    /\ UNCHANGED <<record, overdue, unused, ghosts>>

\* A backend that fails here ends the start: the replica is started again.
LoadPersisted(i) ==
    /\ pc[i] = "start"
    /\ IF record # None /\ overdue
       THEN Goto(i, "clean") /\ seen' = seen
       ELSE Goto(i, "insert") /\ seen' = [seen EXCEPT ![i] = record]
    /\ UNCHANGED <<cache, aged, record, overdue, lease, holding, local, late, unused,
                   ghosts>>

CleanPersisted(i) ==
    /\ pc[i] = "clean"
    /\ \/ DeleteRecord /\ Goto(i, "insert")
       \/ Failing /\ NoWrite /\ Goto(i, "start")
    /\ UNCHANGED <<cache, aged, lease, holding, local, seen, late, unused>>

InsertPersisted(i) ==
    /\ pc[i] = "insert"
    /\ Cache(i, seen[i])
    /\ Forget(i)
    /\ Goto(i, "idle")
    /\ UNCHANGED <<record, overdue, lease, holding, late, unused, ghosts>>

-----------------------------------------------------------------------------
(***************************************************************************)
(* Time.                                                                   *)
(***************************************************************************)

\* The TTL of the lease: of a dead acquisition always, of a working holder
\* only when it outlasts SESSION_LOCK_TTL.
LeaseLapses ==
    /\ lease # Free
    /\ (lease \in Instances /\ holding[lease] = "held") => "lapse" \in Events
    /\ lease' = Free
    /\ holding' = [i \in Instances |->
                     IF i = lease /\ holding[i] = "held" THEN "lapsed" ELSE holding[i]]
    /\ LeaseEnds
    /\ UNCHANGED <<cache, aged, record, overdue, pc, local, seen, unused, ghosts>>

CacheAges(i) ==
    /\ "expire" \in Events /\ pc[i] # "persist"
    /\ cache[i] # None /\ ~aged[i]
    /\ aged' = [aged EXCEPT ![i] = TRUE]
    /\ UNCHANGED <<cache, record, overdue, lease, holding, pc, local, seen, late, unused,
                   ghosts>>

\* The deadline of the record: a TTL after the last write, so after every
\* last_access but one whose write is still to come.
RecordExpires ==
    /\ "expire" \in Events
    /\ record # None /\ ~overdue
    /\ \A i \in Instances : cache[i] = None \/ aged[i] \/ pc[i] = "persist" \/ Failing
    /\ overdue' = TRUE
    /\ UNCHANGED <<cache, aged, record, lease, holding, pc, local, seen, late, unused,
                   ghosts>>

\* A backend with TTLs of its own (Redis) drops the record too.
RecordEvicted ==
    /\ overdue
    /\ DeleteRecord
    /\ UNCHANGED <<cache, aged, lease, holding, pc, local, seen, late, unused>>

-----------------------------------------------------------------------------
Init ==
    /\ cache = [i \in Instances |-> None]
    /\ aged = [i \in Instances |-> FALSE]
    /\ record = None /\ overdue = FALSE
    /\ lease = Free
    /\ holding = [i \in Instances |-> "none"]
    /\ pc = [i \in Instances |-> "idle"]
    /\ op = [i \in Instances |-> "none"]
    /\ upd = [i \in Instances |-> None]
    /\ seen = [i \in Instances |-> None]
    /\ late = [i \in Instances |-> FALSE]
    /\ unused = Updates
    /\ past = {} /\ acked = {}

\* The steps an operation takes by itself once begun.
Step(i) ==
    \/ Acquire(i) \/ Load(i) \/ Expire(i)
    \/ GetOrCreate(i) \/ Get(i) \/ ApplyUpdate(i) \/ ApplyRemove(i) \/ NothingToWrite(i)
    \/ Persist(i) \/ Delete(i) \/ Release(i)
    \/ LoadPersisted(i) \/ CleanPersisted(i) \/ InsertPersisted(i)

Next ==
    \/ \E i \in Instances :
         \/ \E u \in Updates : Update(i, u)
         \/ Access(i) \/ Remove(i) \/ PurgeExpired(i)
         \/ Step(i) \/ AcquireError(i) \/ WaitTimeout(i)
         \/ Crash(i) \/ CacheAges(i)
    \/ LeaseLapses \/ RecordExpires \/ RecordEvicted

Spec == Init /\ [][Next]_vars

\* tokio polls every runnable task, the deadline of a wait passes, and the TTL
\* of a lease runs out; nothing else is promised.
Fairness ==
    /\ \A i \in Instances : WF_vars(Step(i)) /\ SF_vars(WaitTimeout(i))
    /\ WF_vars(LeaseLapses)

FairSpec == Spec /\ Fairness

-----------------------------------------------------------------------------
(***************************************************************************)
(* Properties.                                                             *)
(***************************************************************************)

\* Type invariant; an update carries its closure, and an operation that is about
\* to persist has cached its data.
TypeOK ==
    /\ cache \in [Instances -> OptData]
    /\ aged \in [Instances -> BOOLEAN]
    /\ record \in OptData
    /\ overdue \in BOOLEAN
    /\ lease \in Instances \cup {Free, Orphan}
    /\ holding \in [Instances -> {"none", "held", "lapsed"}]
    /\ pc \in [Instances -> Points]
    /\ op \in [Instances -> Ops]
    /\ upd \in [Instances -> Updates \cup {None}]
    /\ seen \in [Instances -> OptData]
    /\ late \in [Instances -> BOOLEAN]
    /\ unused \in SUBSET Updates
    /\ past \in SUBSET Data
    /\ acked \in SUBSET Updates
    /\ \A i \in Instances : op[i] = "update" => upd[i] # None
    /\ \A i \in Instances : pc[i] = "persist" => cache[i] # None

\* The lease is what it promises to be: no lapse under a working holder, no
\* wait that gives up, no failing backend.
LeaseUnbroken == Events \cap {"lapse", "timeout", "backend"} = {}

\* A replica whose lease's TTL still runs owns the lease in the backend, so late
\* releases, crashes and timeouts of others never end it early.
LeaseOwned ==
    \A i \in Instances : holding[i] = "held" => lease = i /\ pc[i] \in Leased

\* The record behaves as one atomic value: while the lease is unbroken, replicas
\* that interleave, crash, purge and let records expire implement AtomicSession.
Shared == INSTANCE AtomicSession WITH value <- record

AtomicRecord == Shared!Spec

\* No lost update: while the lease is unbroken, an update that has returned is in
\* the record, although every replica writes back what it has cached, and the record
\* goes only when its TTL has ended, by remove, or by the lease-less delete of a
\* replica that starts, which may hit a renewed record (load_persisted).
NoLostUpdate ==
    [][LeaseUnbroken /\ record # None =>
         IF record' # None
         THEN acked' \subseteq record'
         ELSE \/ overdue
              \/ \E i \in Instances : \/ pc[i] = "delete" /\ pc'[i] = "release"
                                      \/ pc[i] = "clean" /\ pc'[i] = "insert"]_vars

\* load_session_from_backend deletes in a step of its own: while the lease is
\* unbroken no peer has renewed the record it saw expired ("Do not delete a record
\* merely because this replica's cache is old").
ExpireSparesLiveRecord ==
    LeaseUnbroken =>
        \A i \in Instances : pc[i] = "expire" => record = None \/ overdue

\* Every operation returns, so the mutation_lock it holds is freed: crashed
\* holders, lapsed leases and a failing backend never block a replica for ever.
OperationsReturn ==
    \A i \in Instances : (pc[i] # "idle") ~> (pc[i] \in {"idle", "start"})

\* get_or_create and update of a session that does not exist start from the
\* default value: a stale replica cache is never written.
StartsFromDefault ==
    [][record = None /\ record' # None =>
         \E i \in Instances : record' \subseteq {upd[i]}]_vars
=============================================================================
