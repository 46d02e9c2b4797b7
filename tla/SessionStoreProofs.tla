------------------------- MODULE SessionStoreProofs -------------------------
(***************************************************************************)
(* What SessionStore guarantees for any number of replicas and updates and *)
(* any set of events: its types, the ownership of the lease, while the     *)
(* lease is unbroken, that the record is one atomic value, and where no    *)
(* session comes back with old data.                                       *)
(***************************************************************************)
EXTENDS SessionStore, TLAPS

\* Next, split into what a replica's operation does and what happens around it.
Begins(i) ==
    \/ \E u \in Updates : Update(i, u)
    \/ Access(i) \/ Remove(i) \/ PurgeExpired(i)

Runs(i) == Step(i) \/ AcquireError(i) \/ WaitTimeout(i)

Around ==
    \/ \E i \in Instances : Crash(i) \/ CacheAges(i)
    \/ LeaseLapses \/ RecordExpires \/ RecordEvicted

\* Every step of the specification is one of these, or a stutter.
LEMMA NextSplits ==
    ASSUME [Next]_vars
    PROVE  (\E i \in Instances : Begins(i) \/ Runs(i)) \/ Around \/ UNCHANGED vars
  BY DEF Next, Begins, Runs, Around

\* Session data is never mistaken for its absence.
LEMMA DataIsSome == None \notin Data
  BY SessionConstantsAssumption DEF Data

-----------------------------------------------------------------------------
(***************************************************************************)
(* Types.                                                                  *)
(***************************************************************************)

\* What an operation starts from is session data.
LEMMA MergedTyped ==
    ASSUME TypeOK, NEW i \in Instances
    PROVE  Merged(i) \in OptData /\ OrDefault(Merged(i)) \in Data
  <1>1. Merged(i) \in OptData
    BY DEF TypeOK, Merged
  <1> QED
    BY <1>1 DEF OrDefault, OptData, Data

\* Caching data keeps the state typed.
LEMMA KeepTyped ==
    ASSUME TypeOK, NEW i \in Instances, NEW data \in Data, Keep(i, data)
    PROVE  TypeOK'
  BY DataIsSome DEF TypeOK, Keep, Cache, Goto, local, ghosts, OptData, Points, Leased

\* Beginning an operation keeps the state typed.
LEMMA BeginTyped ==
    ASSUME TypeOK, NEW i \in Instances, Begins(i)
    PROVE  TypeOK'
  <1> USE DEF TypeOK, Begin, Goto, ghosts, Ops, Points
  <1>1. ASSUME NEW u \in Updates, Update(i, u) PROVE TypeOK'
    BY <1>1, SessionConstantsAssumption DEF Update
  <1>2. CASE Access(i)
    BY <1>2 DEF Access
  <1>3. CASE Remove(i)
    BY <1>3 DEF Remove
  <1>4. CASE PurgeExpired(i)
    BY <1>4 DEF PurgeExpired, OptData
  <1> QED
    BY <1>1, <1>2, <1>3, <1>4 DEF Begins

\* A step of an operation keeps the state typed.
LEMMA RunTyped ==
    ASSUME TypeOK, NEW i \in Instances, Runs(i)
    PROVE  TypeOK'
  <1> USE DEF TypeOK, Goto, NotWaiting, Forget, Points, Leased, Ops, local, ghosts
  <1>1. CASE Acquire(i)
    BY <1>1 DEF Acquire
  <1>2. CASE AcquireError(i)
    BY <1>2 DEF AcquireError
  <1>3. CASE WaitTimeout(i)
    BY <1>3 DEF WaitTimeout
  <1>read. Readable \subseteq OptData
    BY DEF Readable, OptData
  <1>4. CASE Load(i)
    BY <1>4, <1>read DEF Load
  <1>delete. DeleteRecord => record' \in OptData /\ overdue' \in BOOLEAN
                             /\ past' \in SUBSET Data /\ acked' \in SUBSET Updates
    BY DEF DeleteRecord, OptData
  <1>5. CASE Expire(i)
    BY <1>5, <1>delete DEF Expire, NoWrite
  <1>6. CASE GetOrCreate(i)
    BY <1>6, MergedTyped, KeepTyped DEF GetOrCreate
  <1>7. CASE Get(i)
    BY <1>7, MergedTyped, KeepTyped DEF Get, OptData
  <1>8. CASE ApplyUpdate(i)
    <2>1. upd[i] \in Updates
      BY <1>8 DEF ApplyUpdate
    <2>2. OrDefault(Merged(i)) \cup {upd[i]} \in Data
      BY <2>1, MergedTyped DEF Data
    <2> QED
      BY <1>8, <2>2, KeepTyped DEF ApplyUpdate
  <1>9. CASE ApplyRemove(i)
    BY <1>9 DEF ApplyRemove, Cache, OptData
  <1>10. CASE NothingToWrite(i)
    BY <1>10 DEF NothingToWrite
  <1>11. CASE Persist(i)
    <2>1. cache[i] \in Data
      BY <1>11 DEF Persist, OptData
    <2>2. record' \in OptData /\ overdue' \in BOOLEAN
          /\ past' \in SUBSET Data /\ acked' \in SUBSET Updates
      BY <1>11, <2>1 DEF Persist, WriteRecord, NoWrite, OptData
    <2> QED
      BY <1>11, <2>2 DEF Persist
  <1>12. CASE Delete(i)
    BY <1>12, <1>delete DEF Delete, NoWrite
  <1>13. CASE Release(i)
    <2>1. acked' \in SUBSET Updates
      BY <1>13 DEF Release
    <2>2. lease' \in Instances \cup {Free, Orphan} /\ late' \in [Instances -> BOOLEAN]
      BY <1>13 DEF Release, ReleasedBy, Orphaned, LeaseEnds
    <2> QED
      BY <1>13, <2>1, <2>2 DEF Release, OptData
  <1>14. CASE LoadPersisted(i)
    BY <1>14 DEF LoadPersisted
  <1>15. CASE CleanPersisted(i)
    BY <1>15, <1>delete DEF CleanPersisted, NoWrite
  <1>16. CASE InsertPersisted(i)
    BY <1>16 DEF InsertPersisted, Cache, OptData
  <1> QED
    BY <1>1, <1>2, <1>3, <1>4, <1>5, <1>6, <1>7, <1>8, <1>9, <1>10, <1>11, <1>12,
       <1>13, <1>14, <1>15, <1>16 DEF Runs, Step

\* So does what happens around it.
LEMMA AroundTyped ==
    ASSUME TypeOK, Around
    PROVE  TypeOK'
  <1> USE DEF TypeOK, local, ghosts
  <1>1. ASSUME NEW i \in Instances, Crash(i) PROVE TypeOK'
    BY <1>1 DEF Crash, Orphaned, NotWaiting, Forget, Goto, Points, Ops, OptData
  <1>2. ASSUME NEW i \in Instances, CacheAges(i) PROVE TypeOK'
    BY <1>2 DEF CacheAges
  <1>3. CASE LeaseLapses
    BY <1>3 DEF LeaseLapses, LeaseEnds
  <1>4. CASE RecordExpires
    BY <1>4 DEF RecordExpires
  <1>5. CASE RecordEvicted
    BY <1>5 DEF RecordEvicted, DeleteRecord, OptData
  <1> QED
    BY <1>1, <1>2, <1>3, <1>4, <1>5 DEF Around

\* Every state is well typed; in particular an operation that is about to persist
\* has data to persist, whatever purges and crashes do (get_or_create, update).
THEOREM TypeCorrect == Spec => []TypeOK
  <1>1. Init => TypeOK
    <2> SUFFICES ASSUME Init PROVE TypeOK
      OBVIOUS
    <2>1. /\ unused \in SUBSET Updates /\ past \in SUBSET Data /\ acked \in SUBSET Updates
          /\ overdue \in BOOLEAN
      BY DEF Init
    <2>2. /\ aged \in [Instances -> BOOLEAN] /\ late \in [Instances -> BOOLEAN]
          /\ pc \in [Instances -> Points] /\ op \in [Instances -> Ops]
      BY DEF Init, Points, Ops
    <2> QED
      BY <2>1, <2>2 DEF Init, TypeOK, OptData
  <1>2. TypeOK /\ [Next]_vars => TypeOK'
    <2> SUFFICES ASSUME TypeOK, [Next]_vars PROVE TypeOK'
      OBVIOUS
    <2>1. CASE UNCHANGED vars
      BY <2>1 DEF vars, TypeOK
    <2> QED
      BY <2>1, NextSplits, BeginTyped, RunTyped, AroundTyped
  <1> QED
    BY <1>1, <1>2, PTL DEF Spec
-----------------------------------------------------------------------------
(***************************************************************************)
(* The lease.                                                              *)
(***************************************************************************)

\* The inductive form of LeaseOwned.
LeaseInv ==
    \A i \in Instances :
        /\ holding[i] = "held" => lease = i
        /\ holding[i] # "none" => pc[i] \in Leased

\* While the lease is unbroken, what is done under it is done by its owner.
OwnerInv ==
    LeaseUnbroken => \A i \in Instances : pc[i] \in Leased => holding[i] = "held"

\* A replica moves only itself.
LEMMA OthersStay ==
    ASSUME TypeOK, NEW i \in Instances, Begins(i) \/ Runs(i), NEW j \in Instances \ {i}
    PROVE  /\ pc'[j] = pc[j] /\ holding'[j] = holding[j] /\ cache'[j] = cache[j]
           /\ op'[j] = op[j] /\ upd'[j] = upd[j] /\ seen'[j] = seen[j]
  <1> USE DEF TypeOK, Goto, Forget, Cache, Keep, local
  <1>1. CASE Begins(i)
    BY <1>1 DEF Begins, Begin, Update, Access, Remove, PurgeExpired
  <1>2. CASE AcquireError(i) \/ WaitTimeout(i) \/ Acquire(i) \/ Load(i) \/ Expire(i)
    BY <1>2 DEF AcquireError, WaitTimeout, Acquire, Load, Expire
  <1>3. CASE \/ GetOrCreate(i) \/ Get(i) \/ ApplyUpdate(i) \/ ApplyRemove(i)
             \/ NothingToWrite(i) \/ Persist(i) \/ Delete(i) \/ Release(i)
    BY <1>3 DEF GetOrCreate, Get, ApplyUpdate, ApplyRemove, NothingToWrite, Persist,
                Delete, Release
  <1>4. CASE LoadPersisted(i) \/ CleanPersisted(i) \/ InsertPersisted(i)
    BY <1>4 DEF LoadPersisted, CleanPersisted, InsertPersisted
  <1> QED
    BY <1>1, <1>2, <1>3, <1>4 DEF Runs, Step

\* A replica's own step keeps both.
LEMMA RunLeased ==
    ASSUME TypeOK, LeaseInv, OwnerInv, NEW i \in Instances, Begins(i) \/ Runs(i)
    PROVE  LeaseInv' /\ OwnerInv'
  <1> USE DEF TypeOK, LeaseInv, OwnerInv, LeaseUnbroken, Failing, Leased, Goto
  <1>others. \A j \in Instances \ {i} : pc'[j] = pc[j] /\ holding'[j] = holding[j]
    BY OthersStay
  <1> DEFINE Mine == /\ holding'[i] = "held" => lease' = i
                     /\ holding'[i] # "none" => pc'[i] \in Leased
                     /\ LeaseUnbroken /\ pc'[i] \in Leased => holding'[i] = "held"
             Theirs == \A j \in Instances \ {i} : lease = j => lease' = j
  <1> SUFFICES Mine /\ Theirs
    BY <1>others
  <1>1. CASE Begins(i)
    BY <1>1 DEF Begins, Begin, Update, Access, Remove, PurgeExpired
  <1>2. CASE Acquire(i)
    BY <1>2, SessionConstantsAssumption DEF Acquire
  <1>3. CASE AcquireError(i) \/ WaitTimeout(i)
    BY <1>3 DEF AcquireError, WaitTimeout
  <1>4. CASE Load(i) \/ Expire(i)
    BY <1>4 DEF Load, Expire
  <1>5. CASE GetOrCreate(i) \/ Get(i) \/ ApplyUpdate(i) \/ ApplyRemove(i) \/ NothingToWrite(i)
    BY <1>5 DEF GetOrCreate, Get, ApplyUpdate, ApplyRemove, NothingToWrite, Keep
  <1>6. CASE Persist(i) \/ Delete(i)
    BY <1>6 DEF Persist, Delete
  <1>7. CASE Release(i)
    BY <1>7 DEF Release, ReleasedBy, Orphaned
  <1>8. CASE LoadPersisted(i) \/ CleanPersisted(i) \/ InsertPersisted(i)
    BY <1>8 DEF LoadPersisted, CleanPersisted, InsertPersisted
  <1> QED
    BY <1>1, <1>2, <1>3, <1>4, <1>5, <1>6, <1>7, <1>8 DEF Runs, Step

\* So does what happens around it.
LEMMA AroundLeased ==
    ASSUME TypeOK, LeaseInv, OwnerInv, Around
    PROVE  LeaseInv' /\ OwnerInv'
  <1> USE DEF TypeOK, LeaseInv, OwnerInv, LeaseUnbroken, Leased
  <1>1. ASSUME NEW i \in Instances, Crash(i) PROVE LeaseInv' /\ OwnerInv'
    BY <1>1 DEF Crash, Orphaned, Goto
  <1>2. CASE LeaseLapses
    BY <1>2, SessionConstantsAssumption DEF LeaseLapses
  <1>3. CASE UNCHANGED <<pc, holding, lease>>
    BY <1>3
  <1> QED
    BY <1>1, <1>2, <1>3 DEF Around, CacheAges, RecordExpires, RecordEvicted

\* Both hold in every state.
LEMMA LeaseAlways == Spec => [](TypeOK /\ LeaseInv /\ OwnerInv)
  <1>1. Init => LeaseInv /\ OwnerInv
    BY DEF Init, LeaseInv, OwnerInv, Leased
  <1>2. TypeOK /\ LeaseInv /\ OwnerInv /\ [Next]_vars => LeaseInv' /\ OwnerInv'
    <2> SUFFICES ASSUME TypeOK, LeaseInv, OwnerInv, [Next]_vars
                 PROVE  LeaseInv' /\ OwnerInv'
      OBVIOUS
    <2>1. CASE UNCHANGED vars
      BY <2>1 DEF vars, LeaseInv, OwnerInv, LeaseUnbroken
    <2> QED
      BY <2>1, NextSplits, RunLeased, AroundLeased
  <1> QED
    BY TypeCorrect, <1>1, <1>2, PTL DEF Spec

\* LeaseOwned: nothing ends the lease of a replica whose TTL still runs
\* (acquire_persistence_lock, release_persistence_lock).
THEOREM LeaseIsOwned == Spec => []LeaseOwned
  <1>1. LeaseInv => LeaseOwned
    BY DEF LeaseInv, LeaseOwned
  <1> QED
    BY LeaseAlways, <1>1, PTL

\* While the lease is unbroken one replica at most is working under it.
LEMMA OneAtWork ==
    ASSUME LeaseInv, OwnerInv, LeaseUnbroken,
           NEW i \in Instances, NEW j \in Instances, pc[i] \in Leased, pc[j] \in Leased
    PROVE  i = j
  BY DEF LeaseInv, OwnerInv
-----------------------------------------------------------------------------
(***************************************************************************)
(* The record is one atomic value while the lease is unbroken.             *)
(***************************************************************************)

\* The record is one of its past values and holds every update that returned.
RecordInv ==
    /\ record # None => record \in past /\ acked \subseteq record
    /\ record = None => acked = {}

\* What replica i has in hand: nothing before it reads; at "apply" the record as
\* it is, unless that has gone; at "persist" what an atomic operation on the
\* record would give; at "release" its update is in the record.
HandInv(i) ==
    /\ pc[i] \in {"idle", "acquire", "load", "expire", "start", "clean"} => seen[i] = None
    /\ seen[i] # None => seen[i] \in past
    /\ cache[i] # None /\ pc[i] # "persist" => cache[i] \in past
    /\ pc[i] = "expire" => record = None \/ overdue
    /\ pc[i] = "apply" => record = None \/ seen[i] = record
    /\ pc[i] = "persist" =>
         \E base \in Shared!Bases :
             cache[i] = IF op[i] = "update" THEN base \cup {upd[i]} ELSE base
    /\ pc[i] = "release" /\ op[i] = "update" => record = None \/ upd[i] \in record

AtomInv == LeaseUnbroken => RecordInv /\ \A i \in Instances : HandInv(i)

SameHand(i) ==
    /\ pc'[i] = pc[i] /\ cache'[i] = cache[i] /\ op'[i] = op[i]
    /\ upd'[i] = upd[i] /\ seen'[i] = seen[i]

SameRecord == UNCHANGED <<record, overdue, past>>

\* A replica that stays keeps its part when the record stays,
LEMMA HandKept ==
    ASSUME NEW i \in Instances, HandInv(i), SameHand(i), SameRecord
    PROVE  HandInv(i)'
  BY DEF HandInv, SameHand, SameRecord, Shared!Bases

\* when the record goes,
LEMMA HandKeptOnDelete ==
    ASSUME NEW i \in Instances, RecordInv, HandInv(i), SameHand(i), DeleteRecord
    PROVE  HandInv(i)'
  <1>1. Shared!Bases \subseteq (Shared!Bases)'
    BY DEF RecordInv, DeleteRecord, Shared!Bases
  <1> QED
    BY <1>1 DEF HandInv, SameHand, DeleteRecord

\* and, when it is not at work itself, when the record is written.
LEMMA HandKeptOnWrite ==
    ASSUME NEW i \in Instances, HandInv(i), SameHand(i), pc[i] \notin Leased,
           NEW data, WriteRecord(data)
    PROVE  HandInv(i)'
  BY DEF HandInv, SameHand, WriteRecord, Leased

\* What an operation merges is what an atomic operation would start from.
LEMMA MergedIsBase ==
    ASSUME TypeOK, NEW i \in Instances, RecordInv, HandInv(i), pc[i] = "apply"
    PROVE  OrDefault(Merged(i)) \in Shared!Bases
  BY DEF RecordInv, HandInv, Merged, OrDefault, Shared!Bases

\* A step of a replica keeps the invariant and is an abstract step or a stutter.
LEMMA RunAtomic ==
    ASSUME TypeOK, LeaseInv, OwnerInv, LeaseUnbroken,
           RecordInv, \A j \in Instances : HandInv(j),
           NEW i \in Instances, Begins(i) \/ Runs(i)
    PROVE  /\ RecordInv' /\ \A j \in Instances : HandInv(j)'
           /\ [Shared!Next]_(Shared!svars)
  <1> USE DEF TypeOK, Goto, local, ghosts, Shared!svars
  <1>calm. ~Failing
    BY DEF LeaseUnbroken, Failing
  <1>others. \A j \in Instances \ {i} : SameHand(j)
    BY OthersStay DEF SameHand
  <1>hand. HandInv(i)
    OBVIOUS
  <1>quiet. ASSUME SameRecord, acked' = acked, HandInv(i)'
            PROVE  /\ RecordInv' /\ \A j \in Instances : HandInv(j)'
                   /\ [Shared!Next]_(Shared!svars)
    <2>1. \A j \in Instances \ {i} : HandInv(j)'
      BY <1>quiet, <1>others, HandKept
    <2> QED
      BY <1>quiet, <2>1 DEF RecordInv, SameRecord
  <1>clear. ASSUME DeleteRecord, HandInv(i)'
            PROVE  /\ RecordInv' /\ \A j \in Instances : HandInv(j)'
                   /\ [Shared!Next]_(Shared!svars)
    <2>1. \A j \in Instances \ {i} : HandInv(j)'
      BY <1>clear, <1>others, HandKeptOnDelete
    <2>2. Shared!Clear
      BY <1>clear DEF DeleteRecord, Shared!Clear
    <2> QED
      BY <1>clear, <2>1, <2>2 DEF RecordInv, DeleteRecord, Shared!Next
  <1>1. CASE Begins(i)
    <2>1. SameRecord /\ acked' = acked
      BY <1>1 DEF Begins, Begin, Update, Access, Remove, PurgeExpired, SameRecord
    <2>2. pc[i] = "idle" /\ pc'[i] = "acquire" /\ seen' = seen
      BY <1>1 DEF Begins, Begin, Update, Access, Remove, PurgeExpired
    <2>3. cache'[i] \in {cache[i], None}
      BY <1>1 DEF Begins, Begin, Update, Access, Remove, PurgeExpired
    <2>4. HandInv(i)'
      BY <1>hand, <2>1, <2>2, <2>3 DEF HandInv, SameRecord
    <2> QED
      BY <1>quiet, <2>1, <2>4
  <1>2. CASE Acquire(i) \/ AcquireError(i) \/ WaitTimeout(i)
    <2>1. SameRecord /\ acked' = acked
      BY <1>2 DEF Acquire, AcquireError, WaitTimeout, SameRecord
    <2>2. /\ pc[i] = "acquire" /\ pc'[i] = "load" /\ UNCHANGED <<cache, seen>>
      BY <1>2 DEF Acquire, AcquireError, WaitTimeout
    <2>3. HandInv(i)'
      BY <1>hand, <2>1, <2>2 DEF HandInv, SameRecord
    <2> QED
      BY <1>quiet, <2>1, <2>3
  <1>3. CASE Load(i)
    <2>1. SameRecord /\ acked' = acked
      BY <1>3 DEF Load, SameRecord
    <2>2. /\ pc[i] = "load" /\ UNCHANGED <<cache>>
          /\ \/ record # None /\ overdue /\ pc'[i] = "expire" /\ seen' = seen
             \/ pc'[i] = "apply" /\ seen'[i] = record
      BY <1>3, <1>calm DEF Load, Readable
    <2>3. HandInv(i)'
      BY <1>hand, <2>1, <2>2 DEF HandInv, RecordInv, SameRecord
    <2> QED
      BY <1>quiet, <2>1, <2>3
  <1>4. CASE Expire(i)
    <2>1. DeleteRecord /\ pc[i] = "expire" /\ pc'[i] = "apply" /\ UNCHANGED <<cache, seen>>
      BY <1>4, <1>calm DEF Expire
    <2>2. HandInv(i)'
      BY <1>hand, <2>1 DEF HandInv, DeleteRecord
    <2> QED
      BY <1>clear, <2>1, <2>2
  <1>5. CASE GetOrCreate(i) \/ Get(i) \/ ApplyUpdate(i)
    <2>1. SameRecord /\ acked' = acked
      BY <1>5 DEF GetOrCreate, Get, ApplyUpdate, Keep, SameRecord
    <2>2. OrDefault(Merged(i)) \in Shared!Bases
      BY <1>5, <1>hand, MergedIsBase DEF GetOrCreate, Get, ApplyUpdate
    <2>3. /\ pc[i] = "apply" /\ pc'[i] = "persist" /\ UNCHANGED <<op, upd, seen>>
          /\ cache'[i] = IF op[i] = "update" THEN OrDefault(Merged(i)) \cup {upd[i]}
                                             ELSE OrDefault(Merged(i))
      BY <1>5 DEF GetOrCreate, Get, ApplyUpdate, Keep, Cache, OrDefault
    <2>4. (Shared!Bases)' = Shared!Bases
      BY <2>1 DEF SameRecord, Shared!Bases
    <2>5. HandInv(i)'
      BY <1>hand, <2>1, <2>2, <2>3, <2>4 DEF HandInv, SameRecord
    <2> QED
      BY <1>quiet, <2>1, <2>5
  <1>6. CASE ApplyRemove(i) \/ NothingToWrite(i)
    <2>1. SameRecord /\ acked' = acked
      BY <1>6 DEF ApplyRemove, NothingToWrite, SameRecord
    <2>2. /\ pc[i] = "apply" /\ pc'[i] \in {"delete", "release"} /\ op'[i] # "update"
          /\ cache'[i] \in {cache[i], None} /\ seen' = seen
      BY <1>6 DEF ApplyRemove, NothingToWrite, Cache
    <2>3. HandInv(i)'
      BY <1>hand, <2>1, <2>2 DEF HandInv, SameRecord
    <2> QED
      BY <1>quiet, <2>1, <2>3
  <1>7. CASE Persist(i)
    <2>1. /\ WriteRecord(cache[i]) /\ pc[i] = "persist" /\ pc'[i] = "release"
          /\ UNCHANGED <<cache, op, upd, seen>>
      BY <1>7, <1>calm DEF Persist
    <2>2. \A j \in Instances \ {i} : pc[j] \notin Leased
      BY <2>1, OneAtWork DEF Leased
    <2>3. \A j \in Instances \ {i} : HandInv(j)'
      BY <1>others, <2>1, <2>2, HandKeptOnWrite
    <2>4. PICK base \in Shared!Bases :
            cache[i] = IF op[i] = "update" THEN base \cup {upd[i]} ELSE base
      BY <1>hand, <2>1 DEF HandInv
    <2>5. RecordInv'
      BY <2>1, <2>4 DEF RecordInv, WriteRecord, Shared!Bases
    <2>6. HandInv(i)'
      BY <1>hand, <2>1, <2>4 DEF HandInv, WriteRecord
    <2>7. CASE op[i] = "update"
      <3>1. upd[i] \in Updates
        BY <2>7
      <3>2. Shared!Extend(upd[i])
        BY <2>1, <2>4, <2>7 DEF WriteRecord, Shared!Extend, Shared!Become
      <3> QED
        BY <2>3, <2>5, <2>6, <3>1, <3>2 DEF Shared!Next
    <2>8. CASE op[i] # "update"
      <3>1. Shared!Touch
        BY <2>1, <2>4, <2>8 DEF WriteRecord, Shared!Touch, Shared!Become
      <3> QED
        BY <2>3, <2>5, <2>6, <3>1 DEF Shared!Next
    <2> QED
      BY <2>7, <2>8
  <1>8. CASE Delete(i)
    <2>1. /\ DeleteRecord /\ pc[i] = "delete" /\ pc'[i] = "release"
          /\ UNCHANGED <<cache, seen>>
      BY <1>8, <1>calm DEF Delete
    <2>2. HandInv(i)'
      BY <1>hand, <2>1 DEF HandInv, DeleteRecord
    <2> QED
      BY <1>clear, <2>1, <2>2
  <1>9. CASE Release(i)
    <2>1. /\ SameRecord /\ pc[i] = "release" /\ pc'[i] = "idle" /\ cache' = cache
          /\ seen'[i] = None
      BY <1>9 DEF Release, Forget, SameRecord
    <2>2. HandInv(i)'
      BY <1>hand, <2>1 DEF HandInv, SameRecord
    <2>3. \A j \in Instances \ {i} : HandInv(j)'
      BY <2>1, <1>others, HandKept
    <2>4. CASE op[i] = "update" /\ record # None
      <3>1. upd[i] \in Updates /\ upd[i] \in record
        BY <1>hand, <2>1, <2>4 DEF HandInv
      <3>2. acked' = acked \cup {upd[i]}
        BY <1>9, <2>4 DEF Release
      <3>3. Shared!Return(upd[i])
        BY <2>1, <2>4, <3>1, <3>2 DEF Shared!Return, SameRecord
      <3>4. RecordInv'
        BY <2>1, <2>4, <3>1, <3>2 DEF RecordInv, SameRecord
      <3> QED
        BY <2>2, <2>3, <3>1, <3>3, <3>4 DEF Shared!Next
    <2>5. CASE ~(op[i] = "update" /\ record # None)
      <3>1. acked' = acked
        BY <1>9, <2>5 DEF Release
      <3> QED
        BY <1>quiet, <2>1, <2>2, <3>1
    <2> QED
      BY <2>4, <2>5
  <1>10. CASE LoadPersisted(i)
    <2>1. SameRecord /\ acked' = acked
      BY <1>10 DEF LoadPersisted, SameRecord
    <2>2. /\ pc[i] = "start" /\ cache' = cache
          /\ \/ pc'[i] = "clean" /\ seen' = seen
             \/ pc'[i] = "insert" /\ seen'[i] = record
      BY <1>10 DEF LoadPersisted
    <2>3. HandInv(i)'
      BY <1>hand, <2>1, <2>2 DEF HandInv, RecordInv, SameRecord
    <2> QED
      BY <1>quiet, <2>1, <2>3
  <1>11. CASE CleanPersisted(i)
    <2>1. /\ DeleteRecord /\ pc[i] = "clean" /\ pc'[i] = "insert"
          /\ UNCHANGED <<cache, seen>>
      BY <1>11, <1>calm DEF CleanPersisted
    <2>2. HandInv(i)'
      BY <1>hand, <2>1 DEF HandInv, DeleteRecord
    <2> QED
      BY <1>clear, <2>1, <2>2
  <1>12. CASE InsertPersisted(i)
    <2>1. SameRecord /\ acked' = acked
      BY <1>12 DEF InsertPersisted, SameRecord
    <2>2. pc[i] = "insert" /\ pc'[i] = "idle" /\ cache'[i] = seen[i] /\ seen'[i] = None
      BY <1>12 DEF InsertPersisted, Cache, Forget
    <2>3. HandInv(i)'
      BY <1>hand, <2>1, <2>2 DEF HandInv, SameRecord
    <2> QED
      BY <1>quiet, <2>1, <2>3
  <1> QED
    BY <1>1, <1>2, <1>3, <1>4, <1>5, <1>6, <1>7, <1>8, <1>9, <1>10, <1>11, <1>12
    DEF Runs, Step

\* So does what happens around it: only the end of the TTL shows.
LEMMA AroundAtomic ==
    ASSUME TypeOK, LeaseUnbroken, RecordInv, \A j \in Instances : HandInv(j), Around
    PROVE  /\ RecordInv' /\ \A j \in Instances : HandInv(j)'
           /\ [Shared!Next]_(Shared!svars)
  <1> USE DEF TypeOK, local, ghosts, Shared!svars
  <1>1. ASSUME NEW i \in Instances, Crash(i)
        PROVE  /\ RecordInv' /\ \A j \in Instances : HandInv(j)'
               /\ [Shared!Next]_(Shared!svars)
    <2>1. SameRecord /\ acked' = acked
      BY <1>1 DEF Crash, SameRecord
    <2>2. \A j \in Instances \ {i} : SameHand(j)
      BY <1>1 DEF Crash, SameHand, Goto, Forget
    <2>3. \A j \in Instances \ {i} : HandInv(j)'
      BY <2>1, <2>2, HandKept
    <2>4. HandInv(i)'
      BY <1>1 DEF Crash, HandInv, Goto, Forget
    <2> QED
      BY <2>1, <2>3, <2>4 DEF RecordInv, SameRecord
  <1>2. CASE SameRecord /\ acked' = acked /\ \A j \in Instances : SameHand(j)
    <2>1. \A j \in Instances : HandInv(j)'
      BY <1>2, HandKept
    <2> QED
      BY <1>2, <2>1 DEF RecordInv, SameRecord
  <1>3. CASE RecordExpires
    <2>1. \A j \in Instances : HandInv(j)'
      BY <1>3 DEF RecordExpires, HandInv, Shared!Bases
    <2> QED
      BY <1>3, <2>1 DEF RecordExpires, RecordInv
  <1>4. CASE RecordEvicted
    <2>1. \A j \in Instances : HandInv(j)'
      BY <1>4, HandKeptOnDelete DEF RecordEvicted, SameHand
    <2>2. Shared!Clear
      BY <1>4 DEF RecordEvicted, DeleteRecord, Shared!Clear
    <2> QED
      BY <1>4, <2>1, <2>2 DEF RecordEvicted, DeleteRecord, RecordInv, Shared!Next
  <1> QED
    BY <1>1, <1>2, <1>3, <1>4 DEF Around, CacheAges, LeaseLapses, SameRecord, SameHand
\* The abstract steps and the invariant, together.
LEMMA StepAtomic ==
    ASSUME TypeOK, LeaseInv, OwnerInv, AtomInv, LeaseUnbroken, [Next]_vars
    PROVE  AtomInv' /\ [Shared!Next]_(Shared!svars)
  <1>1. RecordInv /\ \A i \in Instances : HandInv(i)
    BY DEF AtomInv
  <1>2. CASE \E i \in Instances : Begins(i) \/ Runs(i)
    BY <1>1, <1>2, RunAtomic DEF AtomInv
  <1>3. CASE Around
    BY <1>1, <1>3, AroundAtomic DEF AtomInv
  <1>4. CASE UNCHANGED vars
    <2>1. SameRecord /\ acked' = acked /\ \A i \in Instances : SameHand(i)
      BY <1>4 DEF vars, SameRecord, SameHand
    <2>2. \A i \in Instances : HandInv(i)'
      BY <1>1, <2>1, HandKept
    <2> QED
      BY <1>1, <2>1, <2>2 DEF AtomInv, RecordInv, SameRecord, Shared!svars
  <1> QED
    BY <1>2, <1>3, <1>4, NextSplits

\* The invariant holds in every state.
LEMMA AtomAlways == Spec => []AtomInv
  <1>1. Init => AtomInv
    <2> SUFFICES ASSUME Init PROVE RecordInv /\ \A i \in Instances : HandInv(i)
      BY DEF AtomInv
    <2> QED
      BY DEF Init, RecordInv, HandInv
  <1>2. TypeOK /\ LeaseInv /\ OwnerInv /\ AtomInv /\ [Next]_vars => AtomInv'
    <2>1. CASE LeaseUnbroken
      BY <2>1, StepAtomic
    <2>2. CASE ~LeaseUnbroken
      BY <2>2 DEF AtomInv, LeaseUnbroken
    <2> QED
      BY <2>1, <2>2
  <1> QED
    BY LeaseAlways, <1>1, <1>2, PTL DEF Spec

\* AtomicRecord: while the lease is unbroken, replicas that interleave, crash,
\* purge and let records expire implement one atomic value (AtomicSession).
THEOREM RecordIsAtomic ==
    ASSUME LeaseUnbroken
    PROVE  Spec => AtomicRecord
  <1>1. Init => Shared!Init
    BY DEF Init, Shared!Init
  <1>2. TypeOK /\ LeaseInv /\ OwnerInv /\ AtomInv /\ [Next]_vars
        => [Shared!Next]_(Shared!svars)
    BY StepAtomic
  <1> QED
    BY LeaseAlways, AtomAlways, <1>1, <1>2, PTL DEF Spec, AtomicRecord, Shared!Spec

\* A record goes only under Delete, CleanPersisted, or an end of its TTL.
LEMMA GoesOnlyBy ==
    ASSUME TypeOK, LeaseUnbroken, RecordInv, \A j \in Instances : HandInv(j),
           [Next]_vars, record # None, record' = None
    PROVE  \/ overdue
           \/ \E i \in Instances : \/ pc[i] = "delete" /\ pc'[i] = "release"
                                   \/ pc[i] = "clean" /\ pc'[i] = "insert"
  <1> USE DEF TypeOK, Goto
  <1>calm. ~Failing
    BY DEF LeaseUnbroken, Failing
  <1>1. ASSUME NEW i \in Instances, Persist(i) PROVE FALSE
    BY <1>1, <1>calm, DataIsSome DEF Persist, WriteRecord, OptData
  <1>2. ASSUME NEW i \in Instances, Expire(i) PROVE overdue
    BY <1>2 DEF Expire, HandInv
  <1>3. ASSUME NEW i \in Instances, Delete(i)
        PROVE  pc[i] = "delete" /\ pc'[i] = "release"
    BY <1>3 DEF Delete
  <1>4. ASSUME NEW i \in Instances, CleanPersisted(i)
        PROVE  pc[i] = "clean" /\ pc'[i] = "insert"
    BY <1>4, <1>calm DEF CleanPersisted
  <1>5. CASE RecordEvicted
    BY <1>5 DEF RecordEvicted
  <1>6. \/ \E i \in Instances : Persist(i) \/ Expire(i) \/ Delete(i) \/ CleanPersisted(i)
        \/ RecordEvicted
    BY NextSplits
    DEF vars, Runs, Step, Begins, Begin, Update, Access, Remove, PurgeExpired, Acquire,
        AcquireError, WaitTimeout, Load, GetOrCreate, Get, ApplyUpdate, ApplyRemove,
        NothingToWrite, Keep, Release, LoadPersisted, InsertPersisted, Around, Crash,
        CacheAges, LeaseLapses, RecordExpires
  <1> QED
    BY <1>1, <1>2, <1>3, <1>4, <1>5, <1>6

\* NoLostUpdate: while the lease is unbroken, an update that has returned is in the
\* record, which goes only at the end of its TTL, by remove, or by load_persisted of a
\* replica that starts.
THEOREM UpdatesKept == Spec => NoLostUpdate
  <1>1. TypeOK /\ AtomInv /\ AtomInv' /\ [Next]_vars
        => [LeaseUnbroken /\ record # None =>
              IF record' # None
              THEN acked' \subseteq record'
              ELSE \/ overdue
                   \/ \E i \in Instances : \/ pc[i] = "delete" /\ pc'[i] = "release"
                                           \/ pc[i] = "clean" /\ pc'[i] = "insert"]_vars
    <2> SUFFICES ASSUME TypeOK, AtomInv, AtomInv', [Next]_vars, LeaseUnbroken, record # None
                 PROVE  IF record' # None
                        THEN acked' \subseteq record'
                        ELSE \/ overdue
                             \/ \E i \in Instances :
                                   \/ pc[i] = "delete" /\ pc'[i] = "release"
                                   \/ pc[i] = "clean" /\ pc'[i] = "insert"
      OBVIOUS
    <2>1. RecordInv /\ \A j \in Instances : HandInv(j)
      BY DEF AtomInv
    <2>2. RecordInv'
      BY DEF AtomInv, LeaseUnbroken
    <2>3. CASE record' # None
      BY <2>2, <2>3 DEF RecordInv
    <2>4. CASE record' = None
      BY <2>1, <2>4, GoesOnlyBy
    <2> QED
      BY <2>3, <2>4
  <1> QED
    BY TypeCorrect, AtomAlways, <1>1, PTL DEF Spec, NoLostUpdate

\* ExpireSparesLiveRecord: while the lease is unbroken, the deletion of an expired
\* record never hits one that a peer has renewed (load_session_from_backend).
THEOREM LiveRecordSpared == Spec => []ExpireSparesLiveRecord
  <1>1. AtomInv => ExpireSparesLiveRecord
    BY DEF AtomInv, HandInv, ExpireSparesLiveRecord
  <1> QED
    BY AtomAlways, <1>1, PTL


-----------------------------------------------------------------------------
(***************************************************************************)
(* What it takes to bring a session back.                                  *)
(***************************************************************************)

\* No cached copy outlives the record: records neither expire nor fail to be written,
\* and a session that is removed has no copy on another replica.
NoCopyOutlives ==
    /\ Events \cap {"expire", "backend"} = {}
    /\ "remove" \in Events => \A i, j \in Instances : i = j

\* Then, while there is no record, a replica has at most cached what it is about to
\* persist, and holds none of the removed session but on its way out of remove.
CopyOf(i) ==
    /\ pc[i] \notin {"expire", "clean"}
    /\ record = None => \/ cache[i] = None
                        \/ pc[i] = "persist" /\ cache[i] \subseteq {upd[i]}
    /\ record = None => seen[i] = None \/ pc[i] = "release"
    /\ pc[i] = "delete" => op[i] = "remove" /\ cache[i] = None
    /\ op[i] = "remove" => "remove" \in Events

CopyInv == ~overdue /\ \A i \in Instances : CopyOf(i)

\* A replica's own step keeps it; only Delete takes the record away, and then there is
\* no other replica.
LEMMA RunCopies ==
    ASSUME NoCopyOutlives, TypeOK, CopyInv, NEW i \in Instances, Begins(i) \/ Runs(i)
    PROVE  CopyInv'
  <1> USE SessionConstantsAssumption DEF TypeOK, NoCopyOutlives, Failing, Goto
  <1>mine. CopyOf(i) /\ ~overdue
    BY DEF CopyInv
  <1>1. CASE record' # None \/ record' = record
    <2>1. ASSUME NEW j \in Instances \ {i} PROVE CopyOf(j)'
      <3>1. CopyOf(j)
        BY DEF CopyInv
      <3>2. /\ pc'[j] = pc[j] /\ cache'[j] = cache[j] /\ op'[j] = op[j]
            /\ upd'[j] = upd[j] /\ seen'[j] = seen[j]
        BY OthersStay
      <3> QED
        BY <1>1, <3>1, <3>2 DEF CopyOf
    <2>2. CopyOf(i)' /\ ~overdue'
      <3> USE <1>mine, <1>1 DEF CopyOf
      <3>1. CASE Begins(i)
        BY <3>1 DEF Begins, Begin, Update, Access, Remove, PurgeExpired
      <3>2. CASE Acquire(i) \/ AcquireError(i) \/ WaitTimeout(i)
        BY <3>2 DEF Acquire, AcquireError, WaitTimeout, local
      <3>3. CASE Load(i)
        BY <3>3 DEF Load, Readable, local
      <3>4. CASE Expire(i) \/ CleanPersisted(i)
        BY <3>4 DEF Expire, CleanPersisted
      <3>5. CASE GetOrCreate(i) \/ Get(i)
        BY <3>5 DEF GetOrCreate, Get, Keep, Cache, Merged, OrDefault, local
      <3>6. CASE ApplyUpdate(i)
        BY <3>6 DEF ApplyUpdate, Keep, Cache, Merged, OrDefault, local
      <3>7. CASE ApplyRemove(i) \/ NothingToWrite(i)
        BY <3>7 DEF ApplyRemove, NothingToWrite, Cache, local
      <3>8. CASE Persist(i)
        BY <3>8, DataIsSome DEF Persist, WriteRecord, OptData, local
      <3>9. CASE Delete(i)
        BY <3>9 DEF Delete, DeleteRecord, local
      <3>10. CASE Release(i)
        BY <3>10 DEF Release, Forget
      <3>11. CASE LoadPersisted(i)
        BY <3>11 DEF LoadPersisted, local
      <3>12. CASE InsertPersisted(i)
        BY <3>12 DEF InsertPersisted, Cache, Forget
      <3> QED
        BY <3>1, <3>2, <3>3, <3>4, <3>5, <3>6, <3>7, <3>8, <3>9, <3>10, <3>11, <3>12
        DEF Runs, Step
    <2> QED
      BY <2>1, <2>2 DEF CopyInv
  <1>2. CASE record' = None /\ record # None
    <2>1. Delete(i)
      BY <1>2, <1>mine, DataIsSome
      DEF CopyOf, Runs, Step, Begins, Begin, Update, Access, Remove, PurgeExpired, Acquire,
          AcquireError, WaitTimeout, Load, Expire, GetOrCreate, Get, ApplyUpdate, ApplyRemove,
          NothingToWrite, Keep, Persist, WriteRecord, Release, LoadPersisted, CleanPersisted,
          InsertPersisted
    <2>2. \A j \in Instances : j = i
      BY <1>mine, <2>1 DEF CopyOf, Delete
    <2>3. CopyOf(i)' /\ ~overdue'
      BY <1>mine, <2>1 DEF CopyOf, Delete, DeleteRecord, local
    <2> QED
      BY <2>2, <2>3 DEF CopyInv
  <1> QED
    BY <1>1, <1>2

\* So does what happens around it: a crash takes the cached copy with it.
LEMMA AroundCopies ==
    ASSUME NoCopyOutlives, TypeOK, CopyInv, Around
    PROVE  CopyInv'
  <1> USE DEF TypeOK, NoCopyOutlives
  <1>1. ASSUME NEW i \in Instances, Crash(i) PROVE CopyInv'
    <2>1. UNCHANGED <<record, overdue>>
      BY <1>1 DEF Crash
    <2>2. ASSUME NEW j \in Instances PROVE CopyOf(j)'
      BY <1>1, <2>1 DEF Crash, Forget, Goto, CopyInv, CopyOf
    <2> QED
      BY <2>1, <2>2 DEF CopyInv
  <1>2. CASE LeaseLapses
    BY <1>2 DEF LeaseLapses, local, CopyInv, CopyOf
  <1>3. ~RecordEvicted /\ ~RecordExpires /\ \A i \in Instances : ~CacheAges(i)
    BY DEF RecordEvicted, RecordExpires, CacheAges, CopyInv
  <1> QED
    BY <1>1, <1>2, <1>3 DEF Around

\* StartsFromDefault holds where no copy can outlive the record: a session comes back with
\* old data only after it expired, after a write was lost, or after one replica removed what
\* another had cached. Crashes, lapsed leases and waits that give up are not enough
\* (get_or_create, get, update).
THEOREM DefaultUnlessOutlived ==
    ASSUME NoCopyOutlives
    PROVE  Spec => StartsFromDefault
  <1>1. Init => CopyInv
    BY DEF Init, CopyInv, CopyOf
  <1>2. TypeOK /\ CopyInv /\ [Next]_vars => CopyInv'
    <2> SUFFICES ASSUME TypeOK, CopyInv, [Next]_vars PROVE CopyInv'
      OBVIOUS
    <2>1. CASE UNCHANGED vars
      BY <2>1 DEF vars, CopyInv, CopyOf
    <2> QED
      BY <2>1, NextSplits, RunCopies, AroundCopies
  <1>3. TypeOK /\ CopyInv /\ [Next]_vars
        => [record = None /\ record' # None =>
              \E i \in Instances : record' \subseteq {upd[i]}]_vars
    <2> SUFFICES ASSUME TypeOK, CopyInv, [Next]_vars, record = None, record' # None
                 PROVE  \E i \in Instances : record' \subseteq {upd[i]}
      OBVIOUS
    <2>1. PICK i \in Instances : Persist(i)
      BY NextSplits
      DEF vars, Runs, Step, Begins, Begin, Update, Access, Remove, PurgeExpired, Acquire,
          AcquireError, WaitTimeout, Load, Expire, GetOrCreate, Get, ApplyUpdate, ApplyRemove,
          NothingToWrite, Keep, Delete, DeleteRecord, NoWrite, Release, LoadPersisted,
          CleanPersisted, InsertPersisted, Around, Crash, CacheAges, LeaseLapses,
          RecordExpires, RecordEvicted
    <2>2. record' = cache[i] /\ cache[i] # None /\ pc[i] = "persist"
      BY <2>1 DEF Persist, WriteRecord, NoWrite, TypeOK
    <2> QED
      BY <2>2 DEF CopyInv, CopyOf
  <1> QED
    BY TypeCorrect, <1>1, <1>2, <1>3, PTL DEF Spec, StartsFromDefault
=============================================================================
