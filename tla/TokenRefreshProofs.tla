------------------------- MODULE TokenRefreshProofs -------------------------
(***************************************************************************)
(* What TokenRefresh guarantees for any number of instances, tasks, tokens *)
(* and removals, and any set of events.                                    *)
(***************************************************************************)
EXTENDS TokenRefresh, TLAPS

\* The control points at which a task may hold the lease.
Leased == {"final", "release", "stored"} \cup Upstream

\* Next, split into what a task does and what happens around it.
TaskStep(t) == GetToken(t) \/ LocalAcquire(t) \/ WaitTimeout(t) \/ Step(t)

Event ==
    \/ \E t \in Tasks : Cancel(t)
    \/ \E i \in Instances :
         \/ \E withRefresh \in BOOLEAN, spent \in {{}} \cup {{r} : r \in live} :
                Login(i, withRefresh, spent)
         \/ RemoveToken(i) \/ RemoveMutex(i) \/ PurgeScan(i) \/ PurgeExpired(i)
         \/ CommitMutation(i) \/ AbandonMutation(i)
         \/ Restart(i) \/ LoadPersisted(i) \/ InsertPersisted(i)
    \/ \E n \in 1..MaxIssued : AccessTokenExpires(n)
    \/ LeaseLapses \/ RecordEvicted

\* Every step of the specification is one or the other, or a stutter.
LEMMA NextSplits ==
    ASSUME [Next]_vars
    PROVE  (\E t \in Tasks : TaskStep(t)) \/ Event \/ UNCHANGED vars
  BY DEF Next, TaskStep, Event

-----------------------------------------------------------------------------
\* What get_token_raw answers once it is ready is a token or nothing.
LEMMA RawTyped ==
    ASSUME TypeOK, NEW t \in Tasks, RawReady(t)
    PROVE  get_token_raw(t) \in OptToken
  BY ConstantsAssumption DEF TypeOK, RawReady, get_token_raw, OptToken

\* The write-back of get_token_raw keeps the caches typed.
LEMMA WriteBackTyped ==
    ASSUME TypeOK, NEW t \in Tasks, RawReady(t), WriteBack(t)
    PROVE  cache' \in [Instances -> OptToken]
  <1>1. get_token_raw(t) \in OptToken
    BY RawTyped
  <1>2. Home[t] \in Instances
    BY ConstantsAssumption
  <1> QED
    BY <1>1, <1>2 DEF TypeOK, WriteBack

\* Init establishes the type invariant.
LEMMA InitTyped == Init => TypeOK
  <1> SUFFICES ASSUME Init PROVE TypeOK
    OBVIOUS
  <1>1. [at |-> 1, rt |-> 1] \in OptToken
    BY DEF OptToken, Token
  <1>2. Idle \in Mutations
    BY DEF Idle, Mutations, OptToken
  <1>3. cache \in [Instances -> OptToken]
    BY <1>1 DEF Init, OptToken
  <1> QED
    BY <1>1, <1>2, <1>3 DEF Init, TypeOK, OptToken, Points

\* A step of a task keeps the type invariant.
LEMMA StepTyped ==
    ASSUME TypeOK, NEW t \in Tasks,
           GetToken(t) \/ LocalAcquire(t) \/ WaitTimeout(t) \/ Step(t)
    PROVE  TypeOK'
  <1> USE DEF TypeOK, locks, keycloak, Goto, Finish, Forget, NotWaiting
  <1>home. Home[t] \in Instances
    BY ConstantsAssumption
  <1>points. Points = {"adopt", "final", "material", "post", "answered", "persist", "recheck",
                       "acquire", "poll", "stored", "release", "idle", "first", "lookup", "local",
                       "panicked"}
    BY DEF Points, Critical, AdoptPoints, Upstream
  <1>1. CASE GetToken(t)
    BY <1>1, <1>points DEF GetToken
  <1>2. CASE LocalAcquire(t)
    BY <1>2, <1>points DEF LocalAcquire
  <1>3. CASE WaitTimeout(t)
    BY <1>3, <1>points DEF WaitTimeout
  <1>4. CASE LoadToken(t)
    <2>1. Loadable \subseteq OptToken
      BY DEF Loadable, OptToken
    <2>2. pc[t] \notin {"post", "answered", "persist"}
      BY <1>4 DEF LoadToken, RawPoints, AdoptPoints
    <2> QED
      BY <1>4, <2>1, <2>2 DEF LoadToken
  <1>5. CASE FirstRead(t)
    <2>1. cache' \in [Instances -> OptToken]
      BY <1>5, WriteBackTyped DEF FirstRead
    <2> QED
      BY <1>5, <1>home, <1>points, <2>1 DEF FirstRead
  <1>5a. CASE GetRefreshLock(t)
    BY <1>5a, <1>home, <1>points DEF GetRefreshLock
  <1>6. CASE Recheck(t)
    <2>1. cache' \in [Instances -> OptToken]
      BY <1>6, WriteBackTyped DEF Recheck
    <2> QED
      BY <1>6, <1>points, <2>1 DEF Recheck
  <1>7. CASE Acquire(t)
    BY <1>7, <1>points DEF Acquire
  <1>8. CASE AcquireBusy(t)
    BY <1>8, <1>points DEF AcquireBusy
  <1>9. CASE AcquireError(t)
    BY <1>9, <1>points DEF AcquireError
  <1>10. CASE WaitAdopt(t)
    BY <1>10, <1>points, <1>home DEF WaitAdopt, Adopt
  <1>11. CASE PollAgain(t)
    BY <1>11, <1>points DEF PollAgain
  <1>12. CASE FinalCheck(t)
    BY <1>12, <1>points, <1>home DEF FinalCheck, Adopt
  <1>13. CASE Material(t)
    <2>1. cache' \in [Instances -> OptToken]
      BY <1>13, WriteBackTyped DEF Material
    <2>2. get_token_raw(t) \in OptToken
      BY <1>13, RawTyped DEF Material
    <2> QED
      BY <1>13, <1>points, <2>1, <2>2 DEF Material, OptToken
  <1>14. CASE KeycloakGrants(t)
    <2>1. val[t] \in Token /\ val[t].rt \in Nat
      BY <1>14 DEF KeycloakGrants, Token
    <2>2. PICK rotated \in Rotation :
            LET answer == IF rotated THEN issued + 1 ELSE NoRefresh IN
            /\ live' = IF rotated THEN (live \ {val[t].rt}) \cup {answer} ELSE live
            /\ val' = [val EXCEPT ![t] = Refreshed(issued + 1, answer, val[t].rt)]
      BY <1>14 DEF KeycloakGrants
    <2>3. live' \in SUBSET Nat
      <3>1. issued + 1 \in Nat /\ live \subseteq Nat
        OBVIOUS
      <3>2. live' \subseteq live \cup {issued + 1}
        BY <2>2, Zenon
      <3> QED
        BY <3>1, <3>2
    <2>4. \A a \in Nat : Refreshed(issued + 1, a, val[t].rt) \in Token
      BY <2>1 DEF Refreshed, Token, NoRefresh
    <2>5. val'[t] \in Token /\ val' \in [Tasks -> OptToken \cup {Unread}]
      BY <2>2, <2>4 DEF NoRefresh, OptToken
    <2>6. \A u \in Tasks \ {t} : val'[u] = val[u]
      BY <2>2
    <2> QED
      BY <1>14, <1>points, <2>3, <2>5, <2>6 DEF KeycloakGrants
  <1>15. CASE RefreshRefused(t)
    BY <1>15, <1>points DEF RefreshRefused
  <1>16. CASE ResponseLost(t)
    BY <1>16, <1>points DEF ResponseLost
  <1>17. CASE StoreToken(t)
    <2>1. val[t] \in OptToken
      BY <1>17 DEF StoreToken, OptToken
    <2>2. [op |-> "refresh", tok |-> val[t]] \in Mutations
      BY <2>1 DEF Mutations
    <2> QED
      BY <1>17, <1>home, <1>points, <2>1, <2>2 DEF StoreToken
  <1>18. CASE Persist(t)
    <2>1. val[t] \in OptToken
      BY <1>18 DEF Persist, OptToken
    <2>2. store' \in OptToken
      BY <1>18, <2>1 DEF Persist, Written
    <2>3. Idle \in Mutations
      BY DEF Idle, Mutations, OptToken
    <2> QED
      BY <1>18, <1>home, <1>points, <2>2, <2>3 DEF Persist
  <1>19. CASE ReadBack(t)
    <2>1. cache' \in [Instances -> OptToken]
      BY <1>19, WriteBackTyped DEF ReadBack
    <2> QED
      BY <1>19, <1>points, <2>1 DEF ReadBack, Orphaned
  <1>20. CASE Release(t)
    BY <1>20, <1>points DEF Release, ReleasedBy, Orphaned, LeaseEnds
  <1> QED
    BY <1>1, <1>2, <1>3, <1>4, <1>5, <1>5a, <1>6, <1>7, <1>8, <1>9, <1>10, <1>11, <1>12,
       <1>13, <1>14, <1>15, <1>16, <1>17, <1>18, <1>19, <1>20 DEF Step

\* What happens around get_token keeps the type invariant.
LEMMA EventTyped ==
    ASSUME TypeOK, Event
    PROVE  TypeOK'
  <1> USE DEF TypeOK, locks, keycloak
  <1>idle. Idle \in Mutations /\ \A op \in Removing \cup Starting : Owes(op) \in Mutations
    BY DEF Idle, Mutations, OptToken, Owes
  <1>drop. ASSUME NEW i \in Instances,
                  RemoveToken(i) \/ RemoveMutex(i) \/ PurgeScan(i) \/ PurgeExpired(i)
           PROVE  TypeOK'
    <2>1. epoch' \in [Instances -> Nat]
      BY <1>drop DEF RemoveToken, RemoveMutex, PurgeScan, PurgeExpired
    <2>2. cache' \in [Instances -> OptToken]
      BY <1>drop DEF RemoveToken, RemoveMutex, PurgeScan, PurgeExpired, OptToken
    <2>3. mutation' \in [Instances -> Mutations]
      BY <1>drop, <1>idle DEF RemoveToken, RemoveMutex, PurgeScan, PurgeExpired, Removing
    <2> QED
      BY <1>drop, <2>1, <2>2, <2>3 DEF RemoveToken, RemoveMutex, PurgeScan, PurgeExpired
  <1>1. ASSUME NEW i \in Instances, NEW withRefresh \in BOOLEAN, NEW spent,
               Login(i, withRefresh, spent)
        PROVE  TypeOK'
    <2> DEFINE tok == [at |-> issued + 1, rt |-> IF withRefresh THEN issued + 1 ELSE NoRefresh]
    <2>1. tok \in Token
      BY DEF Token, NoRefresh
    <2>2. tok \in OptToken /\ [op |-> "login", tok |-> tok] \in Mutations
      BY <2>1 DEF OptToken, Mutations
    <2>3. /\ cache' = [cache EXCEPT ![i] = tok]
          /\ mutation' = [mutation EXCEPT ![i] = [op |-> "login", tok |-> tok]]
      BY <1>1 DEF Login
    <2>4. cache' \in [Instances -> OptToken] /\ mutation' \in [Instances -> Mutations]
      <3> HIDE DEF tok
      <3> QED BY <2>2, <2>3
    <2>5. issued + 1 \in Nat /\ live' \in SUBSET Nat
      <3>1. issued + 1 \in Nat /\ live \subseteq Nat
        OBVIOUS
      <3>2. live' \subseteq live \cup {issued + 1}
        BY <1>1, Zenon DEF Login
      <3> QED
        BY <3>1, <3>2
    <2> QED
      BY <1>1, <2>4, <2>5 DEF Login
  <1>2. ASSUME NEW i \in Instances, CommitMutation(i) PROVE TypeOK'
    <2>1. mutation[i].tok \in OptToken
      BY DEF Mutations
    <2>2. store' \in OptToken
      BY <1>2, <2>1 DEF CommitMutation, Written
    <2> QED
      BY <1>2, <1>idle, <2>2 DEF CommitMutation
  <1>boot. Owes("boot") \in Mutations
    BY <1>idle DEF Starting
  <1>3. ASSUME NEW i \in Instances, Restart(i) PROVE TypeOK'
    <2>1. cache' \in [Instances -> OptToken] /\ mutation' \in [Instances -> Mutations]
      BY <1>3, <1>boot DEF Restart, OptToken
    <2> QED
      BY <1>3, <2>1 DEF Restart, Orphaned, Points
  <1>4. ASSUME NEW n \in 1..MaxIssued, AccessTokenExpires(n) PROVE TypeOK'
    BY <1>4, ConstantsAssumption DEF AccessTokenExpires
  <1>5. CASE LeaseLapses
    BY <1>5 DEF LeaseLapses, LeaseEnds
  <1>6. ASSUME NEW t \in Tasks, Cancel(t) PROVE TypeOK'
    BY <1>6, <1>idle, ConstantsAssumption
    DEF Cancel, Orphaned, NotWaiting, Goto, Forget, Points
  <1>7. ASSUME NEW i \in Instances, LoadPersisted(i) PROVE TypeOK'
    <2>1. /\ Owes("sweep") \in Mutations
          /\ store # NoToken => [op |-> "load", tok |-> store] \in Mutations
      BY <1>idle DEF Mutations, OptToken, Starting
    <2>2. mutation' \in [Instances -> Mutations]
      BY <1>7, <1>idle, <2>1 DEF LoadPersisted
    <2> QED
      BY <1>7, <2>2 DEF LoadPersisted
  <1>8. ASSUME NEW i \in Instances, InsertPersisted(i) PROVE TypeOK'
    <2>1. mutation[i].tok \in OptToken
      BY DEF Mutations
    <2> QED
      BY <1>8, <1>idle, <2>1 DEF InsertPersisted
  <1>9. CASE RecordEvicted
    BY <1>9 DEF RecordEvicted, OptToken
  <1>10. ASSUME NEW i \in Instances, AbandonMutation(i) PROVE TypeOK'
    BY <1>10, <1>idle DEF AbandonMutation
  <1> QED
    BY <1>drop, <1>1, <1>2, <1>3, <1>4, <1>5, <1>6, <1>7, <1>8, <1>9, <1>10 DEF Event

\* The state of the token store is always well typed, and a task that talks to
\* Keycloak or stores its answer carries a token: the entry it found under the
\* lock is not lost from its hands by a removal or a purge (refresh_token).
THEOREM TypeCorrect == Spec => []TypeOK
  <1>1. TypeOK /\ [Next]_vars => TypeOK'
    <2> SUFFICES ASSUME TypeOK, [Next]_vars PROVE TypeOK'
      OBVIOUS
    <2>1. ASSUME NEW t \in Tasks, TaskStep(t) PROVE TypeOK'
      BY <2>1, StepTyped DEF TaskStep
    <2>2. CASE Event
      BY <2>2, EventTyped
    <2>3. CASE UNCHANGED vars
      BY <2>3 DEF vars, TypeOK
    <2> QED
      BY <2>1, <2>2, <2>3, NextSplits
  <1> QED
    BY InitTyped, <1>1, PTL DEF Spec
-----------------------------------------------------------------------------
(***************************************************************************)
(* The lease.                                                              *)
(***************************************************************************)

\* A task moves only itself: the control point, the lease state, the Mutex handle
\* and the token in hand of every other task stay.
LEMMA OthersStay ==
    ASSUME TypeOK, NEW t \in Tasks, TaskStep(t), NEW u \in Tasks \ {t}
    PROVE  /\ pc'[u] = pc[u] /\ holding'[u] = holding[u]
           /\ handle'[u] = handle[u] /\ val'[u] = val[u]
  <1> USE DEF TypeOK, locks, Goto, Finish, Forget
  <1>1. pc'[u] = pc[u] /\ handle'[u] = handle[u]
    BY DEF TaskStep, Step, GetToken, LocalAcquire, WaitTimeout, LoadToken, FirstRead, GetRefreshLock,
           Recheck, Acquire, AcquireBusy, AcquireError, WaitAdopt, PollAgain, FinalCheck,
           Material, KeycloakGrants, RefreshRefused, ResponseLost, StoreToken, Persist,
           ReadBack, Release
  <1>2. holding'[u] = holding[u]
    BY DEF TaskStep, Step, GetToken, LocalAcquire, WaitTimeout, LoadToken, FirstRead, GetRefreshLock,
           Recheck, Acquire, AcquireBusy, AcquireError, WaitAdopt, PollAgain, FinalCheck,
           Material, KeycloakGrants, RefreshRefused, ResponseLost, StoreToken, Persist,
           ReadBack, Release
  <1>3. val'[u] = val[u]
    BY DEF TaskStep, Step, GetToken, LocalAcquire, WaitTimeout, LoadToken, FirstRead, GetRefreshLock,
           Recheck, Acquire, AcquireBusy, AcquireError, WaitAdopt, PollAgain, FinalCheck,
           Material, KeycloakGrants, RefreshRefused, ResponseLost, StoreToken, Persist,
           ReadBack, Release
  <1> QED
    BY <1>1, <1>2, <1>3

\* The inductive form of LeaseExclusion: a task whose TTL runs owns the lease,
\* and one that still believes to hold it is where release_lock lies ahead.
LeaseInv ==
    \A t \in Tasks :
        /\ holding[t] = "held" => dlock = t
        /\ holding[t] # "none" => pc[t] \in Leased

\* With an unbroken lease, the points that are reached under it are reached by
\* its owner only.
OwnerInv ==
    LeaseUnbroken => \A t \in Tasks : pc[t] \in Leased => holding[t] = "held"

\* A step of a task keeps both.
LEMMA StepLeased ==
    ASSUME TypeOK, LeaseInv, OwnerInv, NEW t \in Tasks, TaskStep(t)
    PROVE  LeaseInv' /\ OwnerInv'
  <1> USE DEF TypeOK, LeaseInv, OwnerInv, LeaseUnbroken, Leased, Upstream, locks,
              Goto, Finish
  <1>others. \A u \in Tasks \ {t} :
               pc'[u] = pc[u] /\ holding'[u] = holding[u]
    BY OthersStay
  <1> DEFINE Mine == /\ holding'[t] = "held" => dlock' = t
                     /\ holding'[t] # "none" => pc'[t] \in Leased
                     /\ LeaseUnbroken /\ pc'[t] \in Leased => holding'[t] = "held"
             Theirs == \A u \in Tasks \ {t} : dlock = u => dlock' = u
  <1> SUFFICES Mine /\ Theirs
    BY <1>others
  <1>1. CASE GetToken(t)
    BY <1>1 DEF GetToken
  <1>2. CASE LocalAcquire(t)
    BY <1>2 DEF LocalAcquire
  <1>3. CASE WaitTimeout(t)
    BY <1>3 DEF WaitTimeout
  <1>4. CASE LoadToken(t)
    BY <1>4 DEF LoadToken
  <1>5. CASE FirstRead(t)
    BY <1>5 DEF FirstRead
  <1>5a. CASE GetRefreshLock(t)
    BY <1>5a DEF GetRefreshLock
  <1>6. CASE Recheck(t)
    BY <1>6, ConstantsAssumption DEF Recheck
  <1>7. CASE Acquire(t)
    BY <1>7, LeaseValuesAssumption DEF Acquire
  <1>8. CASE AcquireBusy(t)
    BY <1>8 DEF AcquireBusy
  <1>9. CASE AcquireError(t)
    BY <1>9 DEF AcquireError
  <1>10. CASE WaitAdopt(t)
    BY <1>10 DEF WaitAdopt
  <1>11. CASE PollAgain(t)
    BY <1>11 DEF PollAgain
  <1>12. CASE FinalCheck(t)
    BY <1>12 DEF FinalCheck
  <1>13. CASE Material(t)
    BY <1>13 DEF Material
  <1>14. CASE KeycloakGrants(t)
    BY <1>14 DEF KeycloakGrants
  <1>15. CASE RefreshRefused(t)
    BY <1>15 DEF RefreshRefused
  <1>16. CASE ResponseLost(t)
    BY <1>16 DEF ResponseLost
  <1>17. CASE StoreToken(t)
    BY <1>17 DEF StoreToken
  <1>18. CASE Persist(t)
    BY <1>18 DEF Persist
  <1>19. CASE ReadBack(t)
    BY <1>19 DEF ReadBack, Orphaned
  <1>20. CASE Release(t)
    BY <1>20 DEF Release, ReleasedBy, Orphaned
  <1> QED
    BY <1>1, <1>2, <1>3, <1>4, <1>5, <1>5a, <1>6, <1>7, <1>8, <1>9, <1>10, <1>11, <1>12,
       <1>13, <1>14, <1>15, <1>16, <1>17, <1>18, <1>19, <1>20 DEF Step, TaskStep

\* So does what happens around it: a restart orphans only the leases of the
\* tasks that die, and a TTL ends only the acquisition in the backend.
LEMMA EventLeased ==
    ASSUME TypeOK, LeaseInv, OwnerInv, Event
    PROVE  LeaseInv' /\ OwnerInv'
  <1> USE DEF TypeOK, LeaseInv, OwnerInv, LeaseUnbroken, Leased, Upstream
  <1>1. CASE LeaseLapses
    BY <1>1, LeaseValuesAssumption DEF LeaseLapses
  <1>2. ASSUME NEW i \in Instances, Restart(i) PROVE LeaseInv' /\ OwnerInv'
    BY <1>2 DEF Restart, Orphaned
  <1>3. CASE UNCHANGED <<pc, locks>>
    BY <1>3 DEF locks
  <1>4. ASSUME NEW t \in Tasks, Cancel(t) PROVE LeaseInv' /\ OwnerInv'
    BY <1>4 DEF Cancel, Orphaned, Goto
  <1> QED
    BY <1>1, <1>2, <1>3, <1>4
    DEF Event, Login, RemoveToken, RemoveMutex, PurgeScan, PurgeExpired, CommitMutation,
        AbandonMutation, LoadPersisted, InsertPersisted, RecordEvicted, AccessTokenExpires, locks

\* Both hold in every state.
LEMMA LeaseAlways == Spec => [](TypeOK /\ LeaseInv /\ OwnerInv)
  <1>1. Init => LeaseInv /\ OwnerInv
    BY DEF Init, LeaseInv, OwnerInv, Leased, Upstream
  <1>2. TypeOK /\ LeaseInv /\ OwnerInv /\ [Next]_vars => LeaseInv' /\ OwnerInv'
    <2> SUFFICES ASSUME TypeOK, LeaseInv, OwnerInv, [Next]_vars
                 PROVE  LeaseInv' /\ OwnerInv'
      OBVIOUS
    <2>1. CASE UNCHANGED vars
      BY <2>1 DEF vars, LeaseInv, OwnerInv, LeaseUnbroken
    <2> QED
      BY <2>1, NextSplits, StepLeased, EventLeased
  <1> QED
    BY TypeCorrect, <1>1, <1>2, PTL DEF Spec

\* LeaseExclusion: release_lock, TTLs, timeouts and restarts never take the
\* lease from a task whose TTL still runs.
THEOREM LeaseExcludes == Spec => []LeaseExclusion
  <1>1. LeaseInv => LeaseExclusion
    BY DEF LeaseInv, LeaseExclusion, Leased, Critical, AdoptPoints
  <1> QED
    BY LeaseAlways, <1>1, PTL

\* SerializedRefresh: with an unbroken lease no two tasks, of one instance or
\* of two, are ever refreshing at once (refresh_with_distributed_lock).
THEOREM RefreshSerialized == Spec => []SerializedRefresh
  <1>1. LeaseInv /\ OwnerInv => SerializedRefresh
    BY DEF LeaseInv, OwnerInv, SerializedRefresh, Leased
  <1> QED
    BY LeaseAlways, <1>1, PTL
-----------------------------------------------------------------------------
(***************************************************************************)
(* The local lock.                                                         *)
(***************************************************************************)

\* Past the local lock a task keeps its handle, and only LocalAcquire brings it
\* there.
LEMMA EntersCriticalLocally ==
    ASSUME TypeOK, NEW t \in Tasks, TaskStep(t), pc'[t] \in Critical
    PROVE  handle'[t] = handle[t] /\ (pc[t] \in Critical \/ LocalAcquire(t))
  BY DEF TaskStep, Step, GetToken, LocalAcquire, WaitTimeout, LoadToken, FirstRead, GetRefreshLock,
         Recheck, Acquire, AcquireBusy, AcquireError, WaitAdopt, PollAgain, FinalCheck,
         Material, KeycloakGrants, RefreshRefused, ResponseLost, StoreToken, Persist,
         ReadBack, Release, TypeOK, Goto, Finish, Critical, AdoptPoints, Upstream, locks

\* Two tasks that obtained the same Mutex of refresh_locks are never both past it.
LocalExclusion ==
    \A t, u \in Tasks :
        t # u /\ SameMutex(t, u) => ~(pc[t] \in Critical /\ pc[u] \in Critical)

\* LocalExclusion holds in every state: what the invariants about the cache rest on.
LEMMA LocalExcludes == Spec => []LocalExclusion
  <1>1. Init => LocalExclusion
    BY DEF Init, LocalExclusion, Critical, AdoptPoints, Upstream
  <1>2. TypeOK /\ LocalExclusion /\ [Next]_vars => LocalExclusion'
    <2> SUFFICES ASSUME TypeOK, LocalExclusion, [Next]_vars PROVE LocalExclusion'
      OBVIOUS
    <2>1. ASSUME NEW t \in Tasks, TaskStep(t) PROVE LocalExclusion'
      <3>1. \A u \in Tasks \ {t} : pc'[u] = pc[u] /\ handle'[u] = handle[u]
        BY <2>1, OthersStay
      <3>2. ASSUME NEW u \in Tasks \ {t}, Home[t] = Home[u], handle'[t] = handle'[u],
                   pc'[t] \in Critical, pc'[u] \in Critical
            PROVE  FALSE
        <4>1. handle'[t] = handle[t] /\ (pc[t] \in Critical \/ LocalAcquire(t))
          BY <2>1, <3>2, EntersCriticalLocally
        <4>2. pc[u] \in Critical /\ SameMutex(t, u)
          BY <3>1, <3>2, <4>1 DEF SameMutex
        <4> QED
          BY <4>1, <4>2 DEF LocalExclusion, LocalAcquire
      <3> QED
        BY <3>1, <3>2 DEF LocalExclusion, SameMutex
    <2>2. CASE Event
      <3>1. handle' = handle /\ \A t \in Tasks : pc'[t] \in Critical => pc[t] \in Critical
        <4>1. CASE \E i \in Instances : Restart(i)
          BY <4>1 DEF Restart, Critical, AdoptPoints, Upstream
        <4>2. CASE UNCHANGED <<pc, handle>>
          BY <4>2
        <4>3. CASE \E t \in Tasks : Cancel(t)
          BY <4>3 DEF Cancel, Goto, TypeOK, Critical, AdoptPoints, Upstream
        <4> QED
          BY <2>2, <4>1, <4>2, <4>3
          DEF Event, Login, RemoveToken, RemoveMutex, PurgeScan, PurgeExpired, CommitMutation,
              AbandonMutation, LoadPersisted, InsertPersisted, RecordEvicted, AccessTokenExpires, LeaseLapses
      <3> QED
        BY <3>1 DEF LocalExclusion, SameMutex
    <2>3. CASE UNCHANGED vars
      BY <2>3 DEF vars, LocalExclusion, SameMutex
    <2> QED
      BY <2>1, <2>2, <2>3, NextSplits
  <1> QED
    BY TypeCorrect, <1>1, <1>2, PTL DEF Spec

-----------------------------------------------------------------------------
(***************************************************************************)
(* No duplicate refresh.                                                   *)
(***************************************************************************)

Undisturbed == LeaseUnbroken /\ "login" \notin Events

\* What the final check of adopt_persisted_token rests on: it reads under the
\* lease, and what it has read stays the record until it is used, or the record
\* is removed; nothing else writes a fresh record meanwhile.
FreshInv ==
    Undisturbed =>
        /\ \A i \in Instances : mutation[i].op # "login"
        /\ \A i \in Instances : mutation[i].op \in Removing \cup {"sweep"} => mutation[i].tok = NoToken
        /\ \A t \in Tasks : pc[t] \in {"acquire", "poll"} => val[t] = Unread
        /\ \A t \in Tasks : pc[t] = "final" => val[t] \in {Unread, store} \/ store = NoToken
        /\ \A t \in Tasks : pc[t] \in Upstream => store = NoToken \/ is_expired(store)

\* A step of a task keeps it.
LEMMA StepFresh ==
    ASSUME TypeOK, LeaseInv, OwnerInv, FreshInv, NEW t \in Tasks, TaskStep(t)
    PROVE  FreshInv'
  <1> SUFFICES ASSUME Undisturbed PROVE FreshInv'
    BY DEF FreshInv, Undisturbed, LeaseUnbroken
  <1> USE DEF TypeOK, Goto, Finish, Forget
  <1>calm. HasBackend /\ Events \cap {"lapse", "timeout", "backend", "login"} = {}
    BY DEF Undisturbed, LeaseUnbroken
  <1>inv. /\ \A i \in Instances : mutation[i].op # "login"
          /\ \A i \in Instances : mutation[i].op \in Removing \cup {"sweep"} => mutation[i].tok = NoToken
          /\ \A u \in Tasks : pc[u] \in {"acquire", "poll"} => val[u] = Unread
          /\ \A u \in Tasks : pc[u] = "final" => val[u] \in {Unread, store} \/ store = NoToken
          /\ \A u \in Tasks : pc[u] \in Upstream => store = NoToken \/ is_expired(store)
    BY DEF FreshInv
  <1>others. \A u \in Tasks \ {t} : pc'[u] = pc[u] /\ val'[u] = val[u]
    BY OthersStay
  <1>calls. expired' = expired
    BY DEF TaskStep, Step, GetToken, LocalAcquire, WaitTimeout, LoadToken, FirstRead, GetRefreshLock,
           Recheck, Acquire, AcquireBusy, AcquireError, WaitAdopt, PollAgain, FinalCheck,
           Material, KeycloakGrants, RefreshRefused, ResponseLost, StoreToken, Persist,
           ReadBack, Release
  <1>mutation. /\ \A i \in Instances : mutation'[i].op # "login"
               /\ \A i \in Instances :
                    mutation'[i].op \in Removing \cup {"sweep"} => mutation'[i].tok = NoToken
    <2>1. \/ mutation' = mutation
          \/ \E x : x.op \in {"refresh", "idle"} /\ mutation' = [mutation EXCEPT ![Home[t]] = x]
      BY DEF TaskStep, Step, GetToken, LocalAcquire, WaitTimeout, LoadToken, FirstRead, GetRefreshLock,
             Recheck, Acquire, AcquireBusy, AcquireError, WaitAdopt, PollAgain, FinalCheck,
             Material, KeycloakGrants, RefreshRefused, ResponseLost, StoreToken, Persist,
             ReadBack, Release, Idle
    <2> QED
      BY <2>1, <1>inv DEF Removing
  <1>waiting. pc'[t] \in {"acquire", "poll"} => val'[t] = Unread
    BY <1>inv, <1>calm
    DEF TaskStep, Step, GetToken, LocalAcquire, WaitTimeout, LoadToken, FirstRead, GetRefreshLock,
        Recheck, Acquire, AcquireBusy, AcquireError, WaitAdopt, PollAgain, FinalCheck,
        Material, KeycloakGrants, RefreshRefused, ResponseLost, StoreToken, Persist,
        ReadBack, Release, RawPoints, AdoptPoints
  <1>1. CASE Persist(t)
    <2>1. \A u \in Tasks \ {t} : pc[u] \notin Leased
      BY <1>1, LeaseValuesAssumption
      DEF Persist, LeaseInv, OwnerInv, Undisturbed, Leased, Upstream
    <2> QED
      BY <1>1, <1>others, <1>mutation, <1>waiting, <2>1
      DEF Persist, FreshInv, Leased, Upstream
  <1>2. CASE ~Persist(t)
    <2>1. store' = store
      BY <1>2
      DEF TaskStep, Step, GetToken, LocalAcquire, WaitTimeout, LoadToken, FirstRead, GetRefreshLock,
          Recheck, Acquire, AcquireBusy, AcquireError, WaitAdopt, PollAgain, FinalCheck,
          Material, KeycloakGrants, RefreshRefused, ResponseLost, StoreToken,
          ReadBack, Release
    <2>2. pc'[t] = "final" => val'[t] \in {Unread, store} \/ store = NoToken
      <3>1. CASE LoadToken(t)
        BY <3>1, <1>calm DEF LoadToken, Loadable
      <3>2. CASE Acquire(t)
        BY <3>2, <1>inv DEF Acquire
      <3> QED
        BY <3>1, <3>2, <1>2, <1>calm
        DEF TaskStep, Step, GetToken, LocalAcquire, WaitTimeout, FirstRead, GetRefreshLock,
            Recheck, AcquireBusy, AcquireError, WaitAdopt, PollAgain, FinalCheck,
            Material, KeycloakGrants, RefreshRefused, ResponseLost, StoreToken,
            ReadBack, Release
    <2>3. pc'[t] \in Upstream => store = NoToken \/ is_expired(store)
      <3>1. CASE FinalCheck(t)
        BY <3>1, <1>inv DEF FinalCheck, Adoptable, Upstream
      <3>2. CASE pc[t] \in Upstream
        BY <3>2, <1>inv
      <3> QED
        BY <3>1, <3>2, <1>2, <1>calm
        DEF TaskStep, Step, GetToken, LocalAcquire, WaitTimeout, LoadToken, FirstRead, GetRefreshLock,
            Recheck, Acquire, AcquireBusy, AcquireError, WaitAdopt, PollAgain,
            Material, KeycloakGrants, RefreshRefused, ResponseLost, StoreToken,
            ReadBack, Release, Upstream
    <2> QED
      BY <1>inv, <1>others, <1>calls, <1>mutation, <1>waiting, <2>1, <2>2, <2>3
      DEF FreshInv, is_expired
  <1> QED
    BY <1>1, <1>2

\* So does what happens around it: time only lets tokens expire, a restart or a
\* removal only lets the record go.
LEMMA EventFresh ==
    ASSUME TypeOK, FreshInv, Event
    PROVE  FreshInv'
  <1> SUFFICES ASSUME Undisturbed PROVE FreshInv'
    BY DEF FreshInv, Undisturbed, LeaseUnbroken
  <1> USE DEF TypeOK, FreshInv, Undisturbed, LeaseUnbroken, is_expired, Upstream, locks
  <1>drop. ASSUME NEW i \in Instances,
                  RemoveToken(i) \/ RemoveMutex(i) \/ PurgeScan(i) \/ PurgeExpired(i)
           PROVE  FreshInv'
    BY <1>drop DEF RemoveToken, RemoveMutex, PurgeScan, PurgeExpired, Owes
  <1>1. ASSUME NEW i \in Instances, NEW b \in BOOLEAN, NEW spent, Login(i, b, spent)
        PROVE  FreshInv'
    BY <1>1 DEF Login
  <1>2. ASSUME NEW i \in Instances, CommitMutation(i) PROVE FreshInv'
    BY <1>2 DEF CommitMutation, Written, Idle, Removing
  <1>3. ASSUME NEW i \in Instances, Restart(i) PROVE FreshInv'
    BY <1>3 DEF Restart, Idle, Owes
  <1>4. ASSUME NEW n \in 1..MaxIssued, AccessTokenExpires(n) PROVE FreshInv'
    BY <1>4 DEF AccessTokenExpires
  <1>5. CASE LeaseLapses
    BY <1>5 DEF LeaseLapses
  <1>6. ASSUME NEW t \in Tasks, Cancel(t) PROVE FreshInv'
    BY <1>6, ConstantsAssumption DEF Cancel, Idle, Goto, Forget
  <1>7. ASSUME NEW i \in Instances, LoadPersisted(i) PROVE FreshInv'
    BY <1>7 DEF LoadPersisted, Idle, Owes, Removing
  <1>8. ASSUME NEW i \in Instances, InsertPersisted(i) PROVE FreshInv'
    BY <1>8 DEF InsertPersisted, Idle
  <1>9. CASE RecordEvicted
    BY <1>9 DEF RecordEvicted
  <1>10. ASSUME NEW i \in Instances, AbandonMutation(i) PROVE FreshInv'
    BY <1>10 DEF AbandonMutation, Idle
  <1> QED
    BY <1>drop, <1>1, <1>2, <1>3, <1>4, <1>5, <1>6, <1>7, <1>8, <1>9, <1>10 DEF Event

\* NoNeedlessRefresh: with an unbroken lease a refresh goes upstream only while
\* the shared record is gone or expired; a peer's fresh token is adopted.
THEOREM RefreshNeeded == Spec => []NoNeedlessRefresh
  <1>1. Init => FreshInv
    BY DEF Init, FreshInv, Idle, Upstream
  <1>2. /\ TypeOK /\ LeaseInv /\ OwnerInv /\ FreshInv
        /\ [Next]_vars
        => FreshInv'
    <2> SUFFICES ASSUME TypeOK, LeaseInv, OwnerInv, FreshInv, [Next]_vars
                 PROVE  FreshInv'
      OBVIOUS
    <2>1. CASE UNCHANGED vars
      BY <2>1 DEF vars, FreshInv, Undisturbed, LeaseUnbroken, is_expired
    <2> QED
      BY <2>1, NextSplits, StepFresh, EventFresh
  <1>3. FreshInv => NoNeedlessRefresh
    BY DEF FreshInv, NoNeedlessRefresh, Undisturbed
  <1> QED
    BY LeaseAlways, <1>1, <1>2, <1>3, PTL DEF Spec


-----------------------------------------------------------------------------
(***************************************************************************)
(* The grant survives, and the record never goes back: a Keycloak that     *)
(* rotates.                                                                *)
(***************************************************************************)

\* Keycloak rotates the refresh token with every answer, and no one but get_token
\* changes the session: leases lapse, waits give up, the backend fails, instances die.
Rotating ==
    Events \subseteq {"crash", "lapse", "timeout", "backend"} /\ Rotation = {TRUE}

\* A token that came with its own refresh token.
Paired(tok) == tok \notin {NoToken, Unread} => tok.at \in 1..issued /\ tok.rt = tok.at

\* The token Keycloak issued last.
Newest(tok) == tok \notin {NoToken, Unread} /\ tok.rt = issued

\* Only the newest refresh token is honoured; every older token was expired when it
\* was refreshed, so an unexpired token is the newest.
PairedInv ==
    /\ issued >= 1 /\ live = {issued}
    /\ \A n \in 1..issued : n \in expired \/ n = issued
    /\ Paired(store)
    /\ \A i \in Instances : Paired(cache[i]) /\ Paired(mutation[i].tok)
    /\ \A t \in Tasks : Paired(val[t])

\* Nothing is removed, so every task of an instance gets the same Mutex, and an
\* instance that starts has no tasks.
CalmInv ==
    /\ \A i \in Instances :
         /\ epoch[i] = 0
         /\ \/ mutation[i].op \in {"idle", "refresh"}
            \/ mutation[i].op \in {"boot", "load"} /\ "crash" \in Events
    /\ \A t \in Tasks :
         handle[t] = 0 /\ (mutation[Home[t]].op \in {"boot", "load"} => pc[t] = "idle")

\* Past the first read the cache has an entry, which is expired from the re-check
\* to the refresh and is what store_token has put there until it is persisted.
EntryInv ==
    \A t \in Tasks :
        /\ pc[t] \in Critical \cup {"lookup", "local"} => cache[Home[t]] # NoToken
        /\ pc[t] \in {"lookup", "local", "recheck"} => val[t] = Unread
        /\ pc[t] \in {"acquire", "adopt", "poll", "final", "material"} =>
             cache[Home[t]].at \in expired
        /\ pc[t] = "post" => val[t].at \in expired
        /\ pc[t] = "persist" => cache[Home[t]] = val[t]

\* Until its answer is persisted, the task that got it is the only one that has the
\* newest token, apart from the cache of its own instance.
PrivateInv ==
    \A t \in Tasks : pc[t] \in {"answered", "persist"} =>
        /\ Newest(val[t]) /\ ~Newest(store)
        /\ \A u \in Tasks \ {t} : ~Newest(val[u])
        /\ \A i \in Instances : Newest(cache[i]) \/ Newest(mutation[i].tok) =>
             i = Home[t] /\ pc[t] = "persist"

\* The newest refresh token is held somewhere.
KeptInv == "crash" \notin Events => Kept(issued)

GrantInv == Rotating => PairedInv /\ CalmInv /\ EntryInv /\ PrivateInv /\ KeptInv

\* The events that are left: time, a restart, and the boot after it.
LEMMA RotatingEvent ==
    ASSUME TypeOK, Rotating, PairedInv, CalmInv, Event
    PROVE  \/ \E i \in Instances : Restart(i) \/ LoadPersisted(i) \/ InsertPersisted(i)
           \/ \E n \in 1..MaxIssued : AccessTokenExpires(n)
           \/ LeaseLapses
  <1>1. ASSUME NEW tok, Paired(tok), tok # Unread PROVE ~Useless(tok)
    BY <1>1 DEF Useless, Paired, NoRefresh, TypeOK
  <1>2. ASSUME NEW i \in Instances, PurgeScan(i) PROVE FALSE
    BY <1>1, <1>2, SentinelsAssumption DEF PurgeScan, TypeOK, PairedInv, OptToken
  <1>3. ASSUME NEW i \in Instances,
               RemoveMutex(i) \/ PurgeExpired(i) \/ CommitMutation(i) \/ AbandonMutation(i)
        PROVE  FALSE
    BY <1>3 DEF RemoveMutex, PurgeExpired, CommitMutation, AbandonMutation, CalmInv
  <1>4. ~RecordEvicted
    BY <1>1, SentinelsAssumption DEF RecordEvicted, TypeOK, PairedInv, OptToken
  <1> QED
    BY <1>2, <1>3, <1>4 DEF Event, Cancel, Login, RemoveToken, Rotating

\* Every step keeps what may happen to an instance.
LEMMA CalmStep ==
    ASSUME TypeOK, Rotating, PairedInv, CalmInv, NEW t \in Tasks, TaskStep(t)
    PROVE  CalmInv'
  <1>1. epoch' = epoch
    BY DEF TaskStep, Step, GetToken, LocalAcquire, WaitTimeout, LoadToken, FirstRead, GetRefreshLock,
           Recheck, Acquire, AcquireBusy, AcquireError, WaitAdopt, PollAgain, FinalCheck,
           Material, KeycloakGrants, RefreshRefused, ResponseLost, StoreToken, Persist,
           ReadBack, Release
  <1>2. \A u \in Tasks \ {t} : pc'[u] = pc[u] /\ handle'[u] = handle[u]
    BY OthersStay
  <1>3. handle'[t] = 0
    BY ConstantsAssumption
    DEF TaskStep, Step, GetToken, LocalAcquire, WaitTimeout, LoadToken, FirstRead, GetRefreshLock,
        Recheck, Acquire, AcquireBusy, AcquireError, WaitAdopt, PollAgain, FinalCheck,
        Material, KeycloakGrants, RefreshRefused, ResponseLost, StoreToken, Persist,
        ReadBack, Release, CalmInv, TypeOK
  <1>4. mutation[Home[t]].op \notin {"boot", "load"}
    BY ConstantsAssumption
    DEF TaskStep, Step, GetToken, LocalAcquire, WaitTimeout, LoadToken, FirstRead, GetRefreshLock,
        Recheck, Acquire, AcquireBusy, AcquireError, WaitAdopt, PollAgain, FinalCheck,
        Material, KeycloakGrants, RefreshRefused, ResponseLost, StoreToken, Persist,
        ReadBack, Release, CalmInv, Starting, RawPoints, AdoptPoints
  <1>5. \/ mutation' = mutation
        \/ \E x : x.op \in {"refresh", "idle"} /\ mutation' = [mutation EXCEPT ![Home[t]] = x]
    BY DEF TaskStep, Step, GetToken, LocalAcquire, WaitTimeout, LoadToken, FirstRead, GetRefreshLock,
           Recheck, Acquire, AcquireBusy, AcquireError, WaitAdopt, PollAgain, FinalCheck,
           Material, KeycloakGrants, RefreshRefused, ResponseLost, StoreToken, Persist,
           ReadBack, Release, Idle
  <1> QED
    BY <1>1, <1>2, <1>3, <1>4, <1>5, ConstantsAssumption DEF CalmInv, TypeOK

\* So does every event.
LEMMA CalmEvent ==
    ASSUME TypeOK, Rotating, PairedInv, CalmInv, Event
    PROVE  CalmInv'
  <1>1. ASSUME NEW i \in Instances, Restart(i) PROVE CalmInv'
    BY <1>1, ConstantsAssumption DEF Restart, CalmInv, TypeOK, Owes
  <1>2. ASSUME NEW i \in Instances, LoadPersisted(i) PROVE CalmInv'
    <2>1. ~Useless(store)
      BY SentinelsAssumption DEF Useless, PairedInv, Paired, TypeOK, NoRefresh, OptToken
    <2> QED
      BY <1>2, <2>1, ConstantsAssumption DEF LoadPersisted, CalmInv, TypeOK, Idle
  <1>3. ASSUME NEW i \in Instances, InsertPersisted(i) PROVE CalmInv'
    BY <1>3, ConstantsAssumption DEF InsertPersisted, CalmInv, TypeOK, Idle
  <1>4. ASSUME UNCHANGED <<epoch, mutation, pc, handle>> PROVE CalmInv'
    BY <1>4 DEF CalmInv
  <1> QED
    BY <1>1, <1>2, <1>3, <1>4, RotatingEvent DEF AccessTokenExpires, LeaseLapses

\* What a task can do to the tokens others see. Only Keycloak makes a token; the
\* cache of the task's instance gets what the task carries, the record what it
\* persists.
LEMMA TokensMove ==
    ASSUME TypeOK, NEW t \in Tasks, TaskStep(t), ~KeycloakGrants(t)
    PROVE  /\ issued' = issued /\ live' = live /\ expired' = expired
           /\ store' = store \/ (store' = val[t] /\ pc[t] = "persist")
           /\ \A i \in Instances :
                /\ cache'[i] = cache[i] \/ (i = Home[t] /\ cache'[i] = val[t] /\ val[t] \in OptToken)
                /\ mutation'[i].tok \in {mutation[i].tok, NoToken}
                     \/ (i = Home[t] /\ mutation'[i].tok = val[t] /\ pc[t] = "answered")
           /\ val'[t] \in {val[t], Unread, NoToken, store}
                \/ (val'[t] = cache[Home[t]] /\ pc[t] = "material")
  <1> USE DEF TypeOK
  <1>1. issued' = issued /\ live' = live /\ expired' = expired
    BY DEF TaskStep, Step, GetToken, LocalAcquire, WaitTimeout, LoadToken, FirstRead, GetRefreshLock,
           Recheck, Acquire, AcquireBusy, AcquireError, WaitAdopt, PollAgain, FinalCheck,
           Material, RefreshRefused, ResponseLost, StoreToken, Persist,
           ReadBack, Release, keycloak
  <1>2. store' = store \/ (store' = val[t] /\ pc[t] = "persist")
    BY DEF TaskStep, Step, GetToken, LocalAcquire, WaitTimeout, LoadToken, FirstRead, GetRefreshLock,
           Recheck, Acquire, AcquireBusy, AcquireError, WaitAdopt, PollAgain, FinalCheck,
           Material, RefreshRefused, ResponseLost, StoreToken, Persist,
           ReadBack, Release, Written
  <1>3. ASSUME NEW i \in Instances
        PROVE  cache'[i] = cache[i] \/ (i = Home[t] /\ cache'[i] = val[t] /\ val[t] \in OptToken)
    <2>1. ASSUME RawReady(t), WriteBack(t)
          PROVE  cache'[i] = cache[i] \/ (i = Home[t] /\ cache'[i] = val[t] /\ val[t] \in OptToken)
      BY <2>1, ConstantsAssumption DEF RawReady, WriteBack, get_token_raw
    <2>2. ASSUME Adopt(t), Adoptable(t), val[t] # Unread
          PROVE  cache'[i] = cache[i] \/ (i = Home[t] /\ cache'[i] = val[t] /\ val[t] \in OptToken)
      BY <2>2, ConstantsAssumption DEF Adopt
    <2>3. ASSUME StoreToken(t)
          PROVE  cache'[i] = cache[i] \/ (i = Home[t] /\ cache'[i] = val[t] /\ val[t] \in OptToken)
      BY <2>3, ConstantsAssumption DEF StoreToken, OptToken
    <2>4. cache' = cache \/ (RawReady(t) /\ WriteBack(t))
            \/ (Adopt(t) /\ Adoptable(t) /\ val[t] # Unread) \/ StoreToken(t)
      BY DEF TaskStep, Step, GetToken, LocalAcquire, WaitTimeout, LoadToken, FirstRead, GetRefreshLock,
             Recheck, Acquire, AcquireBusy, AcquireError, WaitAdopt, PollAgain, FinalCheck,
             Material, RefreshRefused, ResponseLost, StoreToken, Persist,
             ReadBack, Release
    <2> QED
      BY <2>1, <2>2, <2>3, <2>4
  <1>4. ASSUME NEW i \in Instances
        PROVE  mutation'[i].tok \in {mutation[i].tok, NoToken}
                 \/ (i = Home[t] /\ mutation'[i].tok = val[t] /\ pc[t] = "answered")
    BY ConstantsAssumption
    DEF TaskStep, Step, GetToken, LocalAcquire, WaitTimeout, LoadToken, FirstRead, GetRefreshLock,
        Recheck, Acquire, AcquireBusy, AcquireError, WaitAdopt, PollAgain, FinalCheck,
        Material, RefreshRefused, ResponseLost, StoreToken, Persist,
        ReadBack, Release, Idle
  <1>5. val'[t] \in {val[t], Unread, NoToken, store}
          \/ (val'[t] = cache[Home[t]] /\ pc[t] = "material")
    BY DEF TaskStep, Step, GetToken, LocalAcquire, WaitTimeout, LoadToken, FirstRead, GetRefreshLock,
           Recheck, Acquire, AcquireBusy, AcquireError, WaitAdopt, PollAgain, FinalCheck,
           Material, RefreshRefused, ResponseLost, StoreToken, Persist,
           ReadBack, Release, Loadable, Forget, get_token_raw
  <1> QED
    BY <1>1, <1>2, <1>3, <1>4, <1>5

\* A refresh that Keycloak grants presented the newest refresh token and got a newer.
LEMMA NewestPresented ==
    ASSUME TypeOK, Rotating, PairedInv, EntryInv, NEW t \in Tasks, KeycloakGrants(t)
    PROVE  /\ issued' = issued + 1 /\ live' = {issued'} /\ issued \in expired
           /\ val' = [val EXCEPT ![t] = [at |-> issued', rt |-> issued']]
           /\ Newest(val[t])
           /\ pc[t] = "post" /\ pc' = [pc EXCEPT ![t] = "answered"]
           /\ UNCHANGED <<cache, store, mutation, epoch, expired, handle>>
  <1>1. val[t] \in Token /\ val[t].rt = issued /\ val[t].at = issued /\ val[t].at \in expired
    BY SentinelsAssumption DEF KeycloakGrants, TypeOK, PairedInv, Paired, EntryInv
  <1>2. /\ issued' = issued + 1 /\ live' = {issued'}
        /\ val' = [val EXCEPT ![t] = [at |-> issued', rt |-> issued']]
    <2>1. issued' = issued + 1 /\ issued + 1 # NoRefresh /\ TRUE \in Rotation
      BY DEF KeycloakGrants, Rotating, NoRefresh, TypeOK
    <2>2. PICK rotated \in Rotation :
            LET answer == IF rotated THEN issued + 1 ELSE NoRefresh IN
            /\ live' = IF rotated THEN (live \ {val[t].rt}) \cup {answer} ELSE live
            /\ val' = [val EXCEPT ![t] = Refreshed(issued + 1, answer, val[t].rt)]
      BY DEF KeycloakGrants
    <2>3. rotated = TRUE
      BY DEF Rotating
    <2>4. live' = {issued + 1}
      BY <1>1, <2>2, <2>3 DEF PairedInv
    <2>5. Refreshed(issued + 1, issued + 1, val[t].rt) = [at |-> issued + 1, rt |-> issued + 1]
      BY <2>1 DEF Refreshed
    <2> QED
      BY <2>1, <2>2, <2>3, <2>4, <2>5
  <1> QED
    BY <1>1, <1>2, SentinelsAssumption DEF KeycloakGrants, Newest, Goto

\* Tokens stay paired, and only the newest is unexpired.
LEMMA PairedStep ==
    ASSUME TypeOK, Rotating, PairedInv, EntryInv, NEW t \in Tasks, TaskStep(t)
    PROVE  PairedInv'
  <1>1. CASE KeycloakGrants(t)
    <2>1. \A tok \in OptToken \cup {Unread} : Paired(tok) => Paired(tok)'
      BY <1>1, NewestPresented DEF Paired, TypeOK
    <2>2. \A n \in 1..issued' : n \in expired' \/ n = issued'
      BY <1>1, NewestPresented DEF PairedInv, TypeOK
    <2>3. Paired(store)' /\ \A i \in Instances : Paired(cache[i])' /\ Paired(mutation[i].tok)'
      BY <1>1, <2>1, NewestPresented DEF PairedInv, TypeOK, Mutations, Paired
    <2>4. \A u \in Tasks : Paired(val[u])'
      BY <1>1, <2>1, NewestPresented DEF PairedInv, TypeOK, Paired
    <2> QED
      BY <1>1, <2>2, <2>3, <2>4, NewestPresented DEF PairedInv, TypeOK
  <1>2. CASE ~KeycloakGrants(t)
    <2>1. issued' = issued /\ live' = live /\ expired' = expired
      BY <1>2, TokensMove
    <2>2. Paired(store)'
      BY <1>2, <2>1, TokensMove DEF PairedInv, Paired
    <2>3. \A i \in Instances : Paired(cache[i])' /\ Paired(mutation[i].tok)'
      BY <1>2, <2>1, TokensMove DEF PairedInv, Paired
    <2>4. Paired(val[t])'
      BY <1>2, <2>1, TokensMove, ConstantsAssumption DEF PairedInv, Paired
    <2>5. \A u \in Tasks \ {t} : Paired(val[u])'
      BY <2>1, OthersStay DEF PairedInv, Paired
    <2> QED
      BY <2>1, <2>2, <2>3, <2>4, <2>5 DEF PairedInv
  <1> QED
    BY <1>1, <1>2

\* Events move tokens from the record to an instance that starts, or let them go.
LEMMA PairedEvent ==
    ASSUME TypeOK, Rotating, PairedInv, CalmInv, Event
    PROVE  PairedInv'
  <1> USE DEF PairedInv, Paired, TypeOK
  <1>1. ASSUME NEW i \in Instances, Restart(i) PROVE PairedInv'
    BY <1>1 DEF Restart, keycloak, Owes
  <1>2. ASSUME NEW i \in Instances, LoadPersisted(i) PROVE PairedInv'
    <2>1. \A j \in Instances : mutation'[j].tok \in {mutation[j].tok, store, NoToken}
      BY <1>2 DEF LoadPersisted, Idle, Owes
    <2> QED
      BY <1>2, <2>1 DEF LoadPersisted, keycloak
  <1>3. ASSUME NEW i \in Instances, InsertPersisted(i) PROVE PairedInv'
    BY <1>3 DEF InsertPersisted, keycloak, Idle
  <1>4. ASSUME NEW n \in 1..MaxIssued, AccessTokenExpires(n) PROVE PairedInv'
    BY <1>4 DEF AccessTokenExpires, keycloak
  <1>5. CASE LeaseLapses
    BY <1>5 DEF LeaseLapses, keycloak
  <1> QED
    BY <1>1, <1>2, <1>3, <1>4, <1>5, RotatingEvent

\* An entry is not lost, and the one under a task past the local lock is changed by
\* that task only: the others of its instance wait for the Mutex.
LEMMA EntryStays ==
    ASSUME TypeOK, CalmInv, EntryInv, LocalExclusion, NEW t \in Tasks, TaskStep(t)
    PROVE  /\ \A i \in Instances : cache[i] # NoToken => cache'[i] # NoToken
           /\ \A u \in Tasks \ {t} : pc[u] \in Critical => cache'[Home[u]] = cache[Home[u]]
  <1> USE DEF TypeOK
  <1>1. \/ cache' = cache
        \/ WriteBack(t)
        \/ (Adopt(t) /\ Adoptable(t) /\ pc[t] \in Critical)
        \/ (StoreToken(t) /\ pc[t] \in Critical)
    BY DEF TaskStep, Step, GetToken, LocalAcquire, WaitTimeout, LoadToken, FirstRead, GetRefreshLock,
           Recheck, Acquire, AcquireBusy, AcquireError, WaitAdopt, PollAgain, FinalCheck,
           Material, KeycloakGrants, RefreshRefused, ResponseLost, StoreToken, Persist,
           ReadBack, Release, Critical, AdoptPoints, Upstream
  <1>2. ASSUME NEW i \in Instances, cache[i] # NoToken PROVE cache'[i] # NoToken
    BY <1>1, <1>2, SentinelsAssumption DEF WriteBack, Adopt, Adoptable, StoreToken
  <1>3. ASSUME NEW u \in Tasks \ {t}, pc[u] \in Critical PROVE cache'[Home[u]] = cache[Home[u]]
    <2>1. cache[Home[u]] # NoToken /\ Home[u] \in Instances /\ Home[t] \in Instances
      BY <1>3, ConstantsAssumption DEF EntryInv
    <2>2. CASE Home[t] # Home[u]
      BY <1>1, <2>1, <2>2 DEF WriteBack, Adopt, StoreToken
    <2>3. CASE Home[t] = Home[u]
      <3>1. pc[t] \notin Critical
        BY <1>3, <2>3 DEF LocalExclusion, SameMutex, CalmInv
      <3> QED
        BY <1>1, <2>1, <2>3, <3>1 DEF WriteBack
    <2> QED
      BY <2>2, <2>3
  <1> QED
    BY <1>2, <1>3

\* A task that passes the first read leaves an entry behind it.
LEMMA EntryFound ==
    ASSUME TypeOK, EntryInv, CalmInv, LocalExclusion, NEW t \in Tasks, TaskStep(t),
           pc'[t] \in Critical \cup {"lookup", "local"}
    PROVE  cache'[Home[t]] # NoToken
  <1>1. CASE pc[t] \in Critical \cup {"lookup", "local"}
    BY <1>1, EntryStays, ConstantsAssumption DEF EntryInv
  <1>2. CASE FirstRead(t)
    BY <1>2, ConstantsAssumption DEF FirstRead, WriteBack, Goto, TypeOK, Critical, AdoptPoints,
       Upstream
  <1>3. pc[t] \in Critical \cup {"lookup", "local"} \/ FirstRead(t)
    BY DEF TaskStep, Step, GetToken, GetRefreshLock, LocalAcquire, WaitTimeout, LoadToken,
           Recheck, Acquire, AcquireBusy, AcquireError, WaitAdopt, PollAgain, FinalCheck,
           Material, KeycloakGrants, RefreshRefused, ResponseLost, StoreToken, Persist,
           ReadBack, Release, Critical, AdoptPoints, Upstream, RawPoints, Goto, TypeOK
  <1> QED
    BY <1>1, <1>2, <1>3

\* What the cache holds from the re-check on is expired, and is what is presented.
LEMMA EntryExpired ==
    ASSUME TypeOK, EntryInv, NEW t \in Tasks, TaskStep(t)
    PROVE  /\ pc'[t] \in {"lookup", "local", "recheck"} => val'[t] = Unread
           /\ pc'[t] \in {"acquire", "adopt", "poll", "final", "material"} =>
                cache'[Home[t]].at \in expired
           /\ pc'[t] = "post" => val'[t].at \in expired
           /\ pc'[t] = "persist" => cache'[Home[t]] = val'[t]
  <1> USE ConstantsAssumption, SentinelsAssumption DEF TypeOK, Goto, Forget, Finish
  <1>1. CASE LoadToken(t)
    BY <1>1 DEF LoadToken, EntryInv, RawPoints, AdoptPoints, Critical, Upstream
  <1>2. CASE FirstRead(t)
    BY <1>2 DEF FirstRead
  <1>3. CASE GetRefreshLock(t) \/ LocalAcquire(t)
    BY <1>3 DEF GetRefreshLock, LocalAcquire, EntryInv
  <1>4. CASE Recheck(t)
    <2>1. cache[Home[t]] # NoToken /\ val[t] = Unread /\ get_token_raw(t) = cache[Home[t]]
      BY <1>4 DEF Recheck, EntryInv, get_token_raw, Critical
    <2>2. cache' = cache
      BY <1>4, <2>1 DEF Recheck, WriteBack
    <2> QED
      BY <1>4, <2>1, <2>2 DEF Recheck, is_expired
  <1>5. CASE Acquire(t) \/ AcquireBusy(t) \/ AcquireError(t) \/ PollAgain(t) \/ WaitTimeout(t)
    BY <1>5 DEF Acquire, AcquireBusy, AcquireError, PollAgain, WaitTimeout, EntryInv
  <1>6. CASE WaitAdopt(t)
    BY <1>6 DEF WaitAdopt, EntryInv
  <1>7. CASE FinalCheck(t)
    BY <1>7 DEF FinalCheck, EntryInv
  <1>8. CASE Material(t)
    <2>1. cache[Home[t]] # NoToken /\ cache[Home[t]].at \in expired
      BY <1>8 DEF Material, EntryInv, Critical, Upstream
    <2>2. get_token_raw(t) # NoToken => get_token_raw(t) = cache[Home[t]]
      BY <2>1 DEF get_token_raw
    <2> QED
      BY <1>8, <2>1, <2>2 DEF Material
  <1>9. CASE StoreToken(t)
    BY <1>9 DEF StoreToken
  <1> QED
    BY <1>1, <1>2, <1>3, <1>4, <1>5, <1>6, <1>7, <1>8, <1>9
    DEF TaskStep, Step, GetToken, KeycloakGrants, RefreshRefused, ResponseLost, Persist,
        ReadBack, Release

\* Together: a step of a task keeps what is known of every task's entry.
LEMMA EntryStep ==
    ASSUME TypeOK, CalmInv, EntryInv, LocalExclusion, NEW t \in Tasks, TaskStep(t)
    PROVE  EntryInv'
  <1>1. expired' = expired
    BY DEF TaskStep, Step, GetToken, LocalAcquire, WaitTimeout, LoadToken, FirstRead, GetRefreshLock,
           Recheck, Acquire, AcquireBusy, AcquireError, WaitAdopt, PollAgain, FinalCheck,
           Material, KeycloakGrants, RefreshRefused, ResponseLost, StoreToken, Persist,
           ReadBack, Release
  <1>2. /\ pc'[t] \in Critical \cup {"lookup", "local"} => cache'[Home[t]] # NoToken
        /\ pc'[t] \in {"lookup", "local", "recheck"} => val'[t] = Unread
        /\ pc'[t] \in {"acquire", "adopt", "poll", "final", "material"} =>
             cache'[Home[t]].at \in expired'
        /\ pc'[t] = "post" => val'[t].at \in expired'
        /\ pc'[t] = "persist" => cache'[Home[t]] = val'[t]
    BY <1>1, EntryFound, EntryExpired
  <1>3. ASSUME NEW u \in Tasks \ {t}
        PROVE  /\ pc'[u] \in Critical \cup {"lookup", "local"} => cache'[Home[u]] # NoToken
               /\ pc'[u] \in {"lookup", "local", "recheck"} => val'[u] = Unread
               /\ pc'[u] \in {"acquire", "adopt", "poll", "final", "material"} =>
                    cache'[Home[u]].at \in expired'
               /\ pc'[u] = "post" => val'[u].at \in expired'
               /\ pc'[u] = "persist" => cache'[Home[u]] = val'[u]
    <2>1. pc'[u] = pc[u] /\ val'[u] = val[u] /\ Home[u] \in Instances
      BY OthersStay, ConstantsAssumption
    <2>2. pc[u] \in Critical => cache'[Home[u]] = cache[Home[u]]
      BY EntryStays
    <2>3. cache[Home[u]] # NoToken => cache'[Home[u]] # NoToken
      BY <2>1, EntryStays
    <2> QED
      BY <1>1, <2>1, <2>2, <2>3 DEF EntryInv, Critical, AdoptPoints, Upstream
  <1> QED
    BY <1>2, <1>3 DEF EntryInv

\* An instance that starts has no task under way, and expiry is for good.
LEMMA EntryEvent ==
    ASSUME TypeOK, Rotating, PairedInv, CalmInv, EntryInv, Event
    PROVE  EntryInv'
  <1> USE ConstantsAssumption DEF TypeOK
  <1>1. ASSUME NEW i \in Instances, Restart(i) PROVE EntryInv'
    <2>1. ASSUME NEW t \in Tasks, Home[t] = i PROVE pc'[t] = "idle"
      BY <1>1, <2>1 DEF Restart
    <2>2. ASSUME NEW t \in Tasks, Home[t] # i
          PROVE pc'[t] = pc[t] /\ val'[t] = val[t] /\ cache'[Home[t]] = cache[Home[t]]
      BY <1>1, <2>2 DEF Restart
    <2>3. expired' = expired
      BY <1>1 DEF Restart
    <2> QED
      BY <2>1, <2>2, <2>3 DEF EntryInv, Critical, AdoptPoints, Upstream
  <1>2. ASSUME NEW i \in Instances, LoadPersisted(i) PROVE EntryInv'
    BY <1>2 DEF LoadPersisted, EntryInv
  <1>3. ASSUME NEW i \in Instances, InsertPersisted(i) PROVE EntryInv'
    <2>1. ASSUME NEW t \in Tasks, Home[t] = i PROVE pc'[t] = "idle"
      BY <1>3, <2>1 DEF InsertPersisted, CalmInv
    <2>2. ASSUME NEW t \in Tasks, Home[t] # i PROVE cache'[Home[t]] = cache[Home[t]]
      BY <1>3, <2>2 DEF InsertPersisted
    <2>3. UNCHANGED <<pc, val, expired>>
      BY <1>3 DEF InsertPersisted
    <2> QED
      BY <2>1, <2>2, <2>3 DEF EntryInv, Critical, AdoptPoints, Upstream
  <1>4. ASSUME NEW n \in 1..MaxIssued, AccessTokenExpires(n) PROVE EntryInv'
    BY <1>4 DEF AccessTokenExpires, EntryInv
  <1>5. CASE LeaseLapses
    BY <1>5 DEF LeaseLapses, EntryInv
  <1> QED
    BY <1>1, <1>2, <1>3, <1>4, <1>5, RotatingEvent

\* Who gets an answer gets one that nobody has seen; the others carry what they have
\* read before it was persisted.
LEMMA PrivateStep ==
    ASSUME TypeOK, Rotating, PairedInv, CalmInv, EntryInv, PrivateInv, LocalExclusion,
           NEW t \in Tasks, TaskStep(t)
    PROVE  PrivateInv'
  <1> USE ConstantsAssumption, SentinelsAssumption
  <1>others. \A u \in Tasks \ {t} : pc'[u] = pc[u] /\ val'[u] = val[u]
    BY OthersStay
  <1>1. CASE KeycloakGrants(t)
    <2>1. \A tok \in OptToken \cup {Unread} : Paired(tok) => ~Newest(tok)'
      BY <1>1, NewestPresented DEF Paired, Newest, TypeOK, OptToken, Token
    <2>2. \A u \in Tasks \ {t} : pc'[u] \notin {"answered", "persist"}
      BY <1>1, <1>others, NewestPresented DEF PrivateInv
    <2>3. ~Newest(store)' /\ \A i \in Instances : ~Newest(cache[i])' /\ ~Newest(mutation[i].tok)'
      <3>1. store' = store /\ cache' = cache /\ mutation' = mutation
        BY <1>1, NewestPresented
      <3>2. store \in OptToken /\ \A i \in Instances : cache[i] \in OptToken /\ mutation[i].tok \in OptToken
        BY DEF TypeOK, Mutations
      <3> QED
        BY <2>1, <3>1, <3>2 DEF PairedInv, Newest
    <2>4. \A u \in Tasks \ {t} : ~Newest(val[u])'
      BY <2>1, <1>others DEF PairedInv, Newest, TypeOK
    <2>5. Newest(val[t])'
      <3>1. val'[t] = [at |-> issued', rt |-> issued'] /\ val'[t] \in Token
        BY <1>1, NewestPresented DEF TypeOK, Token
      <3> QED
        BY <3>1 DEF Newest
    <2> QED
      BY <2>2, <2>3, <2>4, <2>5 DEF PrivateInv
  <1>2. CASE ~KeycloakGrants(t)
    <2>1. issued' = issued
      BY <1>2, TokensMove
    <2>2. ASSUME pc'[t] \in {"answered", "persist"} PROVE StoreToken(t)
      BY <1>2, <2>2
      DEF TaskStep, Step, GetToken, LocalAcquire, WaitTimeout, LoadToken, FirstRead, GetRefreshLock,
          Recheck, Acquire, AcquireBusy, AcquireError, WaitAdopt, PollAgain, FinalCheck,
          Material, RefreshRefused, ResponseLost, StoreToken, Persist,
          ReadBack, Release, Goto, Finish, TypeOK, RawPoints, AdoptPoints
    <2>3. ASSUME StoreToken(t)
          PROVE  /\ Newest(val[t])' /\ ~Newest(store)'
                 /\ \A u \in Tasks \ {t} : ~Newest(val[u])'
                 /\ \A i \in Instances : Newest(cache[i])' \/ Newest(mutation[i].tok)' =>
                      i = Home[t] /\ pc'[t] = "persist"
      <3>1. pc[t] = "answered" /\ pc'[t] = "persist" /\ store' = store /\ val' = val
        BY <2>3 DEF StoreToken, Goto, TypeOK
      <3>2. \A i \in Instances \ {Home[t]} : cache'[i] = cache[i] /\ mutation'[i] = mutation[i]
        BY <2>3 DEF StoreToken, TypeOK
      <3> QED
        BY <2>1, <3>1, <3>2 DEF PrivateInv, Newest
    <2>4. ASSUME NEW x \in Tasks \ {t}, pc[x] \in {"answered", "persist"}
          PROVE  /\ Newest(val[x])' /\ ~Newest(store)'
                 /\ \A u \in Tasks \ {x} : ~Newest(val[u])'
                 /\ \A i \in Instances : Newest(cache[i])' \/ Newest(mutation[i].tok)' =>
                      i = Home[x] /\ pc'[x] = "persist"
      <3>1. /\ Newest(val[x]) /\ ~Newest(store) /\ ~Newest(val[t])
            /\ \A u \in Tasks \ {x} : ~Newest(val[u])
            /\ \A i \in Instances : Newest(cache[i]) \/ Newest(mutation[i].tok) =>
                 i = Home[x] /\ pc[x] = "persist"
        BY <2>4 DEF PrivateInv
      <3>2. pc[t] = "material" => ~Newest(cache[Home[t]])
        BY <2>4, <3>1 DEF LocalExclusion, SameMutex, CalmInv, Critical, Upstream
      <3>3. ~Newest(val[t])'
        BY <1>2, <2>1, <3>1, <3>2, TokensMove DEF Newest
      <3>4. \A u \in Tasks \ {x} : ~Newest(val[u])'
        BY <1>others, <2>1, <3>1, <3>3 DEF Newest
      <3>5. ~Newest(store)' /\ Newest(val[x])'
        BY <1>2, <1>others, <2>1, <3>1, TokensMove DEF Newest
      <3>6. ASSUME NEW i \in Instances
            PROVE  Newest(cache[i])' \/ Newest(mutation[i].tok)' =>
                     i = Home[x] /\ pc'[x] = "persist"
        BY <1>2, <1>others, <2>1, <3>1, TokensMove DEF Newest
      <3> QED
        BY <3>4, <3>5, <3>6
    <2> QED
      BY <1>others, <2>2, <2>3, <2>4 DEF PrivateInv
  <1> QED
    BY <1>1, <1>2

\* A restart takes a task's answer with it; a boot reads the record, which is older.
LEMMA PrivateEvent ==
    ASSUME TypeOK, Rotating, PairedInv, CalmInv, PrivateInv, Event
    PROVE  PrivateInv'
  <1> USE ConstantsAssumption DEF TypeOK, Newest, PrivateInv
  <1>1. ASSUME NEW i \in Instances, Restart(i) PROVE PrivateInv'
    <2>1. \A t \in Tasks : pc'[t] \in {"answered", "persist"} => pc'[t] = pc[t] /\ val'[t] = val[t]
      BY <1>1 DEF Restart
    <2>2. \A t \in Tasks : val'[t] \in {val[t], Unread}
      BY <1>1 DEF Restart
    <2>3. \A j \in Instances : cache'[j] \in {cache[j], NoToken}
                               /\ mutation'[j].tok \in {mutation[j].tok, NoToken}
      BY <1>1 DEF Restart, Owes
    <2>4. store' = store /\ issued' = issued
      BY <1>1 DEF Restart, keycloak
    <2> QED
      BY <2>1, <2>2, <2>3, <2>4
  <1>2. ASSUME NEW i \in Instances, LoadPersisted(i) PROVE PrivateInv'
    <2>1. \A j \in Instances : mutation'[j].tok \in {mutation[j].tok, store, NoToken}
      BY <1>2 DEF LoadPersisted, Idle, Owes
    <2>2. UNCHANGED <<cache, store, pc, val, issued>>
      BY <1>2 DEF LoadPersisted, keycloak
    <2> QED
      BY <2>1, <2>2
  <1>3. ASSUME NEW i \in Instances, InsertPersisted(i) PROVE PrivateInv'
    <2>1. \A j \in Instances : /\ cache'[j] = cache[j] \/ (j = i /\ cache'[j] = mutation[i].tok)
                               /\ mutation'[j].tok \in {mutation[j].tok, NoToken}
      BY <1>3 DEF InsertPersisted, Idle
    <2>2. UNCHANGED <<store, pc, val, issued>>
      BY <1>3 DEF InsertPersisted, keycloak
    <2>3. \A t \in Tasks : Home[t] = i => pc[t] = "idle"
      BY <1>3 DEF InsertPersisted, CalmInv
    <2> QED
      BY <2>1, <2>2, <2>3
  <1>4. ASSUME UNCHANGED <<cache, store, mutation, pc, val, issued>> PROVE PrivateInv'
    BY <1>4
  <1> QED
    BY <1>1, <1>2, <1>3, <1>4, RotatingEvent DEF AccessTokenExpires, LeaseLapses, keycloak

\* The newest refresh token passes from the task that got it to the cache, and from
\* there only to where the newest is put in its place.
LEMMA KeptStep ==
    ASSUME TypeOK, Rotating, PairedInv, CalmInv, EntryInv, PrivateInv, KeptInv, LocalExclusion,
           NEW t \in Tasks, TaskStep(t)
    PROVE  KeptInv'
  <1> SUFFICES ASSUME "crash" \notin Events, Kept(issued) PROVE Kept(issued)'
    BY DEF KeptInv
  <1> USE ConstantsAssumption, SentinelsAssumption
  <1>1. CASE KeycloakGrants(t)
    BY <1>1, NewestPresented DEF Kept, TypeOK
  <1>2. CASE ~KeycloakGrants(t)
    <2>1. issued' = issued
      BY <1>2, TokensMove
    <2>2. CASE store # NoToken /\ store.rt = issued
      <3>1. CASE store' = store
        BY <2>1, <2>2, <3>1 DEF Kept
      <3>2. CASE store' = val[t] /\ pc[t] = "persist"
        BY <2>1, <3>2 DEF Kept, PrivateInv, Newest
      <3> QED
        BY <1>2, <3>1, <3>2, TokensMove
    <2>3. ASSUME NEW i \in Instances, cache[i] # NoToken, cache[i].rt = issued
          PROVE  cache'[i] # NoToken /\ cache'[i].rt = issued
      <3>1. CASE cache'[i] = cache[i]
        BY <2>3, <3>1
      <3>2. CASE StoreToken(t) /\ i = Home[t]
        <4>1. cache'[i] = val[t] /\ Newest(val[t])
          BY <3>2 DEF StoreToken, PrivateInv, TypeOK
        <4> QED
          BY <4>1 DEF Newest
      <3>3. CASE Adopt(t) /\ Adoptable(t) /\ val[t] # Unread /\ i = Home[t]
        <4>1. cache'[i] = val[t] /\ val[t] # NoToken /\ val[t].at \notin expired
          BY <3>3 DEF Adopt, Adoptable, is_expired, TypeOK
        <4>2. val[t].at \in 1..issued /\ val[t].rt = val[t].at
          BY <3>3, <4>1 DEF PairedInv, Paired
        <4> QED
          BY <4>1, <4>2 DEF PairedInv
      <3>4. ASSUME WriteBack(t) PROVE cache'[i] = cache[i]
        BY <2>3, <3>4 DEF WriteBack, TypeOK
      <3>5. cache' = cache \/ WriteBack(t)
              \/ (Adopt(t) /\ Adoptable(t) /\ val[t] # Unread) \/ StoreToken(t)
        BY DEF TaskStep, Step, GetToken, LocalAcquire, WaitTimeout, LoadToken, FirstRead, GetRefreshLock,
               Recheck, Acquire, AcquireBusy, AcquireError, WaitAdopt, PollAgain, FinalCheck,
               Material, KeycloakGrants, RefreshRefused, ResponseLost, StoreToken, Persist,
               ReadBack, Release
      <3>6. Home[t] # i => cache'[i] = cache[i]
        BY <1>2, TokensMove
      <3> QED
        BY <3>1, <3>2, <3>3, <3>4, <3>5, <3>6
    <2>4. ASSUME NEW u \in Tasks, pc[u] \in {"answered", "persist"}, val[u].rt = issued
          PROVE  Kept(issued)'
      <3>1. CASE u # t
        BY <2>1, <2>4, <3>1, OthersStay DEF Kept
      <3>2. CASE u = t /\ StoreToken(t)
        BY <2>1, <2>4, <3>2 DEF Kept, StoreToken, Goto, TypeOK
      <3>3. CASE u = t /\ Persist(t)
        <4>1. cache[Home[t]] = val[t] /\ cache[Home[t]] # NoToken /\ cache' = cache
          BY <3>3 DEF Persist, EntryInv, Critical, Upstream
        <4> QED
          BY <2>1, <2>4, <3>3, <4>1 DEF Kept
      <3>4. u = t => StoreToken(t) \/ Persist(t)
        BY <1>2, <2>4
        DEF TaskStep, Step, GetToken, LocalAcquire, WaitTimeout, LoadToken, FirstRead, GetRefreshLock,
            Recheck, Acquire, AcquireBusy, AcquireError, WaitAdopt, PollAgain, FinalCheck,
            Material, RefreshRefused, ResponseLost, ReadBack, Release, RawPoints,
            AdoptPoints, Rotating
      <3> QED
        BY <3>1, <3>2, <3>3, <3>4
    <2>5. ASSUME NEW i \in Instances, cache[i] # NoToken, cache[i].rt = issued
          PROVE  Kept(issued)'
      BY <2>1, <2>3, <2>5 DEF Kept
    <2> QED
      BY <2>2, <2>4, <2>5 DEF Kept
  <1> QED
    BY <1>1, <1>2

\* The invariant of a rotating Keycloak is inductive.
LEMMA GrantStep ==
    ASSUME TypeOK, LocalExclusion, GrantInv, [Next]_vars
    PROVE  GrantInv'
  <1> SUFFICES ASSUME Rotating
               PROVE  (PairedInv /\ CalmInv /\ EntryInv /\ PrivateInv /\ KeptInv)'
    BY DEF GrantInv, Rotating
  <1>1. PairedInv /\ CalmInv /\ EntryInv /\ PrivateInv /\ KeptInv
    BY DEF GrantInv
  <1>2. ASSUME NEW t \in Tasks, TaskStep(t)
        PROVE  (PairedInv /\ CalmInv /\ EntryInv /\ PrivateInv /\ KeptInv)'
    BY <1>1, <1>2, PairedStep, CalmStep, EntryStep, PrivateStep, KeptStep
  <1>3. CASE Event
    <2>1. KeptInv'
      <3> SUFFICES ASSUME "crash" \notin Events, Kept(issued) PROVE Kept(issued)'
        BY <1>1 DEF KeptInv
      <3>1. ASSUME NEW i \in Instances PROVE ~Restart(i) /\ ~LoadPersisted(i) /\ ~InsertPersisted(i)
        BY <1>1 DEF Restart, LoadPersisted, InsertPersisted, CalmInv
      <3>2. UNCHANGED <<store, cache, pc, val, issued>>
        BY <1>1, <1>3, <3>1, RotatingEvent DEF AccessTokenExpires, LeaseLapses, keycloak
      <3> QED
        BY <3>2 DEF Kept
    <2> QED
      BY <1>1, <1>3, <2>1, PairedEvent, CalmEvent, EntryEvent, PrivateEvent
  <1>4. CASE UNCHANGED vars
    <2> USE <1>1, <1>4 DEF vars
    <2>1. PairedInv'
      BY DEF PairedInv, Paired
    <2>2. CalmInv' /\ EntryInv'
      BY DEF CalmInv, EntryInv
    <2>3. PrivateInv'
      BY DEF PrivateInv, Newest
    <2>4. KeptInv'
      BY DEF KeptInv, Kept
    <2> QED
      BY <2>1, <2>2, <2>3, <2>4
  <1> QED
    BY <1>2, <1>3, <1>4, NextSplits

\* It holds of the first grant.
LEMMA GrantInit == Init => GrantInv
  <1> SUFFICES ASSUME Init PROVE PairedInv /\ CalmInv /\ EntryInv /\ PrivateInv /\ KeptInv
    BY DEF GrantInv
  <1> DEFINE first == [at |-> 1, rt |-> 1]
  <1>1. first \notin {NoToken, Unread} /\ first.at = 1 /\ first.rt = 1
    BY SentinelsAssumption DEF Token
  <1> HIDE DEF first
  <1>2. PICK i \in Instances : cache = [j \in Instances |-> IF j = i THEN first ELSE NoToken]
    BY DEF Init, first
  <1>3. store \in {first, NoToken} /\ \A j \in Instances : cache[j] \in {first, NoToken}
    BY <1>2 DEF Init, first
  <1>4. issued = 1 /\ live = {1} /\ \A j \in Instances : mutation[j] = Idle /\ epoch[j] = 0
    BY DEF Init
  <1>5. \A t \in Tasks : pc[t] = "idle" /\ val[t] = Unread /\ handle[t] = 0
    BY DEF Init
  <1>6. PairedInv
    BY <1>1, <1>3, <1>4, <1>5 DEF PairedInv, Paired, Idle
  <1>7. CalmInv /\ EntryInv /\ PrivateInv
    BY <1>4, <1>5, ConstantsAssumption
    DEF CalmInv, EntryInv, PrivateInv, Idle, Critical, AdoptPoints, Upstream
  <1>8. KeptInv
    BY <1>1, <1>2, <1>4 DEF KeptInv, Kept
  <1> QED
    BY <1>6, <1>7, <1>8

\* So it holds in every state, with what its steps rest on.
LEMMA GrantAlways == Spec => [](TypeOK /\ LocalExclusion /\ GrantInv)
  <1>1. TypeOK /\ LocalExclusion /\ GrantInv /\ [Next]_vars => GrantInv'
    BY GrantStep
  <1> QED
    BY <1>1, GrantInit, TypeCorrect, LocalExcludes, PTL DEF Spec

\* RecordNeverRegresses: a rotated record is never overwritten by an older one, although
\* leases lapse, waits give up, writes fail and instances die with an answer in hand
\* (store_token): what is about to be persisted is the newest token there is.
THEOREM RecordAdvances == Spec => RecordNeverRegresses
  <1>1. ASSUME TypeOK, GrantInv, [Next]_vars
        PROVE  Events \subseteq {"crash", "lapse", "timeout", "backend"} /\ Rotation = {TRUE}
                 => (store # NoToken /\ store' # NoToken => store'.at >= store.at)
    <2> SUFFICES ASSUME Rotating, store # NoToken, store' # NoToken
                 PROVE  store'.at >= store.at
      BY DEF Rotating
    <2>1. PairedInv /\ CalmInv /\ EntryInv /\ PrivateInv
      BY <1>1 DEF GrantInv
    <2>2. store \in Token /\ store.at \in 1..issued /\ issued \in Nat
      BY <1>1, <2>1, SentinelsAssumption DEF PairedInv, Paired, TypeOK, OptToken
    <2>3. CASE store' = store
      BY <2>2, <2>3 DEF Token
    <2>4. ASSUME NEW t \in Tasks, pc[t] = "persist", store' = val[t]
          PROVE  store'.at >= store.at
      <3>1. val[t].at = issued
        BY <2>1, <2>4 DEF PrivateInv, Newest, PairedInv, Paired
      <3> QED
        BY <2>2, <2>4, <3>1
    <2>5. ASSUME NEW t \in Tasks, TaskStep(t), store' # store
          PROVE  pc[t] = "persist" /\ store' = val[t]
      <3>1. CASE KeycloakGrants(t)
        BY <2>5, <3>1 DEF KeycloakGrants
      <3> QED
        BY <1>1, <2>5, <3>1, TokensMove
    <2>6. CASE Event
      BY <1>1, <2>1, <2>3, <2>6, RotatingEvent
      DEF Restart, LoadPersisted, InsertPersisted, AccessTokenExpires, LeaseLapses
    <2>7. CASE UNCHANGED vars
      BY <2>3, <2>7 DEF vars
    <2> QED
      BY <1>1, <2>3, <2>4, <2>5, <2>6, <2>7, NextSplits
  <1>2. TypeOK /\ GrantInv /\ [Next]_vars =>
          [Events \subseteq {"crash", "lapse", "timeout", "backend"} /\ Rotation = {TRUE}
             => (store # NoToken /\ store' # NoToken => store'.at >= store.at)]_vars
    BY <1>1
  <1> QED
    BY <1>2, GrantAlways, PTL DEF Spec, RecordNeverRegresses

-----------------------------------------------------------------------------
(***************************************************************************)
(* The grant survives: a Keycloak that never rotates.                      *)
(***************************************************************************)

\* No restart, and the refresh token of the first grant is good for ever.
Unrotated == Events \subseteq {"lapse", "timeout", "backend"} /\ TRUE \notin Rotation

\* Every token carries the first refresh token, and some cache has one.
UnrotatedInv ==
    Unrotated =>
        /\ live = {1}
        /\ store # NoToken => store.rt = 1
        /\ \A i \in Instances : /\ cache[i] # NoToken => cache[i].rt = 1
                                /\ mutation[i].op \in {"idle", "refresh"}
        /\ \A t \in Tasks : val[t] \notin {NoToken, Unread} => val[t].rt = 1
        /\ \E i \in Instances : cache[i] # NoToken

\* A task passes the refresh token on and empties no cache.
LEMMA UnrotatedStep ==
    ASSUME TypeOK, UnrotatedInv, NEW t \in Tasks, TaskStep(t)
    PROVE  UnrotatedInv'
  <1> SUFFICES ASSUME Unrotated PROVE UnrotatedInv'
    BY DEF UnrotatedInv, Unrotated
  <1> USE ConstantsAssumption, SentinelsAssumption
  <1>inv. /\ live = {1}
          /\ store # NoToken => store.rt = 1
          /\ \A i \in Instances : /\ cache[i] # NoToken => cache[i].rt = 1
                                  /\ mutation[i].op \in {"idle", "refresh"}
          /\ \A u \in Tasks : val[u] \notin {NoToken, Unread} => val[u].rt = 1
          /\ \E i \in Instances : cache[i] # NoToken
    BY DEF UnrotatedInv
  <1>others. \A u \in Tasks \ {t} : val'[u] = val[u]
    BY OthersStay
  <1>1. CASE KeycloakGrants(t)
    <2>1. val[t] \in Token
      BY <1>1 DEF KeycloakGrants, TypeOK
    <2>2. PICK rotated \in Rotation :
            LET answer == IF rotated THEN issued + 1 ELSE NoRefresh IN
            /\ live' = IF rotated THEN (live \ {val[t].rt}) \cup {answer} ELSE live
            /\ val' = [val EXCEPT ![t] = Refreshed(issued + 1, answer, val[t].rt)]
      BY <1>1 DEF KeycloakGrants
    <2>3. rotated = FALSE
      BY DEF Unrotated
    <2>4. live' = live /\ val' = [val EXCEPT ![t] = Refreshed(issued + 1, NoRefresh, val[t].rt)]
      BY <2>2, <2>3
    <2>5. val'[t].rt = 1
      BY <1>inv, <2>1, <2>4 DEF Refreshed, TypeOK
    <2>6. UNCHANGED <<cache, store, mutation>>
      BY <1>1 DEF KeycloakGrants
    <2> QED
      BY <1>inv, <1>others, <2>4, <2>5, <2>6 DEF UnrotatedInv
  <1>2. CASE ~KeycloakGrants(t)
    <2>1. live' = live
      BY <1>2, TokensMove
    <2>2. store' # NoToken => store'.rt = 1
      BY <1>2, <1>inv, TokensMove DEF TypeOK
    <2>3. ASSUME NEW i \in Instances, cache'[i] # NoToken PROVE cache'[i].rt = 1
      <3>1. cache'[i] = cache[i] \/ (cache'[i] = val[t] /\ val[t] # Unread)
        BY <1>2, TokensMove DEF OptToken
      <3> QED
        BY <1>inv, <2>3, <3>1
    <2>4. val'[t] \notin {NoToken, Unread} => val'[t].rt = 1
      BY <1>2, <1>inv, TokensMove DEF TypeOK
    <2>5. \A i \in Instances : mutation'[i].op \in {"idle", "refresh"}
      <3>1. \/ mutation' = mutation
            \/ \E x : x.op \in {"refresh", "idle"} /\ mutation' = [mutation EXCEPT ![Home[t]] = x]
        BY DEF TaskStep, Step, GetToken, LocalAcquire, WaitTimeout, LoadToken, FirstRead, GetRefreshLock,
               Recheck, Acquire, AcquireBusy, AcquireError, WaitAdopt, PollAgain, FinalCheck,
               Material, KeycloakGrants, RefreshRefused, ResponseLost, StoreToken, Persist,
               ReadBack, Release, Idle
      <3> QED
        BY <1>inv, <3>1 DEF TypeOK
    <2>6. ASSUME NEW i \in Instances, cache[i] # NoToken PROVE cache'[i] # NoToken
      <3>1. \/ cache' = cache
            \/ WriteBack(t)
            \/ (Adopt(t) /\ Adoptable(t))
            \/ StoreToken(t)
        BY DEF TaskStep, Step, GetToken, LocalAcquire, WaitTimeout, LoadToken, FirstRead, GetRefreshLock,
               Recheck, Acquire, AcquireBusy, AcquireError, WaitAdopt, PollAgain, FinalCheck,
               Material, KeycloakGrants, RefreshRefused, ResponseLost, StoreToken, Persist,
               ReadBack, Release
      <3> QED
        BY <2>6, <3>1 DEF WriteBack, Adopt, Adoptable, StoreToken, TypeOK
    <2> QED
      BY <1>inv, <1>others, <2>1, <2>2, <2>3, <2>4, <2>5, <2>6 DEF UnrotatedInv
  <1> QED
    BY <1>1, <1>2

\* The invariant is inductive: no event that is left touches a token.
LEMMA UnrotatedNext ==
    ASSUME TypeOK, UnrotatedInv, [Next]_vars
    PROVE  UnrotatedInv'
  <1>1. CASE Event
    <2> SUFFICES ASSUME Unrotated PROVE UnrotatedInv'
      BY DEF UnrotatedInv, Unrotated
    <2> USE <1>1, SentinelsAssumption DEF UnrotatedInv, TypeOK
    <2>1. ASSUME NEW tok \in OptToken, tok # NoToken => tok.rt = 1 PROVE ~Useless(tok)
      BY <2>1 DEF Useless, NoRefresh
    <2>2. ASSUME NEW i \in Instances
          PROVE  /\ ~RemoveToken(i) /\ ~RemoveMutex(i) /\ ~PurgeScan(i) /\ ~PurgeExpired(i)
                 /\ ~CommitMutation(i) /\ ~AbandonMutation(i)
                 /\ ~Restart(i) /\ ~LoadPersisted(i) /\ ~InsertPersisted(i)
      BY <2>1 DEF Unrotated, RemoveToken, RemoveMutex, PurgeScan, PurgeExpired,
                  CommitMutation, AbandonMutation, Restart, LoadPersisted, InsertPersisted
    <2>3. ~RecordEvicted
      BY <2>1 DEF RecordEvicted
    <2>4. UNCHANGED <<live, store, cache, mutation, val>>
      BY <2>2, <2>3 DEF Event, Cancel, Login, Unrotated, AccessTokenExpires, LeaseLapses, keycloak
    <2> QED
      BY <2>4
  <1>2. CASE UNCHANGED vars
    BY <1>2 DEF vars, UnrotatedInv
  <1> QED
    BY <1>1, <1>2, UnrotatedStep, NextSplits

\* GrantNeverLost: whatever leases lapse, waits give up and backend calls fail, the
\* refresh token Keycloak would honour is held by the backend, a cache or the task that
\* is storing it (refresh_token, store_token), if Keycloak rotates always or never.
THEOREM GrantSurvives == Spec => []GrantNeverLost
  <1>1. Init => UnrotatedInv
    <2> SUFFICES ASSUME Init PROVE UnrotatedInv
      OBVIOUS
    <2>1. [at |-> 1, rt |-> 1] # NoToken
      BY SentinelsAssumption DEF Token
    <2> QED
      BY <2>1 DEF Init, UnrotatedInv, Idle
  <1>2. TypeOK /\ UnrotatedInv /\ [Next]_vars => UnrotatedInv'
    BY UnrotatedNext
  <1>3. GrantInv /\ UnrotatedInv => GrantNeverLost
    <2> SUFFICES ASSUME GrantInv, UnrotatedInv, NEW r \in live,
                        Events \subseteq {"lapse", "timeout", "backend"},
                        \A a, b \in Rotation : a = b
                 PROVE  Kept(r)
      BY DEF GrantNeverLost
    <2>1. CASE TRUE \in Rotation
      <3>1. Rotation = {TRUE}
        BY <2>1
      <3> QED
        BY <3>1 DEF GrantInv, Rotating, PairedInv, KeptInv
    <2>2. CASE TRUE \notin Rotation
      BY <2>2 DEF UnrotatedInv, Unrotated, Kept
    <2> QED
      BY <2>1, <2>2
  <1> QED
    BY <1>1, <1>2, <1>3, GrantAlways, PTL DEF Spec


-----------------------------------------------------------------------------
(***************************************************************************)
(* The assertion of refresh_token.  Unless somebody removes the grant, or   *)
(* logs in without refresh material, every token has some: nothing is      *)
(* purged, and only a restart takes an entry away, with the calls on it.   *)
(***************************************************************************)

\* A refresh token, once there is a token.
Refreshable(tok) == tok \notin {NoToken, Unread} => tok.rt # NoRefresh

Unreplaced == Events \cap {"login", "remove"} = {}

\* Every token can be refreshed, so no removal and no purge is under way; who has
\* stored an answer still finds an entry.
EntryKept ==
    Unreplaced =>
        /\ Refreshable(store)
        /\ \A i \in Instances : /\ Refreshable(cache[i]) /\ Refreshable(mutation[i].tok)
                                /\ mutation[i].op \notin Removing \cup {"login", "sweep"}
                                /\ mutation[i].op = "load" => mutation[i].tok # NoToken
        /\ \A t \in Tasks : Refreshable(val[t])
        /\ \A t \in Tasks : pc[t] \in {"persist", "stored"} => cache[Home[t]] # NoToken
        /\ \A t \in Tasks : pc[t] = "stored" => val[t] = Unread
        /\ \A t \in Tasks : pc[t] # "panicked"

\* A task's step takes no entry out of a cache and replaces no Mutex.
LEMMA StepKeepsEntries ==
    ASSUME TypeOK, NEW t \in Tasks, TaskStep(t)
    PROVE  /\ epoch' = epoch
           /\ \A i \in Instances : cache[i] # NoToken => cache'[i] # NoToken
  <1> USE DEF TypeOK
  <1>1. epoch' = epoch
    BY DEF TaskStep, Step, GetToken, LocalAcquire, WaitTimeout, LoadToken, FirstRead, GetRefreshLock,
           Recheck, Acquire, AcquireBusy, AcquireError, WaitAdopt, PollAgain, FinalCheck,
           Material, KeycloakGrants, RefreshRefused, ResponseLost, StoreToken, Persist,
           ReadBack, Release
  <1>2. \/ cache' = cache
        \/ WriteBack(t)
        \/ Adopt(t) /\ val[t] # NoToken
        \/ StoreToken(t)
    BY DEF TaskStep, Step, GetToken, LocalAcquire, WaitTimeout, LoadToken, FirstRead, GetRefreshLock,
           Recheck, Acquire, AcquireBusy, AcquireError, WaitAdopt, PollAgain, FinalCheck,
           Material, KeycloakGrants, RefreshRefused, ResponseLost, Persist,
           ReadBack, Release, Adoptable
  <1>3. StoreToken(t) => val[t] # NoToken /\ cache' = [cache EXCEPT ![Home[t]] = val[t]]
    BY SentinelsAssumption DEF StoreToken
  <1> QED BY <1>1, <1>2, <1>3 DEF WriteBack, Adopt

\* How a task comes to store, to have stored, and to panic.
LEMMA StepStores ==
    ASSUME TypeOK, NEW t \in Tasks, TaskStep(t)
    PROVE  /\ pc'[t] = "persist" => pc[t] = "persist" \/ StoreToken(t)
           /\ pc'[t] = "stored" => \/ val'[t] = Unread /\ pc[t] = "persist"
                                   \/ pc[t] = "stored" /\ cache[Home[t]] = NoToken
           /\ pc'[t] = "panicked" => \/ pc[t] = "panicked"
                                     \/ pc[t] = "stored" /\ get_token_raw(t) = NoToken
  <1> USE DEF TypeOK
  <1>1. ASSUME pc'[t] = "persist" PROVE pc[t] = "persist" \/ StoreToken(t)
    BY <1>1
    DEF TaskStep, Step, GetToken, LocalAcquire, WaitTimeout, LoadToken, FirstRead,
        GetRefreshLock, Recheck, Acquire, AcquireBusy, AcquireError, WaitAdopt, PollAgain,
        FinalCheck, Material, KeycloakGrants, RefreshRefused, ResponseLost, Persist,
        ReadBack, Release, Goto, Finish, RawPoints, AdoptPoints
  <1>2. ASSUME pc'[t] = "stored"
        PROVE  \/ val'[t] = Unread /\ pc[t] = "persist"
               \/ pc[t] = "stored" /\ cache[Home[t]] = NoToken
    <2>1. Persist(t) \/ LoadToken(t)
      BY <1>2
      DEF TaskStep, Step, GetToken, LocalAcquire, WaitTimeout, FirstRead, GetRefreshLock,
          Recheck, Acquire, AcquireBusy, AcquireError, WaitAdopt, PollAgain, FinalCheck,
          Material, KeycloakGrants, RefreshRefused, ResponseLost, StoreToken, ReadBack,
          Release, Goto, Finish
    <2> QED BY <1>2, <2>1 DEF Persist, Forget, LoadToken, AdoptPoints
  <1>3. ASSUME pc'[t] = "panicked"
        PROVE  pc[t] = "panicked" \/ (pc[t] = "stored" /\ get_token_raw(t) = NoToken)
    <2>1. ReadBack(t)
      BY <1>3
      DEF TaskStep, Step, GetToken, LocalAcquire, WaitTimeout, LoadToken, FirstRead,
          GetRefreshLock, Recheck, Acquire, AcquireBusy, AcquireError, WaitAdopt, PollAgain,
          FinalCheck, Material, KeycloakGrants, RefreshRefused, ResponseLost, StoreToken,
          Persist, Release, Goto, Finish, RawPoints, AdoptPoints
    <2> QED BY <1>3, <2>1 DEF ReadBack, Goto, Finish
  <1> QED BY <1>1, <1>2, <1>3

\* A task hands on tokens that can be refreshed: an answer without a refresh token keeps
\* the one that was presented.
LEMMA StepRefreshable ==
    ASSUME TypeOK, EntryKept, Unreplaced, NEW t \in Tasks, TaskStep(t)
    PROVE  /\ Refreshable(store')
           /\ \A i \in Instances : Refreshable(cache'[i]) /\ Refreshable(mutation'[i].tok)
           /\ \A u \in Tasks : Refreshable(val'[u])
  <1> USE ConstantsAssumption, SentinelsAssumption
  <1>inv. /\ Refreshable(store)
          /\ \A i \in Instances : Refreshable(cache[i]) /\ Refreshable(mutation[i].tok)
          /\ \A u \in Tasks : Refreshable(val[u])
    BY DEF EntryKept
  <1>others. \A u \in Tasks \ {t} : val'[u] = val[u]
    BY OthersStay
  <1>1. CASE KeycloakGrants(t)
    <2>1. val[t] \in Token /\ val[t].rt # NoRefresh /\ issued + 1 # NoRefresh
      BY <1>1, <1>inv DEF KeycloakGrants, TypeOK, Refreshable, NoRefresh
    <2>2. UNCHANGED <<cache, store, mutation>>
      BY <1>1 DEF KeycloakGrants
    <2>3. PICK answer : val' = [val EXCEPT ![t] = Refreshed(issued + 1, answer, val[t].rt)]
      BY <1>1 DEF KeycloakGrants
    <2>4. val'[t].rt # NoRefresh
      BY <2>1, <2>3 DEF Refreshed, TypeOK
    <2>5. Refreshable(val'[t])
      BY <2>4 DEF Refreshable
    <2> QED BY <1>inv, <1>others, <2>2, <2>5
  <1>2. CASE ~KeycloakGrants(t)
    <2>1. Refreshable(store')
      BY <1>2, <1>inv, TokensMove
    <2>2. ASSUME NEW i \in Instances PROVE Refreshable(cache'[i]) /\ Refreshable(mutation'[i].tok)
      <3>1. cache'[i] = cache[i] \/ cache'[i] = val[t]
        BY <1>2, TokensMove
      <3>2. mutation'[i].tok \in {mutation[i].tok, NoToken} \/ mutation'[i].tok = val[t]
        BY <1>2, TokensMove
      <3>3. Refreshable(NoToken)
        BY DEF Refreshable
      <3> QED BY <1>inv, <3>1, <3>2, <3>3
    <2>3. Refreshable(val'[t])
      <3>1. \/ val'[t] \in {val[t], Unread, NoToken, store}
            \/ val'[t] = cache[Home[t]]
        BY <1>2, TokensMove
      <3>2. Home[t] \in Instances /\ Refreshable(NoToken) /\ Refreshable(Unread)
        BY DEF Refreshable
      <3> QED BY <1>inv, <3>1, <3>2
    <2> QED BY <1>inv, <1>others, <2>1, <2>2, <2>3
  <1> QED BY <1>1, <1>2

\* A step of a task keeps EntryKept.
LEMMA KeptEntryStep ==
    ASSUME TypeOK, EntryKept, Unreplaced, NEW t \in Tasks, TaskStep(t)
    PROVE  EntryKept'
  <1> USE ConstantsAssumption, SentinelsAssumption
  <1>inv. /\ \A i \in Instances : /\ mutation[i].op \notin Removing \cup {"login", "sweep"}
                                  /\ mutation[i].op = "load" => mutation[i].tok # NoToken
          /\ \A u \in Tasks : pc[u] \in {"persist", "stored"} => cache[Home[u]] # NoToken
          /\ \A u \in Tasks : pc[u] = "stored" => val[u] = Unread
          /\ \A u \in Tasks : pc[u] # "panicked"
    BY DEF EntryKept
  <1>others. \A u \in Tasks \ {t} : pc'[u] = pc[u] /\ val'[u] = val[u]
    BY OthersStay
  <1>home. \A u \in Tasks : Home[u] \in Instances
    OBVIOUS
  <1>1. \A i \in Instances : cache[i] # NoToken => cache'[i] # NoToken
    BY StepKeepsEntries
  <1>2. ASSUME NEW i \in Instances
        PROVE  /\ mutation'[i].op \notin Removing \cup {"login", "sweep"}
               /\ mutation'[i].op = "load" => mutation'[i].tok # NoToken
    <2>1. \/ mutation' = mutation
          \/ \E x : x.op \in {"refresh", "idle"} /\ mutation' = [mutation EXCEPT ![Home[t]] = x]
      BY DEF TaskStep, Step, GetToken, LocalAcquire, WaitTimeout, LoadToken, FirstRead,
             GetRefreshLock, Recheck, Acquire, AcquireBusy, AcquireError, WaitAdopt,
             PollAgain, FinalCheck, Material, KeycloakGrants, RefreshRefused, ResponseLost,
             StoreToken, Persist, ReadBack, Release, Idle
    <2> QED BY <1>inv, <2>1 DEF TypeOK, Removing
  <1>3. pc'[t] \in {"persist", "stored"} => cache'[Home[t]] # NoToken
    <2>1. StoreToken(t) => cache'[Home[t]] # NoToken
      BY DEF StoreToken, TypeOK
    <2> QED BY <1>inv, <1>home, <1>1, <2>1, StepStores
  <1>4. pc'[t] = "stored" => val'[t] = Unread
    BY <1>inv, StepStores
  <1>5. pc'[t] # "panicked"
    BY <1>inv, StepStores DEF get_token_raw
  <1>6. ASSUME NEW u \in Tasks \ {t}
        PROVE  /\ pc'[u] \in {"persist", "stored"} => cache'[Home[u]] # NoToken
               /\ pc'[u] = "stored" => val'[u] = Unread
               /\ pc'[u] # "panicked"
    BY <1>inv, <1>others, <1>home, <1>1
  <1> QED BY <1>2, <1>3, <1>4, <1>5, <1>6, StepRefreshable DEF EntryKept

\* So does what happens around the calls: a restart takes them with their entries.
LEMMA KeptEntryEvent ==
    ASSUME TypeOK, EntryKept, Unreplaced, Event
    PROVE  EntryKept'
  <1> USE SentinelsAssumption, ConstantsAssumption DEF EntryKept, TypeOK
  <1>none. Refreshable(NoToken) /\ Refreshable(Unread)
    BY DEF Refreshable
  <1>1. ASSUME NEW tok \in OptToken, Refreshable(tok) PROVE ~Useless(tok)
    BY <1>1 DEF Useless, Refreshable, OptToken
  <1>2. ASSUME NEW i \in Instances
        PROVE  /\ ~RemoveToken(i) /\ ~RemoveMutex(i) /\ ~PurgeScan(i) /\ ~PurgeExpired(i)
               /\ ~CommitMutation(i) /\ ~AbandonMutation(i)
    BY <1>1 DEF Unreplaced, RemoveToken, RemoveMutex, PurgeScan, PurgeExpired,
                CommitMutation, AbandonMutation, Removing
  <1>3. ASSUME NEW t \in Tasks, Cancel(t) PROVE EntryKept'
    BY <1>3, <1>none DEF Cancel, Goto, Forget, Idle, Removing
  <1>4. ASSUME NEW i \in Instances, Restart(i) PROVE EntryKept'
    BY <1>4, <1>none DEF Restart, Owes, Removing
  <1>5. ASSUME NEW i \in Instances, LoadPersisted(i) PROVE EntryKept'
    <2>1. ~Useless(store)
      BY <1>1
    <2>2. ASSUME NEW j \in Instances
          PROVE  /\ Refreshable(mutation'[j].tok)
                 /\ mutation'[j].op \notin Removing \cup {"login", "sweep"}
                 /\ mutation'[j].op = "load" => mutation'[j].tok # NoToken
      BY <1>5, <1>none, <2>1 DEF LoadPersisted, Idle, Removing
    <2> QED BY <1>5, <2>2 DEF LoadPersisted
  <1>6. ASSUME NEW i \in Instances, InsertPersisted(i) PROVE EntryKept'
    BY <1>6, <1>none DEF InsertPersisted, Idle, Removing
  <1>7. ASSUME UNCHANGED <<cache, store, mutation, pc, val>> PROVE EntryKept'
    BY <1>7 DEF Refreshable
  <1>8. ~RecordEvicted
    BY <1>1 DEF RecordEvicted
  <1>9. (\E n \in 1..MaxIssued : AccessTokenExpires(n)) \/ LeaseLapses
        => UNCHANGED <<cache, store, mutation, pc, val>>
    BY DEF AccessTokenExpires, LeaseLapses
  <1>10. ASSUME NEW i \in Instances, NEW b, NEW spent PROVE ~Login(i, b, spent)
    BY DEF Login, Unreplaced
  <1> QED BY <1>2, <1>3, <1>4, <1>5, <1>6, <1>7, <1>8, <1>9, <1>10 DEF Event

\* PanicOnlyIfReplaced: unless the grant is removed, or replaced by one without refresh
\* material, the assertion of refresh_token holds, for any instances and calls under
\* crashes, hang-ups, lapses, lost answers, failing backend calls and purges.
THEOREM PanicNeedsReplacement == Spec => []PanicOnlyIfReplaced
  <1>1. Init => EntryKept
    <2>1. Refreshable([at |-> 1, rt |-> 1]) /\ Refreshable(NoToken) /\ Refreshable(Unread)
      BY DEF Refreshable, NoRefresh
    <2> QED BY <2>1 DEF Init, EntryKept, Idle, Removing
  <1>2. TypeOK /\ EntryKept /\ [Next]_vars => EntryKept'
    <2> SUFFICES ASSUME TypeOK, EntryKept, Unreplaced, [Next]_vars PROVE EntryKept'
      BY DEF EntryKept, Unreplaced
    <2>1. CASE UNCHANGED vars
      BY <2>1 DEF vars, EntryKept, Refreshable
    <2> QED BY <2>1, NextSplits, KeptEntryStep, KeptEntryEvent
  <1>3. EntryKept => PanicOnlyIfReplaced
    BY DEF EntryKept, Unreplaced, PanicOnlyIfReplaced, JustStored
  <1> QED BY <1>1, <1>2, <1>3, TypeCorrect, PTL DEF Spec

-----------------------------------------------------------------------------
(***************************************************************************)
(* What a refresh could have presented.                                    *)
(***************************************************************************)

\* Nothing happens beside get_token: replicas share a backend and refresh.
Quiet == HasBackend /\ Events = {}

\* A refresh that goes upstream finds, in the shared record, an expired token whose
\* refresh token Keycloak honours. The one it presents may still be a spent one (the run
\* refresh_stale), since refresh_token takes it from the cached entry: what fails there
\* is that choice, never the record.
RecordWouldDo ==
    Quiet => \A t \in Tasks :
        pc[t] \in {"material", "post"} =>
            store # NoToken /\ is_expired(store) /\ store.rt \in live

\* Every token has refresh material, so nothing is purged or evicted; and the refresh
\* token Keycloak honours is the record's, or the one a task is about to persist.
QuietInv ==
    Quiet =>
        /\ NoRefresh \notin live
        /\ store # NoToken /\ Refreshable(store)
        /\ \A i \in Instances : /\ Refreshable(cache[i])
                                /\ mutation[i].op \in {"idle", "refresh"}
        /\ \A t \in Tasks : Refreshable(val[t])
        /\ \A t \in Tasks : pc[t] \in {"answered", "persist"} => val[t].rt \in live
        /\ (\A t \in Tasks : pc[t] \notin {"answered", "persist"}) => store.rt \in live

\* Keycloak's answer is the new home of the refresh token it honours: by
\* SerializedRefresh no other task has an answer of its own in hand.
LEMMA QuietGrant ==
    ASSUME TypeOK, SerializedRefresh, QuietInv, Quiet, NEW t \in Tasks, KeycloakGrants(t)
    PROVE  QuietInv'
  <1> USE ConstantsAssumption, SentinelsAssumption
  <1>inv. /\ NoRefresh \notin live
          /\ store # NoToken /\ Refreshable(store)
          /\ \A i \in Instances : /\ Refreshable(cache[i])
                                  /\ mutation[i].op \in {"idle", "refresh"}
          /\ \A u \in Tasks : Refreshable(val[u])
    BY DEF QuietInv
  <1>others. \A u \in Tasks \ {t} : val'[u] = val[u] /\ pc'[u] = pc[u]
    BY OthersStay DEF TaskStep, Step
  <1>1. val[t] \in Token /\ val[t].rt \in live /\ pc[t] = "post" /\ pc'[t] = "answered"
    BY DEF KeycloakGrants, TypeOK, Goto
  <1>2. PICK rotated \in Rotation :
          LET answer == IF rotated THEN issued + 1 ELSE NoRefresh IN
          /\ live' = IF rotated THEN (live \ {val[t].rt}) \cup {answer} ELSE live
          /\ val' = [val EXCEPT ![t] = Refreshed(issued + 1, answer, val[t].rt)]
    BY DEF KeycloakGrants
  <1>3. UNCHANGED <<cache, store, mutation>>
    BY DEF KeycloakGrants
  <1>4. issued + 1 # NoRefresh
    BY DEF TypeOK, NoRefresh
  <1>5. NoRefresh \notin live' /\ val'[t].rt \in live'
    <2>1. CASE rotated
      <3>1. live' = (live \ {val[t].rt}) \cup {issued + 1}
        BY <1>2, <2>1
      <3>2. val'[t] = [at |-> issued + 1, rt |-> issued + 1]
        BY <1>2, <1>4, <2>1 DEF Refreshed, TypeOK
      <3> QED
        BY <1>inv, <1>4, <3>1, <3>2
    <2>2. CASE ~rotated
      <3>1. live' = live /\ val'[t] = [at |-> issued + 1, rt |-> val[t].rt]
        BY <1>2, <2>2 DEF Refreshed, TypeOK
      <3> QED
        BY <1>inv, <1>1, <3>1
    <2> QED
      BY <2>1, <2>2
  <1>6. Refreshable(val'[t])
    BY <1>5 DEF Refreshable
  <1>7. \A u \in Tasks \ {t} : pc'[u] \notin {"answered", "persist"}
    BY <1>others, <1>1 DEF SerializedRefresh, Quiet, LeaseUnbroken, Upstream
  <1> QED
    BY <1>inv, <1>others, <1>1, <1>3, <1>5, <1>6, <1>7 DEF QuietInv, Refreshable

\* Any other step of a task hands tokens on; the record changes to the answer persisted.
LEMMA QuietStep ==
    ASSUME TypeOK, SerializedRefresh, QuietInv, Quiet, NEW t \in Tasks, TaskStep(t),
           ~KeycloakGrants(t)
    PROVE  QuietInv'
  <1> USE ConstantsAssumption, SentinelsAssumption
  <1>inv. /\ NoRefresh \notin live
          /\ store # NoToken /\ Refreshable(store)
          /\ \A i \in Instances : /\ Refreshable(cache[i])
                                  /\ mutation[i].op \in {"idle", "refresh"}
          /\ \A u \in Tasks : Refreshable(val[u])
          /\ \A u \in Tasks : pc[u] \in {"answered", "persist"} => val[u].rt \in live
          /\ (\A u \in Tasks : pc[u] \notin {"answered", "persist"}) => store.rt \in live
    BY DEF QuietInv
  <1>others. \A u \in Tasks \ {t} : val'[u] = val[u] /\ pc'[u] = pc[u]
    BY OthersStay
  <1>1. live' = live
    BY TokensMove
  <1>2. \/ store' = store /\ (pc'[t] \in {"answered", "persist"} <=> pc[t] \in {"answered", "persist"})
        \/ store' = val[t] /\ pc[t] = "persist" /\ pc'[t] = "stored"
    <2>1. ~ResponseLost(t)
      BY DEF Quiet, ResponseLost
    <2>2. CASE Persist(t)
      BY <2>2 DEF Persist, Written, Quiet, Goto, TypeOK
    <2>3. CASE ~Persist(t)
      BY <2>1, <2>3
      DEF TaskStep, Step, GetToken, LocalAcquire, WaitTimeout, LoadToken, FirstRead, GetRefreshLock,
          Recheck, Acquire, AcquireBusy, AcquireError, WaitAdopt, PollAgain, FinalCheck,
          Material, RefreshRefused, StoreToken, ReadBack, Release, Goto, Finish, TypeOK,
          RawPoints, AdoptPoints, locks
    <2> QED
      BY <2>2, <2>3
  <1>3. pc'[t] \in {"answered", "persist"} => pc[t] \in {"answered", "persist"} /\ val'[t] = val[t]
    <2>1. CASE StoreToken(t)
      BY <2>1 DEF StoreToken, Goto, TypeOK
    <2>2. CASE ~StoreToken(t)
      BY <2>2
      DEF TaskStep, Step, GetToken, LocalAcquire, WaitTimeout, LoadToken, FirstRead, GetRefreshLock,
          Recheck, Acquire, AcquireBusy, AcquireError, WaitAdopt, PollAgain, FinalCheck,
          Material, RefreshRefused, ResponseLost, Persist, ReadBack, Release, Goto, Finish,
          TypeOK, RawPoints, AdoptPoints, locks
    <2> QED
      BY <2>1, <2>2
  <1>4. store' # NoToken /\ Refreshable(store')
    BY <1>inv, <1>2 DEF TypeOK
  <1>5. ASSUME NEW i \in Instances PROVE Refreshable(cache'[i])
    <2>1. cache'[i] = cache[i] \/ cache'[i] = val[t]
      BY TokensMove
    <2> QED
      BY <1>inv, <2>1
  <1>6. Refreshable(val'[t])
    <2>1. \/ val'[t] \in {val[t], Unread, NoToken, store}
          \/ val'[t] = cache[Home[t]]
      BY TokensMove
    <2>2. Home[t] \in Instances
      OBVIOUS
    <2> QED
      BY <1>inv, <2>1, <2>2 DEF Refreshable
  <1>7. \A i \in Instances : mutation'[i].op \in {"idle", "refresh"}
    <2>1. \/ mutation' = mutation
          \/ \E x : x.op \in {"refresh", "idle"} /\ mutation' = [mutation EXCEPT ![Home[t]] = x]
      BY DEF TaskStep, Step, GetToken, LocalAcquire, WaitTimeout, LoadToken, FirstRead, GetRefreshLock,
             Recheck, Acquire, AcquireBusy, AcquireError, WaitAdopt, PollAgain, FinalCheck,
             Material, KeycloakGrants, RefreshRefused, ResponseLost, StoreToken, Persist,
             ReadBack, Release, Idle
    <2> QED
      BY <1>inv, <2>1 DEF TypeOK
  <1>8. ASSUME NEW u \in Tasks, pc'[u] \in {"answered", "persist"} PROVE val'[u].rt \in live'
    BY <1>inv, <1>others, <1>1, <1>3, <1>8
  <1>9. ASSUME \A u \in Tasks : pc'[u] \notin {"answered", "persist"} PROVE store'.rt \in live'
    <2>1. CASE store' = store
      BY <1>inv, <1>others, <1>1, <1>2, <1>9, <2>1
    <2>2. CASE store' = val[t] /\ pc[t] = "persist"
      BY <1>inv, <1>1, <2>2
    <2> QED
      BY <1>2, <2>1, <2>2
  <1> QED
    BY <1>inv, <1>others, <1>1, <1>4, <1>5, <1>6, <1>7, <1>8, <1>9 DEF QuietInv

\* Nothing else is left to happen: no token lacks refresh material.
LEMMA QuietEvent ==
    ASSUME TypeOK, QuietInv, Quiet, Event
    PROVE  QuietInv'
  <1> USE SentinelsAssumption DEF QuietInv, TypeOK
  <1>1. ASSUME NEW tok \in OptToken, Refreshable(tok) PROVE ~Useless(tok)
    BY <1>1 DEF Useless, Refreshable, OptToken
  <1>2. ASSUME NEW i \in Instances
        PROVE  /\ ~RemoveToken(i) /\ ~RemoveMutex(i) /\ ~PurgeScan(i) /\ ~PurgeExpired(i)
               /\ ~CommitMutation(i) /\ ~AbandonMutation(i)
               /\ ~Restart(i) /\ ~LoadPersisted(i) /\ ~InsertPersisted(i)
    BY <1>1 DEF Quiet, RemoveToken, RemoveMutex, PurgeScan, PurgeExpired, CommitMutation,
                AbandonMutation, Restart, LoadPersisted, InsertPersisted
  <1>3. ~RecordEvicted
    BY <1>1 DEF RecordEvicted
  <1>4. UNCHANGED <<live, store, cache, mutation, val, pc>>
    BY <1>2, <1>3 DEF Event, Cancel, Login, Quiet, AccessTokenExpires, LeaseLapses, keycloak
  <1> QED
    BY <1>4 DEF Refreshable

\* RecordWouldDo: in an undisturbed cluster the shared record always holds an expired token
\* with a refresh token Keycloak honours when a refresh goes upstream, for any number of
\* replicas and calls, rotating or not (get_token, refresh_token, adopt_persisted_token).
THEOREM RecordIsLive == Spec => []RecordWouldDo
  <1>1. Init => QuietInv
    <2> SUFFICES ASSUME Init, Quiet PROVE QuietInv
      BY DEF QuietInv
    <2>1. [at |-> 1, rt |-> 1] # NoToken
      BY SentinelsAssumption DEF Token
    <2> QED
      BY <2>1 DEF Init, QuietInv, Quiet, Refreshable, NoRefresh, Idle
  <1>2. TypeOK /\ SerializedRefresh /\ QuietInv /\ [Next]_vars => QuietInv'
    <2> SUFFICES ASSUME TypeOK, SerializedRefresh, QuietInv, Quiet, [Next]_vars
                 PROVE  QuietInv'
      BY DEF QuietInv, Quiet
    <2>1. CASE UNCHANGED vars
      BY <2>1 DEF vars, QuietInv, Refreshable
    <2>2. ASSUME NEW t \in Tasks, TaskStep(t) PROVE QuietInv'
      BY <2>2, QuietGrant, QuietStep
    <2> QED
      BY <2>1, <2>2, NextSplits, QuietEvent
  <1>3. SerializedRefresh /\ NoNeedlessRefresh /\ QuietInv => RecordWouldDo
    <2> SUFFICES ASSUME SerializedRefresh, NoNeedlessRefresh, QuietInv, Quiet,
                        NEW t \in Tasks, pc[t] \in {"material", "post"}
                 PROVE  store # NoToken /\ is_expired(store) /\ store.rt \in live
      BY DEF RecordWouldDo
    <2>1. LeaseUnbroken /\ "login" \notin Events
      BY DEF Quiet, LeaseUnbroken
    <2>2. store # NoToken /\ is_expired(store)
      BY <2>1 DEF QuietInv, NoNeedlessRefresh, Upstream
    <2>3. \A u \in Tasks : pc[u] \notin {"answered", "persist"}
      BY <2>1 DEF SerializedRefresh, Upstream
    <2> QED
      BY <2>2, <2>3 DEF QuietInv
  <1> QED
    BY <1>1, <1>2, <1>3, TypeCorrect, RefreshSerialized, RefreshNeeded, PTL DEF Spec


-----------------------------------------------------------------------------
(***************************************************************************)
(* One instance without a backend.                                         *)
(***************************************************************************)

\* One instance without a backend: nobody but its own calls refreshes or removes.
Standalone ==
    /\ ~HasBackend /\ (\A i, j \in Instances : i = j)
    /\ Events \cap {"cancel", "upstream", "login", "remove"} = {}

\* Without a backend the Mutex of refresh_locks and the double check behind it suffice:
\* a call goes upstream only with the entry the cache has, expired, and with a refresh
\* token Keycloak honours, however many calls found the same token expired (get_token).
\* A removal would hand later calls another Mutex, and a hang-up loses the answer.
MutexSuffices ==
    Standalone =>
        \A t \in Tasks : pc[t] = "post" =>
            val[t] = cache[Home[t]] /\ is_expired(val[t]) /\ val[t].rt \in live

\* The Mutex is never replaced and nobody but the task behind it touches the entry.
\* While no answer is on its way to the cache, the entry has the refresh token
\* Keycloak honours; what is presented is that entry, found expired.
SoloInv ==
    Standalone =>
        /\ store = NoToken
        /\ \A i \in Instances : /\ epoch[i] = 0 /\ Refreshable(cache[i])
                                /\ mutation[i].op \in {"idle", "refresh", "boot"}
        /\ \A t \in Tasks :
             /\ handle[t] = 0 /\ Refreshable(val[t])
             /\ pc[t] \notin {"acquire", "adopt", "poll", "final"}
             /\ pc[t] \in {"lookup", "local"} => val[t] = Unread
             /\ pc[t] \notin {"post", "answered", "persist"} => val[t] \in {Unread, NoToken}
             /\ pc[t] \in Critical /\ val[t] = NoToken => cache[Home[t]] = NoToken
             /\ pc[t] = "material" => cache[Home[t]] = NoToken \/ is_expired(cache[Home[t]])
             /\ pc[t] = "post" => val[t] = cache[Home[t]] /\ is_expired(val[t])
             /\ pc[t] = "answered" => val[t].rt \in live
        /\ (\A t \in Tasks : pc[t] # "answered") =>
             \A i \in Instances : cache[i] # NoToken => cache[i].rt \in live

\* Only store_token writes the cache: there is nothing to read through.
LEMMA SoloCache ==
    ASSUME TypeOK, SoloInv, Standalone, NEW t \in Tasks, TaskStep(t), ~StoreToken(t)
    PROVE  cache' = cache
  <1> USE ConstantsAssumption, SentinelsAssumption DEF TypeOK
  <1>1. \/ cache' = cache
        \/ RawReady(t) /\ WriteBack(t) /\ pc[t] \in RawPoints
        \/ pc[t] \in {"adopt", "final"}
    BY DEF TaskStep, Step, GetToken, LocalAcquire, WaitTimeout, LoadToken, FirstRead,
           GetRefreshLock, Recheck, Acquire, AcquireBusy, AcquireError, WaitAdopt, PollAgain,
           FinalCheck, Material, KeycloakGrants, RefreshRefused, ResponseLost, Persist,
           ReadBack, Release, RawPoints
  <1>2. ASSUME RawReady(t), WriteBack(t), pc[t] \in RawPoints PROVE cache' = cache
    <2>1. val[t] \in {Unread, NoToken}
      BY <1>2 DEF SoloInv, RawPoints
    <2>2. cache[Home[t]] = NoToken => get_token_raw(t) = NoToken
      BY <1>2, <2>1 DEF RawReady, get_token_raw
    <2>3. cache' = [cache EXCEPT ![Home[t]] = cache[Home[t]]]
      BY <1>2, <2>2 DEF WriteBack
    <2> QED BY <2>3
  <1> QED BY <1>1, <1>2 DEF SoloInv

\* A step that leaves a task past the Mutex, other than reading, leaves it the token it
\* carried or none.
LEMMA SoloCritical ==
    ASSUME TypeOK, SoloInv, Standalone, NEW t \in Tasks, TaskStep(t), ~KeycloakGrants(t),
           ~LoadToken(t), ~Material(t), ~LocalAcquire(t),
           pc'[t] \in Critical, val'[t] = NoToken
    PROVE  pc[t] \in Critical /\ val[t] = NoToken
  BY SentinelsAssumption
  DEF TaskStep, Step, GetToken, WaitTimeout, FirstRead, GetRefreshLock, Recheck, Acquire,
      AcquireBusy, AcquireError, WaitAdopt, PollAgain, FinalCheck, RefreshRefused,
      ResponseLost, StoreToken, Persist, ReadBack, Release, TypeOK, Goto, Finish, Forget,
      Critical, AdoptPoints, Upstream

\* Keycloak's answer: by LocalExclusion no other task is upstream.
LEMMA SoloGrant ==
    ASSUME TypeOK, LocalExclusion, SoloInv, Standalone, NEW t \in Tasks, KeycloakGrants(t)
    PROVE  SoloInv'
  <1> USE ConstantsAssumption, SentinelsAssumption
  <1>inv. /\ store = NoToken
          /\ \A i \in Instances : /\ epoch[i] = 0 /\ Refreshable(cache[i])
                                  /\ mutation[i].op \in {"idle", "refresh", "boot"}
          /\ \A u \in Tasks :
               /\ handle[u] = 0 /\ Refreshable(val[u])
               /\ pc[u] \notin {"acquire", "adopt", "poll", "final"}
               /\ pc[u] \in {"lookup", "local"} => val[u] = Unread
               /\ pc[u] \notin {"post", "answered", "persist"} => val[u] \in {Unread, NoToken}
    BY DEF SoloInv
  <1>others. \A u \in Tasks \ {t} : val'[u] = val[u] /\ pc'[u] = pc[u] /\ handle'[u] = handle[u]
    BY OthersStay DEF TaskStep, Step
  <1>1. val[t] \in Token /\ val[t].rt \in live /\ pc[t] = "post" /\ pc'[t] = "answered"
    BY DEF KeycloakGrants, TypeOK, Goto
  <1>2. PICK rotated \in Rotation :
          LET answer == IF rotated THEN issued + 1 ELSE NoRefresh IN
          /\ live' = IF rotated THEN (live \ {val[t].rt}) \cup {answer} ELSE live
          /\ val' = [val EXCEPT ![t] = Refreshed(issued + 1, answer, val[t].rt)]
    BY DEF KeycloakGrants
  <1>3. UNCHANGED <<cache, store, mutation, epoch, expired, handle>>
    BY DEF KeycloakGrants
  <1>4. issued + 1 # NoRefresh /\ val[t].rt # NoRefresh
    BY <1>inv, <1>1 DEF TypeOK, NoRefresh, Refreshable
  <1>5. val'[t].rt \in live' /\ val'[t].rt # NoRefresh /\ val'[t] # NoToken
    <2>1. CASE rotated
      <3>1. live' = (live \ {val[t].rt}) \cup {issued + 1}
        BY <1>2, <2>1
      <3>2. val'[t] = [at |-> issued + 1, rt |-> issued + 1]
        BY <1>2, <1>4, <2>1 DEF Refreshed, TypeOK
      <3>3. val'[t] \in Token
        BY <3>2 DEF Token, TypeOK
      <3> QED BY <1>4, <3>1, <3>2, <3>3
    <2>2. CASE ~rotated
      <3>1. live' = live /\ val'[t] = [at |-> issued + 1, rt |-> val[t].rt]
        BY <1>2, <2>2 DEF Refreshed, TypeOK
      <3>2. val'[t] \in Token
        BY <1>1, <3>1 DEF Token, TypeOK
      <3> QED BY <1>1, <1>4, <3>1, <3>2
    <2> QED BY <2>1, <2>2
  <1>6. Refreshable(val'[t])
    BY <1>5 DEF Refreshable
  <1>7. ASSUME NEW u \in Tasks \ {t} PROVE pc'[u] \notin Critical
    <2>1. Home[u] = Home[t] /\ handle[u] = handle[t]
      BY <1>inv DEF Standalone
    <2> QED BY <1>1, <1>others, <2>1 DEF LocalExclusion, SameMutex, Critical, Upstream
  <1>8. ASSUME NEW u \in Tasks
        PROVE  /\ handle'[u] = 0 /\ Refreshable(val'[u])
               /\ pc'[u] \notin {"acquire", "adopt", "poll", "final"}
               /\ pc'[u] \in {"lookup", "local"} => val'[u] = Unread
               /\ pc'[u] \notin {"post", "answered", "persist"} => val'[u] \in {Unread, NoToken}
               /\ pc'[u] \in Critical /\ val'[u] = NoToken => cache'[Home[u]] = NoToken
               /\ pc'[u] = "material" =>
                      cache'[Home[u]] = NoToken \/ cache'[Home[u]].at \in expired'
               /\ pc'[u] = "post" => val'[u] = cache'[Home[u]] /\ val'[u].at \in expired'
               /\ pc'[u] = "answered" => val'[u].rt \in live'
    <2>1. CASE u = t
      BY <1>inv, <1>1, <1>3, <1>5, <1>6, <2>1
    <2>2. CASE u # t
      BY <1>inv, <1>others, <1>7, <2>2 DEF Critical, Upstream
    <2> QED BY <2>1, <2>2
  <1> QED BY <1>inv, <1>1, <1>3, <1>8 DEF SoloInv, is_expired, Refreshable

\* Any other step: who waits for the Mutex changes nothing, who has it finds the entry
\* as it left it.
LEMMA SoloStep ==
    ASSUME TypeOK, LocalExclusion, SoloInv, Standalone, NEW t \in Tasks, TaskStep(t),
           ~KeycloakGrants(t)
    PROVE  SoloInv'
  <1> USE ConstantsAssumption, SentinelsAssumption
  <1>inv. /\ store = NoToken
          /\ \A i \in Instances : /\ epoch[i] = 0 /\ Refreshable(cache[i])
                                  /\ mutation[i].op \in {"idle", "refresh", "boot"}
          /\ \A u \in Tasks :
               /\ handle[u] = 0 /\ Refreshable(val[u])
               /\ pc[u] \notin {"acquire", "adopt", "poll", "final"}
               /\ pc[u] \in {"lookup", "local"} => val[u] = Unread
               /\ pc[u] \notin {"post", "answered", "persist"} => val[u] \in {Unread, NoToken}
               /\ pc[u] \in Critical /\ val[u] = NoToken => cache[Home[u]] = NoToken
               /\ pc[u] = "material" => cache[Home[u]] = NoToken \/ is_expired(cache[Home[u]])
               /\ pc[u] = "post" => val[u] = cache[Home[u]] /\ is_expired(val[u])
               /\ pc[u] = "answered" => val[u].rt \in live
          /\ (\A u \in Tasks : pc[u] # "answered") =>
               \A i \in Instances : cache[i] # NoToken => cache[i].rt \in live
    BY DEF SoloInv
  <1>others. \A u \in Tasks \ {t} : val'[u] = val[u] /\ pc'[u] = pc[u] /\ handle'[u] = handle[u]
    BY OthersStay
  <1>home. \A u \in Tasks : Home[u] \in Instances /\ Home[u] = Home[t]
    BY DEF Standalone
  <1>calm. ~HasBackend /\ "upstream" \notin Events
    BY DEF Standalone
  <1>1. live' = live /\ expired' = expired
    BY TokensMove
  <1>2. store' = NoToken
    BY <1>inv, <1>calm
    DEF TaskStep, Step, GetToken, LocalAcquire, WaitTimeout, LoadToken, FirstRead,
        GetRefreshLock, Recheck, Acquire, AcquireBusy, AcquireError, WaitAdopt, PollAgain,
        FinalCheck, Material, RefreshRefused, ResponseLost, StoreToken, Persist, ReadBack,
        Release, Written
  <1>3. ASSUME NEW i \in Instances
        PROVE  /\ epoch'[i] = 0 /\ Refreshable(cache'[i])
               /\ mutation'[i].op \in {"idle", "refresh", "boot"}
    <2>1. epoch' = epoch
      BY StepKeepsEntries
    <2>2. cache'[i] = cache[i] \/ cache'[i] = val[t]
      BY TokensMove
    <2>3. \/ mutation' = mutation
          \/ \E x : x.op \in {"refresh", "idle"} /\ mutation' = [mutation EXCEPT ![Home[t]] = x]
      BY DEF TaskStep, Step, GetToken, LocalAcquire, WaitTimeout, LoadToken, FirstRead,
             GetRefreshLock, Recheck, Acquire, AcquireBusy, AcquireError, WaitAdopt,
             PollAgain, FinalCheck, Material, KeycloakGrants, RefreshRefused, ResponseLost,
             StoreToken, Persist, ReadBack, Release, Idle
    <2> QED BY <1>inv, <2>1, <2>2, <2>3 DEF TypeOK
  <1>4. /\ handle'[t] = 0
        /\ pc'[t] \notin {"acquire", "adopt", "poll", "final"}
    BY <1>inv, <1>calm, <1>home
    DEF TaskStep, Step, GetToken, LocalAcquire, WaitTimeout, LoadToken, FirstRead,
        GetRefreshLock, Recheck, Acquire, AcquireBusy, AcquireError, WaitAdopt, PollAgain,
        FinalCheck, Material, RefreshRefused, ResponseLost, StoreToken, Persist, ReadBack,
        Release, TypeOK, Goto, Finish
  <1>5. Refreshable(val'[t])
    <2>1. \/ val'[t] \in {val[t], Unread, NoToken, store}
          \/ val'[t] = cache[Home[t]]
      BY TokensMove
    <2>2. Refreshable(NoToken) /\ Refreshable(Unread)
      BY DEF Refreshable
    <2> QED BY <1>inv, <1>home, <2>1, <2>2
  <1>6. CASE StoreToken(t)
    <2>1. /\ pc[t] = "answered" /\ pc'[t] = "persist" /\ val'[t] = val[t] /\ val[t] \in Token
          /\ cache'[Home[t]] = val[t]
      BY <1>6, <1>home DEF StoreToken, Goto, TypeOK
    <2>2. \A u \in Tasks \ {t} : pc'[u] \notin Critical
      BY <1>inv, <1>others, <1>home, <2>1 DEF LocalExclusion, SameMutex, Critical, Upstream
    <2>3. \A i \in Instances : cache'[i].rt \in live
      BY <1>inv, <1>home, <2>1 DEF Standalone
    <2>4. ASSUME NEW u \in Tasks \ {t}
          PROVE  /\ handle'[u] = 0 /\ Refreshable(val'[u])
                 /\ pc'[u] \notin {"acquire", "adopt", "poll", "final", "material", "post",
                                   "answered"}
                 /\ pc'[u] \in {"lookup", "local"} => val'[u] = Unread
                 /\ pc'[u] \notin {"post", "answered", "persist"} => val'[u] \in {Unread, NoToken}
                 /\ pc'[u] \notin Critical
      BY <1>inv, <1>others, <2>2 DEF Critical, Upstream
    <2> QED
      BY <1>1, <1>2, <1>3, <1>4, <1>5, <2>1, <2>3, <2>4 DEF SoloInv, Refreshable, Token
  <1>7. CASE ~StoreToken(t)
    <2>1. cache' = cache
      BY <1>7, SoloCache
    <2>2. pc'[t] = "answered" => pc[t] = "answered" /\ val'[t] = val[t]
      BY <1>7
      DEF TaskStep, Step, GetToken, LocalAcquire, WaitTimeout, LoadToken, FirstRead,
          GetRefreshLock, Recheck, Acquire, AcquireBusy, AcquireError, WaitAdopt, PollAgain,
          FinalCheck, Material, RefreshRefused, ResponseLost, Persist, ReadBack, Release,
          TypeOK, Goto, Finish, RawPoints, AdoptPoints
    <2>3. pc[t] = "answered" => pc'[t] = "answered"
      BY <1>7, <1>calm
      DEF TaskStep, Step, GetToken, LocalAcquire, WaitTimeout, LoadToken, FirstRead,
          GetRefreshLock, Recheck, Acquire, AcquireBusy, AcquireError, WaitAdopt, PollAgain,
          FinalCheck, Material, RefreshRefused, ResponseLost, Persist, ReadBack, Release,
          RawPoints, AdoptPoints
    <2>4. pc'[t] \notin {"post", "answered", "persist"} => val'[t] \in {Unread, NoToken}
      <3>1. CASE LoadToken(t)
        BY <1>inv, <1>calm, <3>1 DEF LoadToken, Loadable, TypeOK, RawPoints, AdoptPoints
      <3> QED
        BY <1>inv, <1>7, <3>1
        DEF TaskStep, Step, GetToken, LocalAcquire, WaitTimeout, FirstRead, GetRefreshLock,
            Recheck, Acquire, AcquireBusy, AcquireError, WaitAdopt, PollAgain, FinalCheck,
            Material, RefreshRefused, ResponseLost, Persist, ReadBack, Release, TypeOK,
            Goto, Finish, Forget
    <2>4a. pc'[t] \in {"lookup", "local"} => val'[t] = Unread
      BY <1>inv, <1>7
      DEF TaskStep, Step, GetToken, LocalAcquire, WaitTimeout, LoadToken, FirstRead,
          GetRefreshLock, Recheck, Acquire, AcquireBusy, AcquireError, WaitAdopt, PollAgain,
          FinalCheck, Material, RefreshRefused, ResponseLost, Persist, ReadBack, Release,
          TypeOK, Goto, Finish, Forget, RawPoints, AdoptPoints
    <2>5. ASSUME pc'[t] \in Critical, val'[t] = NoToken PROVE cache[Home[t]] = NoToken
      <3>1. CASE LoadToken(t)
        BY <1>inv, <3>1 DEF LoadToken, AdoptPoints
      <3>2. CASE Material(t)
        BY <2>5, <3>2 DEF Material, Forget, TypeOK
      <3>3. CASE LocalAcquire(t)
        BY <1>inv, <2>5, <3>3 DEF LocalAcquire, TypeOK
      <3> QED BY <1>inv, <2>5, <3>1, <3>2, <3>3, SoloCritical
    <2>6. pc'[t] = "material" => cache[Home[t]] = NoToken \/ is_expired(cache[Home[t]])
      <3>1. CASE Recheck(t)
        BY <1>inv, <3>1 DEF Recheck, RawReady, get_token_raw, Critical, TypeOK, Goto
      <3>2. CASE LoadToken(t)
        BY <1>inv, <3>2 DEF LoadToken
      <3> QED
        BY <1>inv, <1>7, <3>1, <3>2
        DEF TaskStep, Step, GetToken, LocalAcquire, WaitTimeout, FirstRead, GetRefreshLock,
            Acquire, AcquireBusy, AcquireError, WaitAdopt, PollAgain, FinalCheck, Material,
            RefreshRefused, ResponseLost, Persist, ReadBack, Release, TypeOK, Goto, Finish
    <2>7. pc'[t] = "post" => val'[t] = cache[Home[t]] /\ is_expired(val'[t])
      <3>1. CASE Material(t)
        BY <1>inv, <3>1 DEF Material, RawReady, get_token_raw, Critical, Upstream, TypeOK,
                            Goto, Finish
      <3> QED
        BY <1>7, <3>1
        DEF TaskStep, Step, GetToken, LocalAcquire, WaitTimeout, LoadToken, FirstRead,
            GetRefreshLock, Recheck, Acquire, AcquireBusy, AcquireError, WaitAdopt,
            PollAgain, FinalCheck, RefreshRefused, ResponseLost, Persist, ReadBack, Release,
            TypeOK, Goto, Finish, RawPoints, AdoptPoints
    <2>8. ASSUME NEW u \in Tasks
          PROVE  /\ handle'[u] = 0 /\ Refreshable(val'[u])
                 /\ pc'[u] \notin {"acquire", "adopt", "poll", "final"}
                 /\ pc'[u] \in {"lookup", "local"} => val'[u] = Unread
                 /\ pc'[u] \notin {"post", "answered", "persist"} => val'[u] \in {Unread, NoToken}
                 /\ pc'[u] \in Critical /\ val'[u] = NoToken => cache'[Home[u]] = NoToken
                 /\ pc'[u] = "material" =>
                        cache'[Home[u]] = NoToken \/ cache'[Home[u]].at \in expired'
                 /\ pc'[u] = "post" => val'[u] = cache'[Home[u]] /\ val'[u].at \in expired'
                 /\ pc'[u] = "answered" => val'[u].rt \in live'
      <3>1. CASE u = t
        BY <1>inv, <1>1, <1>4, <1>5, <2>1, <2>2, <2>4, <2>4a, <2>5, <2>6, <2>7, <3>1 DEF is_expired
      <3>2. CASE u # t
        BY <1>inv, <1>others, <1>1, <2>1, <3>2 DEF is_expired
      <3> QED BY <3>1, <3>2
    <2>9. ASSUME \A u \in Tasks : pc'[u] # "answered"
          PROVE  \A i \in Instances : cache'[i] # NoToken => cache'[i].rt \in live'
      BY <1>inv, <1>others, <1>1, <2>1, <2>3, <2>9
    <2> QED BY <1>2, <1>3, <2>8, <2>9 DEF SoloInv, is_expired, Refreshable
  <1> QED BY <1>6, <1>7

\* A restart forgets the entry and its calls; nothing else is left to happen.
LEMMA SoloEvent ==
    ASSUME TypeOK, SoloInv, Standalone, Event
    PROVE  SoloInv'
  <1> USE SentinelsAssumption, ConstantsAssumption DEF SoloInv, TypeOK
  <1>none. Refreshable(NoToken) /\ Refreshable(Unread)
    BY DEF Refreshable
  <1>1. ASSUME NEW tok \in OptToken, Refreshable(tok) PROVE ~Useless(tok)
    BY <1>1 DEF Useless, Refreshable, OptToken
  <1>2. ASSUME NEW i \in Instances
        PROVE  /\ ~RemoveToken(i) /\ ~RemoveMutex(i) /\ ~PurgeScan(i) /\ ~PurgeExpired(i)
               /\ ~CommitMutation(i) /\ ~AbandonMutation(i) /\ ~InsertPersisted(i)
    BY <1>1 DEF Standalone, RemoveToken, RemoveMutex, PurgeScan, PurgeExpired,
                CommitMutation, AbandonMutation, InsertPersisted
  <1>3. ASSUME NEW i \in Instances, Restart(i) PROVE SoloInv'
    <2>1. Instances = {i} /\ \A t \in Tasks : Home[t] = i
      BY DEF Standalone
    <2>2. /\ cache'[i] = NoToken /\ mutation'[i].op = "boot"
          /\ UNCHANGED <<store, epoch, handle, live>>
          /\ \A t \in Tasks : pc'[t] = "idle" /\ val'[t] = Unread
      BY <1>3, <2>1 DEF Restart, Owes, keycloak
    <2> QED BY <1>none, <2>1, <2>2 DEF Critical, AdoptPoints, Upstream, Refreshable
  <1>4. ASSUME NEW i \in Instances, LoadPersisted(i) PROVE SoloInv'
    <2>1. /\ mutation' = [mutation EXCEPT ![i] = Idle]
          /\ UNCHANGED <<cache, store, epoch, expired, pc, val, handle, live>>
      BY <1>4 DEF LoadPersisted, Standalone, keycloak
    <2> QED BY <2>1 DEF Idle, is_expired, Refreshable
  <1>5. ASSUME NEW n \in 1..MaxIssued, AccessTokenExpires(n) PROVE SoloInv'
    <2>1. /\ expired \subseteq expired'
          /\ UNCHANGED <<cache, store, epoch, mutation, pc, val, handle, live>>
      BY <1>5 DEF AccessTokenExpires, keycloak
    <2> QED BY <2>1 DEF is_expired, Refreshable
  <1>6. CASE LeaseLapses
    <2>1. UNCHANGED <<cache, store, epoch, expired, mutation, pc, val, handle, live>>
      BY <1>6 DEF LeaseLapses, keycloak
    <2> QED BY <2>1 DEF is_expired, Refreshable
  <1>7. ~RecordEvicted /\ \A t \in Tasks : ~Cancel(t)
    BY DEF RecordEvicted, Cancel, Standalone
  <1>8. ASSUME NEW i \in Instances, NEW b, NEW spent PROVE ~Login(i, b, spent)
    BY DEF Login, Standalone
  <1> QED BY <1>2, <1>3, <1>4, <1>5, <1>6, <1>7, <1>8 DEF Event

\* MutexSuffices: an instance without a backend presents only the entry of its cache, only
\* when it is expired and only with a refresh token Keycloak honours, however many calls
\* found it expired at once and whenever the process restarts (get_token, refresh_token).
THEOREM MutexIsEnough == Spec => []MutexSuffices
  <1>1. Init => SoloInv
    <2> SUFFICES ASSUME Init, Standalone PROVE SoloInv
      BY DEF SoloInv
    <2>1. /\ Refreshable([at |-> 1, rt |-> 1]) /\ Refreshable(NoToken) /\ Refreshable(Unread)
          /\ NoToken # Unread
      BY SentinelsAssumption DEF Refreshable, NoRefresh
    <2> QED
      BY <2>1 DEF Init, SoloInv, Standalone, Idle, Critical, AdoptPoints, Upstream
  <1>2. TypeOK /\ LocalExclusion /\ SoloInv /\ [Next]_vars => SoloInv'
    <2> SUFFICES ASSUME TypeOK, LocalExclusion, SoloInv, Standalone, [Next]_vars PROVE SoloInv'
      BY DEF SoloInv, Standalone
    <2>1. CASE UNCHANGED vars
      BY <2>1 DEF vars, SoloInv, Refreshable, is_expired
    <2>2. ASSUME NEW t \in Tasks, TaskStep(t) PROVE SoloInv'
      BY <2>2, SoloGrant, SoloStep
    <2> QED BY <2>1, <2>2, NextSplits, SoloEvent
  <1>3. TypeOK /\ LocalExclusion /\ SoloInv => MutexSuffices
    <2> SUFFICES ASSUME TypeOK, LocalExclusion, SoloInv, Standalone,
                        NEW t \in Tasks, pc[t] = "post"
                 PROVE  val[t] = cache[Home[t]] /\ is_expired(val[t]) /\ val[t].rt \in live
      BY DEF MutexSuffices
    <2>1. val[t] = cache[Home[t]] /\ is_expired(val[t]) /\ val[t] \in Token
      BY DEF SoloInv, TypeOK
    <2>2. \A u \in Tasks : pc[u] # "answered"
      <3>1. \A u \in Tasks : Home[u] = Home[t] /\ handle[u] = handle[t]
        BY ConstantsAssumption DEF SoloInv, Standalone
      <3> QED BY <3>1 DEF LocalExclusion, SameMutex, Critical, Upstream
    <2> QED BY <2>1, <2>2, ConstantsAssumption, SentinelsAssumption DEF SoloInv
  <1> QED BY <1>1, <1>2, <1>3, TypeCorrect, LocalExcludes, PTL DEF Spec
=============================================================================
