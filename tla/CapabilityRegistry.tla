------------------------- MODULE CapabilityRegistry -------------------------
(***************************************************************************)
(* The registry of dynamic capabilities (capability/registry.rs): tools,   *)
(* prompts and resources that come and go at run time, the version hash    *)
(* over their names, the connected peers that are told of each change, and *)
(* the version each session has seen, which is kept across restarts.       *)
(*                                                                         *)
(* The three maps, the version and the list of peers have a lock each and  *)
(* a mutation takes them one after the other, so that mutations, hashes,   *)
(* notifications, joins and closing transports interleave.  A task is one  *)
(* call of add_*, remove_* or on_initialized.                              *)
(***************************************************************************)
EXTENDS Integers, FiniteSets, Sequences, Functions

CONSTANTS
    CpNames,        \* names and URIs, numbered in the order they sort in
    CpPeers,        \* connections
    CpSessions,     \* session ids
    CpSessionOf,    \* CpSessionOf[p]: the session connection p belongs to
    CpTasks,        \* task slots
    CpGreeting,     \* bound: the connections that send notifications/initialized
    CpChanging,     \* bound: the <<kind, name>> that come and go
    CpNone,         \* nothing
    CpMaxChanges    \* bound: additions and removals

CpKinds == <<"tools", "prompts", "resources">>
CpKind == {"tools", "prompts", "resources"}

ASSUME CpAssumption ==
    /\ CpNames \subseteq Nat /\ CpSessionOf \in [CpPeers -> CpSessions]
    /\ CpGreeting \subseteq CpPeers
    /\ CpChanging \subseteq CpKind \X CpNames /\ CpMaxChanges \in Nat
    /\ CpNone \notin CpKind \cup CpTasks

VARIABLES
    cpItems,      \* cpItems[k]: the names registered
    cpVersion,    \* version: a hash, here the sequence that is hashed
    cpPeers,      \* peers, in the order of the Vec
    cpClosed,     \* connections whose transport is closed
    cpFailed,     \* history: connections dropped for a failed send, transport open
    cpJoined,     \* connections that ever sent initialize
    cpHeld,       \* the task that holds the write lock of peers
    cpSeen,       \* session_versions
    cpSaved,      \* backend NS_CAP_VERSIONS
    cpTask,       \* the tasks
    cpUntold,     \* history, cpUntold[p]: kinds that changed since p was last told
    cpRaced,      \* history: two hashes overlapped since the last that did not
    cpChanges     \* changes so far

cpVars == <<cpItems, cpVersion, cpPeers, cpClosed, cpFailed, cpJoined, cpHeld, cpSeen, cpSaved,
            cpTask, cpUntold, cpRaced, cpChanges>>

CpIdle == [pc |-> "idle", kind |-> CpNone, peer |-> CpNone, hash |-> <<>>, at |-> 1,
           gone |-> <<>>, alone |-> TRUE]

CpInit ==
    /\ cpItems = [k \in CpKind |-> {}]
    /\ cpVersion = <<>>
    /\ cpPeers = <<>> /\ cpClosed = {} /\ cpFailed = {} /\ cpJoined = {} /\ cpHeld = CpNone
    /\ cpSeen = [s \in CpSessions |-> CpNone]
    /\ cpSaved = [s \in CpSessions |-> CpNone]
    /\ cpTask = [t \in CpTasks |-> CpIdle]
    /\ cpUntold = [p \in CpPeers |-> {}]
    /\ cpRaced = FALSE /\ cpChanges = 0

CpSet(t, q) == cpTask' = [cpTask EXCEPT ![t] = q]
CpHashing(t) == cpTask[t].pc \in {"hash", "store"}
CpOpen == cpJoined \ cpClosed

\* Connections that are still to be told of changes.
CpDue == CpOpen \ cpFailed

-----------------------------------------------------------------------------
(* Mutations.                                                              *)

\* A finite set of numbers in ascending order: i - 1 of them come before the i-th.
CpInOrder(S) ==
    [i \in 1 .. Cardinality(S) |-> CHOOSE n \in S : Cardinality({m \in S : m < n}) = i - 1]

\* hash_sorted_keys: the names of one map, sorted.
hash_sorted_keys(items) == CpInOrder(items)

\* The hash of the whole content: the three maps one after the other, with nothing
\* between them.
CpContentHash(items) ==
    hash_sorted_keys(items["tools"]) \o hash_sorted_keys(items["prompts"])
        \o hash_sorted_keys(items["resources"])

\* The map changes under its write lock; a removal of what is not there does no more.
\* Everyone connected has now something to be told.
CpMutate(t, k, names) ==
    LET others == {x \in CpTasks : CpHashing(x)}
    IN
    /\ cpTask[t].pc = "idle" /\ cpChanges < CpMaxChanges
    /\ cpItems' = [cpItems EXCEPT ![k] = names]
    /\ cpUntold' = [p \in CpPeers |-> IF p \in CpOpen THEN cpUntold[p] \cup {k} ELSE cpUntold[p]]
    /\ cpRaced' = (cpRaced \/ others # {})
    /\ cpTask' = [x \in CpTasks |->
           IF x = t THEN [CpIdle EXCEPT !.pc = "hash", !.kind = k, !.alone = others = {}]
           ELSE IF x \in others THEN [cpTask[x] EXCEPT !.alone = FALSE] ELSE cpTask[x]]
    /\ cpChanges' = cpChanges + 1
    /\ UNCHANGED <<cpVersion, cpPeers, cpClosed, cpFailed, cpJoined, cpHeld, cpSeen, cpSaved>>

\* add_tool, add_tool_with_context, add_prompt, add_resource, register_app_resource.
add_item(t, k, n) == CpMutate(t, k, cpItems[k] \cup {n})

\* Mutant: a removal tells the peers and leaves the version alone.
remove_item_keeps_version(t, k, n) ==
    /\ n \in cpItems[k] /\ cpTask[t].pc = "idle" /\ cpChanges < CpMaxChanges
    /\ cpItems' = [cpItems EXCEPT ![k] = @ \ {n}]
    /\ cpUntold' = [p \in CpPeers |-> IF p \in CpOpen THEN cpUntold[p] \cup {k} ELSE cpUntold[p]]
    /\ CpSet(t, [CpIdle EXCEPT !.pc = "peers", !.kind = k])
    /\ cpChanges' = cpChanges + 1
    /\ UNCHANGED <<cpVersion, cpPeers, cpClosed, cpFailed, cpJoined, cpHeld, cpSeen, cpSaved,
                   cpRaced>>

\* remove_tool, remove_prompt, remove_resource.
remove_item(t, k, n) == n \in cpItems[k] /\ CpMutate(t, k, cpItems[k] \ {n})

\* recompute_version: each map is read under its own lock ...
CpHashNext(t) ==
    LET q == cpTask[t]
        hash == q.hash \o hash_sorted_keys(cpItems[CpKinds[q.at]])
    IN
    /\ q.pc = "hash"
    /\ CpSet(t, [q EXCEPT !.hash = hash, !.at = IF @ = 3 THEN 1 ELSE @ + 1,
                          !.pc = IF q.at = 3 THEN "store" ELSE "hash"])
    /\ UNCHANGED <<cpItems, cpVersion, cpPeers, cpClosed, cpFailed, cpJoined, cpHeld, cpSeen,
                   cpSaved, cpUntold, cpRaced, cpChanges>>

\* ... and the hash is stored whatever was stored meanwhile.
recompute_version(t) ==
    LET q == cpTask[t]
    IN
    /\ q.pc = "store"
    /\ cpVersion' = q.hash
    /\ cpRaced' = (cpRaced /\ ~q.alone)
    /\ CpSet(t, [q EXCEPT !.pc = "peers", !.hash = <<>>, !.alone = TRUE])
    /\ UNCHANGED <<cpItems, cpPeers, cpClosed, cpFailed, cpJoined, cpHeld, cpSeen, cpSaved,
                   cpUntold, cpChanges>>

-----------------------------------------------------------------------------
(* notify_peers: the write lock of peers is held for the whole loop.       *)

\* Vec::swap_remove: the last element takes the place of the removed one.
swap_remove(ps, i) ==
    [j \in 1 .. Len(ps) - 1 |-> IF j = i THEN ps[Len(ps)] ELSE ps[j]]

CpLockPeers(t) ==
    /\ cpTask[t].pc = "peers" /\ cpHeld = CpNone
    /\ cpHeld' = t
    /\ CpSet(t, [cpTask[t] EXCEPT !.pc = "notify"])
    /\ UNCHANGED <<cpItems, cpVersion, cpPeers, cpClosed, cpFailed, cpJoined, cpSeen, cpSaved,
                   cpUntold, cpRaced, cpChanges>>

\* Mutant: a closed peer is removed on the spot and the loop goes on at the next index.
notify_peer_removes(t, sent) ==
    LET q == cpTask[t]
        p == cpPeers[q.at]
    IN
    /\ q.pc = "notify" /\ q.at <= Len(cpPeers) /\ sent = (p \notin cpClosed)
    /\ cpUntold' = IF sent THEN [cpUntold EXCEPT ![p] = @ \ {q.kind}] ELSE cpUntold
    /\ cpPeers' = IF sent THEN cpPeers ELSE swap_remove(cpPeers, q.at)
    /\ CpSet(t, [q EXCEPT !.at = @ + 1])
    /\ UNCHANGED <<cpItems, cpVersion, cpClosed, cpFailed, cpJoined, cpHeld, cpSeen, cpSaved,
                   cpRaced, cpChanges>>

\* One peer is told, or found closed, or the send fails: the last two are noted.
notify_peer(t, sent) ==
    LET q == cpTask[t]
        p == cpPeers[q.at]
    IN
    /\ q.pc = "notify" /\ q.at <= Len(cpPeers)
    /\ sent => p \notin cpClosed
    /\ cpFailed' = IF sent \/ p \in cpClosed THEN cpFailed ELSE cpFailed \cup {p}
    /\ cpUntold' = IF sent THEN [cpUntold EXCEPT ![p] = @ \ {q.kind}] ELSE cpUntold
    /\ CpSet(t, [q EXCEPT !.at = @ + 1, !.gone = IF sent THEN @ ELSE Append(@, q.at)])
    /\ UNCHANGED <<cpItems, cpVersion, cpPeers, cpClosed, cpJoined, cpHeld, cpSeen, cpSaved,
                   cpRaced, cpChanges>>

\* The peers that failed are removed, the highest index first ...
drop_peer(t) ==
    LET q == cpTask[t]
        last == Len(q.gone)
    IN
    /\ q.pc = "notify" /\ q.at > Len(cpPeers) /\ last > 0
    /\ cpPeers' = swap_remove(cpPeers, q.gone[last])
    /\ CpSet(t, [q EXCEPT !.gone = SubSeq(@, 1, last - 1)])
    /\ UNCHANGED <<cpItems, cpVersion, cpClosed, cpFailed, cpJoined, cpHeld, cpSeen, cpSaved,
                   cpUntold, cpRaced, cpChanges>>

\* ... and the lock is released when none is left.
notify_peers(t) ==
    /\ cpTask[t].pc = "notify" /\ cpTask[t].at > Len(cpPeers) /\ cpTask[t].gone = <<>>
    /\ cpHeld' = CpNone
    /\ CpSet(t, CpIdle)
    /\ UNCHANGED <<cpItems, cpVersion, cpPeers, cpClosed, cpFailed, cpJoined, cpSeen, cpSaved,
                   cpUntold, cpRaced, cpChanges>>

\* peers(): a snapshot, which prunes what is closed and keeps the order of the rest.
prune_peers ==
    LET kept == CpInOrder({i \in 1 .. Len(cpPeers) : cpPeers[i] \notin cpClosed})
    IN
    /\ cpHeld = CpNone
    /\ cpPeers' = [j \in 1 .. Len(kept) |-> cpPeers[kept[j]]]
    /\ UNCHANGED <<cpItems, cpVersion, cpClosed, cpFailed, cpJoined, cpHeld, cpSeen, cpSaved,
                   cpTask, cpUntold, cpRaced, cpChanges>>

-----------------------------------------------------------------------------
(* Connections.                                                            *)

\* initialize: register_peer; the client lists what there is after it.
register_peer(p) ==
    /\ p \notin cpJoined /\ p \notin cpClosed /\ cpHeld = CpNone
    /\ cpPeers' = Append(cpPeers, p)
    /\ cpJoined' = cpJoined \cup {p}
    /\ UNCHANGED <<cpItems, cpVersion, cpClosed, cpFailed, cpHeld, cpSeen, cpSaved, cpTask,
                   cpUntold, cpRaced, cpChanges>>

\* on_initialized: notify_if_changed reads the version ...
on_initialized(t, p) ==
    /\ cpTask[t].pc = "idle" /\ p \in CpOpen
    /\ CpSet(t, [CpIdle EXCEPT !.pc = "compare", !.peer = p, !.hash = cpVersion])
    /\ UNCHANGED <<cpItems, cpVersion, cpPeers, cpClosed, cpFailed, cpJoined, cpHeld, cpSeen,
                   cpSaved, cpUntold, cpRaced, cpChanges>>

\* ... compares and records it under the lock of session_versions ...
notify_if_changed(t) ==
    LET q == cpTask[t]
        s == CpSessionOf[q.peer]
    IN
    /\ q.pc = "compare"
    /\ IF cpSeen[s] = q.hash THEN CpSet(t, CpIdle) /\ UNCHANGED cpSeen
       ELSE /\ cpSeen' = [cpSeen EXCEPT ![s] = q.hash]
            /\ CpSet(t, [q EXCEPT !.pc = "save"])
    /\ UNCHANGED <<cpItems, cpVersion, cpPeers, cpClosed, cpFailed, cpJoined, cpHeld, cpSaved,
                   cpUntold, cpRaced, cpChanges>>

\* ... persists it, or fails to ...
save_version(t, ok) ==
    LET q == cpTask[t]
    IN
    /\ q.pc = "save"
    /\ cpSaved' = IF ok THEN [cpSaved EXCEPT ![CpSessionOf[q.peer]] = q.hash] ELSE cpSaved
    /\ CpSet(t, [q EXCEPT !.pc = "tell", !.hash = <<>>])
    /\ UNCHANGED <<cpItems, cpVersion, cpPeers, cpClosed, cpFailed, cpJoined, cpHeld, cpSeen,
                   cpUntold, cpRaced, cpChanges>>

\* ... and tells the peer, one list after the other; a failed send is only logged.
tell_peer(t, sent) ==
    LET q == cpTask[t]
    IN
    /\ q.pc = "tell"
    /\ sent => q.peer \notin cpClosed
    /\ cpUntold' = IF sent THEN [cpUntold EXCEPT ![q.peer] = @ \ {CpKinds[q.at]}] ELSE cpUntold
    /\ CpSet(t, IF q.at = 3 THEN CpIdle ELSE [q EXCEPT !.at = @ + 1])
    /\ UNCHANGED <<cpItems, cpVersion, cpPeers, cpClosed, cpFailed, cpJoined, cpHeld, cpSeen,
                   cpSaved, cpRaced, cpChanges>>

CpClose(p) ==
    /\ p \in CpOpen
    /\ cpClosed' = cpClosed \cup {p} /\ cpFailed' = cpFailed \ {p}
    /\ UNCHANGED <<cpItems, cpVersion, cpPeers, cpJoined, cpHeld, cpSeen, cpSaved, cpTask,
                   cpUntold, cpRaced, cpChanges>>

\* The process restarts: the application registers anew, load_persisted_versions
\* brings back the versions the sessions have seen.
load_persisted_versions ==
    /\ cpItems' = [k \in CpKind |-> {}]
    /\ cpVersion' = <<>> /\ cpPeers' = <<>> /\ cpHeld' = CpNone /\ cpRaced' = FALSE
    /\ cpClosed' = cpClosed \cup cpJoined /\ cpFailed' = {}
    /\ cpSeen' = cpSaved
    /\ cpTask' = [t \in CpTasks |-> CpIdle]
    /\ UNCHANGED <<cpJoined, cpSaved, cpUntold, cpChanges>>

CpNext ==
    \/ \E t \in CpTasks :
           \/ \E x \in CpChanging : add_item(t, x[1], x[2]) \/ remove_item(t, x[1], x[2])
           \/ \E p \in CpGreeting : on_initialized(t, p)
           \/ \E ok \in BOOLEAN : notify_peer(t, ok) \/ save_version(t, ok) \/ tell_peer(t, ok)
           \/ CpHashNext(t) \/ recompute_version(t) \/ CpLockPeers(t)
           \/ drop_peer(t) \/ notify_peers(t) \/ notify_if_changed(t)
    \/ \E p \in CpPeers : register_peer(p) \/ CpClose(p)
    \/ prune_peers \/ load_persisted_versions

CpSpec == CpInit /\ [][CpNext]_cpVars

-----------------------------------------------------------------------------
CpTypeOK ==
    /\ cpItems \in [CpKind -> SUBSET CpNames]
    /\ cpVersion \in Seq(CpNames)
    /\ cpPeers \in Seq(CpPeers)
    /\ cpClosed \subseteq CpPeers /\ cpFailed \subseteq CpPeers /\ cpJoined \subseteq CpPeers
    /\ cpHeld \in CpTasks \cup {CpNone}
    /\ cpUntold \in [CpPeers -> SUBSET CpKind]
    /\ cpRaced \in BOOLEAN /\ cpChanges \in 0 .. CpMaxChanges

\* No change goes unannounced: when no mutation is under way every open connection to
\* which no send has failed is still on the list and has been told of each change made
\* since it joined, although transports close, sends fail and peers are swapped and
\* pruned out of the list while others are told (registry.rs add_tool: "All connected
\* peers are notified of the change.").  A peer to which a send failed is off the list
\* for good, whether or not its transport is open (notify_peers).
QuietPeersAreCurrent ==
    (\A t \in CpTasks : cpTask[t].kind = CpNone)
        => \A p \in CpDue : cpUntold[p] = {} /\ p \in Range(cpPeers)

\* When no hash is being computed the version is that of the content, unless two
\* computations overlapped since the last one that ran alone (registry.rs version:
\* "a content hash of all registered names/URIs").
UnracedVersionCurrent ==
    (~cpRaced /\ \A t \in CpTasks : ~CpHashing(t)) => cpVersion = CpContentHash(cpItems)
=============================================================================
