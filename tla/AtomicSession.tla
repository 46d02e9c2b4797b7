--------------------------- MODULE AtomicSession ---------------------------
(***************************************************************************)
(* What SessionStore<T> promises for ONE session while its distributed     *)
(* lock holds: one shared value, which every update extends atomically,     *)
(* whatever replica it runs on.  A value is the set of updates it reflects. *)
(* A session that has gone comes back as the default value or as a value    *)
(* it had before (a replica may still have it cached), never as a mixture. *)
(***************************************************************************)
CONSTANTS
    Updates,   \* the closures given to update
    None       \* no session

VARIABLES
    value,     \* the session's data
    past,      \* the values it has had
    acked      \* updates that returned since the session last went

svars == <<value, past, acked>>

\* What the next operation starts from.
Bases == IF value = None THEN past \cup {{}} ELSE {value}

Become(v) == value' = v /\ past' = past \cup {v}

\* update
Extend(u) == \E base \in Bases : Become(base \cup {u}) /\ UNCHANGED acked

\* get and get_or_create
Touch == \E base \in Bases : Become(base) /\ UNCHANGED acked

\* An update returns: its effect is in the value, unless the session has gone.
Return(u) ==
    /\ value = None \/ u \in value
    /\ acked' = IF value = None THEN acked ELSE acked \cup {u}
    /\ UNCHANGED <<value, past>>

\* remove, the end of the TTL, or the delete of a replica that starts
Clear == value' = None /\ acked' = {} /\ UNCHANGED past

Init == value = None /\ past = {} /\ acked = {}

Next == Touch \/ Clear \/ \E u \in Updates : Extend(u) \/ Return(u)

Spec == Init /\ [][Next]_svars

=============================================================================
