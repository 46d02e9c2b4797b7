-------------------------- MODULE MCTokenRefresh --------------------------
(* TokenRefresh for TLC: tasks that share an instance, a backend, or both. *)
EXTENDS TokenRefresh, TLC

CONSTANTS i1, i2, t1, t2, t3

TwoInstances   == {i1, i2}
ThreeTasks     == {t1, t2, t3}
TwoTasks       == {t1, t2}

SharedHome == t1 :> i1 @@ t2 :> i1 @@ t3 :> i2
PairHome   == t1 :> i1 @@ t2 :> i2
TwinHome   == t1 :> i1 @@ t2 :> i1

\* Tasks of one instance are interchangeable; for runs that check invariants only.
TwinSymmetry == Permutations({t1, t2})

=============================================================================
