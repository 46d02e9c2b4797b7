--------------------------- MODULE MCSessionStore ---------------------------
(* SessionStore for TLC: two replicas and two updates.                      *)
EXTENDS SessionStore, TLC

CONSTANTS i1, i2, i3, u1, u2

TwoReplicas == {i1, i2}
TwoUpdates  == {u1, u2}
OneUpdate   == {u1}
=============================================================================
