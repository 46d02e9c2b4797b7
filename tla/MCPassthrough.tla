---------------------------- MODULE MCPassthrough ----------------------------
(***************************************************************************)
(* One client in passthrough mode, one request at a time: it asks the      *)
(* token endpoint and comes with its bearer, with and without a session id.*)
(***************************************************************************)
EXTENDS PassthroughGrant, TLC

CONSTANTS u1, p1, pr1

Bearers == pr1 :> {<<u1, "none", TRUE>>, <<u1, p1, TRUE>>, <<u1, "/oauth/token", TRUE>>}
Issued == u1 :> 2
=============================================================================
