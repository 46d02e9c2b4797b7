----------------------------- MODULE MCAuthModes -----------------------------
(***************************************************************************)
(* The instance of AuthModes that is model-checked.                        *)
(***************************************************************************)
EXTENDS AuthModes, TLC

CONSTANTS o1, o2, or1, or2, os1, os2, w1, w2,     \* opaque mode
          u1, u2, p1, pr1, pr2                     \* passthrough

\* One slot logs in, refreshes and purges at o1, the other uses tokens at o2.
Arrivals ==
    or1 :> {<<"login", o1>>, <<"ref", o1>>, <<"purge", o1>>}
        @@ or2 :> {<<"acc", o2>>, <<"ref", o2>>}
Logins == os1 :> w1 @@ os2 :> w2

\* u1 comes with and without a session id, and with a forged bearer; u2 uses u1's
\* session, or u1's client asks the token endpoint.
Bearers ==
    pr1 :> {<<u1, "none", TRUE>>, <<u1, p1, TRUE>>, <<u1, p1, FALSE>>}
        @@ pr2 :> {<<u2, p1, TRUE>>, <<u1, "/oauth/token", TRUE>>}
Issued == u1 :> 2 @@ u2 :> 1

\* Nothing of a passthrough deployment moves in opaque mode: one of its initial
\* states is enough there.
Init == AuthInit /\ (focus = "opaque" => ptClaims)

Spec == Init /\ [][AuthNext]_authVars
=============================================================================
