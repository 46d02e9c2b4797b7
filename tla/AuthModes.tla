------------------------------ MODULE AuthModes ------------------------------
(***************************************************************************)
(* The two token modes that keep grants, opaque and passthrough, side by   *)
(* side.  A deployment runs one of them, so a behaviour moves one, the     *)
(* focus, and leaves the other at its initial state.                       *)
(***************************************************************************)
EXTENDS OpaqueTokens, PassthroughGrant

VARIABLE focus

authVars == <<focus, opVars, ptVars>>

AuthInit == focus \in {"opaque", "passthrough"} /\ OpInit /\ PtInit

AuthNext ==
    \/ focus = "opaque" /\ OpNext /\ UNCHANGED <<focus, ptVars>>
    \/ focus = "passthrough" /\ PtNext /\ UNCHANGED <<focus, opVars>>

AuthSpec == AuthInit /\ [][AuthNext]_authVars

\* The state of each component has the shape its Rust types give it.
AuthTypeOK == OpTypeOK /\ PtTypeOK
=============================================================================
