--------------------------- MODULE AuthModesProofs ---------------------------
(***************************************************************************)
(* A deployment in either token mode.  A step of the mode that is deployed *)
(* is a step of that component and a stutter of the other, so a deployment *)
(* implements both, and what is proved of a component holds in it.         *)
(***************************************************************************)
EXTENDS AuthModes, OpaqueTokensProofs, PassthroughGrantProofs

\* Whichever mode is deployed, opaque tokens and passthrough grants behave as they do
\* alone: the mode is chosen at boot, and no step of one mode reaches into the state of
\* the other (auth/middleware.rs bearer_auth_middleware branches once on the mode).
THEOREM AuthComposed == AuthSpec => OpSpec /\ PtSpec
  <1>1. AuthInit => OpInit /\ PtInit
    BY DEF AuthInit
  <1>2. ASSUME [AuthNext]_authVars PROVE [OpNext]_opVars /\ [PtNext]_ptVars
    <2>1. CASE UNCHANGED authVars
      BY <2>1 DEF authVars
    <2>2. CASE AuthNext
      BY <2>2 DEF AuthNext
    <2> QED BY <1>2, <2>1, <2>2
  <1> QED BY <1>1, <1>2, PTL DEF AuthSpec, OpSpec, PtSpec

\* In every reachable state of a deployment, in either mode and for any constants, the
\* state of each component has the shape its Rust types give it.
THEOREM AuthTypeCorrect == AuthSpec => []AuthTypeOK
  <1>1. OpTypeOK /\ PtTypeOK => AuthTypeOK
    BY DEF AuthTypeOK
  <1> QED BY <1>1, AuthComposed, OpTypeCorrect, PtTypeCorrect, PTL
=============================================================================
