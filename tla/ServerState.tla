----------------------------- MODULE ServerState -----------------------------
(***************************************************************************)
(* The state an HTTP server keeps beside the grants: session bindings, the *)
(* JWKS cache, authorizations in progress and registered clients,          *)
(* transport sessions, the capability registry and what dispatches to it,  *)
(* and the protocol lifecycle.  They share no state; their steps           *)
(* interleave.                                                             *)
(***************************************************************************)
EXTENDS SessionBindings, BearerValidation, OAuthFlow, TransportSession,
        CapabilityRegistry, ToolDispatch, ProtocolLifecycle

serverVars == <<bindVars, jwVars, ofVars, tsVars, cpVars, tdVars, plVars>>

ServerInit == BindInit /\ JwInit /\ OfInit /\ TsInit /\ CpInit /\ TdInit /\ PlInit

\* One component moves.
BindMoves == BindNext /\ UNCHANGED <<jwVars, ofVars, tsVars, cpVars, tdVars, plVars>>
JwMoves == JwNext /\ UNCHANGED <<bindVars, ofVars, tsVars, cpVars, tdVars, plVars>>
OfMoves == OfNext /\ UNCHANGED <<bindVars, jwVars, tsVars, cpVars, tdVars, plVars>>
TsMoves == TsNext /\ UNCHANGED <<bindVars, jwVars, ofVars, cpVars, tdVars, plVars>>
CpMoves == CpNext /\ UNCHANGED <<bindVars, jwVars, ofVars, tsVars, tdVars, plVars>>
TdMoves == TdNext /\ UNCHANGED <<bindVars, jwVars, ofVars, tsVars, cpVars, plVars>>
PlMoves == PlNext /\ UNCHANGED <<bindVars, jwVars, ofVars, tsVars, cpVars, tdVars>>

ServerNext == BindMoves \/ JwMoves \/ OfMoves \/ TsMoves \/ CpMoves \/ TdMoves \/ PlMoves

ServerSpec == ServerInit /\ [][ServerNext]_serverVars

\* The state of each component has the shape its Rust types give it.
ServerTypeOK ==
    BindTypeOK /\ JwTypeOK /\ OfTypeOK /\ TsTypeOK /\ CpTypeOK /\ TdTypeOK /\ PlTypeOK
=============================================================================
