-------------------------- MODULE ProtocolLifecycle --------------------------
(***************************************************************************)
(* Which MCP revisions the server offers and how it repairs clients that   *)
(* announce a modern revision through the legacy initialize lifecycle      *)
(* (transport/protocol.rs).  The functions are pure; a behaviour is a boot *)
(* with some configuration followed by requests.                           *)
(*                                                                         *)
(* Revisions are ISO dates, whose order as strings is their order in time: *)
(* here they are numbers.  0 stands for a value that is not a date.        *)
(***************************************************************************)
EXTENDS Integers, FiniteSets

CONSTANTS
    PlDates,      \* dates that occur as a revision, positive numbers
    PlKnown,      \* ProtocolVersion::KNOWN_VERSIONS
    PlModern,     \* MODERN_PROTOCOL_VERSION
    PlLegacy,     \* LEGACY_FALLBACK_VERSION
    PlUncapped,   \* one of UNCAPPED_ALIASES
    PlError,      \* the boot fails
    PlUnset,      \* not booted
    PlNone        \* absent

ASSUME PlAssumption ==
    /\ PlDates \subseteq Nat \ {0} /\ PlKnown \subseteq PlDates
    /\ PlModern \in PlDates /\ PlLegacy \in PlDates /\ PlLegacy < PlModern

VARIABLES
    plPolicy,   \* ProtocolLifecyclePolicy
    plMax,      \* the ceiling resolved at boot: a revision, PlNone or PlError
    plOffered,  \* what supported_protocol_versions answers
    plInner,    \* what the inner handler supports
    plRequest,  \* the request that arrived
    plPassed    \* the request that is passed on, or PlNone (413)

plVars == <<plPolicy, plMax, plOffered, plInner, plRequest, plPassed>>

PlRequests == [method : {"POST", "GET"}, fits : BOOLEAN, rpc : {"initialize", "other", "not json"},
               body : PlDates \cup {0}, header : PlDates \cup {0, PlNone}]

-----------------------------------------------------------------------------
(* Boot.                                                                   *)

validate_max_protocol_version(max) == IF max \in PlKnown \cup {PlNone} THEN max ELSE PlError

\* The environment wins when it is set: an alias lifts the ceiling, anything that is
\* not a known revision fails the boot.
resolve_max_protocol_version(builder, env) ==
    CASE env = PlNone -> validate_max_protocol_version(builder)
      [] env = PlUncapped -> PlNone
      [] OTHER -> IF env \in PlKnown THEN env ELSE PlError

\* Mutant: a ceiling that excludes everything is applied all the same.
cap_protocol_versions_to_nothing(advertised, max) ==
    IF max = PlNone THEN advertised ELSE {v \in advertised : v <= max}

\* A ceiling that would leave nothing is ignored.
cap_protocol_versions(advertised, max) ==
    LET capped == {v \in advertised : v <= max}
    IN IF max = PlNone THEN advertised ELSE IF capped = {} THEN advertised ELSE capped

PlInit ==
    /\ plPolicy \in {"Hybrid", "Strict"}
    /\ plInner \in (SUBSET PlKnown) \ {{}}
    /\ plMax = PlUnset /\ plOffered = {} /\ plRequest = PlNone /\ plPassed = PlNone

PlBoot(builder, env) ==
    LET max == resolve_max_protocol_version(builder, env)
    IN
    /\ plMax = PlUnset
    /\ plMax' = max
    /\ plOffered' = IF max = PlError THEN {} ELSE cap_protocol_versions(plInner, max)
    /\ UNCHANGED <<plPolicy, plInner, plRequest, plPassed>>

-----------------------------------------------------------------------------
(* normalize_protocol_lifecycle.                                           *)

is_modern_date_version(v) == v # 0 /\ v >= PlModern

\* Mutant: only the body is rewritten.
normalize_body_only(q) ==
    IF q.rpc = "initialize" /\ is_modern_date_version(q.body)
    THEN [q EXCEPT !.body = PlLegacy] ELSE q

\* A modern initialize is negotiated as the legacy revision; a header that said the
\* same as the body is rewritten with it.
normalize_initialize(q) ==
    IF q.rpc = "initialize" /\ is_modern_date_version(q.body)
    THEN [q EXCEPT !.body = PlLegacy,
                   !.header = IF q.header = q.body THEN PlLegacy ELSE q.header]
    ELSE q

normalize_protocol_lifecycle(q) ==
    /\ plMax \notin {PlUnset, PlError} /\ plRequest = PlNone
    /\ plRequest' = q
    /\ plPassed' = IF plPolicy # "Hybrid" \/ q.method # "POST" THEN q
                   ELSE IF ~q.fits THEN PlNone ELSE normalize_initialize(q)
    /\ UNCHANGED <<plPolicy, plMax, plOffered, plInner>>

\* The request is answered; or, after a boot that failed, the next attempt.
PlAgain ==
    /\ plRequest # PlNone \/ plMax = PlError
    /\ plMax' = IF plMax = PlError THEN PlUnset ELSE plMax
    /\ plRequest' = PlNone /\ plPassed' = PlNone
    /\ UNCHANGED <<plPolicy, plOffered, plInner>>

PlNext ==
    \/ \E builder \in PlDates \cup {PlNone}, env \in PlDates \cup {0, PlUncapped, PlNone} :
           PlBoot(builder, env)
    \/ \E q \in PlRequests : normalize_protocol_lifecycle(q)
    \/ PlAgain

PlSpec == PlInit /\ [][PlNext]_plVars

-----------------------------------------------------------------------------
PlTypeOK ==
    /\ plPolicy \in {"Hybrid", "Strict"}
    /\ plOffered \subseteq PlKnown /\ plInner \subseteq PlKnown

\* The server is reachable under every configuration that boots, and offers nothing
\* above its ceiling that the handler could have done without (protocol.rs
\* cap_protocol_versions: "An empty intersection is refused").
CeilingRespected ==
    plMax \notin {PlUnset, PlError} =>
        /\ plOffered # {} /\ plOffered \subseteq plInner
        /\ \/ plMax = PlNone /\ plOffered = plInner
           \/ plMax # PlNone /\ \A v \in plOffered : v <= plMax \/ \A x \in plInner : x > plMax

\* Under the hybrid policy no modern initialize is passed on, and the repair neither
\* makes a header and a body that agreed disagree nor the other way round, but for
\* the header that already names the fallback (protocol.rs: "Preserve rmcp's
\* header/body mismatch validation").
RepairKeepsAgreement ==
    (plPolicy = "Hybrid" /\ plRequest # PlNone /\ plPassed # PlNone) =>
        LET q == plRequest p == plPassed
        IN
        /\ (q.method = "POST" /\ p.rpc = "initialize") => ~is_modern_date_version(p.body)
        /\ q.header # PlLegacy => ((p.header = p.body) <=> (q.header = q.body))
        /\ [p EXCEPT !.body = q.body, !.header = q.header] = q
=============================================================================
