---------------------------- MODULE MCServerState ----------------------------
(***************************************************************************)
(* The instance of ServerState that is model-checked.  The components      *)
(* share no state (ServerProofs, ServerComposed), so a behaviour moves one *)
(* of them, the focus, and leaves the others at one of their initial       *)
(* states.                                                                 *)
(***************************************************************************)
EXTENDS ServerState, TLC

CONSTANTS i1, i2,             \* instances; also connections
          r1, r2,             \* request slots, loads and tasks
          x1, x2, alice, bob, \* protocol sessions and identities
          c1, c2,             \* OAuth clients
          fr1, fr2,           \* OAuth request slots
          k1, k2              \* key ids

VARIABLE focus

\* Alice and bob use one session on different instances, alice a second one.
Bearers == {<<i1, x1, alice>>, <<i2, x1, bob>>, <<i1, x2, alice>>}

WebUri == [scheme |-> "https", host |-> "client", fragment |-> FALSE]
LoopbackUri == [scheme |-> "http", host |-> "localhost", fragment |-> FALSE]
FragmentUri == [scheme |-> "http", host |-> "127.0.0.1", fragment |-> TRUE]
Uris == {WebUri, LoopbackUri, FragmentUri}
PublicOrigin == [scheme |-> "https", host |-> "public"]
Registers == {<<c1, {WebUri}>>, <<c2, {LoopbackUri}>>}
Asks == {<<c1, WebUri>>, <<c2, FragmentUri>>, <<c2, LoopbackUri>>}
Requests ==
    fr1 :> {<<"register", i1>>, <<"callback", i1>>}
        @@ fr2 :> {<<"authorize", i1>>, <<"authorize", i2>>, <<"login", i2>>, <<"callback", i2>>}

\* Both connections are of one session: the second is its return.
SessionOf == [p \in {i1, i2} |-> x1]

\* A genuine and a forged token of one key, one of another, and two no key is for.
Token(kid, genuine) == [kid |-> kid, genuine |-> genuine]
Tokens == {Token(k1, TRUE), Token(k1, FALSE), Token(k2, TRUE),
           Token("not_a_jwt", FALSE), Token("bad_alg", FALSE)}

\* One tool, added and removed.
Changing == {<<"tools", 1>>}

Ask(op, kind, carried, hidden) ==
    [op |-> op, kind |-> kind, name |-> "x", carried |-> carried, hidden |-> hidden]
Calls ==
    {Ask("use", "tools", FALSE, {}), Ask("use", "tools", TRUE, {}),
     Ask("use", "tools", FALSE, {"x"}), Ask("use", "prompts", FALSE, {}),
     Ask("use", "resources", FALSE, {}), Ask("list", "tools", FALSE, {"y"}),
     Ask("list", "prompts", TRUE, {})}
Inner == "tools" :> {"x", "y"} @@ "prompts" :> {"x"} @@ "resources" :> {}
Entries == {<<"tools", "x">>, <<"prompts", "x">>, <<"resources", "x">>}
Shown == [c \in TdCredentials |-> IF c = TdNone THEN {"x"} ELSE {"x", "y"}]

Init ==
    /\ focus \in {"binding", "jwks", "oauth", "transport", "registry", "dispatch", "protocol"}
    /\ ServerInit
    /\ focus # "jwks" => jwPolicy = "reject" /\ jwPublished = {k1}
    /\ focus # "transport" => tsTouches
    /\ focus # "dispatch" => tdGuarded
    /\ focus # "protocol" => plPolicy = "Strict" /\ plInner = PlKnown

Next ==
    \/ focus = "binding" /\ BindMoves /\ UNCHANGED focus
    \/ focus = "jwks" /\ JwMoves /\ UNCHANGED focus
    \/ focus = "oauth" /\ OfMoves /\ UNCHANGED focus
    \/ focus = "transport" /\ TsMoves /\ UNCHANGED focus
    \/ focus = "registry" /\ CpMoves /\ UNCHANGED focus
    \/ focus = "dispatch" /\ TdMoves /\ UNCHANGED focus
    \/ focus = "protocol" /\ PlMoves /\ UNCHANGED focus

Spec == Init /\ [][Next]_<<focus, serverVars>>

\* The slots are alike.
Symmetry == Permutations({r1, r2})
=============================================================================
