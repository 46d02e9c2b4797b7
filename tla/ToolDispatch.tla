---------------------------- MODULE ToolDispatch ----------------------------
(***************************************************************************)
(* DynamicHandler (capability/handler.rs): how a listing, a tool call, a   *)
(* prompt or a resource read goes through the query filter, the access     *)
(* validator and the capability filter to the registry or to the inner     *)
(* handler, with the credential capability/filter.rs resolves for it.      *)
(*                                                                         *)
(* Each await is a step: the registry may change, and the session's token  *)
(* may be refreshed or removed, between any two.  The validator, the       *)
(* filter and the inner handler are the application's: the validator says  *)
(* yes or no, the filter shows a set of names per credential.              *)
(***************************************************************************)
EXTENDS Integers, FiniteSets

CONSTANTS
    TdNames,      \* names of tools, prompts and resources
    TdInner,      \* TdInner[k]: the names the inner handler has
    TdCalls,      \* request slots
    TdArrivals,   \* what may arrive: records [op, kind, name, carried, hidden]
    TdShown,      \* TdShown[c]: the names the filter shows to credential c
    TdChanging,   \* bound: the <<kind, name>> that come and go
    TdCarried,    \* the credential the middleware attached to the request (RequestToken)
    TdNone,       \* nothing
    TdMaxToken,   \* bound: refreshes of the session's token
    TdMaxChanges  \* bound: changes of the registry

TdKinds == {"tools", "prompts", "resources"}
TdTokens == 0 .. TdMaxToken

\* A credential is a version of the session's token, or TdCarried, or none.
TdCredentials == TdTokens \cup {TdNone, TdCarried}

ASSUME TdAssumption ==
    /\ TdInner \in [TdKinds -> SUBSET TdNames]
    /\ TdArrivals \subseteq [op : {"list", "use"}, kind : TdKinds, name : TdNames,
                             carried : BOOLEAN, hidden : SUBSET TdNames]
    /\ TdChanging \subseteq TdKinds \X TdNames
    /\ TdShown \in [TdCredentials -> SUBSET TdNames]
    /\ TdMaxToken \in Nat /\ TdMaxChanges \in Nat

VARIABLES
    tdRegistry,  \* tdRegistry[k]: the names registered
    tdToken,     \* the token stored for the session, or TdNone
    tdNewest,    \* the newest version issued
    tdGuarded,   \* an access validator is configured
    tdCall,      \* the requests
    tdChanges    \* registry changes so far

tdVars == <<tdRegistry, tdToken, tdNewest, tdGuarded, tdCall, tdChanges>>

TdIdle == [pc |-> "idle", ask |-> TdNone, checked |-> TdNone, given |-> TdNone,
           source |-> "none", items |-> {}]

TdInit ==
    /\ tdRegistry = [k \in TdKinds |-> {}]
    /\ tdToken = 0 /\ tdNewest = 0
    /\ tdGuarded \in BOOLEAN
    /\ tdCall = [r \in TdCalls |-> TdIdle]
    /\ tdChanges = 0

TdSet(r, q) == tdCall' = [tdCall EXCEPT ![r] = q]
TdOthers == <<tdRegistry, tdToken, tdNewest, tdGuarded, tdChanges>>

\* resolve_token: the credential the middleware attached, else the store's.
resolve_token(ask) == IF ask.carried THEN TdCarried ELSE tdToken

\* A listing resolves first; a use resolves first when there is a validator.
TdArrive(r, ask) ==
    /\ tdCall[r].pc = "idle"
    /\ TdSet(r, [TdIdle EXCEPT !.ask = ask,
                    !.pc = IF ask.op = "list" \/ tdGuarded THEN "resolve" ELSE "filter"])
    /\ UNCHANGED TdOthers

TdResolve(r) ==
    LET q == tdCall[r]
    IN
    /\ q.pc = "resolve"
    /\ TdSet(r, [q EXCEPT !.checked = resolve_token(q.ask),
                          !.pc = IF q.ask.op = "list" THEN "inner_list" ELSE "validate"])
    /\ UNCHANGED TdOthers

-----------------------------------------------------------------------------
(* list_tools, list_prompts, list_resources.                               *)

TdItems(names, source) == names \X {source}

TdInnerList(r) ==
    LET q == tdCall[r]
    IN
    /\ q.pc = "inner_list"
    /\ TdSet(r, [q EXCEPT !.pc = "merge", !.items = TdItems(TdInner[q.ask.kind], "inner")])
    /\ UNCHANGED TdOthers

\* Mutant: on a collision of names the inner handler wins.
merge_registry_items_inner_wins(inner, registry) ==
    inner \cup {y \in registry : \A x \in inner : x[1] # y[1]}

\* On a collision of names the registry wins.
merge_registry_items(inner, registry) ==
    {x \in inner : \A y \in registry : x[1] # y[1]} \cup registry

\* The names the request's ?filter= hides.
resolve_query_filter(ask) == ask.hidden

\* The capability filter sees the merged list; the query filter is for tools only.
list_items(r) ==
    LET q == tdCall[r]
        merged == merge_registry_items(q.items, TdItems(tdRegistry[q.ask.kind], "registry"))
        shown == {x \in merged : x[1] \in TdShown[q.checked]}
    IN
    /\ q.pc = "merge"
    /\ TdSet(r, [q EXCEPT !.pc = "listed",
                    !.items = IF q.ask.kind = "tools"
                              THEN {x \in shown : x[1] \notin resolve_query_filter(q.ask)}
                              ELSE shown])
    /\ UNCHANGED TdOthers

-----------------------------------------------------------------------------
(* call_tool, get_prompt, read_resource.                                   *)

\* validate_call, validate_prompt_access, validate_resource_access.
TdValidate(r, allow) ==
    LET q == tdCall[r]
    IN
    /\ q.pc = "validate"
    /\ TdSet(r, IF allow THEN [q EXCEPT !.pc = "filter"] ELSE TdIdle)
    /\ UNCHANGED TdOthers

\* A tool the query hides is not available, whoever asks.
query_filter(r) ==
    LET q == tdCall[r]
    IN
    /\ q.pc = "filter"
    /\ TdSet(r, IF q.ask.kind = "tools" /\ q.ask.name \in resolve_query_filter(q.ask) THEN TdIdle
                ELSE [q EXCEPT !.pc = IF q.ask.kind = "tools" THEN "contains" ELSE "dispatch"])
    /\ UNCHANGED TdOthers

\* contains_tool: the context is built only for a tool of the registry.
contains_tool(r) ==
    LET q == tdCall[r]
    IN
    /\ q.pc = "contains"
    /\ TdSet(r, IF q.ask.name \in tdRegistry["tools"] THEN [q EXCEPT !.pc = "context"]
                ELSE [q EXCEPT !.pc = "running", !.source = "inner"])
    /\ UNCHANGED TdOthers

\* Mutant: the credential is resolved again for the tool.
tool_context_resolves_again(r) ==
    LET q == tdCall[r]
    IN
    /\ q.pc = "context"
    /\ TdSet(r, [q EXCEPT !.pc = "dispatch", !.given = resolve_token(q.ask)])
    /\ UNCHANGED TdOthers

\* The tool gets what the validator was shown; without one it is resolved now.
tool_context(r) ==
    LET q == tdCall[r]
    IN
    /\ q.pc = "context"
    /\ TdSet(r, [q EXCEPT !.pc = "dispatch",
                    !.given = IF tdGuarded THEN q.checked ELSE resolve_token(q.ask)])
    /\ UNCHANGED TdOthers

\* try_call_tool, get_prompt, read_resource: the registry first, which may have lost
\* the name since; then the inner handler.
try_dispatch(r) ==
    LET q == tdCall[r]
    IN
    /\ q.pc = "dispatch"
    /\ TdSet(r, [q EXCEPT !.pc = "running",
                    !.source = IF q.ask.name \in tdRegistry[q.ask.kind] THEN "registry" ELSE "inner"])
    /\ UNCHANGED TdOthers

TdFinish(r) ==
    /\ tdCall[r].pc \in {"running", "listed"}
    /\ TdSet(r, TdIdle)
    /\ UNCHANGED TdOthers

-----------------------------------------------------------------------------
(* The registry and the token store, which others change.                  *)

TdRegister(k, n, present) ==
    /\ tdChanges < TdMaxChanges /\ present # (n \in tdRegistry[k])
    /\ tdRegistry' = [tdRegistry EXCEPT ![k] = IF present THEN @ \cup {n} ELSE @ \ {n}]
    /\ tdChanges' = tdChanges + 1
    /\ UNCHANGED <<tdToken, tdNewest, tdGuarded, tdCall>>

TdStoreToken ==
    /\ tdNewest < TdMaxToken
    /\ tdNewest' = tdNewest + 1 /\ tdToken' = tdNewest + 1
    /\ UNCHANGED <<tdRegistry, tdGuarded, tdCall, tdChanges>>

TdRemoveToken ==
    /\ tdToken # TdNone
    /\ tdToken' = TdNone
    /\ UNCHANGED <<tdRegistry, tdNewest, tdGuarded, tdCall, tdChanges>>

TdNext ==
    \/ \E r \in TdCalls :
           \/ \E ask \in TdArrivals : TdArrive(r, ask)
           \/ \E allow \in BOOLEAN : TdValidate(r, allow)
           \/ TdResolve(r) \/ TdInnerList(r) \/ list_items(r) \/ query_filter(r)
           \/ contains_tool(r) \/ tool_context(r) \/ try_dispatch(r) \/ TdFinish(r)
    \/ \E x \in TdChanging, present \in BOOLEAN : TdRegister(x[1], x[2], present)
    \/ TdStoreToken \/ TdRemoveToken

TdSpec == TdInit /\ [][TdNext]_tdVars

-----------------------------------------------------------------------------
TdTypeOK ==
    /\ tdRegistry \in [TdKinds -> SUBSET TdNames]
    /\ tdToken \in TdTokens \cup {TdNone} /\ tdNewest \in TdTokens
    /\ tdGuarded \in BOOLEAN /\ tdChanges \in 0 .. TdMaxChanges
    /\ \A r \in TdCalls : tdCall[r].checked \in TdCredentials /\ tdCall[r].given \in TdCredentials

\* A tool runs with the credential its validator was shown, although the session's
\* token is refreshed or removed while the call is under way, and never when the
\* query hides it (handler.rs call_tool: "a check that let a call through on one
\* token must not hand the tool another"; registry.rs ToolCallContext.token).
RunsAsChecked ==
    \A r \in TdCalls :
        LET q == tdCall[r] IN
        (q.pc = "running" /\ q.ask.kind = "tools") =>
            /\ tdGuarded /\ q.source = "registry" => q.given = q.checked
            /\ q.ask.name \notin q.ask.hidden

\* Who serves a use of name n at this moment, by try_dispatch; "none" if nobody has it.
TdProvider(k, n) ==
    IF n \in tdRegistry[k] THEN "registry" ELSE IF n \in TdInner[k] THEN "inner" ELSE "none"

\* A listing shows, for every name, the item a use of that name would reach at the
\* moment the lists are merged, and no other, however the registry changed while the
\* inner handler was listing; of these it shows what the filter shows to the credential
\* of the request and, for tools, what its query does not hide (handler.rs
\* merge_registry_items: "registry wins on name/key collision").
ListedAsDispatched ==
    [][\A r \in TdCalls : (tdCall[r].pc = "merge" /\ tdCall'[r].pc = "listed") =>
          LET q == tdCall[r] IN
          \A n \in TdNames, source \in {"inner", "registry"} :
              <<n, source>> \in tdCall'[r].items
                  <=> /\ source = TdProvider(q.ask.kind, n)
                      /\ n \in TdShown[q.checked]
                      /\ q.ask.kind = "tools" => n \notin q.ask.hidden]_tdVars
=============================================================================
