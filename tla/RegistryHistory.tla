---------------------------- MODULE RegistryHistory ----------------------------
(***************************************************************************)
(* ComponentRegistry with a history variable: what has gone wrong so far   *)
(* that the registry does not recover from.  It changes nothing about the  *)
(* steps of the registry; it lets the properties say until when the counts *)
(* can be relied on.                                                       *)
(***************************************************************************)
EXTENDS ComponentRegistry

VARIABLE mishaps

history_vars == <<vars, mishaps>>

\* suit_directive_process_dependency pops a dependency and releases its caller.
DeniedDependency ==
    op = "none" /\ op' = "releasing" /\ entry' # manifest_stack_height - 1

\* A release ends at a component whose handle the platform keeps.
RefusedRelease ==
    /\ Releasing /\ op' = "none"
    /\ pos < Len(component_map)
    /\ InUse(component_map[pos + 1])

Mishaps ==
    (IF DeniedDependency THEN {"denied dependency"} ELSE {})
        \cup (IF RefusedRelease THEN {"refused release"} ELSE {})

InitHistory == Init /\ mishaps = {}

NextHistory == Next /\ mishaps' = mishaps \cup Mishaps

SpecHistory == InitHistory /\ [][NextHistory]_history_vars

Denied == "denied dependency" \in mishaps

-----------------------------------------------------------------------------
\* Whatever the platform refuses to create or to release, a manifest on the stack
\* never refers to a slot the registry may hand out again; only a dependency that
\* is denied makes suit_directive_process_dependency give back references twice.
NoDanglingUnlessDenied == ~Denied => NoDanglingReference

\* As long as the platform releases what it is told to, the counts are exact: a
\* failed load, a shared component or one listed twice leaks nothing and frees
\* nothing too early.
ExactUntilMishap == mishaps = {} => CountsExact

\* Then the pool is empty, too, once every manifest is gone: the next call of
\* suit_process_sequence starts from fresh parameters.
PoolEmptyUntilMishap == mishaps = {} => PoolEmptyWhenIdle
=============================================================================
