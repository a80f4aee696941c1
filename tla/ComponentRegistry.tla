-------------------------- MODULE ComponentRegistry --------------------------
(***************************************************************************)
(* The component registry of suit_manifest.c together with the discipline  *)
(* of its callers (suit_processor_load_envelope, suit_decoder_create_      *)
(* components and the places that pop the manifest stack).                 *)
(*                                                                         *)
(* Every manifest on the manifest stack maps its component indexes to      *)
(* slots of one shared pool.  A slot is reference counted: it is created   *)
(* through the platform by the first manifest that names its component,    *)
(* shared by the others, and given back to the platform by the last one.   *)
(* Loading and releasing a manifest are loops that call the platform once  *)
(* per component, and every one of those calls may fail; each call is a    *)
(* step here.                                                              *)
(***************************************************************************)
EXTENDS Integers, Sequences, FiniteSets

CONSTANTS
    ComponentId,        \* component identifiers (the CBOR strings)
    MaxSlots,           \* SUIT_MAX_NUM_COMPONENT_PARAMS, size of the pool
    MaxComponents,      \* SUIT_MAX_NUM_COMPONENTS, size of a component_map
    MaxManifests,       \* SUIT_MANIFEST_STACK_MAX_ENTRIES
    CreateResults,      \* what suit_plat_create_component_handle may return
    ReleaseResults,     \* what suit_plat_release_component_handle may return
    DependencyDenied    \* may suit_plat_authorize_process_dependency refuse?

ASSUME SizesAssumption ==
    /\ MaxSlots \in Nat \ {0}
    /\ MaxComponents \in Nat \ {0}
    /\ MaxManifests \in Nat \ {0}
ASSUME DeniedAssumption == DependencyDenied \in BOOLEAN

\* What a load or a release may return; "none" while one is under way.
Results == {"none", "SUCCESS", "ERR_OVERFLOW", "ERR_MANIFEST_VALIDATION", "ERR_DECODING",
            "ERR_AUTHENTICATION", "ERR_MISSING_COMPONENT"} \cup CreateResults \cup ReleaseResults

Slot  == 0 .. MaxSlots - 1
Entry == 0 .. MaxManifests - 1

VARIABLES
    components,             \* the pool: one suit_manifest_params per slot
    manifest_stack,         \* component_map of every entry of the stack
    manifest_stack_height,
    op,                     \* the registry call under way
    entry,                  \* the stack entry that call works on
    pos,                    \* index i of the loop in suit_manifest_release
    op_ret,                 \* what the last load or release returned
    handles                 \* platform: open handles per component

vars == <<components, manifest_stack, manifest_stack_height,
          op, entry, pos, op_ret, handles>>

(***************************************************************************)
(* is_dependency holds one of two magic numbers, or 0 after a memset.      *)
(***************************************************************************)
NoId == "none"
SlotState == [component_id  : ComponentId \cup {NoId},
              ref_count     : Nat,
              is_dependency : {"unset", "false", "true"}]

EmptySlot == [component_id |-> NoId, ref_count |-> 0, is_dependency |-> "unset"]

suit_bool(b) == IF b THEN "true" ELSE "false"

InUse(s) == components[s].ref_count # 0

(***************************************************************************)
(* The scans of assign_component_index: the slot in use that already holds *)
(* the identifier, and the slots that are free.                            *)
(***************************************************************************)
\* Faulty variant: the scan stops at the first free slot.
HoldingBeforeFree(id) ==
    {s \in Slot : /\ InUse(s) /\ components[s].component_id = id
                  /\ \A t \in Slot : t < s => InUse(t)}

Holding(id) == {s \in Slot : InUse(s) /\ components[s].component_id = id}
Free        == {s \in Slot : ~InUse(s)}
First(S)    == CHOOSE s \in S : \A t \in S : s <= t

component_map == manifest_stack[entry]

-----------------------------------------------------------------------------
Init ==
    /\ components = [s \in Slot |-> EmptySlot]
    /\ manifest_stack = [e \in Entry |-> <<>>]
    /\ manifest_stack_height = 0
    /\ op = "none"
    /\ entry = 0
    /\ pos = 0
    /\ op_ret = "none"
    /\ handles = [id \in ComponentId |-> 0]

(***************************************************************************)
(* suit_processor_load_envelope: the entry above the top is wiped and      *)
(* filled; the height is raised only once every component has its slot.    *)
(***************************************************************************)
LoadRefused ==
    /\ op = "none"
    /\ manifest_stack_height = MaxManifests
    /\ op_ret' = "ERR_OVERFLOW"
    /\ UNCHANGED <<components, manifest_stack, manifest_stack_height,
                   op, entry, pos, handles>>

\* Faulty variant: off by one in the check of the height.
BeginLoadAtFullStack ==
    /\ op = "none"
    /\ manifest_stack_height <= MaxManifests
    /\ op' = "loading"
    /\ entry' = manifest_stack_height
    /\ manifest_stack' = [manifest_stack EXCEPT ![manifest_stack_height] = <<>>]
    /\ op_ret' = "none"
    /\ UNCHANGED <<components, manifest_stack_height, pos, handles>>

BeginLoad ==
    /\ op = "none"
    /\ manifest_stack_height < MaxManifests
    /\ op' = "loading"
    /\ entry' = manifest_stack_height
    /\ manifest_stack' = [manifest_stack EXCEPT ![manifest_stack_height] = <<>>]
    /\ op_ret' = "none"
    /\ UNCHANGED <<components, manifest_stack_height, pos, handles>>

\* Decoding, the digest, a signature or an authorisation failed: this happens
\* before the first component is appended, and nothing has to be undone.
LoadRejected(ret) ==
    /\ op = "loading"
    /\ component_map = <<>>
    /\ op' = "none"
    /\ op_ret' = ret
    /\ UNCHANGED <<components, manifest_stack, manifest_stack_height,
                   entry, pos, handles>>

\* Faulty variant: the release loop starts at the second component.
UnwindFromSecond(ret) ==
    /\ op' = "unwinding"
    /\ pos' = 1
    /\ op_ret' = ret
    /\ UNCHANGED <<manifest_stack, manifest_stack_height, entry>>

\* An append failed: suit_decoder_create_components releases what the
\* manifest got so far and returns the error of the append.
Unwind(ret) ==
    /\ op' = "unwinding"
    /\ pos' = 0
    /\ op_ret' = ret
    /\ UNCHANGED <<manifest_stack, manifest_stack_height, entry>>

Appended(s) ==
    /\ manifest_stack' = [manifest_stack EXCEPT ![entry] = Append(@, s)]
    /\ UNCHANGED <<manifest_stack_height, op, entry, pos, op_ret>>

\* No room in the component_map of the manifest.
AppendToFullMap ==
    /\ op = "loading"
    /\ Len(component_map) >= MaxComponents
    /\ Unwind("ERR_MANIFEST_VALIDATION")
    /\ UNCHANGED <<components, handles>>

Referenced(s, dependency) ==
    components' = [components EXCEPT ![s].ref_count = @ + 1,
                                     ![s].is_dependency = suit_bool(dependency)]

OtherKind(s, dependency) == components[s].is_dependency = suit_bool(~dependency)

\* Faulty variants of the next action: the reference taken before the kind is
\* compared is not given back, the kind is not compared, or nothing is counted.
AppendExistingKeepsReference(id, dependency) ==
    /\ op = "loading"
    /\ Len(component_map) < MaxComponents
    /\ Holding(id) # {}
    /\ LET s == First(Holding(id)) IN
       IF OtherKind(s, dependency)
       THEN /\ Unwind("ERR_MANIFEST_VALIDATION")
            /\ components' = [components EXCEPT ![s].ref_count = @ + 1]
       ELSE Appended(s) /\ Referenced(s, dependency)
    /\ UNCHANGED handles

AppendExistingOfAnyKind(id, dependency) ==
    /\ op = "loading"
    /\ Len(component_map) < MaxComponents
    /\ Holding(id) # {}
    /\ LET s == First(Holding(id)) IN Appended(s) /\ Referenced(s, dependency)
    /\ UNCHANGED handles

AppendExistingUncounted(id, dependency) ==
    /\ op = "loading"
    /\ Len(component_map) < MaxComponents
    /\ Holding(id) # {}
    /\ LET s == First(Holding(id)) IN
       IF OtherKind(s, dependency) THEN Unwind("ERR_MANIFEST_VALIDATION") ELSE Appended(s)
    /\ UNCHANGED <<components, handles>>

\* The component has a slot: it gets one more reference.  If the slot was
\* created for the other kind of component the reference is given back.
AppendExisting(id, dependency) ==
    /\ op = "loading"
    /\ Len(component_map) < MaxComponents
    /\ Holding(id) # {}
    /\ LET s == First(Holding(id)) IN
       IF OtherKind(s, dependency)
       THEN Unwind("ERR_MANIFEST_VALIDATION") /\ UNCHANGED components
       ELSE Appended(s) /\ Referenced(s, dependency)
    /\ UNCHANGED handles

\* The first free slot is wiped and the platform creates the handle.
AppendNew(id, dependency, ret) ==
    /\ op = "loading"
    /\ Len(component_map) < MaxComponents
    /\ Holding(id) = {}
    /\ Free # {}
    /\ LET s == First(Free) IN
       IF ret = "SUCCESS"
       THEN /\ components' = [components EXCEPT ![s] =
                  [component_id  |-> id,
                   ref_count     |-> 1,
                   is_dependency |-> suit_bool(dependency)]]
            /\ handles' = [handles EXCEPT ![id] = @ + 1]
            /\ Appended(s)
       ELSE /\ components' = [components EXCEPT ![s] =
                  [EmptySlot EXCEPT !.component_id = id]]
            /\ Unwind(ret)
            /\ UNCHANGED handles

AppendWithoutSlot(id) ==
    /\ op = "loading"
    /\ Len(component_map) < MaxComponents
    /\ Holding(id) = {}
    /\ Free = {}
    /\ Unwind("ERR_OVERFLOW")
    /\ UNCHANGED <<components, handles>>

AppendComponent(id, dependency) ==
    \/ AppendToFullMap
    \/ AppendExisting(id, dependency)
    \/ \E ret \in CreateResults : AppendNew(id, dependency, ret)
    \/ AppendWithoutSlot(id)

\* A component identifier that cannot be decoded ends the loop the same way.
AppendUndecodable ==
    /\ op = "loading"
    /\ Unwind("ERR_DECODING")
    /\ UNCHANGED <<components, handles>>

\* All components appended, at least one: the height is raised, then the platform
\* authorises the sequence number, and a refusal releases the manifest and lowers
\* it again.
LoadDone(ret) ==
    /\ op = "loading"
    /\ component_map # <<>>
    /\ manifest_stack_height' = manifest_stack_height + 1
    /\ op_ret' = ret
    /\ pos' = 0
    /\ op' = IF ret = "SUCCESS" THEN "none" ELSE "unwinding"
    /\ UNCHANGED <<components, manifest_stack, entry, handles>>

-----------------------------------------------------------------------------
(***************************************************************************)
(* suit_manifest_release.  Its callers pop the manifest stack whatever it  *)
(* returned; the failed load of a manifest that never was on the stack     *)
(* leaves the height as it is.                                             *)
(***************************************************************************)
BeginRelease(e) ==
    /\ op = "none"
    /\ manifest_stack_height > 0
    /\ op' = "releasing"
    /\ entry' = e
    /\ pos' = 0
    /\ op_ret' = "none"
    /\ UNCHANGED <<components, manifest_stack, manifest_stack_height, handles>>

PopManifest == BeginRelease(manifest_stack_height - 1)

\* suit_directive_process_dependency reads the top of the manifest stack
\* before it loads the dependency.  When the platform then refuses to process
\* the dependency, the release at the end works on the entry read before, the
\* caller's, and the dependency is popped with its references.
PopDeniedDependency ==
    /\ DependencyDenied
    /\ manifest_stack_height > 1
    /\ BeginRelease(manifest_stack_height - 2)

Releasing == op \in {"unwinding", "releasing"}

\* Faulty variant: the stack is popped only after a release that succeeded.
FinishIfReleased(ret) ==
    /\ op' = "none"
    /\ pos' = 0
    /\ op_ret' = IF op = "unwinding" THEN op_ret ELSE ret
    /\ manifest_stack_height' = IF entry < manifest_stack_height /\ ret = "SUCCESS"
                                THEN manifest_stack_height - 1
                                ELSE manifest_stack_height
    /\ UNCHANGED entry

Finish(ret) ==
    /\ op' = "none"
    /\ pos' = 0
    /\ op_ret' = IF op = "unwinding" THEN op_ret ELSE ret
    /\ manifest_stack_height' = IF entry < manifest_stack_height
                                THEN manifest_stack_height - 1
                                ELSE manifest_stack_height
    /\ UNCHANGED entry

\* release_component_index refuses a slot without references.
ReleaseMissing ==
    /\ Releasing
    /\ pos < Len(component_map)
    /\ ~InUse(component_map[pos + 1])
    /\ Finish("ERR_MISSING_COMPONENT")
    /\ UNCHANGED <<components, manifest_stack, handles>>

ReleaseShared ==
    /\ Releasing
    /\ pos < Len(component_map)
    /\ LET s == component_map[pos + 1] IN
       /\ components[s].ref_count > 1
       /\ components' = [components EXCEPT ![s].ref_count = @ - 1]
    /\ pos' = pos + 1
    /\ UNCHANGED <<manifest_stack, manifest_stack_height, op, entry, op_ret,
                   handles>>

\* Faulty variant: the slot is given up although the platform kept the handle.
ReleaseLastForgets(ret) ==
    /\ Releasing
    /\ pos < Len(component_map)
    /\ LET s == component_map[pos + 1] IN
       /\ components[s].ref_count = 1
       /\ components' = [components EXCEPT ![s].ref_count = 0,
                                           ![s].is_dependency = "unset"]
       /\ handles' = [handles EXCEPT ![components[s].component_id] =
                         IF ret = "SUCCESS" THEN @ - 1 ELSE @]
    /\ pos' = pos + 1
    /\ UNCHANGED <<manifest_stack, manifest_stack_height, op, entry, op_ret>>

\* The last reference: the platform releases the handle first.  When it fails
\* the loop ends there, without the memset of the manifest.
ReleaseLast(ret) ==
    /\ Releasing
    /\ pos < Len(component_map)
    /\ LET s == component_map[pos + 1] IN
       /\ components[s].ref_count = 1
       /\ IF ret = "SUCCESS"
          THEN /\ components' = [components EXCEPT ![s].ref_count = 0,
                                                   ![s].is_dependency = "unset"]
               /\ handles' = [handles EXCEPT ![components[s].component_id] = @ - 1]
               /\ pos' = pos + 1
               /\ UNCHANGED <<manifest_stack_height, op, entry, op_ret>>
          ELSE /\ Finish(ret)
               /\ UNCHANGED <<components, handles>>
    /\ UNCHANGED manifest_stack

ReleaseDone ==
    /\ Releasing
    /\ pos >= Len(component_map)
    /\ manifest_stack' = [manifest_stack EXCEPT ![entry] = <<>>]
    /\ Finish("SUCCESS")
    /\ UNCHANGED <<components, handles>>

ReleaseStep ==
    \/ ReleaseMissing
    \/ ReleaseShared
    \/ \E ret \in ReleaseResults : ReleaseLast(ret)
    \/ ReleaseDone

-----------------------------------------------------------------------------
Next ==
    \/ LoadRefused
    \/ BeginLoad
    \/ LoadRejected("ERR_AUTHENTICATION")
    \/ \E id \in ComponentId, dependency \in BOOLEAN : AppendComponent(id, dependency)
    \/ AppendUndecodable
    \/ \E ret \in {"SUCCESS", "ERR_AUTHENTICATION"} : LoadDone(ret)
    \/ PopManifest
    \/ PopDeniedDependency
    \/ ReleaseStep

Spec == Init /\ [][Next]_vars

-----------------------------------------------------------------------------
(***************************************************************************)
(* The places <<e, i>> where a manifest still holds a reference: entries   *)
(* on the stack and the one being loaded, without the part of a map that   *)
(* the release loop has already given back.                                *)
(***************************************************************************)
Live(e) == e < manifest_stack_height \/ (op # "none" /\ e = entry)

References(s) ==
    {r \in Entry \X (1 .. MaxComponents) :
        /\ Live(r[1])
        /\ r[2] <= Len(manifest_stack[r[1]])
        /\ manifest_stack[r[1]][r[2]] = s
        /\ Releasing /\ r[1] = entry => r[2] > pos}

(***************************************************************************)
(* Type invariant.                                                         *)
(***************************************************************************)
TypeOK ==
    /\ components \in [Slot -> SlotState]
    /\ manifest_stack \in [Entry -> Seq(Slot)]
    /\ \A e \in Entry : Len(manifest_stack[e]) <= MaxComponents
    /\ manifest_stack_height \in 0 .. MaxManifests
    /\ op \in {"none", "loading", "unwinding", "releasing"}
    /\ entry \in Entry
    /\ pos \in 0 .. MaxComponents
    /\ op_ret \in Results
    /\ handles \in [ComponentId -> Nat]

\* The platform's view: whatever fails, it holds one open handle for every
\* component in use and none for any other, so no handle is created twice,
\* released twice, or forgotten (assign_component_index and
\* release_component_index agree on when a slot is in use).
HandlesMatch ==
    \A id \in ComponentId :
        handles[id] = IF \E s \in Slot : InUse(s) /\ components[s].component_id = id
                      THEN 1 ELSE 0

\* Two slots in use never hold the same component: all manifests that name a
\* component share its parameters and its integrity flag.
OneSlotPerComponent ==
    \A s, t \in Slot :
        (InUse(s) /\ InUse(t) /\ components[s].component_id = components[t].component_id)
            => s = t

\* A manifest on the stack never refers to a slot the registry may reuse: every
\* slot has at least as many references counted as manifests hold, even when
\* the platform fails to release a component half way through a manifest.
NoDanglingReference ==
    \A s \in Slot : Cardinality(References(s)) <= components[s].ref_count

\* With a platform that releases handles reliably the count is exact: a failed
\* load, a shared component or one listed twice leaks nothing.
CountsExact ==
    \A s \in Slot : components[s].ref_count = Cardinality(References(s))

\* Once every manifest is gone the pool is empty and the platform holds no
\* handle: the next suit_process_sequence starts from fresh parameters.
PoolEmptyWhenIdle ==
    (op = "none" /\ manifest_stack_height = 0) => \A s \in Slot : ~InUse(s)

\* A component keeps its identity and its kind as long as it is referenced: no
\* manifest turns a dependency of another manifest into a regular component.
IdentityStable ==
    [][\A s \in Slot :
          (InUse(s) /\ components'[s].ref_count # 0) =>
              /\ components'[s].component_id = components[s].component_id
              /\ components'[s].is_dependency = components[s].is_dependency]_vars
=============================================================================
