----------------------- MODULE ComponentRegistry_proofs -----------------------
(***************************************************************************)
(* Proofs about ComponentRegistry and RegistryHistory, for every pool      *)
(* size, every number of components and manifests, and every set of        *)
(* platform results.                                                       *)
(***************************************************************************)
EXTENDS RegistryHistory, FiniteSetTheorems, SequenceTheorems, TLAPS

(***************************************************************************)
(* A non-empty set of slots has a first one: the scan of the pool finds it.*)
(* The minimum exists because strict inclusion of the intervals 0..a is    *)
(* well founded.                                                           *)
(***************************************************************************)
LEMMA FirstIsMember ==
    ASSUME NEW S \in SUBSET Slot, S # {}
    PROVE  First(S) \in S
<1> DEFINE T == {0 .. a : a \in S}
<1>1. IsWellFoundedOn(StrictSubsetOrdering(Nat), FiniteSubsetsOf(Nat))
  BY FS_StrictSubsetOrderingWellFounded
<1>2. S \subseteq Nat
  BY SizesAssumption DEF Slot
<1>3. T \subseteq FiniteSubsetsOf(Nat)
  <2>1. ASSUME NEW a \in S PROVE 0 .. a \in SUBSET Nat /\ IsFiniteSet(0 .. a)
    <3>1. a \in Int /\ 0 \in Int
      BY <1>2
    <3> QED BY <3>1, FS_Interval
  <2> QED BY <2>1 DEF FiniteSubsetsOf
<1>4. T # {}
  OBVIOUS
<1>5. PICK x \in T : \A y \in T : ~(<<y, x>> \in StrictSubsetOrdering(Nat))
  BY <1>1, <1>3, <1>4, WFMin
<1>6. PICK m \in S : x = 0 .. m
  OBVIOUS
<1>7. ASSUME NEW t \in S PROVE m <= t
  <2>1. ~(<<0 .. t, 0 .. m>> \in StrictSubsetOrdering(Nat))
    BY <1>5, <1>6
  <2>2. t \in Nat /\ m \in Nat
    BY <1>2
  <2>3. CASE t < m
    <3>1. 0 .. t \subseteq 0 .. m /\ 0 .. t # 0 .. m
      <4>1. m \in 0 .. m /\ m \notin 0 .. t
        BY <2>2, <2>3
      <4>2. 0 .. t \subseteq 0 .. m
        BY <2>2, <2>3
      <4> QED BY <4>1, <4>2
    <3>2. 0 .. t \in SUBSET Nat /\ 0 .. m \in SUBSET Nat
      BY <2>2
    <3> QED BY <2>1, <3>1, <3>2 DEF StrictSubsetOrdering
  <2> QED BY <2>2, <2>3
<1> QED
  BY <1>6, <1>7 DEF First

-----------------------------------------------------------------------------
(***************************************************************************)
(* The inductive invariant.  Beside the type it says which entry a call    *)
(* works on, what a slot in use holds, and what the platform holds.        *)
(***************************************************************************)
CallEntry ==
    /\ op = "loading" => entry = manifest_stack_height
    /\ op = "unwinding" => entry \in {manifest_stack_height, manifest_stack_height - 1}
    /\ op = "releasing" => entry < manifest_stack_height

SlotsFilled ==
    \A s \in Slot : InUse(s) => /\ components[s].component_id \in ComponentId
                                /\ components[s].is_dependency # "unset"

PoolInv == SlotsFilled /\ OneSlotPerComponent /\ HandlesMatch

RegistryInv == TypeOK /\ CallEntry /\ PoolInv

(***************************************************************************)
(* What the scans of assign_component_index return.                        *)
(***************************************************************************)
LEMMA HoldingSlot ==
    ASSUME NEW id, Holding(id) # {}
    PROVE  /\ First(Holding(id)) \in Slot
           /\ InUse(First(Holding(id)))
           /\ components[First(Holding(id))].component_id = id
<1>1. Holding(id) \in SUBSET Slot
  BY DEF Holding
<1>2. First(Holding(id)) \in Holding(id)
  BY <1>1, FirstIsMember
<1> QED BY <1>2 DEF Holding

LEMMA FreeSlot ==
    ASSUME Free # {}
    PROVE  First(Free) \in Slot /\ ~InUse(First(Free))
<1>1. Free \in SUBSET Slot
  BY DEF Free
<1>2. First(Free) \in Free
  BY <1>1, FirstIsMember
<1> QED BY <1>2 DEF Free

LEMMA MapSlot ==
    ASSUME TypeOK, pos < Len(component_map)
    PROVE  component_map[pos + 1] \in Slot /\ pos + 1 \in 1 .. MaxComponents
<1>1. component_map \in Seq(Slot) /\ Len(component_map) <= MaxComponents
  BY DEF TypeOK, component_map
<1>2. Len(component_map) \in Nat /\ pos \in Nat
  BY <1>1, LenProperties, SizesAssumption DEF TypeOK
<1>3. pos + 1 \in 1 .. Len(component_map)
  BY <1>2
<1> QED BY <1>1, <1>2, <1>3, ElementOfSeq, SizesAssumption
-----------------------------------------------------------------------------
(***************************************************************************)
(* Type correctness and the phase of the call, action by action.  What the *)
(* pool and the platform hold is needed to see that a handle released was  *)
(* counted.                                                                *)
(***************************************************************************)
LEMMA PoolUnchanged ==
    ASSUME PoolInv, UNCHANGED <<components, handles>>
    PROVE  PoolInv'
BY DEF PoolInv, SlotsFilled, OneSlotPerComponent, HandlesMatch, InUse

\* Changing the count of a slot in use, but not to zero, and keeping its
\* component and a kind, leaves the pool as the platform sees it.
LEMMA PoolRecounted ==
    ASSUME TypeOK, PoolInv, UNCHANGED handles,
           NEW s \in Slot, InUse(s),
           NEW c \in SlotState, c.ref_count # 0, c.is_dependency # "unset",
           c.component_id = components[s].component_id,
           components' = [components EXCEPT ![s] = c]
    PROVE  PoolInv'
<1>1. \A t \in Slot : /\ InUse(t)' <=> InUse(t)
                      /\ components'[t].component_id = components[t].component_id
                      /\ InUse(t) => components'[t].is_dependency # "unset"
  BY DEF TypeOK, InUse, PoolInv, SlotsFilled
<1>2. SlotsFilled'
  BY <1>1 DEF PoolInv, SlotsFilled
<1>3. OneSlotPerComponent'
  BY <1>1 DEF PoolInv, OneSlotPerComponent
<1>4. HandlesMatch'
  BY <1>1 DEF PoolInv, HandlesMatch
<1> QED BY <1>2, <1>3, <1>4 DEF PoolInv

\* A slot that is not in use before and after an action is invisible.
LEMMA PoolStillFree ==
    ASSUME TypeOK, PoolInv, UNCHANGED handles,
           NEW s \in Slot, ~InUse(s),
           NEW c \in SlotState, c.ref_count = 0,
           components' = [components EXCEPT ![s] = c]
    PROVE  PoolInv'
<1>1. \A t \in Slot : /\ InUse(t)' <=> InUse(t)
                      /\ InUse(t) => components'[t] = components[t]
  BY DEF TypeOK, InUse
<1>2. SlotsFilled'
  BY <1>1 DEF PoolInv, SlotsFilled
<1>3. OneSlotPerComponent'
  BY <1>1 DEF PoolInv, OneSlotPerComponent
<1>4. HandlesMatch'
  BY <1>1 DEF PoolInv, HandlesMatch
<1> QED BY <1>2, <1>3, <1>4 DEF PoolInv

\* A handle is created for a component that had none.
LEMMA PoolCreated ==
    ASSUME TypeOK, PoolInv, NEW s \in Slot, ~InUse(s),
           NEW id \in ComponentId, Holding(id) = {},
           NEW c \in SlotState, c.ref_count # 0, c.is_dependency # "unset",
           c.component_id = id,
           components' = [components EXCEPT ![s] = c],
           handles' = [handles EXCEPT ![id] = @ + 1]
    PROVE  PoolInv' /\ handles' \in [ComponentId -> Nat]
<1>1. \A t \in Slot : t # s => /\ InUse(t)' <=> InUse(t)
                               /\ components'[t] = components[t]
  BY DEF TypeOK, InUse
<1>2. InUse(s)' /\ components'[s] = c
  BY DEF TypeOK, InUse
<1>3. \A t \in Slot : InUse(t) => components[t].component_id # id
  BY DEF Holding
<1>4. SlotsFilled'
  BY <1>1, <1>2 DEF PoolInv, SlotsFilled
<1>5. OneSlotPerComponent'
  BY <1>1, <1>2, <1>3 DEF PoolInv, OneSlotPerComponent
<1>6. handles[id] = 0
  BY <1>3 DEF PoolInv, HandlesMatch
<1>7. handles' \in [ComponentId -> Nat]
  BY DEF TypeOK
<1>8. HandlesMatch'
  <2> SUFFICES ASSUME NEW i \in ComponentId
               PROVE  handles'[i] = IF \E t \in Slot : InUse(t)' /\ components'[t].component_id = i
                                    THEN 1 ELSE 0
    BY DEF HandlesMatch
  <2>1. CASE i = id
    BY <1>2, <1>6, <2>1 DEF TypeOK
  <2>2. CASE i # id
    <3>1. handles'[i] = handles[i]
      BY <2>2 DEF TypeOK
    <3>2. (\E t \in Slot : InUse(t)' /\ components'[t].component_id = i)
            <=> (\E t \in Slot : InUse(t) /\ components[t].component_id = i)
      BY <1>1, <1>2, <2>2
    <3> QED BY <3>1, <3>2 DEF PoolInv, HandlesMatch
  <2> QED BY <2>1, <2>2
<1> QED BY <1>4, <1>5, <1>7, <1>8 DEF PoolInv

\* The last reference is given back: the platform had exactly one handle.
LEMMA PoolReleased ==
    ASSUME TypeOK, PoolInv, NEW s \in Slot, InUse(s),
           NEW c \in SlotState, c.ref_count = 0,
           components' = [components EXCEPT ![s] = c],
           handles' = [handles EXCEPT ![components[s].component_id] = @ - 1]
    PROVE  PoolInv' /\ handles' \in [ComponentId -> Nat]
<1> DEFINE id == components[s].component_id
<1>1. \A t \in Slot : t # s => /\ InUse(t)' <=> InUse(t)
                               /\ components'[t] = components[t]
  BY DEF TypeOK, InUse
<1>2. ~InUse(s)' /\ id \in ComponentId
  BY DEF TypeOK, InUse, PoolInv, SlotsFilled
<1>3. \A t \in Slot : t # s /\ InUse(t) => components[t].component_id # id
  BY DEF PoolInv, OneSlotPerComponent
<1>4. SlotsFilled'
  BY <1>1, <1>2 DEF PoolInv, SlotsFilled
<1>5. OneSlotPerComponent'
  BY <1>1, <1>2 DEF PoolInv, OneSlotPerComponent
<1>6. handles[id] = 1
  BY <1>2 DEF PoolInv, HandlesMatch
<1>7. handles' \in [ComponentId -> Nat]
  BY <1>2, <1>6 DEF TypeOK
<1>8. HandlesMatch'
  <2> SUFFICES ASSUME NEW i \in ComponentId
               PROVE  handles'[i] = IF \E t \in Slot : InUse(t)' /\ components'[t].component_id = i
                                    THEN 1 ELSE 0
    BY DEF HandlesMatch
  <2>1. CASE i = id
    <3>1. handles'[i] = 0
      BY <1>2, <1>6, <2>1 DEF TypeOK
    <3>2. ~ \E t \in Slot : InUse(t)' /\ components'[t].component_id = i
      BY <1>1, <1>2, <1>3, <2>1
    <3> QED BY <3>1, <3>2
  <2>2. CASE i # id
    <3>1. handles'[i] = handles[i]
      BY <2>2 DEF TypeOK
    <3>2. (\E t \in Slot : InUse(t)' /\ components'[t].component_id = i)
            <=> (\E t \in Slot : InUse(t) /\ components[t].component_id = i)
      BY <1>1, <1>2, <2>2
    <3> QED BY <3>1, <3>2 DEF PoolInv, HandlesMatch
  <2> QED BY <2>1, <2>2
<1> QED BY <1>4, <1>5, <1>7, <1>8 DEF PoolInv
-----------------------------------------------------------------------------
LEMMA InitInv == Init => RegistryInv
<1> SUFFICES ASSUME Init PROVE RegistryInv
  OBVIOUS
<1>1. TypeOK
  BY SizesAssumption, EmptySeq DEF Init, TypeOK, SlotState, EmptySlot, NoId, Slot, Entry, Results
<1>2. CallEntry
  BY DEF Init, CallEntry
<1>3. PoolInv
  <2>1. \A s \in Slot : ~InUse(s)
    BY DEF Init, InUse, EmptySlot
  <2>2. SlotsFilled /\ OneSlotPerComponent
    BY <2>1 DEF SlotsFilled, OneSlotPerComponent
  <2>3. HandlesMatch
    BY <2>1 DEF HandlesMatch, Init
  <2> QED BY <2>2, <2>3 DEF PoolInv
<1> QED BY <1>1, <1>2, <1>3 DEF RegistryInv

\* The end of a release: the stack is popped unless the manifest never was on it.
LEMMA FinishInv ==
    ASSUME RegistryInv, Releasing, NEW ret \in Results, Finish(ret)
    PROVE  /\ manifest_stack_height' \in 0 .. MaxManifests
           /\ op' = "none" /\ pos' \in 0 .. MaxComponents
           /\ op_ret' \in Results /\ entry' \in Entry
           /\ CallEntry'
BY SizesAssumption DEF Finish, RegistryInv, TypeOK, CallEntry, Entry, Releasing, Results

LEMMA StepInv == RegistryInv /\ [Next]_vars => RegistryInv'
<1> SUFFICES ASSUME RegistryInv, [Next]_vars
             PROVE  RegistryInv'
  OBVIOUS
<1> USE SizesAssumption, DeniedAssumption DEF Results
<1>0. TypeOK /\ CallEntry /\ PoolInv
  BY DEF RegistryInv
<1>p. ASSUME TypeOK', CallEntry', UNCHANGED <<components, handles>>
      PROVE  RegistryInv'
  BY <1>0, <1>p, PoolUnchanged DEF RegistryInv
<1>1. CASE UNCHANGED vars
  <2>1. TypeOK' /\ CallEntry'
    BY <1>0, <1>1 DEF vars, TypeOK, CallEntry
  <2> QED BY <1>1, <1>p, <2>1 DEF vars
<1>2. CASE LoadRefused
  <2>1. TypeOK' /\ CallEntry'
    BY <1>0, <1>2 DEF LoadRefused, TypeOK, CallEntry
  <2> QED BY <1>2, <1>p, <2>1 DEF LoadRefused
<1>3. CASE BeginLoad
  <2>1. TypeOK'
    BY <1>0, <1>3, EmptySeq DEF BeginLoad, TypeOK, Entry
  <2>2. CallEntry'
    BY <1>3 DEF BeginLoad, CallEntry
  <2> QED BY <1>3, <1>p, <2>1, <2>2 DEF BeginLoad
<1>4. CASE LoadRejected("ERR_AUTHENTICATION")
  <2>1. TypeOK' /\ CallEntry'
    BY <1>0, <1>4 DEF LoadRejected, TypeOK, CallEntry
  <2> QED BY <1>4, <1>p, <2>1 DEF LoadRejected
<1>5. ASSUME NEW id \in ComponentId, NEW dependency \in BOOLEAN,
             AppendComponent(id, dependency)
      PROVE  RegistryInv'
  <2>1. ASSUME NEW s \in Slot, Appended(s), Len(component_map) < MaxComponents,
               op = "loading"
        PROVE  /\ manifest_stack' \in [Entry -> Seq(Slot)]
               /\ \A e \in Entry : Len(manifest_stack'[e]) <= MaxComponents
               /\ CallEntry'
    <3>1. component_map \in Seq(Slot) /\ entry \in Entry
      BY <1>0 DEF TypeOK, component_map
    <3>2. Append(component_map, s) \in Seq(Slot)
          /\ Len(Append(component_map, s)) = Len(component_map) + 1
      BY <3>1
    <3>3. Len(component_map) \in Nat
      BY <3>1
    <3>4. CallEntry'
      BY <1>0, <2>1 DEF CallEntry, Appended
    <3> QED BY <1>0, <2>1, <3>1, <3>2, <3>3, <3>4 DEF Appended, TypeOK, component_map
  <2>2. ASSUME NEW ret \in Results, Unwind(ret), op = "loading"
        PROVE  /\ CallEntry'
               /\ op' = "unwinding" /\ pos' = 0 /\ op_ret' \in Results
               /\ UNCHANGED <<manifest_stack, manifest_stack_height, entry>>
    BY <1>0, <2>2 DEF Unwind, CallEntry, TypeOK
  <2>u. ASSUME NEW ret \in Results, Unwind(ret), op = "loading",
               UNCHANGED <<components, handles>>
        PROVE  RegistryInv'
    <3>1. TypeOK'
      BY <1>0, <2>u, <2>2 DEF TypeOK
    <3>2. CallEntry'
      BY <2>u, <2>2
    <3> QED BY <1>p, <2>u, <3>1, <3>2
  <2>3. suit_bool(dependency) \in {"false", "true"}
    BY DEF suit_bool
  <2>4. CASE AppendToFullMap
    BY <2>4, <2>u DEF AppendToFullMap
  <2>5. CASE AppendWithoutSlot(id)
    BY <2>5, <2>u DEF AppendWithoutSlot
  <2>6. CASE AppendExisting(id, dependency)
    <3> DEFINE s == First(Holding(id))
               c == [components[s] EXCEPT !.ref_count = @ + 1,
                                          !.is_dependency = suit_bool(dependency)]
    <3>1. s \in Slot /\ InUse(s)
      BY <2>6, HoldingSlot DEF AppendExisting
    <3>2. CASE components[s].is_dependency = suit_bool(~dependency)
      BY <2>6, <2>u, <3>2 DEF AppendExisting, OtherKind
    <3>3. CASE components[s].is_dependency # suit_bool(~dependency)
      <4>1. components' = [components EXCEPT ![s].ref_count = @ + 1,
                                             ![s].is_dependency = suit_bool(dependency)]
            /\ UNCHANGED handles /\ Appended(s) /\ op = "loading"
            /\ Len(component_map) < MaxComponents
        BY <2>6, <3>3 DEF AppendExisting, OtherKind, Referenced
      <4>2. components[s] \in SlotState
        BY <1>0, <3>1 DEF TypeOK
      <4>3. c \in SlotState /\ c.ref_count # 0 /\ c.is_dependency # "unset"
            /\ c.component_id = components[s].component_id
        <5>1. components[s].ref_count \in Nat /\ components[s].ref_count + 1 \in Nat \ {0}
          BY <4>2 DEF SlotState
        <5> QED BY <2>3, <4>2, <5>1 DEF SlotState
      <4>4. components' = [components EXCEPT ![s] = c]
        BY <1>0, <3>1, <4>1, <4>2 DEF TypeOK, SlotState
      <4> HIDE DEF c, s
      <4>5. PoolInv'
        BY <1>0, <3>1, <4>1, <4>3, <4>4, PoolRecounted
      <4>6. components' \in [Slot -> SlotState]
        BY <1>0, <4>3, <4>4 DEF TypeOK
      <4> QED BY <1>0, <2>1, <3>1, <4>1, <4>5, <4>6 DEF Appended, RegistryInv, TypeOK
    <3> QED BY <3>2, <3>3
  <2>7. ASSUME NEW ret \in CreateResults, AppendNew(id, dependency, ret)
        PROVE  RegistryInv'
    <3> DEFINE s == First(Free)
               c == [component_id |-> id, ref_count |-> 1,
                     is_dependency |-> suit_bool(dependency)]
               d == [EmptySlot EXCEPT !.component_id = id]
    <3>1. s \in Slot /\ ~InUse(s)
      BY <2>7, FreeSlot DEF AppendNew
    <3>2. c \in SlotState /\ c.ref_count # 0 /\ c.is_dependency # "unset"
          /\ c.component_id = id
      BY <2>3 DEF SlotState
    <3>3. d \in SlotState /\ d.ref_count = 0
      BY DEF SlotState, EmptySlot
    <3>4. op = "loading" /\ Len(component_map) < MaxComponents /\ Holding(id) = {}
      BY <2>7 DEF AppendNew
    <3>5. CASE ret = "SUCCESS"
      <4>1. components' = [components EXCEPT ![s] = c]
            /\ handles' = [handles EXCEPT ![id] = @ + 1] /\ Appended(s)
        BY <2>7, <3>5 DEF AppendNew
      <4> HIDE DEF c, s
      <4>2. PoolInv' /\ handles' \in [ComponentId -> Nat]
        BY <1>0, <3>1, <3>2, <3>4, <4>1, PoolCreated
      <4>3. components' \in [Slot -> SlotState]
        BY <1>0, <3>2, <4>1 DEF TypeOK
      <4> QED BY <1>0, <2>1, <3>1, <3>4, <4>1, <4>2, <4>3
              DEF Appended, RegistryInv, TypeOK
    <3>6. CASE ret # "SUCCESS"
      <4>1. components' = [components EXCEPT ![s] = d]
            /\ UNCHANGED handles /\ Unwind(ret)
        BY <2>7, <3>6 DEF AppendNew
      <4> HIDE DEF d, s
      <4>2. PoolInv'
        BY <1>0, <3>1, <3>3, <4>1, PoolStillFree
      <4>3. components' \in [Slot -> SlotState]
        BY <1>0, <3>3, <4>1 DEF TypeOK
      <4>4. ret \in Results /\ op = "loading"
        BY <3>4
      <4>5. /\ CallEntry'
            /\ op' = "unwinding" /\ pos' = 0 /\ op_ret' \in Results
            /\ UNCHANGED <<manifest_stack, manifest_stack_height, entry>>
        BY <2>2, <4>1, <4>4
      <4>6. TypeOK'
        BY <1>0, <4>1, <4>3, <4>5 DEF TypeOK
      <4> QED BY <4>2, <4>5, <4>6 DEF RegistryInv
    <3> QED BY <3>5, <3>6
  <2> QED BY <1>5, <2>4, <2>5, <2>6, <2>7 DEF AppendComponent
<1>6. CASE AppendUndecodable
  <2>1. TypeOK'
    BY <1>0, <1>6 DEF AppendUndecodable, Unwind, TypeOK
  <2>2. CallEntry'
    BY <1>0, <1>6 DEF AppendUndecodable, Unwind, CallEntry, TypeOK
  <2> QED BY <1>6, <1>p, <2>1, <2>2 DEF AppendUndecodable
<1>7. ASSUME NEW ret \in {"SUCCESS", "ERR_AUTHENTICATION"}, LoadDone(ret)
      PROVE  RegistryInv'
  <2>1. TypeOK'
    <3>1. manifest_stack_height + 1 \in 0 .. MaxManifests
      BY <1>0, <1>7 DEF LoadDone, TypeOK, CallEntry, Entry
    <3>2. op' \in {"none", "loading", "unwinding", "releasing"} /\ op_ret' \in Results
      BY <1>7 DEF LoadDone
    <3>3. 0 \in 0 .. MaxComponents
      OBVIOUS
    <3> QED BY <1>0, <1>7, <3>1, <3>2, <3>3 DEF LoadDone, TypeOK
  <2>2. CallEntry'
    BY <1>0, <1>7 DEF LoadDone, TypeOK, CallEntry
  <2> QED BY <1>7, <1>p, <2>1, <2>2 DEF LoadDone
<1>r. ASSUME NEW e \in Entry, BeginRelease(e)
      PROVE  TypeOK'
  <2>1. 0 \in 0 .. MaxComponents /\ "none" \in Results
    OBVIOUS
  <2> QED BY <1>0, <1>r, <2>1 DEF BeginRelease, TypeOK
<1>8. CASE PopManifest
  <2>1. TypeOK'
    <3>1. manifest_stack_height - 1 \in Entry
      BY <1>0, <1>8 DEF PopManifest, BeginRelease, TypeOK, Entry
    <3> QED BY <1>8, <1>r, <3>1 DEF PopManifest
  <2>2. CallEntry'
    BY <1>0, <1>8 DEF PopManifest, BeginRelease, TypeOK, CallEntry
  <2> QED BY <1>8, <1>p, <2>1, <2>2 DEF PopManifest, BeginRelease
<1>9. CASE PopDeniedDependency
  <2>1. TypeOK'
    <3>1. manifest_stack_height - 2 \in Entry
      BY <1>0, <1>9 DEF PopDeniedDependency, TypeOK, Entry
    <3> QED BY <1>9, <1>r, <3>1 DEF PopDeniedDependency
  <2>2. CallEntry'
    BY <1>0, <1>9 DEF PopDeniedDependency, BeginRelease, TypeOK, CallEntry
  <2> QED BY <1>9, <1>p, <2>1, <2>2 DEF PopDeniedDependency, BeginRelease
<1>10. CASE ReleaseStep
  <2> DEFINE s == component_map[pos + 1]
  <2>1. CASE ReleaseMissing
    <3>1. Finish("ERR_MISSING_COMPONENT") /\ Releasing
          /\ UNCHANGED <<components, manifest_stack, handles>>
      BY <2>1 DEF ReleaseMissing
    <3>2. /\ manifest_stack_height' \in 0 .. MaxManifests
          /\ op' = "none" /\ pos' \in 0 .. MaxComponents
          /\ op_ret' \in Results /\ entry' \in Entry /\ CallEntry'
      BY <3>1, FinishInv
    <3>3. TypeOK'
      BY <1>0, <3>1, <3>2 DEF TypeOK
    <3> QED BY <1>p, <3>1, <3>2, <3>3
  <2>2. CASE ReleaseDone
    <3>1. manifest_stack' \in [Entry -> Seq(Slot)]
          /\ \A e \in Entry : Len(manifest_stack'[e]) <= MaxComponents
      BY <1>0, <2>2, EmptySeq DEF ReleaseDone, TypeOK
    <3>2. Finish("SUCCESS") /\ Releasing /\ UNCHANGED <<components, handles>>
      BY <2>2 DEF ReleaseDone
    <3>3. /\ manifest_stack_height' \in 0 .. MaxManifests
          /\ op' = "none" /\ pos' \in 0 .. MaxComponents
          /\ op_ret' \in Results /\ entry' \in Entry /\ CallEntry'
      BY <3>2, FinishInv
    <3>4. TypeOK'
      BY <1>0, <3>1, <3>2, <3>3 DEF TypeOK
    <3> QED BY <1>p, <3>2, <3>3, <3>4
  <2>3. CASE ReleaseShared
    <3> DEFINE c == [components[s] EXCEPT !.ref_count = @ - 1]
    <3>1. s \in Slot /\ pos + 1 \in 1 .. MaxComponents
      BY <1>0, <2>3, MapSlot DEF ReleaseShared
    <3>2. components[s] \in SlotState /\ components[s].ref_count > 1 /\ InUse(s)
      BY <1>0, <2>3, <3>1 DEF ReleaseShared, TypeOK, InUse, SlotState
    <3>3. c \in SlotState /\ c.ref_count # 0 /\ c.is_dependency # "unset"
          /\ c.component_id = components[s].component_id
      BY <1>0, <3>1, <3>2 DEF SlotState, PoolInv, SlotsFilled
    <3>4. components' = [components EXCEPT ![s] = c]
      BY <1>0, <2>3, <3>1, <3>2 DEF ReleaseShared, TypeOK, SlotState
    <3>5. UNCHANGED handles
      BY <2>3 DEF ReleaseShared
    <3> HIDE DEF c, s
    <3>6. PoolInv'
      BY <1>0, <3>1, <3>2, <3>3, <3>4, <3>5, PoolRecounted
    <3>7. components' \in [Slot -> SlotState]
      BY <1>0, <3>3, <3>4 DEF TypeOK
    <3>8. TypeOK'
      BY <1>0, <2>3, <3>1, <3>7 DEF ReleaseShared, TypeOK
    <3>9. CallEntry'
      BY <1>0, <2>3 DEF ReleaseShared, CallEntry
    <3> QED BY <3>6, <3>8, <3>9 DEF RegistryInv
  <2>4. ASSUME NEW ret \in ReleaseResults, ReleaseLast(ret)
        PROVE  RegistryInv'
    <3> DEFINE c == [components[s] EXCEPT !.ref_count = 0, !.is_dependency = "unset"]
    <3>1. s \in Slot /\ pos + 1 \in 1 .. MaxComponents
      BY <1>0, <2>4, MapSlot DEF ReleaseLast
    <3>2. components[s] \in SlotState /\ components[s].ref_count = 1 /\ InUse(s)
      BY <1>0, <2>4, <3>1 DEF ReleaseLast, TypeOK, InUse, SlotState
    <3>3. CASE ret = "SUCCESS"
      <4>1. c \in SlotState /\ c.ref_count = 0
        BY <3>2 DEF SlotState
      <4>2. components' = [components EXCEPT ![s] = c]
        BY <1>0, <2>4, <3>1, <3>2, <3>3 DEF ReleaseLast, TypeOK, SlotState
      <4>3. handles' = [handles EXCEPT ![components[s].component_id] = @ - 1]
            /\ pos' = pos + 1
            /\ UNCHANGED <<manifest_stack, manifest_stack_height, op, entry, op_ret>>
        BY <2>4, <3>3 DEF ReleaseLast
      <4> HIDE DEF c, s
      <4>4. PoolInv' /\ handles' \in [ComponentId -> Nat]
        BY <1>0, <3>1, <3>2, <4>1, <4>2, <4>3, PoolReleased
      <4>5. components' \in [Slot -> SlotState]
        BY <1>0, <4>1, <4>2 DEF TypeOK
      <4>6. TypeOK'
        BY <1>0, <3>1, <4>3, <4>4, <4>5 DEF TypeOK
      <4>7. CallEntry'
        BY <1>0, <4>3 DEF CallEntry
      <4> QED BY <4>4, <4>6, <4>7 DEF RegistryInv
    <3>4. CASE ret # "SUCCESS"
      <4>1. Finish(ret) /\ Releasing /\ UNCHANGED <<components, handles, manifest_stack>>
        BY <2>4, <3>4 DEF ReleaseLast
      <4> QED BY <1>0, <4>1, FinishInv, PoolUnchanged DEF RegistryInv, TypeOK
    <3> QED BY <3>3, <3>4
  <2> QED BY <1>10, <2>1, <2>2, <2>3, <2>4 DEF ReleaseStep
<1> QED
  BY <1>1, <1>2, <1>3, <1>4, <1>5, <1>6, <1>7, <1>8, <1>9, <1>10 DEF Next

(***************************************************************************)
(* The inductive invariant: the registry call under way is in a phase that *)
(* its variables agree with, and the pool is what the platform sees.       *)
(***************************************************************************)
THEOREM RegistryInvariant == Spec => []RegistryInv
BY InitInv, StepInv, PTL DEF Spec

(***************************************************************************)
(* The values of every variable stay in range, whatever the platform       *)
(* answers.                                                                *)
(***************************************************************************)
THEOREM TypeCorrect == Spec => []TypeOK
<1>1. RegistryInv => TypeOK
  BY DEF RegistryInv
<1> QED BY <1>1, RegistryInvariant, PTL

(***************************************************************************)
(* The platform holds exactly one handle per component in use: none is     *)
(* created twice, released twice or forgotten, whatever call fails.        *)
(***************************************************************************)
THEOREM HandlesAlwaysMatch == Spec => []HandlesMatch
<1>1. RegistryInv => HandlesMatch
  BY DEF RegistryInv, PoolInv
<1> QED BY <1>1, RegistryInvariant, PTL

(***************************************************************************)
(* All manifests that name a component share one slot.                     *)
(***************************************************************************)
THEOREM SlotsAreShared == Spec => []OneSlotPerComponent
<1>1. RegistryInv => OneSlotPerComponent
  BY DEF RegistryInv, PoolInv
<1> QED BY <1>1, RegistryInvariant, PTL
-----------------------------------------------------------------------------
(***************************************************************************)
(* What every action does to the references that manifests hold, once the  *)
(* callers pop the entry they release.                                     *)
(***************************************************************************)
LEMMA ReferencesFinite ==
    ASSUME NEW s
    PROVE  IsFiniteSet(References(s)) /\ Cardinality(References(s)) \in Nat
<1>1. IsFiniteSet(Entry) /\ IsFiniteSet(1 .. MaxComponents)
  BY SizesAssumption, FS_Interval DEF Entry
<1>2. IsFiniteSet(Entry \X (1 .. MaxComponents))
  BY <1>1, FS_Product
<1>3. IsFiniteSet(References(s))
  BY <1>2, FS_Subset DEF References
<1> QED BY <1>3, FS_CardinalityType

LEMMA ReferencesStillFinite ==
    ASSUME NEW s
    PROVE  IsFiniteSet(References(s)') /\ Cardinality(References(s)') \in Nat
<1>1. IsFiniteSet(Entry) /\ IsFiniteSet(1 .. MaxComponents)
  BY SizesAssumption, FS_Interval DEF Entry
<1>2. IsFiniteSet(Entry \X (1 .. MaxComponents))
  BY <1>1, FS_Product
<1>3. IsFiniteSet(References(s)')
  BY <1>2, FS_Subset DEF References
<1> QED BY <1>3, FS_CardinalityType

\* Loads that start or end, and releases that start, move no reference.
LEMMA ReferencesKept ==
    ASSUME RegistryInv, NEW s,
           \/ UNCHANGED vars
           \/ LoadRefused
           \/ BeginLoad
           \/ \E ret : LoadRejected(ret)
           \/ op = "loading" /\ \E ret : Unwind(ret)
           \/ \E ret : LoadDone(ret)
           \/ PopManifest
    PROVE  References(s)' = References(s)
<1> USE SizesAssumption
<1>0. TypeOK /\ CallEntry
  BY DEF RegistryInv
<1> SUFFICES ASSUME NEW e \in Entry, NEW i \in 1 .. MaxComponents
             PROVE  <<e, i>> \in References(s)' <=> <<e, i>> \in References(s)
  BY DEF References
<1>1. manifest_stack_height \in Nat /\ e \in Nat /\ i > 0
  BY <1>0 DEF TypeOK, Entry
<1> DEFINE At == i <= Len(manifest_stack[e]) /\ manifest_stack[e][i] = s
           Due == Releasing /\ e = entry => i > pos
<1>2. <<e, i>> \in References(s) <=> Live(e) /\ At /\ Due
  BY DEF References
<1>3. <<e, i>> \in References(s)' <=> (Live(e) /\ At /\ Due)'
  BY DEF References
<1>4. CASE UNCHANGED vars
  BY <1>2, <1>3, <1>4 DEF vars, Live, Releasing
<1>5. CASE LoadRefused
  BY <1>2, <1>3, <1>5 DEF LoadRefused, Live, Releasing
<1>6. CASE BeginLoad
  <2>1. e # manifest_stack_height => At' = At
    BY <1>0, <1>6 DEF BeginLoad, TypeOK
  <2>2. e = manifest_stack_height => ~At' /\ ~Live(e)
    BY <1>0, <1>1, <1>6 DEF BeginLoad, TypeOK, Live
  <2>3. e # manifest_stack_height => (Live(e)' <=> Live(e))
    BY <1>6 DEF BeginLoad, Live
  <2>4. Due' /\ Due
    BY <1>6 DEF BeginLoad, Releasing
  <2> QED BY <1>2, <1>3, <2>1, <2>2, <2>3, <2>4
<1>7. CASE \E ret : LoadRejected(ret)
  <2>1. At' = At /\ Due /\ Due'
    BY <1>7 DEF LoadRejected, Releasing
  <2>2. e = entry => ~At
    BY <1>1, <1>7 DEF LoadRejected, component_map
  <2>3. e # entry => (Live(e)' <=> Live(e))
    BY <1>7 DEF LoadRejected, Live
  <2> QED BY <1>2, <1>3, <2>1, <2>2, <2>3
<1>8. CASE op = "loading" /\ \E ret : Unwind(ret)
  <2>1. At' = At /\ Due /\ Due'
    BY <1>1, <1>8 DEF Unwind, Releasing
  <2>2. Live(e)' <=> Live(e)
    BY <1>8 DEF Unwind, Live
  <2> QED BY <1>2, <1>3, <2>1, <2>2
<1>9. CASE \E ret : LoadDone(ret)
  <2>1. At' = At /\ Due /\ Due'
    BY <1>1, <1>9 DEF LoadDone, Releasing
  <2>2. Live(e)' <=> Live(e)
    BY <1>0, <1>1, <1>9 DEF LoadDone, Live, CallEntry
  <2> QED BY <1>2, <1>3, <2>1, <2>2
<1>10. CASE PopManifest
  <2>1. At' = At /\ Due /\ Due'
    BY <1>1, <1>10 DEF PopManifest, BeginRelease, Releasing
  <2>2. Live(e)' <=> Live(e)
    BY <1>1, <1>10 DEF PopManifest, BeginRelease, Live
  <2> QED BY <1>2, <1>3, <2>1, <2>2
<1> QED BY <1>4, <1>5, <1>6, <1>7, <1>8, <1>9, <1>10

\* An append adds one reference to the slot appended.
LEMMA ReferencesAppended ==
    ASSUME RegistryInv, op = "loading", Len(component_map) < MaxComponents,
           NEW s \in Slot, Appended(s), NEW t
    PROVE  /\ References(t)' = IF t = s THEN References(t) \cup {<<entry, Len(component_map) + 1>>}
                                        ELSE References(t)
           /\ <<entry, Len(component_map) + 1>> \notin References(t)
<1> USE SizesAssumption
<1> DEFINE n == Len(component_map) + 1
<1>0. TypeOK
  BY DEF RegistryInv
<1>1. component_map \in Seq(Slot) /\ Len(component_map) \in Nat /\ n \in 1 .. MaxComponents
      /\ entry \in Entry
  BY <1>0 DEF TypeOK, component_map
<1>2. <<entry, n>> \notin References(t)
  BY <1>1 DEF References, component_map
<1>3. ASSUME NEW e \in Entry, NEW i \in 1 .. MaxComponents
      PROVE  <<e, i>> \in References(t)' <=>
                 (<<e, i>> \in References(t) \/ (t = s /\ e = entry /\ i = n))
  <2> DEFINE At == i <= Len(manifest_stack[e]) /\ manifest_stack[e][i] = t
  <2>1. (<<e, i>> \in References(t) <=> Live(e) /\ At)
        /\ (<<e, i>> \in References(t)' <=> Live(e)' /\ At')
    BY DEF References, Releasing, Appended
  <2>2. Live(e)' = Live(e)
    BY DEF Appended, Live
  <2>3. CASE e # entry
    BY <1>0, <2>1, <2>2, <2>3 DEF Appended, TypeOK
  <2>4. CASE e = entry
    <3>1. manifest_stack'[e] = Append(component_map, s) /\ Live(e) /\ manifest_stack[e] = component_map
      BY <1>0, <2>4 DEF Appended, TypeOK, component_map, Live
    <3>2. /\ Len(Append(component_map, s)) = n
          /\ Append(component_map, s)[n] = s
          /\ \A j \in 1 .. Len(component_map) : Append(component_map, s)[j] = component_map[j]
      BY <1>1
    <3>3. i \in Nat /\ (i <= n <=> i <= Len(component_map) \/ i = n)
          /\ (i <= Len(component_map) => i \in 1 .. Len(component_map) /\ i # n)
      BY <1>1
    <3> QED BY <2>1, <2>2, <2>4, <3>1, <3>2, <3>3
  <2> QED BY <2>3, <2>4
<1>4. References(t) \subseteq Entry \X (1 .. MaxComponents)
      /\ References(t)' \subseteq Entry \X (1 .. MaxComponents)
      /\ <<entry, n>> \in Entry \X (1 .. MaxComponents)
  BY <1>1 DEF References
<1> HIDE DEF n
<1>5. \A r \in Entry \X (1 .. MaxComponents) :
          r \in References(t)' <=> (r \in References(t) \/ (t = s /\ r = <<entry, n>>))
  BY <1>3
<1>6. References(t)' = IF t = s THEN References(t) \cup {<<entry, n>>} ELSE References(t)
  BY <1>4, <1>5
<1> QED BY <1>2, <1>6 DEF n

\* A step of the release loop gives back one reference to the slot at pos.
LEMMA ReferencesReleased ==
    ASSUME RegistryInv, Releasing, pos < Len(component_map), pos' = pos + 1,
           UNCHANGED <<manifest_stack, manifest_stack_height, op, entry>>,
           NEW t
    PROVE  IF t = component_map[pos + 1]
           THEN /\ References(t)' = References(t) \ {<<entry, pos + 1>>}
                /\ <<entry, pos + 1>> \in References(t)
           ELSE References(t)' = References(t)
<1> USE SizesAssumption
<1>0. TypeOK
  BY DEF RegistryInv
<1>1. pos + 1 \in 1 .. MaxComponents /\ pos \in Nat /\ entry \in Entry
      /\ Len(component_map) \in Nat
  BY <1>0, MapSlot DEF TypeOK, component_map
<1>2. ASSUME NEW e \in Entry, NEW i \in 1 .. MaxComponents
      PROVE  <<e, i>> \in References(t)' <=> <<e, i>> \in References(t) /\ <<e, i>> # <<entry, pos + 1>>
  <2> DEFINE At == i <= Len(manifest_stack[e]) /\ manifest_stack[e][i] = t
  <2>1. <<e, i>> \in References(t) <=> Live(e) /\ At /\ (e = entry => i > pos)
    BY DEF References
  <2>2. <<e, i>> \in References(t)' <=> Live(e) /\ At /\ (e = entry => i > pos + 1)
    BY DEF References, Live, Releasing
  <2>3. i > pos + 1 <=> i > pos /\ i # pos + 1
    BY <1>1
  <2> QED BY <2>1, <2>2, <2>3
<1>3. /\ References(t) \subseteq Entry \X (1 .. MaxComponents)
      /\ References(t)' \subseteq Entry \X (1 .. MaxComponents)
  BY DEF References
<1>4. References(t)' = References(t) \ {<<entry, pos + 1>>}
  <2>1. \A r \in Entry \X (1 .. MaxComponents) :
          r \in References(t)' <=> r \in References(t) /\ r # <<entry, pos + 1>>
    BY <1>2
  <2> QED BY <1>3, <2>1
<1>5. <<entry, pos + 1>> \in References(t) <=> t = component_map[pos + 1]
  <2>1. Live(entry) /\ pos + 1 <= Len(component_map) /\ pos + 1 > pos
    BY <1>1 DEF Live, Releasing
  <2> QED BY <1>1, <2>1 DEF References, component_map
<1> QED BY <1>4, <1>5

\* The entry that is released is the one that is popped.
ReleasesTop == op = "releasing" => entry = manifest_stack_height - 1

\* The end of a release drops what the entry still held, which is nothing
\* when the loop reached the end of the map.
LEMMA ReferencesFinished ==
    ASSUME RegistryInv, ReleasesTop, Releasing, NEW ret, Finish(ret),
           \A e \in Entry : e # entry => manifest_stack'[e] = manifest_stack[e],
           NEW t
    PROVE  /\ References(t)' \subseteq References(t)
           /\ pos >= Len(component_map) => References(t)' = References(t)
<1> USE SizesAssumption
<1>0. TypeOK /\ CallEntry
  BY DEF RegistryInv
<1>1. ASSUME NEW e \in Entry, NEW i \in 1 .. MaxComponents
      PROVE  /\ <<e, i>> \in References(t)' => <<e, i>> \in References(t)
             /\ pos >= Len(component_map) /\ <<e, i>> \in References(t) => <<e, i>> \in References(t)'
  <2> DEFINE At == i <= Len(manifest_stack[e]) /\ manifest_stack[e][i] = t
  <2>1. <<e, i>> \in References(t) <=> Live(e) /\ At /\ (e = entry => i > pos)
    BY DEF References
  <2>2. <<e, i>> \in References(t)' <=> Live(e)' /\ At'
    BY DEF References, Releasing, Finish
  <2>3. Live(e)' => e # entry
    <3>1. e \in Nat /\ entry \in Nat /\ manifest_stack_height \in Nat
      BY <1>0 DEF TypeOK, Entry
    <3> QED BY <1>0, <3>1 DEF Live, Finish, CallEntry, Releasing, ReleasesTop
  <2>4. e # entry => At' = At
    OBVIOUS
  <2>5. e # entry => Live(e)' = Live(e)
    <3>1. e \in Nat /\ entry \in Nat /\ manifest_stack_height \in Nat
      BY <1>0 DEF TypeOK, Entry
    <3> QED BY <1>0, <3>1 DEF Live, Finish, CallEntry, Releasing, ReleasesTop
  <2>6. pos >= Len(component_map) /\ <<e, i>> \in References(t) => e # entry
    <3>1. Len(component_map) \in Nat /\ pos \in Nat
      BY <1>0 DEF TypeOK, component_map
    <3> QED BY <2>1, <3>1 DEF component_map
  <2> QED BY <2>1, <2>2, <2>3, <2>4, <2>5, <2>6
<1>2. /\ References(t) \subseteq Entry \X (1 .. MaxComponents)
      /\ References(t)' \subseteq Entry \X (1 .. MaxComponents)
  BY DEF References
<1>3. \A r \in Entry \X (1 .. MaxComponents) :
          /\ r \in References(t)' => r \in References(t)
          /\ pos >= Len(component_map) /\ r \in References(t) => r \in References(t)'
  BY <1>1
<1> QED BY <1>2, <1>3
-----------------------------------------------------------------------------
(***************************************************************************)
(* Counting.  An action that keeps a set of references keeps its           *)
(* cardinality; the appended and the released reference change it by one.  *)
(***************************************************************************)
Counted(s) == Cardinality(References(s))

LEMMA AppendCounts ==
    ASSUME RegistryInv, op = "loading", Len(component_map) < MaxComponents,
           NEW s \in Slot, Appended(s), NEW t
    PROVE  Counted(t)' = IF t = s THEN Counted(t) + 1 ELSE Counted(t)
<1>1. IsFiniteSet(References(t))
  BY ReferencesFinite
<1>2. CASE t = s
  <2> DEFINE r == <<entry, Len(component_map) + 1>>
  <2>1. References(t)' = References(t) \cup {r} /\ r \notin References(t)
    BY <1>2, ReferencesAppended
  <2>2. Cardinality(References(t) \cup {r}) = Cardinality(References(t)) + 1
    BY <1>1, <2>1, FS_AddElement
  <2> QED BY <1>2, <2>1, <2>2 DEF Counted
<1>3. CASE t # s
  BY <1>3, ReferencesAppended DEF Counted
<1> QED BY <1>2, <1>3

LEMMA ReleaseCounts ==
    ASSUME RegistryInv, Releasing, pos < Len(component_map), pos' = pos + 1,
           UNCHANGED <<manifest_stack, manifest_stack_height, op, entry>>,
           NEW t
    PROVE  Counted(t)' = IF t = component_map[pos + 1] THEN Counted(t) - 1 ELSE Counted(t)
<1>1. IsFiniteSet(References(t))
  BY ReferencesFinite
<1>2. CASE t = component_map[pos + 1]
  <2> DEFINE r == <<entry, pos + 1>>
  <2>1. References(t)' = References(t) \ {r} /\ r \in References(t)
    BY <1>2, ReferencesReleased
  <2>2. Cardinality(References(t) \ {r}) = Cardinality(References(t)) - 1
    BY <1>1, <2>1, FS_RemoveElement
  <2> QED BY <1>2, <2>1, <2>2 DEF Counted
<1>3. CASE t # component_map[pos + 1]
  BY <1>3, ReferencesReleased DEF Counted
<1> QED BY <1>2, <1>3

LEMMA FinishCounts ==
    ASSUME RegistryInv, ReleasesTop, Releasing, NEW ret, Finish(ret),
           \A e \in Entry : e # entry => manifest_stack'[e] = manifest_stack[e],
           NEW t
    PROVE  /\ Counted(t)' \in Nat /\ Counted(t) \in Nat /\ Counted(t)' <= Counted(t)
           /\ pos >= Len(component_map) => Counted(t)' = Counted(t)
<1>1. IsFiniteSet(References(t)) /\ Counted(t) \in Nat
  BY ReferencesFinite DEF Counted
<1>2. References(t)' \subseteq References(t)
      /\ (pos >= Len(component_map) => References(t)' = References(t))
  BY ReferencesFinished
<1>3. /\ IsFiniteSet(References(t)')
      /\ Cardinality(References(t)') <= Cardinality(References(t))
  BY <1>1, <1>2, FS_Subset
<1>4. Cardinality(References(t)') \in Nat
  BY <1>3, FS_CardinalityType
<1> QED BY <1>1, <1>2, <1>3, <1>4 DEF Counted

(***************************************************************************)
(* How one step moves the count of a slot against its references, in the   *)
(* three ways a step can: both alike, a reference dropped without its      *)
(* count when a release fails half way, or nothing at all.                 *)
(***************************************************************************)
LEMMA CountsStep ==
    ASSUME RegistryInv, ReleasesTop, Next, ~PopDeniedDependency, NEW t \in Slot
    PROVE  \/ /\ components'[t].ref_count = components[t].ref_count
              /\ Counted(t)' = Counted(t)
           \/ /\ components'[t].ref_count = components[t].ref_count + 1
              /\ Counted(t)' = Counted(t) + 1
           \/ /\ components'[t].ref_count = components[t].ref_count - 1
              /\ Counted(t)' = Counted(t) - 1
           \/ /\ components'[t].ref_count = components[t].ref_count
              /\ Counted(t)' <= Counted(t)
              /\ ReleaseMissing \/ \E ret \in ReleaseResults \ {"SUCCESS"} : ReleaseLast(ret)
<1> USE SizesAssumption
<1>0. TypeOK /\ CallEntry /\ PoolInv
  BY DEF RegistryInv
<1>k. ASSUME UNCHANGED components, References(t)' = References(t)
      PROVE  components'[t].ref_count = components[t].ref_count /\ Counted(t)' = Counted(t)
  BY <1>k DEF Counted
<1>1. CASE LoadRefused
  BY <1>1, <1>k, ReferencesKept DEF LoadRefused
<1>2. CASE BeginLoad
  BY <1>2, <1>k, ReferencesKept DEF BeginLoad
<1>3. CASE LoadRejected("ERR_AUTHENTICATION")
  <2>1. \E ret : LoadRejected(ret)
    BY <1>3
  <2> QED BY <1>3, <1>k, <2>1, ReferencesKept DEF LoadRejected
<1>u. ASSUME NEW ret, Unwind(ret), op = "loading"
      PROVE  References(t)' = References(t)
  BY <1>u, ReferencesKept
<1>4. ASSUME NEW id \in ComponentId, NEW dependency \in BOOLEAN,
             AppendComponent(id, dependency)
      PROVE  \/ /\ components'[t].ref_count = components[t].ref_count
                /\ Counted(t)' = Counted(t)
             \/ /\ components'[t].ref_count = components[t].ref_count + 1
                /\ Counted(t)' = Counted(t) + 1
  <2>1. CASE AppendToFullMap
    BY <2>1, <1>u, <1>k DEF AppendToFullMap
  <2>2. CASE AppendWithoutSlot(id)
    BY <2>2, <1>u, <1>k DEF AppendWithoutSlot
  <2>3. CASE AppendExisting(id, dependency)
    <3> DEFINE s == First(Holding(id))
    <3>1. s \in Slot
      BY <2>3, HoldingSlot DEF AppendExisting
    <3>2. CASE components[s].is_dependency = suit_bool(~dependency)
      BY <2>3, <3>2, <1>u, <1>k DEF AppendExisting, OtherKind
    <3>3. CASE components[s].is_dependency # suit_bool(~dependency)
      <4>1. /\ Appended(s) /\ op = "loading" /\ Len(component_map) < MaxComponents
            /\ components' = [components EXCEPT ![s].ref_count = @ + 1,
                                                ![s].is_dependency = suit_bool(dependency)]
        BY <2>3, <3>3 DEF AppendExisting, OtherKind, Referenced
      <4>2. Counted(t)' = IF t = s THEN Counted(t) + 1 ELSE Counted(t)
        BY <3>1, <4>1, AppendCounts
      <4>3. components[t] \in SlotState /\ components[s] \in SlotState
        BY <1>0, <3>1 DEF TypeOK
      <4>4. components'[t].ref_count = IF t = s THEN components[t].ref_count + 1
                                                ELSE components[t].ref_count
        BY <1>0, <3>1, <4>1, <4>3 DEF TypeOK, SlotState
      <4> QED BY <4>2, <4>4
    <3> QED BY <3>2, <3>3
  <2>4. ASSUME NEW ret \in CreateResults, AppendNew(id, dependency, ret)
        PROVE  \/ /\ components'[t].ref_count = components[t].ref_count
                  /\ Counted(t)' = Counted(t)
               \/ /\ components'[t].ref_count = components[t].ref_count + 1
                  /\ Counted(t)' = Counted(t) + 1
    <3> DEFINE s == First(Free)
    <3>1. s \in Slot /\ components[s].ref_count = 0
      BY <2>4, FreeSlot DEF AppendNew, InUse
    <3>2. CASE ret = "SUCCESS"
      <4>1. /\ Appended(s) /\ op = "loading" /\ Len(component_map) < MaxComponents
            /\ components' = [components EXCEPT ![s] =
                  [component_id  |-> id, ref_count |-> 1, is_dependency |-> suit_bool(dependency)]]
        BY <2>4, <3>2 DEF AppendNew
      <4>2. Counted(t)' = IF t = s THEN Counted(t) + 1 ELSE Counted(t)
        BY <3>1, <4>1, AppendCounts
      <4>3. components'[t].ref_count = IF t = s THEN components[t].ref_count + 1
                                                ELSE components[t].ref_count
        BY <1>0, <3>1, <4>1 DEF TypeOK
      <4> QED BY <4>2, <4>3
    <3>3. CASE ret # "SUCCESS"
      <4>1. /\ Unwind(ret) /\ op = "loading"
            /\ components' = [components EXCEPT ![s] = [EmptySlot EXCEPT !.component_id = id]]
        BY <2>4, <3>3 DEF AppendNew
      <4>2. components'[t].ref_count = components[t].ref_count
        BY <1>0, <3>1, <4>1 DEF TypeOK, EmptySlot
      <4>3. References(t)' = References(t)
        BY <1>u, <4>1
      <4> QED BY <4>2, <4>3 DEF Counted
    <3> QED BY <3>2, <3>3
  <2> QED BY <1>4, <2>1, <2>2, <2>3, <2>4 DEF AppendComponent
<1>5. CASE AppendUndecodable
  BY <1>5, <1>u, <1>k DEF AppendUndecodable
<1>6. ASSUME NEW ret \in {"SUCCESS", "ERR_AUTHENTICATION"}, LoadDone(ret)
      PROVE  components'[t].ref_count = components[t].ref_count /\ Counted(t)' = Counted(t)
  <2>1. References(t)' = References(t)
    BY <1>6, ReferencesKept
  <2> QED BY <1>6, <1>k, <2>1 DEF LoadDone
<1>7. CASE PopManifest
  BY <1>7, <1>k, ReferencesKept DEF PopManifest, BeginRelease
<1>8. CASE PopDeniedDependency
  BY <1>8
<1>9. CASE ReleaseMissing
  <2>1. /\ Finish("ERR_MISSING_COMPONENT") /\ Releasing /\ UNCHANGED components
        /\ \A e \in Entry : e # entry => manifest_stack'[e] = manifest_stack[e]
    BY <1>9 DEF ReleaseMissing
  <2>2. Counted(t)' <= Counted(t)
    BY <2>1, FinishCounts
  <2> QED BY <1>9, <2>1, <2>2
<1>10. CASE ReleaseShared
  <2> DEFINE s == component_map[pos + 1]
  <2>1. /\ Releasing /\ pos < Len(component_map) /\ pos' = pos + 1
        /\ UNCHANGED <<manifest_stack, manifest_stack_height, op, entry>>
        /\ components' = [components EXCEPT ![s].ref_count = @ - 1]
    BY <1>10 DEF ReleaseShared
  <2>2. s \in Slot
    BY <1>0, <2>1, MapSlot
  <2>3. Counted(t)' = IF t = s THEN Counted(t) - 1 ELSE Counted(t)
    BY <2>1, ReleaseCounts
  <2>4. components[t] \in SlotState /\ components[s] \in SlotState
    BY <1>0, <2>2 DEF TypeOK
  <2>5. components'[t].ref_count = IF t = s THEN components[t].ref_count - 1
                                            ELSE components[t].ref_count
    BY <1>0, <2>1, <2>2, <2>4 DEF TypeOK, SlotState
  <2> QED BY <2>3, <2>5
<1>11. ASSUME NEW ret \in ReleaseResults, ReleaseLast(ret), ret = "SUCCESS"
       PROVE  \/ /\ components'[t].ref_count = components[t].ref_count
                 /\ Counted(t)' = Counted(t)
              \/ /\ components'[t].ref_count = components[t].ref_count - 1
                 /\ Counted(t)' = Counted(t) - 1
  <2> DEFINE s == component_map[pos + 1]
  <2>1. /\ Releasing /\ pos < Len(component_map) /\ pos' = pos + 1
        /\ UNCHANGED <<manifest_stack, manifest_stack_height, op, entry>>
        /\ components[s].ref_count = 1
        /\ components' = [components EXCEPT ![s].ref_count = 0, ![s].is_dependency = "unset"]
    BY <1>11 DEF ReleaseLast
  <2>2. s \in Slot
    BY <1>0, <2>1, MapSlot
  <2>3. Counted(t)' = IF t = s THEN Counted(t) - 1 ELSE Counted(t)
    BY <2>1, ReleaseCounts
  <2>4. components[t] \in SlotState /\ components[s] \in SlotState
    BY <1>0, <2>2 DEF TypeOK
  <2>5. components'[t].ref_count = IF t = s THEN components[t].ref_count - 1
                                            ELSE components[t].ref_count
    BY <1>0, <2>1, <2>2, <2>4 DEF TypeOK, SlotState
  <2> QED BY <2>3, <2>5
<1>12. ASSUME NEW ret \in ReleaseResults, ReleaseLast(ret), ret # "SUCCESS"
       PROVE  components'[t].ref_count = components[t].ref_count /\ Counted(t)' <= Counted(t)
  <2>1. /\ Finish(ret) /\ Releasing /\ UNCHANGED components
        /\ \A e \in Entry : e # entry => manifest_stack'[e] = manifest_stack[e]
    BY <1>12 DEF ReleaseLast
  <2> QED BY <2>1, FinishCounts
<1>13. CASE ReleaseDone
  <2>1. /\ Finish("SUCCESS") /\ Releasing /\ UNCHANGED components
        /\ pos >= Len(component_map)
        /\ \A e \in Entry : e # entry => manifest_stack'[e] = manifest_stack[e]
    BY <1>0, <1>13 DEF ReleaseDone, TypeOK
  <2>2. Counted(t)' = Counted(t)
    BY <2>1, FinishCounts
  <2> QED BY <2>1, <2>2
<1> QED
  BY <1>1, <1>2, <1>3, <1>4, <1>5, <1>6, <1>7, <1>8, <1>9, <1>10, <1>11, <1>12, <1>13
     DEF Next, ReleaseStep

-----------------------------------------------------------------------------
LEMMA CountsInit ==
    ASSUME Init, NEW s \in Slot
    PROVE  components[s].ref_count = 0 /\ Counted(s) = 0
<1>1. References(s) = {}
  <2>1. \A e \in Entry : Len(manifest_stack[e]) = 0
    BY DEF Init
  <2>2. \A r \in Entry \X (1 .. MaxComponents) : r[2] > 0 /\ r[1] \in Entry
    BY SizesAssumption
  <2> QED BY <2>1, <2>2 DEF References
<1>2. Cardinality({}) = 0
  BY FS_EmptySet
<1> QED BY <1>1, <1>2 DEF Init, EmptySlot, Counted

\* Callers that release the top go on doing so.
LEMMA TopStep ==
    ASSUME RegistryInv, ReleasesTop, Next, ~PopDeniedDependency
    PROVE  ReleasesTop'
<1> SUFFICES ASSUME op' = "releasing" PROVE entry' = manifest_stack_height' - 1
  BY DEF ReleasesTop
<1>1. CASE op = "releasing"
  <2>1. op' = op => entry' = entry /\ manifest_stack_height' = manifest_stack_height
    BY <1>1 DEF Next, LoadRefused, BeginLoad, LoadRejected, AppendComponent, AppendToFullMap,
       AppendExisting, AppendNew, AppendWithoutSlot, AppendUndecodable, LoadDone,
       PopManifest, BeginRelease, ReleaseStep, ReleaseMissing, ReleaseShared, ReleaseLast,
       ReleaseDone, Finish
  <2> QED BY <1>1, <2>1 DEF ReleasesTop
<1>2. CASE op # "releasing"
  <2>1. PopManifest
    BY <1>2 DEF Next, LoadRefused, BeginLoad, LoadRejected, AppendComponent, AppendToFullMap,
       AppendExisting, AppendNew, AppendWithoutSlot, AppendUndecodable, LoadDone, Unwind, Appended,
       ReleaseStep, ReleaseMissing, ReleaseShared, ReleaseLast, ReleaseDone, Finish
  <2> QED BY <2>1 DEF PopManifest, BeginRelease
<1> QED BY <1>1, <1>2

\* An empty registry counts nothing and releases nothing.
LEMMA NothingDangles == Init => ReleasesTop /\ NoDanglingReference
BY CountsInit DEF Init, ReleasesTop, NoDanglingReference, Counted

\* While the top is released, no step drops a count that a manifest on the stack
\* relies on.
LEMMA DanglingStep ==
    ASSUME RegistryInv, ReleasesTop, NoDanglingReference, Next, ~PopDeniedDependency
    PROVE  NoDanglingReference'
<1> SUFFICES ASSUME NEW s \in Slot
             PROVE  Counted(s)' <= components'[s].ref_count
  BY DEF NoDanglingReference, Counted
<1>1. Counted(s) <= components[s].ref_count /\ Counted(s) \in Nat
  BY ReferencesFinite DEF NoDanglingReference, Counted
<1>2. components[s].ref_count \in Nat
  BY DEF RegistryInv, TypeOK, SlotState
<1>3. Counted(s)' \in Nat
  BY ReferencesStillFinite DEF Counted
<1> QED BY <1>1, <1>2, <1>3, CountsStep

(***************************************************************************)
(* With the history: as long as no dependency was denied, the entry that   *)
(* is released is the top of the stack.                                    *)
(***************************************************************************)
UndeniedReleasesTop == ~Denied => ReleasesTop

LEMMA HistoryRefines == SpecHistory => Spec
<1>1. InitHistory => Init
  BY DEF InitHistory
<1>2. [NextHistory]_history_vars => [Next]_vars
  BY DEF NextHistory, history_vars
<1> QED BY <1>1, <1>2, PTL DEF SpecHistory, Spec

\* A step that adds no mishap is one that CountsStep knows about.
LEMMA DenialIsRecorded ==
    ASSUME RegistryInv, NextHistory, ~Denied'
    PROVE  ~Denied /\ Next /\ ~PopDeniedDependency
<1>1. Next /\ ~DeniedDependency /\ ~Denied
  BY DEF NextHistory, Mishaps, Denied
<1>2. manifest_stack_height \in Nat
  BY SizesAssumption DEF RegistryInv, TypeOK
<1> QED BY <1>1, <1>2 DEF PopDeniedDependency, BeginRelease, DeniedDependency

LEMMA TopReleased == SpecHistory => []UndeniedReleasesTop
<1>1. InitHistory => UndeniedReleasesTop
  BY DEF InitHistory, Init, UndeniedReleasesTop, ReleasesTop
<1>2. RegistryInv /\ UndeniedReleasesTop /\ [NextHistory]_history_vars => UndeniedReleasesTop'
  <2>1. ASSUME UndeniedReleasesTop, UNCHANGED history_vars PROVE UndeniedReleasesTop'
    BY <2>1 DEF history_vars, vars, UndeniedReleasesTop, ReleasesTop, Denied
  <2>2. ASSUME RegistryInv, UndeniedReleasesTop, NextHistory PROVE UndeniedReleasesTop'
    BY <2>2, DenialIsRecorded, TopStep DEF UndeniedReleasesTop
  <2> QED BY <2>1, <2>2
<1> QED BY <1>1, <1>2, HistoryRefines, RegistryInvariant, PTL DEF SpecHistory

(***************************************************************************)
(* A manifest on the stack never refers to a slot that the registry may    *)
(* hand out again: every reference is counted, even when the platform      *)
(* refuses to create a component or fails to release one half way, until a *)
(* dependency is denied: then suit_directive_process_dependency releases   *)
(* its parent twice.                                                       *)
(***************************************************************************)
THEOREM ReferencesCounted == SpecHistory => []NoDanglingUnlessDenied
<1>1. InitHistory => NoDanglingUnlessDenied
  BY CountsInit DEF InitHistory, NoDanglingUnlessDenied, NoDanglingReference, Counted
<1>2. RegistryInv /\ UndeniedReleasesTop /\ NoDanglingUnlessDenied /\ [NextHistory]_history_vars
          => NoDanglingUnlessDenied'
  <2>1. ASSUME NoDanglingUnlessDenied, RegistryInv, UNCHANGED history_vars
        PROVE  NoDanglingUnlessDenied'
    <3>1. UNCHANGED vars /\ UNCHANGED mishaps
      BY <2>1 DEF history_vars
    <3>2. \A s : References(s)' = References(s)
      BY <2>1, <3>1, ReferencesKept
    <3> QED BY <2>1, <3>1, <3>2 DEF vars, NoDanglingUnlessDenied, NoDanglingReference, Denied, Slot
  <2>2. ASSUME RegistryInv, UndeniedReleasesTop, NoDanglingUnlessDenied, NextHistory
        PROVE  NoDanglingUnlessDenied'
    BY <2>2, DenialIsRecorded, DanglingStep DEF UndeniedReleasesTop, NoDanglingUnlessDenied
  <2> QED BY <2>1, <2>2
<1> QED BY <1>1, <1>2, HistoryRefines, RegistryInvariant, TopReleased, PTL DEF SpecHistory

(***************************************************************************)
(* As long as the platform in addition releases what it is told to, the    *)
(* counts are exact: failed loads, shared components and components listed *)
(* twice neither leak a slot nor free one too early.                       *)
(***************************************************************************)
THEOREM CountsAreExact == SpecHistory => []ExactUntilMishap
<1>1. InitHistory => ExactUntilMishap
  BY CountsInit DEF InitHistory, ExactUntilMishap, CountsExact, Counted
<1>2. RegistryInv /\ UndeniedReleasesTop /\ ExactUntilMishap /\ [NextHistory]_history_vars
          => ExactUntilMishap'
  <2> SUFFICES ASSUME RegistryInv, UndeniedReleasesTop, ExactUntilMishap,
                      [NextHistory]_history_vars, mishaps' = {}, NEW s \in Slot
               PROVE  components'[s].ref_count = Counted(s)'
    BY DEF ExactUntilMishap, CountsExact, Counted
  <2>2. CASE UNCHANGED history_vars
    <3>1. UNCHANGED vars /\ UNCHANGED mishaps
      BY <2>2 DEF history_vars
    <3>2. References(s)' = References(s)
      BY <3>1, ReferencesKept
    <3>3. components[s].ref_count = Counted(s)
      BY <3>1 DEF ExactUntilMishap, CountsExact, Counted
    <3> QED BY <3>1, <3>2, <3>3 DEF vars, Counted
  <2>3. CASE NextHistory
    <3>0. Next /\ ~PopDeniedDependency /\ ReleasesTop
      <4>1. ~Denied'
        BY DEF Denied
      <4> QED BY <2>3, <4>1, DenialIsRecorded DEF UndeniedReleasesTop
    <3>1. CountsExact /\ ~RefusedRelease
      BY <2>3 DEF NextHistory, Mishaps, ExactUntilMishap
    <3>2. ~ ReleaseMissing
      <4> SUFFICES ASSUME ReleaseMissing PROVE FALSE
        OBVIOUS
      <4> DEFINE m == component_map[pos + 1]
      <4>1. m \in Slot /\ components[m].ref_count = 0
        BY MapSlot DEF RegistryInv, ReleaseMissing, InUse
      <4>2. <<entry, pos + 1>> \in References(m)
        <5>1. entry \in Entry /\ pos + 1 \in 1 .. MaxComponents /\ pos + 1 > pos
              /\ pos + 1 <= Len(component_map)
          <6>1. Len(component_map) \in Nat /\ pos \in Nat /\ entry \in Entry
            BY SizesAssumption DEF RegistryInv, TypeOK, component_map
          <6> QED BY <6>1, MapSlot DEF ReleaseMissing, RegistryInv
        <5> QED BY <5>1 DEF ReleaseMissing, Releasing, References, Live, component_map
      <4>3. Cardinality(References(m)) # 0
        BY <4>2, ReferencesFinite, FS_EmptySet
      <4> QED BY <3>1, <4>1, <4>3 DEF CountsExact
    <3>3. ~ \E ret \in ReleaseResults \ {"SUCCESS"} : ReleaseLast(ret)
      BY <3>1 DEF RefusedRelease, ReleaseLast, Finish, InUse
    <3>4. components[s].ref_count = Counted(s)
      BY <3>1 DEF CountsExact, Counted
    <3> QED BY <3>0, <3>2, <3>3, <3>4, CountsStep
  <2> QED BY <2>2, <2>3
<1> QED BY <1>1, <1>2, HistoryRefines, RegistryInvariant, TopReleased, PTL DEF SpecHistory

(***************************************************************************)
(* So the pool is empty when no manifest is left: no parameter and no      *)
(* integrity flag survives from one suit_process_sequence to the next.     *)
(***************************************************************************)
THEOREM PoolEmpties == SpecHistory => []PoolEmptyUntilMishap
<1>1. RegistryInv /\ ExactUntilMishap => PoolEmptyUntilMishap
  <2> SUFFICES ASSUME RegistryInv, CountsExact, op = "none", manifest_stack_height = 0,
                      NEW s \in Slot
               PROVE  ~InUse(s)
    BY DEF ExactUntilMishap, PoolEmptyUntilMishap, PoolEmptyWhenIdle
  <2>1. \A e \in Entry : ~Live(e)
    BY DEF Live, Entry
  <2>2. References(s) = {}
    BY <2>1 DEF References
  <2>3. components[s].ref_count = 0
    BY <2>2, FS_EmptySet DEF CountsExact
  <2> QED BY <2>3 DEF InUse
<1> QED BY <1>1, HistoryRefines, RegistryInvariant, CountsAreExact, PTL

\* What every step keeps of a slot that is in use before and after it.
SlotsStay == \A s \in Slot :
                (InUse(s) /\ components'[s].ref_count # 0) =>
                    /\ components'[s].component_id = components[s].component_id
                    /\ components'[s].is_dependency = components[s].is_dependency

LEMMA IdentityStep ==
    ASSUME RegistryInv, Next
    PROVE  SlotsStay
<1> SUFFICES ASSUME NEW s \in Slot, InUse(s), components'[s].ref_count # 0
             PROVE  /\ components'[s].component_id = components[s].component_id
                    /\ components'[s].is_dependency = components[s].is_dependency
  BY DEF SlotsStay
<1>0. TypeOK /\ SlotsFilled /\ components[s] \in SlotState
  BY DEF RegistryInv, PoolInv, TypeOK
<1>k. ASSUME UNCHANGED components
      PROVE  /\ components'[s].component_id = components[s].component_id
             /\ components'[s].is_dependency = components[s].is_dependency
  BY <1>k
<1>1. ASSUME NEW id \in ComponentId, NEW dependency \in BOOLEAN,
             AppendExisting(id, dependency)
      PROVE  /\ components'[s].component_id = components[s].component_id
             /\ components'[s].is_dependency = components[s].is_dependency
  <2> DEFINE t == First(Holding(id))
  <2>1. t \in Slot /\ InUse(t)
    BY <1>1, HoldingSlot DEF AppendExisting
  <2>2. components[t].is_dependency \in {"false", "true"} /\ components[t] \in SlotState
    BY <1>0, <2>1 DEF SlotsFilled, TypeOK, SlotState
  <2>3. CASE components[t].is_dependency = suit_bool(~dependency)
    BY <1>1, <1>k, <2>3 DEF AppendExisting, OtherKind
  <2>4. CASE components[t].is_dependency # suit_bool(~dependency)
    <3>1. components[t].is_dependency = suit_bool(dependency)
      BY <2>2, <2>4 DEF suit_bool
    <3>2. components' = [components EXCEPT ![t].ref_count = @ + 1,
                                           ![t].is_dependency = suit_bool(dependency)]
      BY <1>1, <2>4 DEF AppendExisting, OtherKind, Referenced
    <3> QED BY <1>0, <2>1, <2>2, <3>1, <3>2 DEF TypeOK, SlotState
  <2> QED BY <2>3, <2>4
<1>2. ASSUME NEW id \in ComponentId, NEW dependency \in BOOLEAN, NEW ret \in CreateResults,
             AppendNew(id, dependency, ret)
      PROVE  /\ components'[s].component_id = components[s].component_id
             /\ components'[s].is_dependency = components[s].is_dependency
  <2>1. First(Free) \in Slot /\ First(Free) # s
    BY <1>2, FreeSlot DEF AppendNew
  <2>2. components'[s] = components[s]
    BY <1>0, <1>2, <2>1 DEF AppendNew, TypeOK
  <2> QED BY <2>2
<1>3. ASSUME NEW id \in ComponentId, NEW dependency \in BOOLEAN,
             AppendComponent(id, dependency)
      PROVE  /\ components'[s].component_id = components[s].component_id
             /\ components'[s].is_dependency = components[s].is_dependency
  BY <1>3, <1>1, <1>2, <1>k DEF AppendComponent, AppendToFullMap, AppendWithoutSlot
<1>4. CASE ReleaseShared
  <2>1. component_map[pos + 1] \in Slot
    BY <1>0, <1>4, MapSlot DEF ReleaseShared
  <2> QED BY <1>0, <1>4, <2>1 DEF ReleaseShared, TypeOK, SlotState
<1>5. ASSUME NEW ret \in ReleaseResults, ReleaseLast(ret)
      PROVE  /\ components'[s].component_id = components[s].component_id
             /\ components'[s].is_dependency = components[s].is_dependency
  <2> DEFINE t == component_map[pos + 1]
  <2>1. t \in Slot
    BY <1>0, <1>5, MapSlot DEF ReleaseLast
  <2>2. CASE ret # "SUCCESS"
    BY <1>5, <1>k, <2>2 DEF ReleaseLast
  <2>3. CASE ret = "SUCCESS"
    <3>1. components' = [components EXCEPT ![t].ref_count = 0, ![t].is_dependency = "unset"]
      BY <1>5, <2>3 DEF ReleaseLast
    <3>2. components[t] \in SlotState
      BY <1>0, <2>1 DEF TypeOK
    <3>3. components'[t].ref_count = 0
      BY <1>0, <2>1, <3>1, <3>2 DEF TypeOK, SlotState
    <3>4. components'[s] = components[s]
      BY <1>0, <2>1, <3>1, <3>3 DEF TypeOK
    <3> QED BY <3>4
  <2> QED BY <2>2, <2>3
<1>6. CASE \/ LoadRefused \/ BeginLoad \/ LoadRejected("ERR_AUTHENTICATION")
           \/ AppendUndecodable \/ \E ret \in {"SUCCESS", "ERR_AUTHENTICATION"} : LoadDone(ret)
           \/ PopManifest \/ PopDeniedDependency \/ ReleaseMissing \/ ReleaseDone
  BY <1>6, <1>k DEF LoadRefused, BeginLoad, LoadRejected, AppendUndecodable, LoadDone,
     PopManifest, PopDeniedDependency, BeginRelease, ReleaseMissing, ReleaseDone
<1> QED BY <1>3, <1>4, <1>5, <1>6 DEF Next, ReleaseStep

(***************************************************************************)
(* A component keeps its identity and its kind while it is referenced: no  *)
(* manifest can turn the dependency of another one into a plain component, *)
(* whatever the platform answers.                                          *)
(***************************************************************************)
THEOREM IdentityIsStable == Spec => IdentityStable
<1>1. RegistryInv /\ [Next]_vars => [SlotsStay]_vars
  BY IdentityStep
<1> QED BY <1>1, RegistryInvariant, PTL DEF Spec, IdentityStable, SlotsStay

\* What a manifest refers to is in use while no reference dangles.
LEMMA ReferencedInUse ==
    ASSUME NoDanglingReference, NEW s \in Slot, NEW r \in References(s)
    PROVE  InUse(s)
<1>1. IsFiniteSet(References(s)) /\ Cardinality(References(s)) \in Nat
  BY ReferencesFinite
<1>2. Cardinality(References(s)) # 0
  BY <1>1, FS_EmptySet
<1>3. Cardinality(References(s)) <= components[s].ref_count
  BY DEF NoDanglingReference
<1> QED BY <1>1, <1>2, <1>3 DEF InUse

\* So every component of a manifest on the stack has a kind.
LEMMA MappedIsFilled ==
    ASSUME RegistryInv, NoDanglingReference, NEW e \in Entry, e < manifest_stack_height,
           op # "none" => e # entry, NEW i \in 1 .. Len(manifest_stack[e])
    PROVE  LET s == manifest_stack[e][i] IN
           InUse(s) /\ components[s].is_dependency \in {"true", "false"}
<1> DEFINE s == manifest_stack[e][i]
<1>1. TypeOK
  BY DEF RegistryInv
<1>2. s \in Slot /\ i \in 1 .. MaxComponents
  <2>1. /\ manifest_stack[e] \in Seq(Slot) /\ Len(manifest_stack[e]) <= MaxComponents
        /\ Len(manifest_stack[e]) \in Nat
    BY <1>1, LenProperties DEF TypeOK
  <2> QED BY <2>1, ElementOfSeq, SizesAssumption
<1>3. <<e, i>> \in References(s)
  BY <1>2 DEF References, Live, Releasing
<1>4. InUse(s)
  BY <1>2, <1>3, ReferencedInUse
<1> QED BY <1>1, <1>2, <1>4 DEF RegistryInv, PoolInv, SlotsFilled, TypeOK, SlotState

\* And a release runs to the end, if the platform lets go of the handles.
LEMMA ReleaseSucceeds ==
    ASSUME RegistryInv, NoDanglingReference, ReleaseResults \subseteq {"SUCCESS"},
           op = "releasing", Next, op' = "none"
    PROVE  op_ret' = "SUCCESS"
<1>1. ReleaseStep
  BY DEF Next, LoadRefused, BeginLoad, LoadRejected, AppendComponent, AppendToFullMap,
     AppendExisting, AppendNew, AppendWithoutSlot, AppendUndecodable, LoadDone, PopManifest,
     PopDeniedDependency, BeginRelease
<1>2. CASE ReleaseMissing
  <2> DEFINE s == component_map[pos + 1]
  <2>1. TypeOK /\ entry \in Entry
    BY DEF RegistryInv, TypeOK
  <2>2. /\ component_map \in Seq(Slot) /\ Len(component_map) <= MaxComponents
        /\ Len(component_map) \in Nat /\ pos \in Nat /\ pos < Len(component_map)
    BY <1>2, <2>1, LenProperties DEF TypeOK, component_map, ReleaseMissing
  <2>3. pos + 1 \in 1 .. Len(component_map) /\ pos + 1 \in 1 .. MaxComponents
    BY <2>2, SizesAssumption
  <2>4. s \in Slot
    BY <2>2, <2>3, ElementOfSeq
  <2>5. <<entry, pos + 1>> \in References(s)
    BY <2>1, <2>2, <2>3 DEF References, Live, Releasing, component_map
  <2>6. InUse(s)
    BY <2>4, <2>5, ReferencedInUse
  <2> QED BY <1>2, <2>6 DEF ReleaseMissing
<1>3. CASE ~ReleaseMissing
  BY <1>1, <1>3 DEF ReleaseStep, ReleaseShared, ReleaseLast, ReleaseDone, Finish
<1> QED BY <1>2, <1>3

\* A manifest on the stack that is not being released keeps its components.
LEMMA ManifestStays ==
    ASSUME RegistryInv, NoDanglingReference, NoDanglingReference', Next,
           NEW e \in Entry, e < manifest_stack_height, e < manifest_stack_height',
           op # "none" => e # entry, op' # "none" => e # entry'
    PROVE  /\ manifest_stack'[e] = manifest_stack[e]
           /\ \A i \in 1 .. Len(manifest_stack[e]) :
                 LET s == manifest_stack[e][i] IN
                 /\ components'[s].component_id = components[s].component_id
                 /\ components'[s].is_dependency = components[s].is_dependency
<1>0. TypeOK
  BY DEF RegistryInv
<1>1. manifest_stack'[e] = manifest_stack[e]
  <2>1. ASSUME op = "none" PROVE manifest_stack'[e] = manifest_stack[e]
    <3>1. CASE BeginLoad
      <4>1. e # manifest_stack_height
        BY SizesAssumption DEF Entry
      <4> QED BY <1>0, <3>1, <4>1 DEF BeginLoad, TypeOK
    <3>2. CASE ~BeginLoad
      BY <2>1, <3>2 DEF Next, LoadRefused, LoadRejected, AppendComponent, AppendToFullMap,
         AppendExisting, AppendNew, AppendWithoutSlot, AppendUndecodable, LoadDone, PopManifest,
         PopDeniedDependency, BeginRelease, ReleaseStep, ReleaseMissing, ReleaseShared,
         ReleaseLast, ReleaseDone, Releasing
    <3> QED BY <3>1, <3>2
  <2>2. ASSUME op # "none" PROVE manifest_stack'[e] = manifest_stack[e]
    <3>1. \/ UNCHANGED manifest_stack
          \/ \E s : Appended(s)
          \/ ReleaseDone
      BY <2>2 DEF Next, LoadRefused, BeginLoad, LoadRejected, AppendComponent, AppendToFullMap,
         AppendExisting, AppendNew, AppendWithoutSlot, AppendUndecodable, LoadDone, Unwind,
         PopManifest, PopDeniedDependency, BeginRelease, ReleaseStep, ReleaseMissing, ReleaseShared,
         ReleaseLast
    <3> QED BY <1>0, <2>2, <3>1 DEF Appended, ReleaseDone, TypeOK
  <2> QED BY <2>1, <2>2
<1>2. ASSUME NEW i \in 1 .. Len(manifest_stack[e]), NEW s, s = manifest_stack[e][i]
      PROVE  /\ components'[s].component_id = components[s].component_id
             /\ components'[s].is_dependency = components[s].is_dependency
  <2>1. s \in Slot /\ i \in 1 .. MaxComponents
    <3>1. /\ manifest_stack[e] \in Seq(Slot) /\ Len(manifest_stack[e]) <= MaxComponents
          /\ Len(manifest_stack[e]) \in Nat
      BY <1>0, LenProperties DEF TypeOK
    <3> QED BY <1>2, <3>1, ElementOfSeq, SizesAssumption
  <2>2. <<e, i>> \in References(s)
    BY <1>2, <2>1 DEF References, Live, Releasing
  <2>3. <<e, i>> \in References(s)'
    BY <1>1, <1>2, <2>1 DEF References, Live, Releasing
  <2>4. Cardinality(References(s)) <= components[s].ref_count
        /\ Cardinality(References(s)') <= components'[s].ref_count
    BY <2>1 DEF NoDanglingReference
  <2>5. ASSUME NEW S, IsFiniteSet(S), <<e, i>> \in S PROVE ~(Cardinality(S) <= 0)
    <3>1. Cardinality(S) \in Nat /\ Cardinality(S) # 0
      BY <2>5, FS_CardinalityType, FS_EmptySet
    <3> QED BY <3>1
  <2>6. InUse(s) /\ components'[s].ref_count # 0
    <3>1. IsFiniteSet(References(s)) /\ IsFiniteSet(References(s)')
      BY ReferencesFinite, ReferencesStillFinite
    <3> QED BY <2>2, <2>3, <2>4, <2>5, <3>1 DEF InUse
  <2> QED BY <2>1, <2>6, IdentityStep DEF SlotsStay
<1> QED BY <1>1, <1>2

\* References that leaked stay leaked.
LEMMA LeakStays ==
    ASSUME RegistryInv, ReleasesTop, Next, ~PopDeniedDependency, NEW s \in Slot,
           components[s].ref_count > Counted(s)
    PROVE  components'[s].ref_count > Counted(s)'
<1>1. components[s].ref_count \in Nat
  BY DEF RegistryInv, TypeOK, SlotState
<1>2. Counted(s) \in Nat /\ Counted(s)' \in Nat
  BY ReferencesFinite, ReferencesStillFinite, FS_CardinalityType DEF Counted
<1>3. \/ /\ components'[s].ref_count = components[s].ref_count
         /\ Counted(s)' <= Counted(s)
      \/ /\ components'[s].ref_count = components[s].ref_count + 1
         /\ Counted(s)' = Counted(s) + 1
      \/ /\ components'[s].ref_count = components[s].ref_count - 1
         /\ Counted(s)' = Counted(s) - 1
  BY <1>2, CountsStep
<1> QED BY <1>1, <1>2, <1>3

\* Only a manifest that is being loaded takes a slot into use.
LEMMA OthersTakeNone ==
    ASSUME RegistryInv, Next, op # "loading", NEW s \in Slot, ~InUse(s)
    PROVE  components'[s].ref_count = 0
<1>1. TypeOK
  BY DEF RegistryInv
<1>2. CASE ReleaseShared
  <2>1. component_map[pos + 1] \in Slot /\ component_map[pos + 1] # s
    BY <1>1, <1>2, MapSlot DEF ReleaseShared, InUse
  <2> QED BY <1>1, <1>2, <2>1 DEF ReleaseShared, TypeOK, InUse
<1>3. CASE \E ret \in ReleaseResults : ReleaseLast(ret)
  <2>1. component_map[pos + 1] \in Slot /\ component_map[pos + 1] # s
    BY <1>1, <1>3, MapSlot DEF ReleaseLast, InUse
  <2> QED BY <1>1, <1>3, <2>1 DEF ReleaseLast, TypeOK, InUse
<1>4. CASE UNCHANGED components
  BY <1>4 DEF InUse
<1>5. ReleaseShared \/ (\E ret \in ReleaseResults : ReleaseLast(ret)) \/ UNCHANGED components
  BY DEF Next, LoadRefused, BeginLoad, LoadRejected, AppendComponent, AppendToFullMap,
     AppendExisting, AppendNew, AppendWithoutSlot, AppendUndecodable, LoadDone, PopManifest,
     PopDeniedDependency, BeginRelease, ReleaseStep, ReleaseMissing, ReleaseDone
<1> QED BY <1>2, <1>3, <1>4, <1>5
=============================================================================
