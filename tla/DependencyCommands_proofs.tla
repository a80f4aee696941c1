----------------------- MODULE DependencyCommands_proofs -----------------------
(***************************************************************************)
(* The commands that load a dependency are resumed where they were left.   *)
(*                                                                         *)
(* dependency-integrity and process-dependency pass their early returns    *)
(* again whenever they are resumed, with other manifests loaded, executed  *)
(* and released in between.  Nothing of what they test has changed then,   *)
(* but for one thing, which is in the hands of the manifests: the flag     *)
(* integrity_checked of the component that is being processed.             *)
(*                                                                         *)
(* What they promise then, on a platform that denies no dependency: the    *)
(* integrity condition never fails but softly, and the manifest that is    *)
(* executed is the one that was checked.                                   *)
(***************************************************************************)
EXTENDS Processor_proofs

\* A frame that is in the middle of a dependency command, in the program c.
IsWaiting(c, f) == AtDependency(c, f) /\ f.cmd_exec_state # 0

\* It is where it was.
SamePlace(g, f) ==
    /\ g.cmd_seq = f.cmd_seq
    /\ g.current_command = f.current_command
    /\ g.current_component_idx = f.current_component_idx
    /\ g.manifest = f.manifest

\* What the frame f, at position k of the stack, relies on when it is resumed: its
\* component is the dependency it was, and no early return applies.
PlacedAt(f, k) ==
    /\ f.current_component_idx \in Indexes(f)
    /\ IsDependency(SlotOf(f, f.current_component_idx))
    /\ f.current_command = 0 /\ Len(manifest_stack[f.manifest]) # 1 => k > 1
    /\ Command(f).op = "dependency_integrity" => ~dry_run

Placed == \A k \in Frames : IsWaiting(code, seq_stack[k]) => PlacedAt(seq_stack[k], k)

-----------------------------------------------------------------------------
(***************************************************************************)
(* What the steps do to the frames that wait.                              *)
(***************************************************************************)
\* No frame begins to wait, and those that wait stay in place.
WaitersStay ==
    \A k \in 1 .. Len(seq_stack') :
        IsWaiting(code, seq_stack'[k]) =>
            /\ k \in 1 .. Len(seq_stack)
            /\ IsWaiting(code, seq_stack[k])
            /\ SamePlace(seq_stack'[k], seq_stack[k])

Undisturbed(g) == IsWaiting(code, g) => IsWaiting(code, Top) /\ SamePlace(g, Top)

LEMMA TurnWaits ==
    ASSUME StackReady, NEW g \in F, Undisturbed(g), Continue(g)
    PROVE  WaitersStay
<1>1. /\ seq_stack \in Seq(F) /\ Top = seq_stack[Len(seq_stack)] /\ Running
  BY ReadyIsTyped DEF StackReady
<1>2. /\ Len(seq_stack') = Len(seq_stack)
      /\ \A k \in 1 .. Len(seq_stack) :
            seq_stack'[k] = IF k = Len(seq_stack) THEN g ELSE seq_stack[k]
  BY <1>1, ContinuedStack
<1> QED BY <1>1, <1>2 DEF WaitersStay, Undisturbed, SamePlace

LEMMA DescendWaits ==
    ASSUME StackReady, NEW g \in F, Undisturbed(g), NEW h \in F, h.cmd_exec_state = 0,
           seq_stack' = Append([seq_stack EXCEPT ![Len(seq_stack)] = g], h)
    PROVE  WaitersStay
<1> DEFINE n == Len(seq_stack)
           s == [seq_stack EXCEPT ![n] = g]
<1>1. /\ seq_stack \in Seq(F) /\ Top = seq_stack[n] /\ n \in Nat \ {0}
  BY ReadyIsTyped
<1>2. n \in 1 .. n
  BY <1>1
<1>3. /\ s \in Seq(F) /\ Len(s) = n
      /\ \A k \in 1 .. n : s[k] = IF k = n THEN g ELSE seq_stack[k]
      /\ seq_stack' = Append(s, h)
  BY <1>1, <1>2, ExceptSeq
<1> HIDE DEF s
<1>4. /\ Len(seq_stack') = n + 1
      /\ \A k \in 1 .. n : seq_stack'[k] = s[k]
      /\ seq_stack'[n + 1] = h
  BY <1>3, AppendProperties
<1>5. ASSUME NEW k \in 1 .. n + 1, IsWaiting(code, seq_stack'[k])
      PROVE  /\ k \in 1 .. n /\ IsWaiting(code, seq_stack[k])
             /\ SamePlace(seq_stack'[k], seq_stack[k])
  <2>1. k # n + 1
    BY <1>4, <1>5 DEF IsWaiting
  <2>2. k \in 1 .. n
    BY <1>1, <2>1
  <2>3. seq_stack'[k] = IF k = n THEN g ELSE seq_stack[k]
    BY <1>3, <1>4, <2>2
  <2> QED BY <1>1, <1>5, <2>2, <2>3 DEF Undisturbed, SamePlace
<1> QED BY <1>4, <1>5 DEF WaitersStay

LEMMA PopWaits ==
    ASSUME StackReady, NEW r \in Retvals, FinishesAs(r)
    PROVE  WaitersStay
<1>1. PICK g \in F : SameOwner(g, Top) /\ Finalize(g, r)
  BY DEF FinishesAs
<1>2. /\ Len(seq_stack) = 1 => seq_stack' = <<>> /\ seq_ret' = Result(g, r)
      /\ Len(seq_stack) > 1 =>
            LET n == Len(seq_stack) - 1 IN
            /\ seq_stack' \in Seq(FrameType(Retvals)) /\ Len(seq_stack') = n
            /\ \A k \in 1 .. n - 1 : seq_stack'[k] = seq_stack[k]
            /\ seq_stack'[n] = [seq_stack[n] EXCEPT
                   !.retval = Result(g, r), !.current_components = g.current_components]
            /\ seq_ret' = "ERR_AGAIN"
  <2>1. /\ seq_stack \in Seq(FrameType(Retvals)) /\ g \in FrameType(Retvals) /\ Running
        /\ "FAIL_SOFT_CONDITION" \in Retvals /\ Finalize(g, r) /\ r \in Retvals
    BY <1>1, ReadyIsTyped DEF F, StackReady, Retvals
  <2> QED BY <2>1, PoppedStack
<1> DEFINE n == Len(seq_stack)
           m == n - 1
<1>3. seq_stack \in Seq(F) /\ n \in Nat /\ n >= 1
  BY ReadyIsTyped
<1>4. CASE n = 1
  <2>1. seq_stack' = <<>>
    BY <1>2, <1>4
  <2>2. Len(seq_stack') = 0 /\ 1 .. 0 = {}
    BY <2>1
  <2> QED BY <2>2 DEF WaitersStay
<1>5. CASE n # 1
  <2>0. n \in Nat /\ n >= 1 /\ n # 1
    BY <1>3, <1>5
  <2>1. m \in Nat /\ m >= 1 /\ n = m + 1 /\ m \in 1 .. n /\ n > 1
    <3> HIDE DEF n
    <3> QED BY <2>0
  <2>2. /\ Len(seq_stack') = m
        /\ \A k \in 1 .. m - 1 : seq_stack'[k] = seq_stack[k]
        /\ seq_stack'[m] = [seq_stack[m] EXCEPT
               !.retval = Result(g, r), !.current_components = g.current_components]
    BY <1>2, <2>1
  <2>3. seq_stack[m] \in F
    BY <1>3, <2>1, ElementOfSeq
  <2> HIDE DEF n, m
  <2>4. ASSUME NEW k \in 1 .. m
        PROVE  /\ k \in 1 .. n
               /\ seq_stack'[k].cmd_exec_state = seq_stack[k].cmd_exec_state
               /\ SamePlace(seq_stack'[k], seq_stack[k])
    <3>1. k \in 1 .. n
      BY <2>1
    <3>2. CASE k = m
      BY <2>2, <2>3, <3>1, <3>2 DEF F, FrameType, SamePlace
    <3>3. CASE k # m
      <4>1. k \in 1 .. m - 1
        BY <2>1, <3>3
      <4> QED BY <2>2, <3>1, <4>1 DEF SamePlace
    <3> QED BY <3>2, <3>3
  <2>5. ASSUME NEW k \in 1 .. m, IsWaiting(code, seq_stack'[k])
        PROVE  IsWaiting(code, seq_stack[k])
    BY <2>4, <2>5 DEF IsWaiting, AtDependency, SamePlace
  <2> QED BY <2>2, <2>4, <2>5 DEF WaitersStay, n
<1> QED BY <1>4, <1>5

LEMMA GoesOnWaits ==
    ASSUME StackReady, GoesOn
    PROVE  WaitersStay
<1>1. PICK g \in F : g.cmd_exec_state = 0 /\ Continue(g)
  BY DEF GoesOn
<1>2. Undisturbed(g)
  BY <1>1 DEF Undisturbed, IsWaiting
<1> QED BY <1>1, <1>2, TurnWaits

LEMMA ReturnWaits ==
    ASSUME StackReady, AtCommand, NEW f \in F, SameOwner(f, Top),
           f.current_command = Top.current_command, NEW r \in Retvals, Return(f, r)
    PROVE  WaitersStay
BY ReadyIsTyped, ReturnWay, GoesOnWaits, PopWaits

LEMMA StepWaits ==
    ASSUME StackReady, SeqStep
    PROVE  WaitersStay
<1>1. GoesOn \/ Schedules \/ Finishes
  BY ReadyIsTyped, StepWay
<1>2. CASE Schedules
  <2>1. PICK g \in F, name \in DOMAIN code, soft \in BOOLEAN :
           /\ SameOwner(g, Top) /\ ~AtDependency(code, g)
           /\ Push(g, name, soft, g.cmd_processor)
    BY <1>2 DEF Schedules
  <2> DEFINE h == NewFrame(name, g.manifest, soft, g.cmd_processor, g.current_components)
  <2>2. h = [cmd_seq |-> name, current_command |-> 0, cmd_exec_state |-> 0,
             retval |-> "SUCCESS", soft_failure |-> soft, current_component_idx |-> NoIndex,
             current_components |-> g.current_components, current_components_backup |-> {},
             manifest |-> g.manifest, cmd_processor |-> g.cmd_processor]
    BY DEF NewFrame
  <2>3. seq_stack' = Append([seq_stack EXCEPT ![Len(seq_stack)] = g], h)
    BY <2>1 DEF Push
  <2> HIDE DEF h
  <2>4. h \in F /\ h.cmd_exec_state = 0
    <3>1. NoIndex \in 0 .. MaxComponents
      BY SeqExecAssumption DEF NoIndex
    <3>2. "SUCCESS" \in Retvals
      BY DEF Retvals, Endings
    <3> QED BY <2>1, <2>2, <3>1, <3>2 DEF F, FrameType
  <2>5. Undisturbed(g)
    BY <2>1 DEF Undisturbed, IsWaiting
  <2> QED BY <2>1, <2>3, <2>4, <2>5, DescendWaits
<1> QED BY <1>1, <1>2, GoesOnWaits, PopWaits DEF Finishes

\* The command on top is resumed and goes on waiting.
LEMMA ResumedWaits ==
    ASSUME StackReady, AtDependency(code, Top), Top.cmd_exec_state # 0,
           NEW x \in Nat, NEW v \in Retvals,
           NEW f, f = [Top EXCEPT !.cmd_exec_state = x, !.retval = v]
    PROVE  f \in F /\ Undisturbed(f)
<1>1. Top \in F
  BY ReadyIsTyped
<1>2. f \in F
  BY <1>1 DEF F, FrameType
<1>3. /\ SamePlace(f, Top)
  BY <1>1 DEF F, FrameType, SamePlace
<1> QED BY <1>2, <1>3 DEF Undisturbed, IsWaiting

LEMMA SchedulingWaits ==
    ASSUME PInv, Running, AtDependency(code, Top), Top.cmd_exec_state # 0, Dependency \in Entry,
           NEW n, NEW p \in Run \cup Validate, NEW v \in Retvals, ScheduleDependency(n, p, v)
    PROVE  WaitersStay
<1> DEFINE x == Top.cmd_exec_state + 1
           f == [Top EXCEPT !.cmd_exec_state = x, !.retval = v]
           stack == [seq_stack EXCEPT ![Len(seq_stack)] = f]
           d == Dependency
           h == NewFrame(Sequences(d)[n], d, FALSE, p, InitSelected(d))
<1>1. StackReady
  BY InSequence
<1>2. x \in Nat
  BY <1>1, ReadyIsTyped DEF F, FrameType
<1>3. seq_stack' = Pushed(stack, d, n, p) /\ seq_ret' = "ERR_AGAIN"
  BY DEF ScheduleDependency
<1> HIDE DEF x
<1>4. f \in F /\ Undisturbed(f)
  BY <1>1, <1>2, ResumedWaits
<1> HIDE DEF f
<1>5. CASE Scheduled(stack, d, n) = "ERR_AGAIN"
  <2>1. Status(d, n) = "SUCCESS"
    BY <1>5, ScheduledResult
  <2>2. h \in F /\ h.cmd_exec_state = 0
    BY <2>1, FirstFrameTyped DEF PInv
  <2>3. seq_stack' = Append(stack, h)
    BY <1>3, <1>5 DEF Pushed
  <2> HIDE DEF h
  <2> QED BY <1>1, <1>4, <2>2, <2>3, DescendWaits
<1>6. CASE Scheduled(stack, d, n) # "ERR_AGAIN"
  <2>1. Continue(f)
    BY <1>3, <1>6 DEF Pushed, Continue
  <2> QED BY <1>1, <1>4, <2>1, TurnWaits
<1> QED BY <1>5, <1>6

LEMMA SameStackWaits ==
    ASSUME PInv, UNCHANGED seq_stack
    PROVE  WaitersStay
BY DEF WaitersStay, SamePlace

LEMMA FirstPushWaits ==
    ASSUME PInv, ~Running, root \in Entry,
           NEW n, NEW p \in Run \cup Validate, seq_stack' = Pushed(seq_stack, root, n, p)
    PROVE  WaitersStay
<1> DEFINE h == NewFrame(Sequences(root)[n], root, FALSE, p, InitSelected(root))
<1>1. seq_stack = <<>>
  BY DEF Running
<1>2. CASE Scheduled(seq_stack, root, n) # "ERR_AGAIN"
  BY <1>2, SameStackWaits DEF Pushed
<1>3. CASE Scheduled(seq_stack, root, n) = "ERR_AGAIN"
  <2>1. Status(root, n) = "SUCCESS"
    BY <1>3, ScheduledResult
  <2>2. h \in F /\ h.cmd_exec_state = 0
    BY <2>1, FirstFrameTyped DEF PInv
  <2>3. seq_stack' = Append(seq_stack, h)
    BY <1>3 DEF Pushed
  <2> HIDE DEF h
  <2>4. Len(seq_stack') = 1 /\ seq_stack'[1] = h
    <3>1. seq_stack \in Seq(F) /\ Len(seq_stack) = 0
      BY <1>1
    <3>2. Len(seq_stack') = 0 + 1 /\ seq_stack'[0 + 1] = h
      BY <2>2, <2>3, <3>1, AppendProperties
    <3> QED BY <3>2
  <2>5. \A k \in 1 .. 1 : k = 1
    OBVIOUS
  <2> QED BY <2>2, <2>4, <2>5 DEF WaitersStay, IsWaiting
<1> QED BY <1>2, <1>3

LEMMA ReleaseWaits ==
    ASSUME PInv, Running, AtDependency(code, Top), Top.cmd_exec_state # 0,
           NEW e, NEW v \in Retvals, ReleaseDependency(e, v)
    PROVE  WaitersStay
<1> DEFINE f == [Top EXCEPT !.cmd_exec_state = Releasing, !.retval = v]
<1>1. StackReady /\ Continue(f)
  BY InSequence DEF ReleaseDependency
<1>2. Releasing \in Nat
  BY DEF Releasing, SEQ_MAX
<1>3. f \in F /\ Undisturbed(f)
  BY <1>1, <1>2, ResumedWaits
<1> HIDE DEF f
<1> QED BY <1>1, <1>3, TurnWaits

LEMMA LoadedWaits ==
    ASSUME PInv, Running, AwaitsRegistry, Continue([Top EXCEPT !.cmd_exec_state = SHARED])
    PROVE  WaitersStay
<1> DEFINE f == [Top EXCEPT !.cmd_exec_state = SHARED]
<1>1. StackReady /\ Top \in F /\ AtDependency(code, Top) /\ Top.cmd_exec_state # 0
  BY InSequence, Awaiting DEF Loading, Releasing, SEQ_MAX
<1>2. f \in F /\ SamePlace(f, Top)
  BY <1>1 DEF F, FrameType, SHARED, SamePlace
<1>3. Undisturbed(f) /\ Continue(f)
  BY <1>1, <1>2 DEF Undisturbed, IsWaiting
<1> HIDE DEF f
<1> QED BY <1>1, <1>2, <1>3, TurnWaits

LEMMA NotLoadedWaits ==
    ASSUME PInv, AtCommand, NEW r \in Registry!Results, LoadFailed(r)
    PROVE  WaitersStay
<1>1. StackReady /\ Current \in F /\ SameOwner(Current, Top)
      /\ Current.current_command = Top.current_command
  BY InSequence, ReadyIsTyped, CurrentOf DEF AtCommand
<1>2. PICK q \in {"FAIL_CONDITION", r} : Return(Current, q)
  BY DEF LoadFailed
<1>3. q \in Retvals
  BY <1>2 DEF Retvals, Endings
<1> QED BY <1>1, <1>2, <1>3, ReturnWaits

\* The steps of the dependency commands but for the one that begins to wait.
LEMMA DependencyWaits ==
    ASSUME PInv, DependencyStep, LoadDependency => Registry!LoadRefused
    PROVE  WaitersStay
<1>1. {"FAIL_CONDITION", "SUCCESS"} \cup AuthResults \cup PlatResults \subseteq Retvals
  BY DEF Retvals, Endings
<1>2. DependencyCommands = {"dependency_integrity", "process_dependency"}
  BY DEF DependencyCommands
<1>3. ASSUME NEW name \in DependencyCommands, Resumed(name)
      PROVE  /\ Running /\ AtDependency(code, Top) /\ Top.cmd_exec_state # 0
             /\ Dependency \in Entry /\ Top.retval \in Retvals
  BY <1>3, ResumedOpen DEF SHARED, SEQ_MAX
<1>4. CASE LoadDependency
  <2>1. AtCommand /\ op = "none"
    BY <1>4 DEF LoadDependency, ToLoad, On, At
  <2>2. LoadFailed("ERR_OVERFLOW") \/ StartLoad(content[components[CurrentSlot].component_id])
    BY <1>4 DEF LoadDependency
  <2>3. Registry!LoadRefused /\ "ERR_OVERFLOW" \in Registry!Results
    BY <1>4 DEF Registry!Results
  <2>4. ~StartLoad(content[components[CurrentSlot].component_id])
    BY <2>1, <2>3 DEF StartLoad, Registry!LoadRefused, Registry!BeginLoad
  <2> QED BY <2>1, <2>2, <2>3, <2>4, NotLoadedWaits
<1>5. CASE DependencyNotLoaded
  <2>1. AtCommand /\ LoadFailed(op_ret)
    BY <1>5 DEF DependencyNotLoaded, AwaitsRegistry
  <2> QED BY <2>1, RegistryTyped, NotLoadedWaits DEF PInv
<1>6. CASE LoadedForIntegrity
  <2>1. Running
    BY <1>6 DEF LoadedForIntegrity, AwaitsRegistry, AtCommand
  <2> QED BY <1>6, <2>1, LoadedWaits DEF LoadedForIntegrity
<1>7. ASSUME NEW r \in AuthResults, AuthorizeDependency(r)
      PROVE  WaitersStay
  <2>1. /\ AwaitsRegistry
        /\ IF r = "SUCCESS" THEN Continue([Top EXCEPT !.cmd_exec_state = SHARED])
           ELSE ReleaseDependency(Dependency - 1, r)
    BY <1>7 DEF AuthorizeDependency
  <2>2. Running
    BY <2>1 DEF AwaitsRegistry, AtCommand
  <2>3. AtDependency(code, Top) /\ Top.cmd_exec_state # 0
    BY <2>1, <2>2, Awaiting DEF Loading, Releasing, SEQ_MAX
  <2> QED BY <1>1, <2>1, <2>2, <2>3, LoadedWaits, ReleaseWaits
<1>8. CASE ValidateForIntegrity \/ ValidateForProcess
  <2>1. PICK name \in DependencyCommands : Resumed(name)
    BY <1>2, <1>8 DEF ValidateForIntegrity, ValidateForProcess, ResumedProcess
  <2> DEFINE n == Top.cmd_exec_state
             p == Validator(n)
             v == Masked(ScheduledDependency(n), n)
  <2>2. ScheduleDependency(n, p, v)
    BY <1>8 DEF ValidateForIntegrity, ValidateForProcess
  <2>3. p \in Run \cup Validate /\ v \in Retvals
    BY MaskedResults DEF Validator, Validate
  <2> HIDE DEF n, p, v
  <2> QED BY <1>3, <2>1, <2>2, <2>3, SchedulingWaits
<1>9. CASE IntegrityFails \/ IntegrityHolds \/ ProcessFails
           \/ \E r \in PlatResults : DependencyCompleted(r)
  <2>1. PICK name \in DependencyCommands : Resumed(name)
    BY <1>2, <1>9 DEF IntegrityFails, IntegrityHolds, ProcessFails, DependencyCompleted,
       ResumedProcess
  <2>2. \E v \in {"FAIL_CONDITION", "SUCCESS", Top.retval} \cup PlatResults :
           ReleaseDependency(Dependency, v)
    BY <1>9 DEF IntegrityFails, IntegrityHolds, ProcessFails, DependencyCompleted
  <2>3. PICK v \in Retvals : ReleaseDependency(Dependency, v)
    BY <1>1, <1>3, <2>1, <2>2
  <2> QED BY <1>3, <2>1, <2>3, ReleaseWaits
<1>10. CASE ExecuteDependency
  <2>1. Resumed("process_dependency")
    BY <1>10 DEF ExecuteDependency, ResumedProcess
  <2>2. \E n \in {SHARED, current_seq}, v \in Retvals : ScheduleDependency(n, "run", v)
    BY <1>10, MaskedResults DEF ExecuteDependency
  <2> QED BY <1>2, <1>3, <2>1, <2>2, SchedulingWaits DEF Run
<1>11. CASE DependencyReleased
  <2> DEFINE r == IF Top.retval = "SUCCESS" THEN op_ret ELSE Top.retval
             f == [Top EXCEPT !.retval = r]
  <2>1. AwaitsRegistry /\ AtCommand /\ Running /\ Return(f, r)
    BY <1>11 DEF DependencyReleased, AwaitsRegistry, AtCommand
  <2>2. StackReady /\ Top \in F /\ op_ret \in Registry!Results
    BY <2>1, InSequence, Awaiting, RegistryTyped DEF PInv
  <2>3. r \in Retvals
    BY <2>2 DEF Retvals, F, FrameType
  <2> HIDE DEF r
  <2>4. f \in F /\ SameOwner(f, Top) /\ f.current_command = Top.current_command
    BY <2>2, <2>3 DEF F, FrameType, SameOwner
  <2> HIDE DEF f
  <2> QED BY <2>1, <2>2, <2>3, <2>4, ReturnWaits
<1> QED BY <1>4, <1>5, <1>6, <1>7, <1>8, <1>9, <1>10, <1>11 DEF DependencyStep

LEMMA DriverWaits ==
    ASSUME PInv, ValidateNext \/ DryRunNext \/ DryRunMain \/ ExecuteShared \/ ExecuteMain
    PROVE  WaitersStay
<1>1. ~Running /\ root \in Entry
  BY DEF ValidateNext, DryRunNext, DryRunMain, ExecuteShared, ExecuteMain, AtStep, PInv, ControlOK
<1>2. \/ UNCHANGED seq_stack
      \/ \E n : \E p \in {Validator(seq), "run"} : seq_stack' = Pushed(seq_stack, root, n, p)
  <2>1. CASE DryRunNext
    <3>1. \/ seq_stack' = Pushed(seq_stack, root, SHARED, "run")
          \/ seq_stack' = seq_stack
      BY <2>1, Zenon DEF DryRunNext
    <3> QED BY <3>1
  <2> QED BY <2>1 DEF ValidateNext, DryRunMain, ExecuteShared, ExecuteMain
<1>3. {Validator(seq), "run"} \subseteq Run \cup Validate
  BY DEF Validator, Run, Validate
<1> QED BY <1>1, <1>2, <1>3, FirstPushWaits, SameStackWaits

LEMMA OtherStepsWait ==
    ASSUME PInv, [Next]_vars, LoadDependency => Registry!LoadRefused
    PROVE  WaitersStay
<1>1. CASE UNCHANGED vars \/ LoadStep \/ ReleaseStep \/ Loaded \/ ValidationDone \/ DryRunRepeat
           \/ DryRunDone \/ (\E r \in PlatResults : Completed(r)) \/ GiveUp \/ CallReturns
           \/ \E n \in Calls : Call(n)
  <2>1. UNCHANGED seq_stack
    BY <1>1 DEF vars, stacks, LoadStep, ReleaseStep, Loaded, ValidationDone, DryRunRepeat,
       DryRunDone, Completed, GiveUp, Leave, CallReturns, Call
  <2> QED BY <2>1, SameStackWaits
<1>2. CASE RunCommand
  <2>1. SeqStep /\ Running
    BY <1>2, StepRuns DEF RunCommand
  <2> QED BY <2>1, InSequence, StepWaits
<1> QED BY <1>1, <1>2, DependencyWaits, DriverWaits DEF Next, Step, DependencyStep

-----------------------------------------------------------------------------
(***************************************************************************)
(* The manifests of the frames lie below the one the registry is at work   *)
(* on, so what a waiting command tests of its component does not change.   *)
(***************************************************************************)
LEMMA DepthBelowTop ==
    ASSUME NEW S, NEW st \in Seq(S), NEW k \in 1 .. Len(st)
    PROVE  Depth(code, st, k) <= Depth(code, st, Len(st) + 1)
<1>1. OpenBelow(code, st, k) \subseteq OpenBelow(code, st, Len(st) + 1)
  BY LenProperties DEF OpenBelow
<1>2. IsFiniteSet(OpenBelow(code, st, Len(st) + 1))
  BY OpenFinite
<1> QED BY <1>1, <1>2, FS_Subset DEF Depth

FramesBelow ==
    \A k \in Frames :
        /\ seq_stack[k].manifest \in Entry
        /\ seq_stack[k].manifest < manifest_stack_height
        /\ op # "none" => seq_stack[k].manifest # entry

LEMMA FramesLieBelow == PInv /\ InStep /\ Proofs!ReleasesTop => FramesBelow
<1> SUFFICES ASSUME PInv, InStep, Proofs!ReleasesTop, NEW k \in Frames
             PROVE  /\ seq_stack[k].manifest \in Entry
                    /\ seq_stack[k].manifest < manifest_stack_height
                    /\ op # "none" => seq_stack[k].manifest # entry
  BY DEF FramesBelow
<1> DEFINE d == Depth(code, seq_stack, k)
           t == Depth(code, seq_stack, Len(seq_stack) + 1)
           h == manifest_stack_height
           o == Owed
<1>1. seq_stack \in Seq(F) /\ k \in 1 .. Len(seq_stack) /\ Running
  BY LenProperties DEF PInv, FramesOK, F, Frames, Running
<1>2. d \in Nat /\ t \in Nat /\ d <= t
  BY <1>1, OpenFinite, DepthBelowTop
<1>3. h = 0 + o + (1 + t) /\ seq_stack[k].manifest = 0 + d
  <2>1. pc \in {"validate"} \cup Executing
    BY <1>1, InSequence
  <2>2. Height = root + o + (1 + t)
    BY <2>1 DEF Height, Executing
  <2> QED BY <2>2 DEF InStep
<1>4. o \in {0, 1} /\ h \in Nat /\ h <= MaxManifests
  BY Here
<1>5. op \in {"none", "loading", "unwinding", "releasing"}
      /\ (op = "loading" => entry = h)
      /\ (op = "unwinding" => entry \in {h, h - 1})
      /\ (op = "releasing" => entry = h - 1)
  BY RegistryTyped DEF PInv, Proofs!ReleasesTop
<1>6. op = "releasing" \/ (op = "unwinding" /\ entry < h) => o = 1
  BY DEF Owed
<1> HIDE DEF d, t, h, o
<1>7. seq_stack[k].manifest \in Nat /\ seq_stack[k].manifest < h
  BY <1>2, <1>3, <1>4
<1>8. seq_stack[k].manifest \in Entry
  BY <1>4, <1>7, SeqExecAssumption DEF Entry
<1>9. ASSUME op # "none" PROVE seq_stack[k].manifest # entry
  <2>1. CASE entry = h
    BY <1>4, <1>7, <2>1
  <2>2. CASE entry = h - 1
    <3>1. o = 1
      BY <1>4, <1>5, <1>6, <1>9, <2>2
    <3> QED BY <1>2, <1>3, <2>2, <3>1
  <2> QED BY <1>5, <1>9, <2>1, <2>2
<1> QED BY <1>7, <1>8, <1>9 DEF h

LEMMA FramesLieBelowNext == (PInv /\ InStep /\ Proofs!ReleasesTop => FramesBelow)'
BY FramesLieBelow, PTL

\* What the steps of the registry keep while no dependency is denied.
RegistryKept == Proofs!ReleasesTop /\ Proofs!NoDanglingReference

LEMMA NextIsProofsNext ==
    ASSUME Registry!Next, ~DependencyDenied
    PROVE  Proofs!Next /\ ~Proofs!PopDeniedDependency
<1>1. ~Proofs!PopDeniedDependency /\ ~Registry!PopDeniedDependency
  BY DEF Proofs!PopDeniedDependency, Registry!PopDeniedDependency
<1>2. CASE Registry!PopManifest
  BY <1>1, <1>2 DEF Registry!PopManifest, Registry!BeginRelease, Proofs!PopManifest,
     Proofs!BeginRelease, Proofs!Next
<1>3. Loads \/ Registry!PopManifest \/ Registry!ReleaseStep
  BY <1>1, Zenon DEF Registry!Next, Loads
<1>4. CASE Loads
  BY <1>1, <1>4, SameLoads
<1>5. CASE Registry!ReleaseStep
  BY <1>1, <1>5, SameRelease
<1> QED BY <1>1, <1>2, <1>3, <1>4, <1>5

LEMMA RegistryStepKept ==
    ASSUME PInv, InStep, [Next]_vars, RegistryKept, ~DependencyDenied
    PROVE  /\ RegistryKept'
           /\ Proofs!Next \/ UNCHANGED Proofs!vars
<1>1. DependencyDenied \in BOOLEAN
  BY ProcessorAssumption
<1>2. CASE Registry!Next
  <2>1. Proofs!Next /\ ~Proofs!PopDeniedDependency
    BY <1>2, NextIsProofsNext
  <2>2. Proofs!ReleasesTop'
    BY <1>1, <2>1, Proofs!TopStep, SeqExecAssumption DEF PInv, RegistryKept, Proofs!TopStep
  <2>3. Proofs!NoDanglingReference'
    BY <1>1, <2>1, Proofs!DanglingStep, SeqExecAssumption
       DEF PInv, RegistryKept, Proofs!DanglingStep
  <2> QED BY <2>1, <2>2, <2>3 DEF RegistryKept
<1>3. CASE UNCHANGED Registry!vars
  <2>1. UNCHANGED Proofs!vars
    BY <1>3 DEF Registry!vars, Proofs!vars
  <2> QED
    BY <2>1 DEF RegistryKept, Proofs!ReleasesTop, Proofs!NoDanglingReference, Proofs!References,
       Proofs!Live, Proofs!Releasing, Proofs!vars
<1> QED BY <1>2, <1>3, StepUsesRegistry

\* The component map of a frame that stays keeps its length, its slots and what they
\* are.
LEMMA ManifestKept ==
    ASSUME PInv, RegistryKept, RegistryKept', Proofs!Next \/ UNCHANGED Proofs!vars,
           NEW e \in Entry, e < manifest_stack_height, e < manifest_stack_height',
           op # "none" => e # entry, op' # "none" => e # entry'
    PROVE  /\ manifest_stack'[e] = manifest_stack[e]
           /\ \A i \in 1 .. Len(manifest_stack[e]) :
                 LET s == manifest_stack[e][i] IN
                 /\ components'[s].component_id = components[s].component_id
                 /\ components'[s].is_dependency = components[s].is_dependency
<1>1. DependencyDenied \in BOOLEAN
  BY ProcessorAssumption
<1>2. CASE Proofs!Next
  <2>1. e \in Proofs!Entry
    BY DEF Entry, Proofs!Entry
  <2>2. /\ Proofs!RegistryInv /\ Proofs!NoDanglingReference /\ Proofs!NoDanglingReference'
    BY DEF PInv, RegistryKept
  <2>3. /\ manifest_stack'[e] = manifest_stack[e]
        /\ \A i \in 1 .. Len(manifest_stack[e]) :
              LET s == manifest_stack[e][i] IN
              /\ components'[s].component_id = components[s].component_id
              /\ components'[s].is_dependency = components[s].is_dependency
    BY <1>1, <1>2, <2>1, <2>2, Proofs!ManifestStays, SeqExecAssumption DEF Proofs!ManifestStays
  <2> QED BY <2>3
<1>3. CASE UNCHANGED Proofs!vars
  BY <1>3 DEF Proofs!vars
<1> QED BY <1>2, <1>3

LEMMA CodeStays ==
    ASSUME [Next]_vars
    PROVE  code' = code
<1>1. CASE \E n \in Calls : Call(n)
  BY <1>1 DEF Call, world
<1> QED BY <1>1, RootStays DEF Next

\* dry_run changes between two sequences only.
LEMMA DryRunStays ==
    ASSUME PInv, [Next]_vars, Running
    PROVE  dry_run' = dry_run
<1>1. CASE RunCommand
  BY <1>1, StepAsks DEF RunCommand
<1>2. CASE UNCHANGED vars \/ LoadStep \/ ReleaseStep \/ Loaded \/ ValidateNext \/ ValidationDone
           \/ DryRunNext \/ DryRunMain \/ DryRunRepeat \/ DryRunDone \/ ExecuteShared \/ ExecuteMain
           \/ (\E r \in PlatResults : Completed(r)) \/ GiveUp \/ CallReturns
           \/ \E n \in Calls : Call(n)
  BY <1>2 DEF vars, LoadStep, ReleaseStep, Loaded, ValidateNext, ValidationDone, DryRunNext,
     DryRunMain, DryRunRepeat, DryRunDone, ExecuteShared, ExecuteMain, Completed, GiveUp, Leave,
     CallReturns, Call, AtStep
<1>3. CASE DependencyStep
  BY <1>3 DEF DependencyStep, LoadDependency, DependencyNotLoaded, LoadedForIntegrity,
     AuthorizeDependency, ValidateForIntegrity, IntegrityFails, IntegrityHolds, ValidateForProcess,
     ExecuteDependency, ProcessFails, DependencyCompleted, DependencyReleased, ScheduleDependency,
     ReleaseDependency
<1> QED BY <1>1, <1>2, <1>3 DEF Next, Step, DependencyStep

\* A step of the processor between states whose stacks are in step.
Level ==
    /\ PInv /\ InStep /\ RegistryKept
    /\ PInv' /\ InStep' /\ RegistryKept'
    /\ [Next]_vars
    /\ Proofs!Next \/ UNCHANGED Proofs!vars

\* What holds for the place of a frame continues to hold while the frame stays.
LEMMA PlaceKept ==
    ASSUME Level, NEW k \in Frames, k \in Frames', NEW g, g = seq_stack'[k],
           g.manifest = seq_stack[k].manifest, PlacedAt(g, k)
    PROVE  PlacedAt(g, k)'
<1>1. /\ g.manifest \in Entry
      /\ g.manifest < manifest_stack_height /\ g.manifest < manifest_stack_height'
      /\ op # "none" => g.manifest # entry
      /\ op' # "none" => g.manifest # entry'
  <2>1. FramesBelow
    BY FramesLieBelow DEF Level, RegistryKept
  <2>2. FramesBelow'
    BY FramesLieBelowNext DEF Level, RegistryKept
  <2> QED BY <2>1, <2>2 DEF FramesBelow
<1> DEFINE e == g.manifest
<1>2. /\ manifest_stack'[e] = manifest_stack[e]
      /\ \A i \in 1 .. Len(manifest_stack[e]) :
            components'[manifest_stack[e][i]].is_dependency =
               components[manifest_stack[e][i]].is_dependency
  BY <1>1, ManifestKept DEF Level
<1>3. code' = code /\ dry_run' = dry_run
  <2>1. Running
    BY LenProperties DEF Level, PInv, FramesOK, Frames, Running
  <2> QED BY <2>1, CodeStays, DryRunStays DEF Level
<1>4. /\ g.current_component_idx \in 0 .. Len(manifest_stack[e]) - 1
      /\ components[manifest_stack[e][g.current_component_idx + 1]].is_dependency = "true"
      /\ g.current_command = 0 /\ Len(manifest_stack[e]) # 1 => k > 1
      /\ Command(g).op = "dependency_integrity" => ~dry_run
  BY DEF PlacedAt, Indexes, SlotOf, IsDependency
<1>5. Len(manifest_stack[e]) \in Nat
  BY <1>1, Here, LenProperties DEF Level, Maps
<1>6. g.current_component_idx + 1 \in 1 .. Len(manifest_stack[e])
  BY <1>4, <1>5
<1>7. components'[manifest_stack[e][g.current_component_idx + 1]].is_dependency = "true"
  BY <1>2, <1>4, <1>6
<1> QED BY <1>2, <1>3, <1>4, <1>7 DEF PlacedAt, Indexes, SlotOf, IsDependency, Command

\* A frame that waits again where it waited.
LEMMA WaiterKept ==
    ASSUME Level, Placed, NEW k \in Frames, k \in Frames', NEW g, g = seq_stack'[k],
           IsWaiting(code, seq_stack[k]), SamePlace(g, seq_stack[k])
    PROVE  PlacedAt(g, k)'
<1>1. PlacedAt(seq_stack[k], k)
  BY DEF Placed
<1>2. PlacedAt(g, k)
  BY <1>1 DEF PlacedAt, SamePlace, Indexes, SlotOf, Command
<1> QED BY <1>2, PlaceKept DEF SamePlace

\* A command begins to wait when it has passed the early returns.
LEMMA LoaderPlaced ==
    ASSUME Level, Placed, LoadDependency, Registry!BeginLoad,
           NEW k \in Frames', IsWaiting(code, seq_stack'[k]), NEW g, g = seq_stack'[k]
    PROVE  PlacedAt(g, k)'
<1>1. ToLoad /\ Continue([Current EXCEPT !.cmd_exec_state = Loading])
  BY DEF LoadDependency, Registry!LoadRefused, Registry!BeginLoad
<1>2. Running /\ On(DependencyCommands, Run) /\ IsDependency(CurrentSlot)
      /\ (Command(Top).op = "dependency_integrity" => ~dry_run)
  BY <1>1 DEF ToLoad, On, At, AtCommand
<1>3. StackReady
  BY <1>2, InSequence DEF Level
<1>4. /\ Current \in F /\ SameOwner(Current, Top)
      /\ Current.current_command = Top.current_command /\ Command(Current) = Command(Top)
  BY <1>2, <1>3, ReadyIsTyped, CurrentOf
<1> DEFINE n == Len(seq_stack)
           f == [Current EXCEPT !.cmd_exec_state = Loading]
<1>5. /\ f \in F /\ SamePlace(f, Current) /\ Continue(f)
  BY <1>1, <1>4 DEF F, FrameType, SamePlace, Loading
<1>6. seq_stack \in Seq(F) /\ Top = seq_stack[n] /\ n \in Nat \ {0} /\ Frames = 1 .. n
  BY <1>3, ReadyIsTyped DEF Frames
<1> HIDE DEF f
<1>7. /\ Frames' = 1 .. n
      /\ \A j \in 1 .. n : seq_stack'[j] = IF j = n THEN f ELSE seq_stack[j]
  <2>1. /\ seq_stack' \in Seq(F) /\ Len(seq_stack') = n
        /\ \A j \in 1 .. n : seq_stack'[j] = IF j = n THEN f ELSE seq_stack[j]
    BY <1>2, <1>5, <1>6, ContinuedStack
  <2> QED BY <2>1, LenProperties DEF Frames
<1> HIDE DEF n
<1>8. CASE k = n
  <2>1. g = f
    BY <1>6, <1>7, <1>8
  <2>2. PlacedAt(Current, k)
    <3>1. Current.current_component_idx \in Indexes(Current)
          /\ IsDependency(SlotOf(Current, Current.current_component_idx))
      BY <1>2 DEF On, CurrentSlot
    <3>2. Current.current_command = 0 /\ Len(manifest_stack[Current.manifest]) # 1 => k > 1
      <4>1. ~MissingSetIndex /\ Command(Top).op \in DependencyCommands
        BY <1>2 DEF On, At
      <4>2. Top.current_command = 0 /\ Len(manifest_stack[Top.manifest]) # 1 => ~(n < 2)
        BY <4>1 DEF MissingSetIndex, DependencyCommands, n
      <4> QED BY <1>4, <1>6, <1>8, <4>2 DEF SameOwner
    <3> QED BY <1>2, <1>4, <3>1, <3>2 DEF PlacedAt
  <2>3. PlacedAt(g, k)
    BY <1>5, <2>1, <2>2 DEF PlacedAt, SamePlace, Indexes, SlotOf, Command
  <2>4. g.manifest = seq_stack[k].manifest
    BY <1>4, <1>5, <1>6, <1>8, <2>1 DEF SamePlace, SameOwner
  <2> QED BY <1>6, <1>7, <2>3, <2>4, PlaceKept
<1>9. CASE k # n
  <2>1. g = seq_stack[k]
    BY <1>7, <1>9
  <2> QED BY <1>6, <1>7, <2>1, WaiterKept DEF SamePlace
<1> QED BY <1>8, <1>9

LEMMA PlacedStep ==
    ASSUME Level, Placed
    PROVE  Placed'
<1> SUFFICES ASSUME NEW k \in Frames', IsWaiting(code, seq_stack'[k]),
                    NEW g, g = seq_stack'[k]
             PROVE  PlacedAt(g, k)'
  <2>1. code' = code
    BY CodeStays DEF Level
  <2> QED BY <2>1 DEF Placed, PlacedAt, Indexes, SlotOf, IsDependency, Command, IsWaiting, AtDependency
<1>1. CASE LoadDependency => Registry!LoadRefused
  <2>1. WaitersStay
    BY <1>1, OtherStepsWait DEF Level
  <2>2. Frames = 1 .. Len(seq_stack) /\ Frames' = 1 .. Len(seq_stack')
    <3>1. seq_stack \in Seq(F)
      BY DEF Level, PInv, FramesOK, F
    <3>2. seq_stack' \in Seq(FrameType(Retvals)')
      BY DEF Level, PInv, FramesOK
    <3> QED BY <3>1, <3>2, LenProperties DEF Frames
  <2>3. /\ k \in Frames /\ IsWaiting(code, seq_stack[k])
        /\ SamePlace(g, seq_stack[k])
    BY <2>1, <2>2 DEF WaitersStay
  <2> QED BY <2>3, WaiterKept
<1>2. CASE LoadDependency /\ ~Registry!LoadRefused
  <2>1. Registry!BeginLoad
    BY <1>2 DEF LoadDependency, StartLoad
  <2> QED BY <1>2, <2>1, LoaderPlaced
<1> QED BY <1>1, <1>2

\* A waiting command that is placed passes the early returns, if the flag stands.
LEMMA PlacedIsInPlace ==
    ASSUME PInv, Placed, ResumedChecked
    PROVE  ResumedInPlace
<1> SUFFICES ASSUME op = "none", Running, Len(seq_stack) \in Open
             PROVE  \/ Resumed("dependency_integrity") /\ ~dry_run
                    \/ ResumedProcess
  BY DEF ResumedInPlace
<1>1. StackReady /\ Top \in F /\ Len(seq_stack) \in Frames /\ Top = seq_stack[Len(seq_stack)]
  BY InSequence, ReadyIsTyped DEF Open
<1>2. /\ Top.cmd_processor = "run" /\ Top.current_command < Len(code[Top.cmd_seq])
      /\ Command(Top).op \in {"dependency_integrity", "process_dependency"}
      /\ Top.cmd_exec_state \in SHARED .. SEQ_MAX + 2
  BY <1>1 DEF Open, DependencyCommands
<1>3. IsWaiting(code, Top)
  BY <1>2 DEF IsWaiting, AtDependency, Command, DependencyCommands, SHARED, SEQ_MAX
<1>4. PlacedAt(Top, Len(seq_stack))
  BY <1>1, <1>3 DEF Placed
<1>5. Current = Top
  <2>1. /\ manifest_stack[Top.manifest] \in Seq(Slot)
        /\ Len(manifest_stack[Top.manifest]) <= MaxComponents
    BY <1>1 DEF StackReady, Maps, F, FrameType
  <2>2. Indexes(Top) \subseteq 0 .. MaxComponents - 1
    BY <2>1, LenProperties, SeqExecAssumption DEF Indexes
  <2>3. Top.current_component_idx # NoIndex
    BY <1>4, <2>2, SeqExecAssumption DEF PlacedAt, NoIndex
  <2> QED BY <2>3 DEF Current, component_idx_get
<1>6. AtCommand /\ ~MissingSetIndex
  <2>1. ~(1 < 1) /\ (Len(seq_stack) > 1 => ~(Len(seq_stack) < 2))
    BY <1>1, ReadyIsTyped
  <2> QED BY <1>2, <1>4, <2>1 DEF AtCommand, MissingSetIndex, PlacedAt
<1>7. On({Command(Top).op}, Run) /\ IsDependency(CurrentSlot)
  BY <1>2, <1>4, <1>5, <1>6 DEF On, At, Run, CurrentSlot, PlacedAt
<1>8. CASE Command(Top).op = "dependency_integrity"
  BY <1>2, <1>4, <1>7, <1>8 DEF Resumed, PlacedAt
<1>9. CASE Command(Top).op = "process_dependency"
  BY <1>2, <1>7, <1>9 DEF Resumed, ResumedProcess, ResumedChecked
<1> QED BY <1>2, <1>8, <1>9

AllPlaced == InStep /\ RegistryKept /\ Placed

LEMMA InitIsPlaced == Init => AllPlaced
<1> SUFFICES ASSUME Init PROVE AllPlaced
  OBVIOUS
<1>1. PInv /\ Slack = 0 /\ Chained(code, seq_stack, root) /\ root = 0
  BY InitPInv
<1>2. InStep
  BY <1>1, NoSlack, InStepMeans
<1>3. Placed
  BY DEF Init, Placed, Frames
<1>4. Proofs!Init
  BY DEF Init, Registry!Init, Proofs!Init, Registry!Slot, Proofs!Slot, Registry!EmptySlot,
     Proofs!EmptySlot, Registry!NoId, Proofs!NoId, Registry!Entry, Proofs!Entry
<1>5. Proofs!ReleasesTop /\ Proofs!NoDanglingReference
  BY <1>4, Proofs!NothingDangles, SeqExecAssumption, ProcessorAssumption DEF Proofs!NothingDangles
<1> QED BY <1>2, <1>3, <1>5 DEF AllPlaced, RegistryKept

(***************************************************************************)
(* If the platform denies no dependency, a dependency command that is      *)
(* resumed finds everything its early returns test as it left it, whatever *)
(* the dependency and the dependencies of that did in between: that only   *)
(* the flag of process-dependency can have changed is all that stands      *)
(* between the code and the theorems above (suit_directive.c line 465).    *)
(***************************************************************************)
THEOREM CommandsResumeInPlace ==
    ASSUME ~DependencyDenied
    PROVE  Spec /\ []ResumedChecked => []ResumedInPlace
<1>1. PInv /\ PInv' /\ AllPlaced /\ ResumedChecked /\ [Next]_vars => AllPlaced'
  <2> SUFFICES ASSUME PInv, PInv', InStep, RegistryKept, Placed, ResumedChecked, [Next]_vars
               PROVE  AllPlaced'
    BY DEF AllPlaced
  <2>1. InStep'
    BY PlacedIsInPlace, InStepStep
  <2>2. /\ RegistryKept'
        /\ Proofs!Next \/ UNCHANGED Proofs!vars
    BY RegistryStepKept
  <2>3. Placed'
    BY <2>1, <2>2, PlacedStep DEF Level
  <2> QED BY <2>1, <2>2, <2>3 DEF AllPlaced
<1>2. PInv /\ AllPlaced /\ ResumedChecked => ResumedInPlace
  BY PlacedIsInPlace DEF AllPlaced
<1> QED BY <1>1, <1>2, InitIsPlaced, ProcessorInvariant, PTL DEF Spec

(***************************************************************************)
(* So, when the platform denies no dependency and no dependency unchecks   *)
(* the component it is executed from, the stacks of manifests and of       *)
(* sequences agree, and the processor implements the registry.             *)
(***************************************************************************)
THEOREM CheckedStacksAgree ==
    ASSUME ~DependencyDenied
    PROVE  Spec /\ []ResumedChecked => []StacksAgree
BY CommandsResumeInPlace, ManifestPerOpenCommand, PTL

\* The discipline of the callers of suit_manifest.c, on the same condition.
THEOREM CheckedImplementsRegistry ==
    ASSUME ~DependencyDenied
    PROVE  Spec /\ []ResumedChecked => UsesRegistry
BY CommandsResumeInPlace, ImplementsRegistry, PTL

\* If the platform also releases what it is told to, suit_process_sequence leaves
\* no manifest, no sequence and no component behind.
THEOREM CheckedCallsLeaveNothing ==
    ASSUME ReleaseResults \subseteq {"SUCCESS"}, ~DependencyDenied
    PROVE  Spec /\ []ResumedChecked => []IdleIsClean
BY CommandsResumeInPlace, CallsLeaveNothing, PTL

-----------------------------------------------------------------------------
(***************************************************************************)
(* Steps after which the command on top awaits the registry.               *)
(***************************************************************************)
AtRegistry == Running /\ AwaitsRegistry
AtRelease  == AtRegistry /\ Top.cmd_exec_state = Releasing

LEMMA SettledIsNotAwaited == Settled => ~AtRegistry'
BY DEF Settled, AtRegistry

LEMMA TurnedTop ==
    ASSUME StackReady, NEW g \in F, Continue(g)
    PROVE  Top' = g
<1>1. seq_stack \in Seq(F) /\ Running /\ Len(seq_stack) \in Nat \ {0}
  BY ReadyIsTyped DEF StackReady
<1>2. /\ Len(seq_stack') = Len(seq_stack)
      /\ \A k \in 1 .. Len(seq_stack) :
            seq_stack'[k] = IF k = Len(seq_stack) THEN g ELSE seq_stack[k]
  BY <1>1, ContinuedStack
<1>3. Len(seq_stack) \in 1 .. Len(seq_stack)
  BY <1>1
<1> QED BY <1>2, <1>3 DEF Top

LEMMA TurnIsNotAwaited ==
    ASSUME StackReady, NEW g \in F, g.cmd_exec_state \notin {Loading, Releasing}, Continue(g)
    PROVE  ~AtRegistry'
BY TurnedTop DEF AtRegistry, AwaitsRegistry

LEMMA PushIsNotAwaited ==
    ASSUME StackReady, NEW g \in F, NEW h \in F, h.cmd_exec_state = 0,
           seq_stack' = Append([seq_stack EXCEPT ![Len(seq_stack)] = g], h)
    PROVE  ~AtRegistry'
<1> DEFINE n == Len(seq_stack)
           s == [seq_stack EXCEPT ![n] = g]
<1>1. seq_stack \in Seq(F) /\ n \in Nat \ {0} /\ n \in 1 .. n
  BY ReadyIsTyped
<1>2. s \in Seq(F) /\ Len(s) = n /\ seq_stack' = Append(s, h)
  BY <1>1, ExceptSeq
<1> HIDE DEF s
<1>3. Len(seq_stack') = n + 1 /\ seq_stack'[n + 1] = h
  BY <1>2, AppendProperties
<1>4. Top' = h
  BY <1>3 DEF Top
<1> QED BY <1>4 DEF AtRegistry, AwaitsRegistry, Loading, Releasing, SEQ_MAX

LEMMA SchedulingIsNotAwaited ==
    ASSUME PInv, NEW name \in DependencyCommands, Resumed(name), Top.cmd_exec_state # SEQ_MAX + 2,
           NEW n, NEW p \in Run \cup Validate, NEW v \in Retvals, ScheduleDependency(n, p, v)
    PROVE  ~AtRegistry'
<1> DEFINE x == Top.cmd_exec_state + 1
           f == [Top EXCEPT !.cmd_exec_state = x, !.retval = v]
           stack == [seq_stack EXCEPT ![Len(seq_stack)] = f]
           h == NewFrame(Sequences(Dependency)[n], Dependency, FALSE, p, InitSelected(Dependency))
<1>1. /\ Running /\ AtDependency(code, Top) /\ Dependency \in Entry
      /\ Top.cmd_exec_state \in SHARED .. SEQ_MAX + 2
  BY ResumedOpen
<1>2. StackReady /\ Top \in F
  BY <1>1, InSequence, ReadyIsTyped
<1>3. x \in Nat /\ x \notin {Loading, Releasing}
  BY <1>1 DEF Loading, Releasing, SHARED, SEQ_MAX
<1>4. seq_stack' = Pushed(stack, Dependency, n, p) /\ seq_ret' = "ERR_AGAIN"
  BY DEF ScheduleDependency
<1> HIDE DEF x
<1>5. f \in F /\ f.cmd_exec_state \notin {Loading, Releasing}
  BY <1>2, <1>3 DEF F, FrameType
<1> HIDE DEF f
<1>6. CASE Scheduled(stack, Dependency, n) = "ERR_AGAIN"
  <2>1. Status(Dependency, n) = "SUCCESS"
    BY <1>6, ScheduledResult
  <2>2. h \in F /\ h.cmd_exec_state = 0
    BY <1>1, <2>1, FirstFrameTyped DEF PInv
  <2>3. seq_stack' = Append(stack, h)
    BY <1>4, <1>6 DEF Pushed
  <2> HIDE DEF h
  <2> QED BY <1>2, <1>5, <2>2, <2>3, PushIsNotAwaited
<1>7. CASE Scheduled(stack, Dependency, n) # "ERR_AGAIN"
  <2>1. Continue(f)
    BY <1>4, <1>7 DEF Pushed, Continue
  <2> QED BY <1>2, <1>5, <2>1, TurnIsNotAwaited
<1> QED BY <1>6, <1>7

\* The driver begins with a frame that does not wait.
LEMMA DriverIsNotAwaited ==
    ASSUME PInv, ~Running, [Next]_vars
    PROVE  ~AtRegistry'
<1>1. CASE ValidateNext \/ DryRunNext \/ DryRunMain \/ ExecuteShared \/ ExecuteMain
  <2>1. root \in Entry /\ code' = code
    BY <1>1 DEF ValidateNext, DryRunNext, DryRunMain, ExecuteShared, ExecuteMain, AtStep, PInv,
       ControlOK, world
  <2>2. \/ UNCHANGED seq_stack
        \/ \E n : \E p \in {Validator(seq), "run"} : seq_stack' = Pushed(seq_stack, root, n, p)
    <3>1. CASE DryRunNext
      <4>1. \/ seq_stack' = Pushed(seq_stack, root, SHARED, "run")
            \/ seq_stack' = seq_stack
        BY <3>1, Zenon DEF DryRunNext
      <4> QED BY <4>1
    <3> QED BY <1>1, <3>1 DEF ValidateNext, DryRunMain, ExecuteShared, ExecuteMain
  <2>3. {Validator(seq), "run"} \subseteq Run \cup Validate
    BY DEF Validator, Run, Validate
  <2>4. Settled
    BY <2>1, <2>2, <2>3, FirstPush, StillNothing DEF Fresh
  <2> QED BY <2>4, SettledIsNotAwaited
<1>2. CASE UNCHANGED vars \/ LoadStep \/ ReleaseStep \/ Loaded \/ ValidationDone \/ DryRunRepeat
           \/ DryRunDone \/ (\E r \in PlatResults : Completed(r)) \/ GiveUp \/ CallReturns
           \/ \E n \in Calls : Call(n)
  <2>1. UNCHANGED seq_stack
    BY <1>2 DEF vars, stacks, LoadStep, ReleaseStep, Loaded, ValidationDone, DryRunRepeat,
       DryRunDone, Completed, GiveUp, Leave, CallReturns, Call
  <2> QED BY <2>1 DEF AtRegistry, Running
<1>3. ~RunCommand /\ ~DependencyStep
  <2>1. ~RunCommand
    BY StepRuns DEF RunCommand
  <2>2. ~DependencyStep
    BY DEF DependencyStep, LoadDependency, ToLoad, DependencyNotLoaded, LoadedForIntegrity,
       AuthorizeDependency, ValidateForIntegrity, IntegrityFails, IntegrityHolds,
       ValidateForProcess, ExecuteDependency, ProcessFails, DependencyCompleted,
       DependencyReleased, ResumedProcess, Resumed, On, At, AtCommand, AwaitsRegistry
  <2> QED BY <2>1, <2>2
<1> QED BY <1>1, <1>2, <1>3 DEF Next, Step, DependencyStep

\* What may be returned when the command has released its dependency.
BeginsRelease ==
    \/ \E r \in AuthResults : AuthorizeDependency(r)
    \/ IntegrityFails
    \/ IntegrityHolds
    \/ ProcessFails
    \/ \E r \in PlatResults : DependencyCompleted(r)

Stays == UNCHANGED vars \/ LoadStep \/ ReleaseStep

LEMMA RegistryAwaited ==
    ASSUME PInv, [Next]_vars, AtRegistry'
    PROVE  \/ BeginsRelease
           \/ Stays /\ Running
           \/ LoadDependency /\ Registry!BeginLoad
<1>1. Running
  BY DriverIsNotAwaited
<1>2. StackReady /\ Top \in F
  BY <1>1, InSequence, ReadyIsTyped
<1>3. ~RunCommand
  <2>1. ASSUME RunCommand PROVE FALSE
    BY <1>2, <2>1, StepStack, SettledIsNotAwaited DEF RunCommand
  <2> QED BY <2>1
<1>4. ~LoadDependency \/ Registry!BeginLoad
  <2>1. ASSUME LoadDependency, ~Registry!BeginLoad PROVE FALSE
    <3>1. ToLoad /\ AtCommand /\ Typed
      BY <1>2, <2>1, ReadyIsTyped DEF LoadDependency, ToLoad, On, At
    <3>2. Current \in F /\ SameOwner(Current, Top) /\ Current.current_command = Top.current_command
      BY <1>1, <3>1, CurrentOf
    <3>3. code' = code /\ LoadFailed("ERR_OVERFLOW")
      BY <2>1 DEF LoadDependency, StartLoad, world
    <3>4. PICK r \in {"FAIL_CONDITION", "ERR_OVERFLOW"} : Return(Current, r)
      BY <3>3 DEF LoadFailed
    <3>5. r \in Retvals
      BY DEF Retvals, Endings
    <3> QED BY <1>2, <3>1, <3>2, <3>3, <3>4, <3>5, ReturnsStack, SettledIsNotAwaited
  <2> QED BY <2>1
<1>5. ~DependencyNotLoaded
  <2>1. ASSUME DependencyNotLoaded PROVE FALSE
    <3>1. /\ AtCommand /\ Typed /\ code' = code /\ op_ret \in Registry!Results
          /\ LoadFailed(op_ret)
      BY <1>2, <2>1, ReadyIsTyped, RegistryTyped DEF DependencyNotLoaded, AwaitsRegistry, world, PInv
    <3>2. Current \in F /\ SameOwner(Current, Top) /\ Current.current_command = Top.current_command
      BY <1>1, <3>1, CurrentOf
    <3>3. PICK r \in {"FAIL_CONDITION", op_ret} : Return(Current, r)
      BY <3>1 DEF LoadFailed
    <3>4. r \in Retvals
      BY <3>1 DEF Retvals, Endings
    <3> QED BY <1>2, <3>1, <3>2, <3>3, <3>4, ReturnsStack, SettledIsNotAwaited
  <2> QED BY <2>1
<1>6. ~LoadedForIntegrity
  <2>1. ASSUME LoadedForIntegrity PROVE FALSE
    <3> DEFINE f == [Top EXCEPT !.cmd_exec_state = SHARED]
    <3>1. f \in F /\ f.cmd_exec_state \notin {Loading, Releasing}
      BY <1>2 DEF F, FrameType, SHARED, Loading, Releasing, SEQ_MAX
    <3>2. Continue(f)
      BY <2>1 DEF LoadedForIntegrity
    <3> HIDE DEF f
    <3> QED BY <1>2, <3>1, <3>2, TurnIsNotAwaited
  <2> QED BY <2>1
<1>7. ~ValidateForIntegrity /\ ~ValidateForProcess /\ ~ExecuteDependency
  <2>1. ASSUME ValidateForIntegrity \/ ValidateForProcess \/ ExecuteDependency PROVE FALSE
    <3>1. \E name \in DependencyCommands : Resumed(name)
      BY <2>1 DEF ValidateForIntegrity, ValidateForProcess, ExecuteDependency, ResumedProcess,
         DependencyCommands
    <3>2. Top.cmd_exec_state # SEQ_MAX + 2
      BY <2>1 DEF ValidateForIntegrity, ValidateForProcess, ExecuteDependency, SEQ_MAX
    <3>3. \E n : \E p \in Run \cup Validate : \E v \in Retvals : ScheduleDependency(n, p, v)
      <4>1. Validator(Top.cmd_exec_state) \in Run \cup Validate /\ "run" \in Run \cup Validate
        BY DEF Validator, Validate, Run
      <4>2. CASE ValidateForIntegrity \/ ValidateForProcess
        BY <4>1, <4>2, MaskedResults DEF ValidateForIntegrity, ValidateForProcess
      <4>3. CASE ExecuteDependency
        BY <4>1, <4>3, MaskedResults DEF ExecuteDependency
      <4> QED BY <2>1, <4>2, <4>3
    <3> QED BY <3>1, <3>2, <3>3, SchedulingIsNotAwaited
  <2> QED BY <2>1
<1>8. ~DependencyReleased
  <2>1. ASSUME DependencyReleased PROVE FALSE
    <3> DEFINE r == IF Top.retval = "SUCCESS" THEN op_ret ELSE Top.retval
               f == [Top EXCEPT !.retval = r]
    <3>1. AtCommand /\ Return(f, r) /\ code' = code /\ op_ret \in Registry!Results
      BY <2>1, RegistryTyped DEF DependencyReleased, AwaitsRegistry, world, PInv
    <3>2. r \in Retvals
      BY <1>2, <3>1 DEF Retvals, F, FrameType
    <3> HIDE DEF r
    <3>3. f \in F /\ SameOwner(f, Top) /\ f.current_command = Top.current_command
      BY <1>2, <3>2 DEF F, FrameType, SameOwner
    <3> HIDE DEF f
    <3> QED BY <1>2, <3>1, <3>2, <3>3, ReturnsStack, SettledIsNotAwaited
  <2> QED BY <2>1
<1>9. CASE Loaded \/ ValidateNext \/ ValidationDone \/ DryRunNext \/ DryRunMain \/ DryRunRepeat
           \/ DryRunDone \/ ExecuteShared \/ ExecuteMain \/ (\E r \in PlatResults : Completed(r))
           \/ GiveUp \/ CallReturns \/ \E n \in Calls : Call(n)
  BY <1>1, <1>9 DEF Loaded, ValidateNext, ValidationDone, DryRunNext, DryRunMain, DryRunRepeat,
     DryRunDone, ExecuteShared, ExecuteMain, Completed, GiveUp, CallReturns, Call, AtStep
<1>10. CASE Stays
  BY <1>1, <1>10
<1> QED BY <1>3, <1>4, <1>5, <1>6, <1>7, <1>8, <1>9, <1>10 DEF Next, Step, Stays, BeginsRelease

LEMMA ReleaseBegun ==
    ASSUME PInv, [Next]_vars, AtRelease'
    PROVE  BeginsRelease \/ (Stays /\ Running)
<1>1. ~(LoadDependency /\ Registry!BeginLoad)
  <2>1. ASSUME LoadDependency, Registry!BeginLoad PROVE FALSE
    <3> DEFINE f == [Current EXCEPT !.cmd_exec_state = Loading]
    <3>1. Continue(f) /\ Running
      BY <2>1 DEF LoadDependency, Registry!LoadRefused, Registry!BeginLoad, ToLoad, On, At, AtCommand
    <3>2. StackReady /\ Current \in F
      BY <3>1, InSequence, ReadyIsTyped, CurrentOf
    <3>3. f \in F /\ f.cmd_exec_state # Releasing
      BY <3>2 DEF F, FrameType, Loading, Releasing, SEQ_MAX
    <3> HIDE DEF f
    <3> QED BY <3>1, <3>2, <3>3, TurnedTop DEF AtRelease
  <2> QED BY <2>1
<1> QED BY <1>1, RegistryAwaited DEF AtRelease

-----------------------------------------------------------------------------
(***************************************************************************)
(* The integrity condition.                                                *)
(***************************************************************************)
\* The command on top is dependency-integrity, about to return what its retval says
\* when the dependency has been released.
AtVerdict == AtRelease /\ Command(Top).op = "dependency_integrity"

VerdictKept ==
    AtVerdict => /\ Top.retval \in {"SUCCESS", "FAIL_CONDITION"}
                 /\ op = "none" => op_ret = "SUCCESS"

\* A release of the dependency, once begun, runs to its end.
LEMMA StaysReleasing ==
    ASSUME Level, ReleaseResults \subseteq {"SUCCESS"}, VerdictKept, AtVerdict', Stays, Running
    PROVE  VerdictKept'
<1>1. UNCHANGED <<seq_stack, code>>
  BY DEF Stays, vars, stacks, world, LoadStep, ReleaseStep
<1>2. AtVerdict
  BY <1>1 DEF AtVerdict, AtRelease, AtRegistry, Running, AwaitsRegistry, AtCommand, Command, Top
<1>3. Top' = Top
  BY <1>1 DEF Top
<1>4. ASSUME op' = "none" PROVE op_ret' = "SUCCESS"
  <2>1. CASE UNCHANGED vars
    BY <1>2, <1>4, <2>1 DEF VerdictKept, vars, registry_vars
  <2>2. CASE LoadStep \/ ReleaseStep
    <3>1. op # "none"
      BY <2>2 DEF LoadStep, ReleaseStep, Registry!ReleaseStep, Registry!ReleaseMissing,
         Registry!ReleaseShared, Registry!ReleaseLast, Registry!ReleaseDone, Registry!Releasing
    <3>2. op = "releasing"
      <4>1. pc # "load"
        BY <1>2, InSequence DEF Level, AtVerdict, AtRelease, AtRegistry, Executing
      <4>2. ~AfterLoad
        BY <1>2, <4>1 DEF AtVerdict, AtRelease, AtRegistry, AfterLoad, Loading, Releasing, SEQ_MAX
      <4> QED BY <3>1, <4>2 DEF Level, PInv, ControlOK
    <3>3. ~UNCHANGED Proofs!vars
      BY <1>4, <3>2 DEF Proofs!vars
    <3>4. Proofs!Next /\ Proofs!RegistryInv /\ Proofs!NoDanglingReference
      BY <3>3 DEF Level, PInv, RegistryKept
    <3>5. DependencyDenied \in BOOLEAN
      BY ProcessorAssumption
    <3> QED BY <1>4, <3>2, <3>4, <3>5, Proofs!ReleaseSucceeds, SeqExecAssumption
            DEF Proofs!ReleaseSucceeds
  <2> QED BY <2>1, <2>2 DEF Stays
<1> QED BY <1>2, <1>3, <1>4 DEF VerdictKept

LEMMA VerdictStep ==
    ASSUME Level, ReleaseResults \subseteq {"SUCCESS"}, VerdictKept
    PROVE  VerdictKept'
<1> SUFFICES ASSUME AtVerdict' PROVE VerdictKept'
  BY DEF VerdictKept
<1>1. AtRelease'
  BY DEF AtVerdict
<1>2. CASE Stays /\ Running
  BY <1>2, StaysReleasing
<1>3. CASE BeginsRelease
  <2>1. /\ Running
        /\ code' = code
        /\ \E e, v : /\ ReleaseDependency(e, v)
                     /\ Command(Top).op = "dependency_integrity"
                           => v \in {"SUCCESS", "FAIL_CONDITION"}
    <3>1. CASE \E r \in AuthResults : AuthorizeDependency(r)
      <4>1. PICK r \in AuthResults : AuthorizeDependency(r)
        BY <3>1
      <4>2. CASE r = "SUCCESS"
        <5> DEFINE f == [Top EXCEPT !.cmd_exec_state = SHARED]
        <5>1. Running /\ Continue(f)
          BY <4>1, <4>2 DEF AuthorizeDependency, AwaitsRegistry, AtCommand
        <5>2. StackReady /\ Top \in F
          BY <5>1, InSequence, ReadyIsTyped DEF Level
        <5>3. f \in F /\ f.cmd_exec_state \notin {Loading, Releasing}
          BY <5>2 DEF F, FrameType, SHARED, Loading, Releasing, SEQ_MAX
        <5> HIDE DEF f
        <5> QED BY <1>1, <5>1, <5>2, <5>3, TurnIsNotAwaited DEF AtRelease
      <4>3. CASE r # "SUCCESS"
        BY <4>1, <4>3 DEF AuthorizeDependency, AwaitsRegistry, AtCommand, ReleaseDependency, world
      <4> QED BY <4>2, <4>3
    <3>2. CASE IntegrityFails \/ IntegrityHolds
      BY <3>2 DEF IntegrityFails, IntegrityHolds, Resumed, On, At, AtCommand,
         ReleaseDependency, world
    <3>3. CASE ProcessFails \/ \E r \in PlatResults : DependencyCompleted(r)
      BY <3>3 DEF ProcessFails, DependencyCompleted, ResumedProcess, Resumed, On, At, AtCommand,
         ReleaseDependency, world
    <3> QED BY <1>3, <3>1, <3>2, <3>3 DEF BeginsRelease
  <2>2. PICK e, v : /\ ReleaseDependency(e, v)
                    /\ Command(Top).op = "dependency_integrity"
                          => v \in {"SUCCESS", "FAIL_CONDITION"}
    BY <2>1
  <2> DEFINE n == Len(seq_stack)
             f == [Top EXCEPT !.cmd_exec_state = Releasing, !.retval = v]
  <2>3. seq_stack \in Seq(F) /\ n \in 1 .. n /\ Top \in F /\ Top = seq_stack[n]
    <3>1. StackReady
      BY <2>1, InSequence DEF Level
    <3>2. /\ seq_stack \in Seq(F) /\ n \in Nat \ {0} /\ Top \in F /\ Top = seq_stack[n]
      BY <3>1, ReadyIsTyped
    <3> QED BY <3>2
  <2>4. seq_stack' = [seq_stack EXCEPT ![n] = f] /\ op' = "releasing"
    BY <2>2 DEF ReleaseDependency, Continue, Registry!BeginRelease
  <2>5. Top' = f
    <3>1. seq_stack \in Seq(F \cup {f}) /\ f \in F \cup {f}
      BY <2>3
    <3> HIDE DEF f
    <3>2. Len(seq_stack') = n /\ seq_stack'[n] = f
      BY <2>3, <2>4, <3>1, ExceptSeq
    <3> QED BY <3>2 DEF Top
  <2>6. /\ Top'.retval = v /\ Top'.cmd_seq = Top.cmd_seq
        /\ Top'.current_command = Top.current_command
    BY <2>3, <2>5 DEF F, FrameType
  <2>7. Command(Top).op = "dependency_integrity"
    BY <2>1, <2>6 DEF AtVerdict, Command
  <2> QED BY <2>2, <2>4, <2>6, <2>7 DEF VerdictKept
<1> QED BY <1>1, <1>2, <1>3, ReleaseBegun DEF Level

\* What the frame below, or the processor, gets when the frame on top is popped.
Handed == IF seq_stack' = <<>> THEN seq_ret' ELSE seq_stack'[Len(seq_stack')].retval

LEMMA PopHands ==
    ASSUME StackReady, NEW r \in Retvals, FinishesAs(r)
    PROVE  Handed \in {r, "FAIL_SOFT_CONDITION"}
<1>1. PICK g \in F : SameOwner(g, Top) /\ Finalize(g, r)
  BY DEF FinishesAs
<1>2. /\ Len(seq_stack) = 1 => seq_stack' = <<>> /\ seq_ret' = Result(g, r)
      /\ Len(seq_stack) > 1 =>
            LET n == Len(seq_stack) - 1 IN
            /\ seq_stack' \in Seq(FrameType(Retvals)) /\ Len(seq_stack') = n
            /\ \A k \in 1 .. n - 1 : seq_stack'[k] = seq_stack[k]
            /\ seq_stack'[n] = [seq_stack[n] EXCEPT
                   !.retval = Result(g, r), !.current_components = g.current_components]
            /\ seq_ret' = "ERR_AGAIN"
  <2>1. /\ seq_stack \in Seq(FrameType(Retvals)) /\ g \in FrameType(Retvals) /\ Running
        /\ "FAIL_SOFT_CONDITION" \in Retvals /\ Finalize(g, r) /\ r \in Retvals
    BY <1>1, ReadyIsTyped DEF F, StackReady, Retvals
  <2> QED BY <2>1, PoppedStack
<1> DEFINE n == Len(seq_stack)
           m == n - 1
<1>3. Result(g, r) \in {r, "FAIL_SOFT_CONDITION"}
  BY DEF Result
<1>4. seq_stack \in Seq(F) /\ n \in Nat \ {0}
  BY ReadyIsTyped
<1>5. CASE n = 1
  BY <1>2, <1>3, <1>5 DEF Handed
<1>6. CASE n # 1
  <2>0. n \in Nat \ {0}
    BY <1>4
  <2>1. n > 1 /\ m \in 1 .. n
    <3> HIDE DEF n
    <3> QED BY <1>6, <2>0
  <2>2. seq_stack[m] \in F
    BY <1>4, <2>1, ElementOfSeq
  <2>3. seq_stack'[m].retval = Result(g, r)
    BY <1>2, <2>1, <2>2 DEF F, FrameType
  <2>4. seq_stack' # <<>> /\ Len(seq_stack') = m
    BY <1>2, <2>1
  <2> QED BY <1>3, <2>3, <2>4 DEF Handed
<1> QED BY <1>5, <1>6

LEMMA FailureHands ==
    ASSUME StackReady, AtCommand, NEW f \in F, SameOwner(f, Top),
           f.current_command = Top.current_command, Return(f, "FAIL_CONDITION")
    PROVE  Handed \in {"FAIL_CONDITION", "FAIL_SOFT_CONDITION"}
<1>1. "FAIL_CONDITION" \in Retvals /\ Typed
  BY ReadyIsTyped DEF Retvals, Endings
<1>2. FinishesAs("FAIL_CONDITION")
  BY <1>1, ReturnWay
<1> QED BY <1>1, <1>2, PopHands

LEMMA SuccessStays ==
    ASSUME StackReady, AtCommand, NEW f \in F, SameOwner(f, Top),
           f.current_command = Top.current_command, Return(f, "SUCCESS")
    PROVE  Len(seq_stack') = Len(seq_stack)
<1>1. "SUCCESS" \in Retvals /\ Typed /\ seq_stack \in Seq(F) /\ Running
  BY ReadyIsTyped DEF Retvals, Endings, StackReady
<1>2. GoesOn
  BY <1>1, ReturnWay
<1>3. PICK g \in F : Continue(g)
  BY <1>2 DEF GoesOn
<1> QED BY <1>1, <1>3, ContinuedStack

\* The component of the command on top is one the manifest was loaded with.
LEMMA SlotIsFilled ==
    ASSUME PInv, InStep, RegistryKept, Running, Current.current_component_idx \in Indexes(Current)
    PROVE  /\ CurrentSlot \in Slot /\ components[CurrentSlot].ref_count # 0
           /\ components[CurrentSlot].is_dependency \in {"true", "false"}
<1> DEFINE e == Top.manifest
           i == Current.current_component_idx
<1>1. StackReady /\ Current \in F /\ SameOwner(Current, Top)
  BY InSequence, ReadyIsTyped, CurrentOf DEF StackReady
<1>2. Len(seq_stack) \in Frames /\ Top = seq_stack[Len(seq_stack)] /\ Top \in F
  BY <1>1, ReadyIsTyped DEF Frames
<1>3. e \in Entry /\ e < manifest_stack_height /\ (op # "none" => e # entry)
  BY <1>2, FramesLieBelow DEF RegistryKept, FramesBelow
<1>4. i \in 0 .. Len(manifest_stack[e]) - 1 /\ CurrentSlot = manifest_stack[e][i + 1]
  BY <1>1 DEF Indexes, CurrentSlot, SlotOf, SameOwner
<1>5. /\ manifest_stack[e] \in Seq(Slot) /\ Len(manifest_stack[e]) \in Nat
  BY <1>1, <1>3, LenProperties DEF StackReady, Maps
<1>6. i + 1 \in 1 .. Len(manifest_stack[e])
  BY <1>4, <1>5
<1>7. CurrentSlot \in Slot
  BY <1>4, <1>5, <1>6, ElementOfSeq
<1>8. e \in Proofs!Entry /\ Proofs!RegistryInv /\ Proofs!NoDanglingReference
      /\ DependencyDenied \in BOOLEAN
  BY <1>3, ProcessorAssumption DEF PInv, RegistryKept, Entry, Proofs!Entry
<1>9. LET s == manifest_stack[e][i + 1] IN
      Proofs!InUse(s) /\ components[s].is_dependency \in {"true", "false"}
  BY <1>3, <1>6, <1>8, Proofs!MappedIsFilled, SeqExecAssumption DEF Proofs!MappedIsFilled
<1> QED BY <1>4, <1>7, <1>9 DEF Proofs!InUse

FailsSoftly ==
    (Len(seq_stack') < Len(seq_stack) /\ On({"dependency_integrity"}, Run)) =>
        (IF seq_stack' = <<>> THEN seq_ret' ELSE seq_stack'[Len(seq_stack')].retval)
            \in {"FAIL_CONDITION", "FAIL_SOFT_CONDITION"}

\* The command machine ends the condition in its early return only.
LEMMA IntegritySteps ==
    ASSUME StackReady, SeqStep, On({"dependency_integrity"}, Run)
    PROVE  \/ DependencyIntegrityRefused
           \/ \E r \in PlatResults \ {"SUCCESS"} : RetrieveFails(r)
<1>1. /\ AtCommand /\ ~MissingSetIndex /\ Command(Top).op = "dependency_integrity"
      /\ Top.cmd_processor = "run" /\ Current.current_component_idx \in Indexes(Current)
  BY DEF On, At, Run
<1>2. ~EndOfSequence /\ ~RejectCommand /\ ~ComponentGone /\ ~SetComponentIndex
  <2>1. Len(code[Top.cmd_seq]) \in Nat /\ Top.current_command \in Nat
    BY <1>1, ReadyIsTyped, CommandOf DEF StackReady, AtCommand
  <2>2. ~(Top.current_command >= Len(code[Top.cmd_seq]))
    BY <1>1, <2>1 DEF AtCommand
  <2> QED BY <1>1, <2>2 DEF EndOfSequence, RejectCommand, ComponentGone, SetComponentIndex, At
<1>3. ~TryEach /\ ~RunSequence /\ ~ValidateCommand /\ ~ValidateOverride /\ ~ParameterMissing
      /\ ~ParameterMalformed
  BY <1>1 DEF TryEach, RunSequence, ValidateCommand, ValidateOverride, ParameterMissing,
     ParameterMalformed, Ready, On, At, Validate, Required
<1>4. \A r \in PlatResults : ~CheckCondition(r) /\ ~Perform(r) /\ ~SetParameters(r)
  BY <1>1 DEF CheckCondition, Perform, SetParameters, Ready, On, At, Checks, Effects
<1>5. ~AssumeCondition /\ ~Abort /\ ~ConditionIsDependency /\ ~Override
      /\ ~ProcessDependencyRefused
      /\ \A i \in 0 .. MaxComponents - 1, r \in PlatResults \ {"SUCCESS"} :
            ~OverrideSizeFails(i, r)
  BY <1>1 DEF AssumeCondition, Abort, ConditionIsDependency, Override, ProcessDependencyRefused,
     OverrideSizeFails, Ready, On, At, Checks
<1>6. ~SkipCommand
  <2>1. Current \in F /\ Current.manifest \in Entry
    BY ReadyIsTyped, CurrentOf DEF StackReady, F, FrameType
  <2>2. /\ manifest_stack[Current.manifest] \in Seq(Slot)
        /\ Len(manifest_stack[Current.manifest]) <= MaxComponents
    BY <2>1 DEF StackReady, Maps
  <2>3. Indexes(Current) \subseteq 0 .. MaxComponents - 1
    BY <2>2, LenProperties, SeqExecAssumption DEF Indexes
  <2> QED BY <1>1, <2>3, SeqExecAssumption DEF SkipCommand, NoIndex
<1> QED BY <1>2, <1>3, <1>4, <1>5, <1>6 DEF SeqStep

LEMMA SoftStep ==
    ASSUME Level, VerdictKept
    PROVE  FailsSoftly
<1> SUFFICES ASSUME Len(seq_stack') < Len(seq_stack), On({"dependency_integrity"}, Run)
             PROVE  Handed \in {"FAIL_CONDITION", "FAIL_SOFT_CONDITION"}
  BY DEF FailsSoftly, Handed
<1>1. /\ AtCommand /\ Running /\ ~MissingSetIndex /\ Command(Top).op = "dependency_integrity"
      /\ Current.current_component_idx \in Indexes(Current)
  BY DEF On, At, AtCommand
<1>2. StackReady /\ Top \in F /\ Typed /\ Len(seq_stack) \in Nat \ {0}
  BY <1>1, InSequence, ReadyIsTyped DEF Level
<1>3. Current \in F /\ SameOwner(Current, Top) /\ Current.current_command = Top.current_command
  BY <1>1, <1>2, CurrentOf
<1>4. ASSUME NEW r, LoadFailed(r) PROVE Handed \in {"FAIL_CONDITION", "FAIL_SOFT_CONDITION"}
  BY <1>1, <1>2, <1>3, <1>4, FailureHands DEF LoadFailed
<1>5. ASSUME NEW g \in F, Continue(g) PROVE FALSE
  <2>1. Len(seq_stack') = Len(seq_stack)
    BY <1>1, <1>2, <1>5, ReadyIsTyped, ContinuedStack
  <2> QED BY <1>2, <2>1
<1>6. CASE RunCommand
  <2>1. SeqStep
    BY <1>6 DEF RunCommand
  <2>2. CASE DependencyIntegrityRefused
    <3>1. components[CurrentSlot].is_dependency \in {"true", "false"}
      BY <1>1, SlotIsFilled DEF Level
    <3>2. Return(Current, "FAIL_CONDITION") \/ Return(Current, "SUCCESS")
      BY <2>2, <3>1, Zenon DEF DependencyIntegrityRefused, IsDependency
    <3>3. ~Return(Current, "SUCCESS")
      <4>1. ASSUME Return(Current, "SUCCESS") PROVE FALSE
        <5>1. Len(seq_stack') = Len(seq_stack)
          BY <1>1, <1>2, <1>3, <4>1, SuccessStays
        <5> QED BY <1>2, <5>1
      <4> QED BY <4>1
    <3> QED BY <1>1, <1>2, <1>3, <3>2, <3>3, FailureHands
  <2>3. CASE \E r \in PlatResults \ {"SUCCESS"} : RetrieveFails(r)
    BY <1>4, <2>3 DEF RetrieveFails
  <2> QED BY <1>2, <2>1, <2>2, <2>3, IntegritySteps
<1>7. CASE LoadDependency
  <2>1. CASE LoadFailed("ERR_OVERFLOW")
    BY <1>4, <2>1
  <2>2. CASE Continue([Current EXCEPT !.cmd_exec_state = Loading])
    <3> DEFINE f == [Current EXCEPT !.cmd_exec_state = Loading]
    <3>1. f \in F
      BY <1>3 DEF F, FrameType, Loading
    <3> HIDE DEF f
    <3> QED BY <1>5, <2>2, <3>1 DEF f
  <2> QED BY <1>7, <2>1, <2>2 DEF LoadDependency
<1>8. CASE DependencyNotLoaded
  BY <1>4, <1>8 DEF DependencyNotLoaded
<1>9. CASE LoadedForIntegrity
  <2> DEFINE f == [Top EXCEPT !.cmd_exec_state = SHARED]
  <2>1. f \in F
    BY <1>2 DEF F, FrameType, SHARED
  <2>2. Continue(f)
    BY <1>9 DEF LoadedForIntegrity
  <2> HIDE DEF f
  <2> QED BY <1>5, <2>1, <2>2
<1>10. CASE ValidateForIntegrity
  <2> DEFINE d == Dependency
             x == Top.cmd_exec_state
             v == Masked(ScheduledDependency(x), x)
             y == x + 1
             f == [Top EXCEPT !.cmd_exec_state = y, !.retval = v]
             s == [seq_stack EXCEPT ![Len(seq_stack)] = f]
  <2>1. seq_stack' = Pushed(s, d, x, Validator(x)) /\ seq_ret' = "ERR_AGAIN"
    BY <1>10 DEF ValidateForIntegrity, ScheduleDependency
  <2>2. v \in Retvals
    BY MaskedResults
  <2> HIDE DEF d, v
  <2>3. f \in F
    <3>1. y \in Nat
      BY <1>2 DEF F, FrameType
    <3> HIDE DEF y
    <3> QED BY <1>2, <2>2, <3>1 DEF F, FrameType
  <2> HIDE DEF f
  <2>4. s \in Seq(F) /\ Len(s) = Len(seq_stack)
    BY <1>2, <2>3, ReadyIsTyped, ExceptSeq
  <2> HIDE DEF s
  <2>5. Len(seq_stack') = Len(s) \/ Len(seq_stack') = Len(s) + 1
    <3> DEFINE h == NewFrame(Sequences(d)[x], d, FALSE, Validator(x), InitSelected(d))
    <3>1. seq_stack' = s \/ seq_stack' = Append(s, h)
      BY <2>1 DEF Pushed
    <3> HIDE DEF h
    <3>2. s \in Seq(F \cup {h}) /\ h \in F \cup {h}
      BY <2>4
    <3> QED BY <3>1, <3>2, AppendProperties
  <2> QED BY <1>2, <2>4, <2>5
<1>11. CASE IntegrityFails \/ IntegrityHolds
  <2>1. \E v \in {"FAIL_CONDITION", "SUCCESS"} :
           Continue([Top EXCEPT !.cmd_exec_state = Releasing, !.retval = v])
    BY <1>11 DEF IntegrityFails, IntegrityHolds, ReleaseDependency
  <2>2. PICK v \in {"FAIL_CONDITION", "SUCCESS"} :
           Continue([Top EXCEPT !.cmd_exec_state = Releasing, !.retval = v])
    BY <2>1
  <2> DEFINE f == [Top EXCEPT !.cmd_exec_state = Releasing, !.retval = v]
  <2>3. f \in F
    <3>1. v \in Retvals /\ Releasing \in Nat
      BY DEF Retvals, Endings, Releasing, SEQ_MAX
    <3> QED BY <1>2, <3>1 DEF F, FrameType
  <2> HIDE DEF f
  <2> QED BY <1>5, <2>2, <2>3 DEF f
<1>12. CASE DependencyReleased
  <2> DEFINE r == IF Top.retval = "SUCCESS" THEN op_ret ELSE Top.retval
             f == [Top EXCEPT !.retval = r]
  <2>1. Return(f, r) /\ op = "none" /\ AtVerdict
    BY <1>1, <1>12 DEF DependencyReleased, AtVerdict, AtRelease, AtRegistry
  <2>2. r \in {"SUCCESS", "FAIL_CONDITION"}
    BY <2>1 DEF VerdictKept
  <2> HIDE DEF r
  <2>3. f \in F /\ SameOwner(f, Top) /\ f.current_command = Top.current_command
    <3>1. r \in Retvals
      BY <2>2 DEF Retvals, Endings
    <3> QED BY <1>2, <3>1 DEF F, FrameType, SameOwner
  <2> HIDE DEF f
  <2>4. r # "SUCCESS"
    <3>1. ASSUME r = "SUCCESS" PROVE FALSE
      <4>1. Len(seq_stack') = Len(seq_stack)
        BY <1>1, <1>2, <2>1, <2>3, <3>1, SuccessStays
      <4> QED BY <1>2, <4>1
    <3> QED BY <3>1
  <2> QED BY <1>1, <1>2, <2>1, <2>2, <2>3, <2>4, FailureHands
<1>13. ASSUME UNCHANGED seq_stack PROVE FALSE
  BY <1>2, <1>13
<1>14. CASE Stays
  BY <1>13, <1>14 DEF Stays, vars, stacks, LoadStep, ReleaseStep
<1>15. CASE Loaded \/ ValidateNext \/ ValidationDone \/ DryRunNext \/ DryRunMain \/ DryRunRepeat
           \/ DryRunDone \/ ExecuteShared \/ ExecuteMain \/ (\E r \in PlatResults : Completed(r))
           \/ GiveUp \/ CallReturns \/ \E n \in Calls : Call(n)
  BY <1>1, <1>15 DEF Loaded, ValidateNext, ValidationDone, DryRunNext, DryRunMain, DryRunRepeat,
     DryRunDone, ExecuteShared, ExecuteMain, Completed, GiveUp, CallReturns, Call, AtStep
<1>16. CASE ValidateForProcess \/ ExecuteDependency \/ ProcessFails
            \/ (\E r \in PlatResults : DependencyCompleted(r))
            \/ \E r \in AuthResults : AuthorizeDependency(r)
  BY <1>1, <1>16 DEF ValidateForProcess, ExecuteDependency, ProcessFails, DependencyCompleted,
     AuthorizeDependency, ResumedProcess, Resumed, On, At
<1> QED BY <1>6, <1>7, <1>8, <1>9, <1>10, <1>11, <1>12, <1>14, <1>15, <1>16
        DEF Level, Next, Step, Stays

(***************************************************************************)
(* If the platform denies no dependency and releases what it is told to,   *)
(* whatever goes wrong in loading or validating a dependency fails its     *)
(* integrity condition, which a try-each may absorb, and never aborts the  *)
(* processing (suit_condition.c, suit_condition_dependency_integrity).     *)
(***************************************************************************)
THEOREM IntegrityNeverAborts ==
    ASSUME ReleaseResults \subseteq {"SUCCESS"}, ~DependencyDenied
    PROVE  Spec /\ []ResumedInPlace => IntegrityFailsSoftly
<1> DEFINE Kept == InStep /\ RegistryKept /\ VerdictKept
<1>1. Init => Kept
  <2>1. Init => VerdictKept
    BY DEF Init, VerdictKept, AtVerdict, AtRelease, AtRegistry, Running
  <2> QED BY <2>1, InitIsPlaced DEF AllPlaced
<1>2. PInv /\ PInv' /\ ResumedInPlace /\ Kept /\ [Next]_vars => Kept' /\ FailsSoftly
  <2> SUFFICES ASSUME PInv, PInv', ResumedInPlace, Kept, [Next]_vars PROVE Kept' /\ FailsSoftly
    OBVIOUS
  <2>1. InStep'
    BY InStepStep
  <2>2. RegistryKept' /\ (Proofs!Next \/ UNCHANGED Proofs!vars)
    BY RegistryStepKept
  <2>3. Level
    BY <2>1, <2>2 DEF Level
  <2> QED BY <2>1, <2>2, <2>3, VerdictStep, SoftStep
<1>3. PInv /\ PInv' /\ ResumedInPlace /\ Kept /\ [Next]_vars => [FailsSoftly]_vars
  BY <1>2
<1> HIDE DEF Kept
<1>4. PInv /\ PInv' /\ ResumedInPlace /\ Kept /\ [Next]_vars => Kept'
  BY <1>2
<1> QED BY <1>1, <1>3, <1>4, ProcessorInvariant, PTL DEF Spec, IntegrityFailsSoftly, FailsSoftly

\* It is enough that no dependency unchecks the component it is executed from.
THEOREM CheckedIntegrityNeverAborts ==
    ASSUME ReleaseResults \subseteq {"SUCCESS"}, ~DependencyDenied
    PROVE  Spec /\ []ResumedChecked => IntegrityFailsSoftly
BY CommandsResumeInPlace, IntegrityNeverAborts, PTL

-----------------------------------------------------------------------------
(***************************************************************************)
(* The forms a step takes on the stack, and who executes above whom.       *)
(***************************************************************************)
TurnsOver == \E g \in F : SameOwner(g, Top) /\ Continue(g)

\* A dependency command has a sequence of its dependency executed or validated.
Descends ==
    \E name \in DependencyCommands :
        /\ Resumed(name)
        /\ \E n : \E p \in Run \cup Validate : \E v \in Retvals :
              /\ ScheduleDependency(n, p, v)
              /\ p \in Validate \/ name = "process_dependency"

LEMMA ReturnForm ==
    ASSUME StackReady, AtCommand, NEW f \in F, SameOwner(f, Top),
           f.current_command = Top.current_command, NEW r \in Retvals, Return(f, r)
    PROVE  TurnsOver \/ Finishes
<1>1. (r = "SUCCESS" => GoesOn) /\ (r # "SUCCESS" => FinishesAs(r))
  BY ReadyIsTyped, ReturnWay
<1>2. GoesOn => TurnsOver
  BY DEF GoesOn, TurnsOver
<1> QED BY <1>1, <1>2 DEF Finishes

LEMMA LoadFailedForm ==
    ASSUME StackReady, AtCommand, NEW r \in Retvals, LoadFailed(r)
    PROVE  TurnsOver \/ Finishes
<1>1. /\ Current \in F /\ SameOwner(Current, Top)
      /\ Current.current_command = Top.current_command
  BY ReadyIsTyped, CurrentOf DEF StackReady
<1>2. PICK q \in {"FAIL_CONDITION", r} : Return(Current, q)
  BY DEF LoadFailed
<1>3. q \in Retvals
  BY <1>2 DEF Retvals, Endings
<1> QED BY <1>1, <1>2, <1>3, ReturnForm

LEMMA ReleaseForm ==
    ASSUME StackReady, NEW e, NEW v \in Retvals, ReleaseDependency(e, v)
    PROVE  TurnsOver
<1> DEFINE f == [Top EXCEPT !.cmd_exec_state = Releasing, !.retval = v]
<1>1. Top \in F /\ Releasing \in Nat /\ Continue(f)
  BY ReadyIsTyped DEF ReleaseDependency, Releasing, SEQ_MAX
<1>2. f \in F /\ SameOwner(f, Top)
  BY <1>1 DEF F, FrameType, SameOwner
<1> HIDE DEF f
<1> QED BY <1>1, <1>2 DEF TurnsOver

LEMMA StartForm ==
    ASSUME StackReady, NEW g \in F, SameOwner(g, Top), NEW x \in Nat,
           Continue([g EXCEPT !.cmd_exec_state = x])
    PROVE  TurnsOver
<1> DEFINE f == [g EXCEPT !.cmd_exec_state = x]
<1>1. f \in F /\ SameOwner(f, Top) /\ Continue(f)
  BY DEF F, FrameType, SameOwner
<1> HIDE DEF f
<1> QED BY <1>1 DEF TurnsOver

LEMMA DependencyForm ==
    ASSUME PInv, DependencyStep
    PROVE  TurnsOver \/ Finishes \/ Descends
<1>1. {"FAIL_CONDITION", "SUCCESS", "ERR_OVERFLOW"} \cup AuthResults \cup PlatResults
         \cup Registry!Results \subseteq Retvals
  BY DEF Retvals, Endings, Registry!Results
<1>2. ASSUME Running PROVE StackReady /\ Top \in F /\ Top.retval \in Retvals
  BY <1>2, InSequence, ReadyIsTyped DEF F, FrameType
<1>3. op_ret \in Retvals /\ Loading \in Nat /\ SHARED \in Nat
  BY <1>1, RegistryTyped DEF PInv, Loading, SHARED
<1>4. CASE LoadDependency
  <2>1. AtCommand /\ StackReady
    BY <1>2, <1>4 DEF LoadDependency, ToLoad, On, At, AtCommand
  <2>2. Current \in F /\ SameOwner(Current, Top)
    BY <2>1, ReadyIsTyped, CurrentOf DEF AtCommand
  <2>3. LoadFailed("ERR_OVERFLOW") \/ Continue([Current EXCEPT !.cmd_exec_state = Loading])
    BY <1>4 DEF LoadDependency
  <2> QED BY <1>1, <1>3, <2>1, <2>2, <2>3, LoadFailedForm, StartForm
<1>5. CASE DependencyNotLoaded
  <2>1. AtCommand /\ StackReady /\ LoadFailed(op_ret)
    BY <1>2, <1>5 DEF DependencyNotLoaded, AwaitsRegistry, AtCommand
  <2> QED BY <1>3, <2>1, LoadFailedForm
<1>6. ASSUME NEW r \in AuthResults, LoadedForIntegrity \/ AuthorizeDependency(r)
      PROVE  TurnsOver
  <2>1. StackReady /\ Top \in F /\ SameOwner(Top, Top)
    BY <1>2, <1>6 DEF LoadedForIntegrity, AuthorizeDependency, AwaitsRegistry, AtCommand, SameOwner
  <2>2. \/ Continue([Top EXCEPT !.cmd_exec_state = SHARED])
        \/ ReleaseDependency(Dependency - 1, r)
    BY <1>6 DEF LoadedForIntegrity, AuthorizeDependency
  <2> QED BY <1>1, <1>3, <2>1, <2>2, StartForm, ReleaseForm
<1>7. CASE LoadedForIntegrity
  <2>1. StackReady /\ Top \in F /\ SameOwner(Top, Top)
    BY <1>2, <1>7 DEF LoadedForIntegrity, AwaitsRegistry, AtCommand, SameOwner
  <2>2. Continue([Top EXCEPT !.cmd_exec_state = SHARED])
    BY <1>7 DEF LoadedForIntegrity
  <2> QED BY <1>3, <2>1, <2>2, StartForm
<1>8. CASE ValidateForIntegrity \/ ValidateForProcess
  <2>1. PICK name \in DependencyCommands : Resumed(name)
    BY <1>8 DEF ValidateForIntegrity, ValidateForProcess, ResumedProcess, DependencyCommands
  <2>2. Validator(Top.cmd_exec_state) \in Validate
    BY DEF Validator, Validate
  <2> QED BY <1>8, <2>1, <2>2, MaskedResults
          DEF ValidateForIntegrity, ValidateForProcess, Descends
<1>9. CASE ExecuteDependency
  <2>1. Resumed("process_dependency") /\ "process_dependency" \in DependencyCommands
    BY <1>9 DEF ExecuteDependency, ResumedProcess, DependencyCommands
  <2>2. \E n : \E v \in Retvals : ScheduleDependency(n, "run", v)
    BY <1>9, MaskedResults DEF ExecuteDependency
  <2>3. "run" \in Run \cup Validate
    BY DEF Run
  <2> QED BY <2>1, <2>2, <2>3 DEF Descends
<1>10. CASE IntegrityFails \/ IntegrityHolds \/ ProcessFails
            \/ \E r \in PlatResults : DependencyCompleted(r)
  <2>1. StackReady /\ Top.retval \in Retvals
    BY <1>2, <1>10 DEF IntegrityFails, IntegrityHolds, ProcessFails, DependencyCompleted,
       ResumedProcess, Resumed, On, At, AtCommand
  <2>2. \E v \in {"FAIL_CONDITION", "SUCCESS", Top.retval} \cup PlatResults :
           ReleaseDependency(Dependency, v)
    BY <1>10 DEF IntegrityFails, IntegrityHolds, ProcessFails, DependencyCompleted
  <2> QED BY <1>1, <2>1, <2>2, ReleaseForm
<1>11. CASE DependencyReleased
  <2> DEFINE r == IF Top.retval = "SUCCESS" THEN op_ret ELSE Top.retval
             f == [Top EXCEPT !.retval = r]
  <2>1. AtCommand /\ StackReady /\ Return(f, r) /\ Top \in F /\ Top.retval \in Retvals
    BY <1>2, <1>11 DEF DependencyReleased, AwaitsRegistry, AtCommand
  <2>2. r \in Retvals
    BY <1>3, <2>1
  <2> HIDE DEF r
  <2>3. f \in F /\ SameOwner(f, Top) /\ f.current_command = Top.current_command
    BY <2>1, <2>2 DEF F, FrameType, SameOwner
  <2> HIDE DEF f
  <2> QED BY <2>1, <2>2, <2>3, ReturnForm
<1> QED BY <1>4, <1>5, <1>6, <1>7, <1>8, <1>9, <1>10, <1>11 DEF DependencyStep

LEMMA StepForm ==
    ASSUME PInv, [Next]_vars, Running
    PROVE  UNCHANGED seq_stack \/ TurnsOver \/ Schedules \/ Finishes \/ Descends
<1>1. CASE RunCommand
  <2>1. GoesOn => TurnsOver
    BY DEF GoesOn, TurnsOver
  <2> QED BY <1>1, <2>1, InSequence, ReadyIsTyped, StepWay DEF RunCommand
<1>2. CASE UNCHANGED vars \/ LoadStep \/ ReleaseStep
  BY <1>2 DEF vars, stacks, LoadStep, ReleaseStep
<1>3. CASE Loaded \/ ValidateNext \/ ValidationDone \/ DryRunNext \/ DryRunMain \/ DryRunRepeat
           \/ DryRunDone \/ ExecuteShared \/ ExecuteMain \/ (\E r \in PlatResults : Completed(r))
           \/ GiveUp \/ CallReturns \/ \E n \in Calls : Call(n)
  BY <1>3 DEF Loaded, ValidateNext, ValidationDone, DryRunNext, DryRunMain, DryRunRepeat,
     DryRunDone, ExecuteShared, ExecuteMain, Completed, GiveUp, CallReturns, Call, AtStep
<1> QED BY <1>1, <1>2, <1>3, DependencyForm DEF Next, Step, DependencyStep

\* Who is on the stack after a step validates or executes as before; a new frame
\* does what the one below it does, unless that is in a dependency command.
ProcessorsStay ==
    \A k \in 1 .. Len(seq_stack') :
        IF k <= Len(seq_stack) THEN seq_stack'[k].cmd_processor = seq_stack[k].cmd_processor
        ELSE /\ k = Len(seq_stack) + 1
             /\ \/ /\ ~AtDependency(code, seq_stack'[Len(seq_stack)])
                   /\ seq_stack'[k].cmd_processor = Top.cmd_processor
                \/ seq_stack'[k].cmd_processor \in Validate
                \/ Resumed("process_dependency")

LEMMA TurnProcessors ==
    ASSUME StackReady, TurnsOver
    PROVE  ProcessorsStay
<1>1. PICK g \in F : SameOwner(g, Top) /\ Continue(g)
  BY DEF TurnsOver
<1>2. seq_stack \in Seq(F) /\ Top = seq_stack[Len(seq_stack)] /\ Running
      /\ Len(seq_stack) \in Nat
  BY ReadyIsTyped DEF StackReady
<1>3. /\ Len(seq_stack') = Len(seq_stack)
      /\ \A k \in 1 .. Len(seq_stack) :
            seq_stack'[k] = IF k = Len(seq_stack) THEN g ELSE seq_stack[k]
  BY <1>1, <1>2, ContinuedStack
<1> QED BY <1>1, <1>2, <1>3 DEF ProcessorsStay, SameOwner

LEMMA PushProcessors ==
    ASSUME StackReady, NEW g \in F, NEW h \in F, SameOwner(g, Top),
           seq_stack' = Append([seq_stack EXCEPT ![Len(seq_stack)] = g], h),
           \/ ~AtDependency(code, g) /\ h.cmd_processor = g.cmd_processor
           \/ h.cmd_processor \in Validate
           \/ Resumed("process_dependency")
    PROVE  ProcessorsStay
<1> DEFINE n == Len(seq_stack)
           s == [seq_stack EXCEPT ![n] = g]
<1>1. /\ seq_stack \in Seq(F) /\ Top = seq_stack[n] /\ n \in Nat \ {0} /\ n \in 1 .. n
  BY ReadyIsTyped
<1>2. /\ s \in Seq(F) /\ Len(s) = n
      /\ \A k \in 1 .. n : s[k] = IF k = n THEN g ELSE seq_stack[k]
      /\ seq_stack' = Append(s, h)
  BY <1>1, ExceptSeq
<1> HIDE DEF s
<1>3. /\ Len(seq_stack') = n + 1
      /\ \A k \in 1 .. n : seq_stack'[k] = s[k]
      /\ seq_stack'[n + 1] = h
  BY <1>2, AppendProperties
<1>4. \A k \in 1 .. n : seq_stack'[k].cmd_processor = seq_stack[k].cmd_processor
  BY <1>1, <1>2, <1>3 DEF SameOwner
<1>5. seq_stack'[n] = g /\ g.cmd_processor = Top.cmd_processor
  BY <1>1, <1>2, <1>3 DEF SameOwner
<1>6. \A k \in 1 .. n + 1 : k \in 1 .. n \/ k = n + 1
  BY <1>1
<1> HIDE DEF n
<1>7. ASSUME NEW k \in 1 .. n + 1
      PROVE  IF k <= n THEN seq_stack'[k].cmd_processor = seq_stack[k].cmd_processor
             ELSE /\ k = n + 1
                  /\ \/ /\ ~AtDependency(code, seq_stack'[n])
                        /\ seq_stack'[k].cmd_processor = Top.cmd_processor
                     \/ seq_stack'[k].cmd_processor \in Validate
                     \/ Resumed("process_dependency")
  <2>1. CASE k \in 1 .. n
    <3>1. k <= n
      BY <1>1, <2>1
    <3> QED BY <1>4, <2>1, <3>1, Zenon
  <2>2. CASE k = n + 1
    <3>1. ~(k <= n)
      BY <1>1, <2>2
    <3>2. \/ /\ ~AtDependency(code, seq_stack'[n])
             /\ seq_stack'[k].cmd_processor = Top.cmd_processor
          \/ seq_stack'[k].cmd_processor \in Validate
          \/ Resumed("process_dependency")
      BY <1>3, <1>5, <2>2, Zenon
    <3> QED BY <2>2, <3>1, <3>2, Zenon
  <2> QED BY <1>6, <2>1, <2>2
<1> QED BY <1>3, <1>7 DEF ProcessorsStay, n

LEMMA PopProcessors ==
    ASSUME StackReady, Finishes
    PROVE  ProcessorsStay
<1>0. PICK r \in Retvals : FinishesAs(r)
  BY DEF Finishes
<1>1. PICK g \in F : SameOwner(g, Top) /\ Finalize(g, r)
  BY <1>0 DEF FinishesAs
<1>2. /\ Len(seq_stack) = 1 => seq_stack' = <<>> /\ seq_ret' = Result(g, r)
      /\ Len(seq_stack) > 1 =>
            LET n == Len(seq_stack) - 1 IN
            /\ seq_stack' \in Seq(FrameType(Retvals)) /\ Len(seq_stack') = n
            /\ \A k \in 1 .. n - 1 : seq_stack'[k] = seq_stack[k]
            /\ seq_stack'[n] = [seq_stack[n] EXCEPT
                   !.retval = Result(g, r), !.current_components = g.current_components]
            /\ seq_ret' = "ERR_AGAIN"
  <2>1. /\ seq_stack \in Seq(FrameType(Retvals)) /\ g \in FrameType(Retvals) /\ Running
        /\ "FAIL_SOFT_CONDITION" \in Retvals /\ Finalize(g, r) /\ r \in Retvals
    BY <1>1, ReadyIsTyped DEF F, StackReady, Retvals
  <2> QED BY <2>1, PoppedStack
<1> DEFINE n == Len(seq_stack)
           m == n - 1
<1>3. seq_stack \in Seq(F) /\ n \in Nat /\ n >= 1
  BY ReadyIsTyped
<1>4. CASE n = 1
  <2>1. Len(seq_stack') = 0 /\ 1 .. 0 = {}
    BY <1>2, <1>4
  <2> QED BY <2>1 DEF ProcessorsStay
<1>5. CASE n # 1
  <2>0. n \in Nat /\ n >= 1 /\ n # 1
    BY <1>3, <1>5
  <2>1. m \in Nat /\ m >= 1 /\ n = m + 1 /\ m \in 1 .. n /\ n > 1
    <3> HIDE DEF n
    <3> QED BY <2>0
  <2>2. /\ Len(seq_stack') = m
        /\ \A k \in 1 .. m - 1 : seq_stack'[k] = seq_stack[k]
        /\ seq_stack'[m] = [seq_stack[m] EXCEPT
               !.retval = Result(g, r), !.current_components = g.current_components]
    BY <1>2, <2>1
  <2>3. seq_stack[m] \in F
    BY <1>3, <2>1, ElementOfSeq
  <2> HIDE DEF n, m
  <2>4. ASSUME NEW k \in 1 .. m
        PROVE  k <= n /\ seq_stack'[k].cmd_processor = seq_stack[k].cmd_processor
    <3>1. k <= n
      BY <2>1
    <3>2. CASE k = m
      BY <2>2, <2>3, <3>1, <3>2 DEF F, FrameType
    <3>3. CASE k # m
      <4>1. k \in 1 .. m - 1
        BY <2>1, <3>3
      <4> QED BY <2>2, <3>1, <4>1
    <3> QED BY <3>2, <3>3
  <2> QED BY <2>2, <2>4 DEF ProcessorsStay, n
<1> QED BY <1>4, <1>5

LEMMA DescendProcessors ==
    ASSUME PInv, Descends
    PROVE  ProcessorsStay
<1>1. PICK name \in DependencyCommands :
         /\ Resumed(name)
         /\ \E n : \E p \in Run \cup Validate : \E v \in Retvals :
               ScheduleDependency(n, p, v) /\ (p \in Validate \/ name = "process_dependency")
  BY DEF Descends
<1>2. PICK n : \E p \in Run \cup Validate : \E v \in Retvals :
               ScheduleDependency(n, p, v) /\ (p \in Validate \/ name = "process_dependency")
  BY <1>1
<1>3. PICK p \in Run \cup Validate, v \in Retvals :
               ScheduleDependency(n, p, v) /\ (p \in Validate \/ name = "process_dependency")
  BY <1>2
<1>4. /\ Running /\ Dependency \in Entry /\ StackReady /\ Top \in F
  BY <1>1, ResumedOpen, InSequence, ReadyIsTyped
<1> DEFINE x == Top.cmd_exec_state + 1
           f == [Top EXCEPT !.cmd_exec_state = x, !.retval = v]
           stack == [seq_stack EXCEPT ![Len(seq_stack)] = f]
           d == Dependency
           h == NewFrame(Sequences(d)[n], d, FALSE, p, InitSelected(d))
<1>5. x \in Nat
  BY <1>4 DEF F, FrameType
<1>6. seq_stack' = Pushed(stack, d, n, p) /\ seq_ret' = "ERR_AGAIN"
  BY <1>3 DEF ScheduleDependency
<1> HIDE DEF x
<1>7. f \in F /\ SameOwner(f, Top)
  BY <1>4, <1>5 DEF F, FrameType, SameOwner
<1> HIDE DEF f
<1>8. CASE Scheduled(stack, d, n) = "ERR_AGAIN"
  <2>1. Status(d, n) = "SUCCESS"
    BY <1>8, ScheduledResult
  <2>2. h \in F /\ h.cmd_processor = p
    BY <1>4, <2>1, FirstFrameTyped DEF PInv
  <2>3. seq_stack' = Append(stack, h)
    BY <1>6, <1>8 DEF Pushed
  <2> HIDE DEF h
  <2> QED BY <1>1, <1>3, <1>4, <1>7, <2>2, <2>3, PushProcessors
<1>9. CASE Scheduled(stack, d, n) # "ERR_AGAIN"
  <2>1. Continue(f)
    BY <1>6, <1>9 DEF Pushed, Continue
  <2> QED BY <1>4, <1>7, <2>1, TurnProcessors DEF TurnsOver
<1> QED BY <1>8, <1>9

LEMMA ProcessorsAfter ==
    ASSUME PInv, [Next]_vars, Running
    PROVE  ProcessorsStay
<1>1. StackReady /\ seq_stack \in Seq(F) /\ Len(seq_stack) \in Nat
  BY InSequence, ReadyIsTyped
<1>2. CASE UNCHANGED seq_stack
  <2>1. \A k \in 1 .. Len(seq_stack) : k <= Len(seq_stack)
    BY <1>1
  <2> QED BY <1>2, <2>1 DEF ProcessorsStay
<1>3. CASE Schedules
  <2>1. PICK g \in F, name \in DOMAIN code, soft \in BOOLEAN :
           /\ SameOwner(g, Top) /\ ~AtDependency(code, g)
           /\ Push(g, name, soft, g.cmd_processor)
    BY <1>3 DEF Schedules
  <2> DEFINE h == NewFrame(name, g.manifest, soft, g.cmd_processor, g.current_components)
  <2>2. h = [cmd_seq |-> name, current_command |-> 0, cmd_exec_state |-> 0,
             retval |-> "SUCCESS", soft_failure |-> soft, current_component_idx |-> NoIndex,
             current_components |-> g.current_components, current_components_backup |-> {},
             manifest |-> g.manifest, cmd_processor |-> g.cmd_processor]
    BY DEF NewFrame
  <2>3. seq_stack' = Append([seq_stack EXCEPT ![Len(seq_stack)] = g], h)
    BY <2>1 DEF Push
  <2> HIDE DEF h
  <2>4. h \in F /\ h.cmd_processor = g.cmd_processor
    <3>1. NoIndex \in 0 .. MaxComponents
      BY SeqExecAssumption DEF NoIndex
    <3>2. "SUCCESS" \in Retvals
      BY DEF Retvals, Endings
    <3> QED BY <2>1, <2>2, <3>1, <3>2 DEF F, FrameType
  <2> QED BY <1>1, <2>1, <2>3, <2>4, PushProcessors
<1> QED BY <1>1, <1>2, <1>3, StepForm, TurnProcessors, PopProcessors, DescendProcessors

-----------------------------------------------------------------------------
(***************************************************************************)
(* While dependency-integrity waits, everything above it validates.        *)
(***************************************************************************)
IntegrityWaits(f) == IsWaiting(code, f) /\ Command(f).op = "dependency_integrity"

AboveValidates ==
    \A j, k \in Frames :
        (j < k /\ IntegrityWaits(seq_stack[j])) => seq_stack[k].cmd_processor \in Validate

LEMMA FramesNow ==
    ASSUME PInv
    PROVE  Frames = 1 .. Len(seq_stack) /\ Len(seq_stack) \in Nat
BY LenProperties DEF PInv, FramesOK, Frames

LEMMA FramesNext == (PInv => Frames = 1 .. Len(seq_stack) /\ Len(seq_stack) \in Nat)'
BY FramesNow, PTL

\* Below the top no frame begins to wait.
LEMMA WaitersBelow ==
    ASSUME PInv, [Next]_vars, NEW j \in 1 .. Len(seq_stack'), j < Len(seq_stack'),
           IsWaiting(code, seq_stack'[j])
    PROVE  /\ j \in 1 .. Len(seq_stack) /\ IsWaiting(code, seq_stack[j])
           /\ SamePlace(seq_stack'[j], seq_stack[j])
<1>1. CASE LoadDependency => Registry!LoadRefused
  BY <1>1, OtherStepsWait DEF WaitersStay
<1>2. CASE LoadDependency /\ ~Registry!LoadRefused
  <2> DEFINE f == [Current EXCEPT !.cmd_exec_state = Loading]
  <2>1. Continue(f) /\ Running
    BY <1>2 DEF LoadDependency, StartLoad, ToLoad, On, At, AtCommand
  <2>2. StackReady /\ Current \in F
    BY <2>1, InSequence, ReadyIsTyped, CurrentOf
  <2>3. f \in F /\ Loading \in Nat
    BY <2>2 DEF F, FrameType, Loading
  <2> HIDE DEF f
  <2>4. /\ Len(seq_stack') = Len(seq_stack)
        /\ \A k \in 1 .. Len(seq_stack) :
              seq_stack'[k] = IF k = Len(seq_stack) THEN f ELSE seq_stack[k]
    BY <2>1, <2>2, <2>3, ReadyIsTyped, ContinuedStack
  <2>5. j \in 1 .. Len(seq_stack) /\ j # Len(seq_stack)
    BY <2>2, <2>4, ReadyIsTyped
  <2>6. seq_stack'[j] = seq_stack[j]
    BY <2>4, <2>5
  <2> QED BY <2>5, <2>6 DEF SamePlace
<1> QED BY <1>1, <1>2

LEMMA ValidatesStep ==
    ASSUME PInv, PInv', [Next]_vars, AboveValidates
    PROVE  AboveValidates'
<1> DEFINE n == Len(seq_stack)
<1>1. code' = code
  BY CodeStays
<1>2. Frames = 1 .. n /\ n \in Nat /\ Frames' = 1 .. Len(seq_stack') /\ Len(seq_stack') \in Nat
  BY FramesNow, FramesNext
<1>3. SUFFICES ASSUME NEW j \in 1 .. Len(seq_stack'), NEW k \in 1 .. Len(seq_stack'), j < k,
                      IntegrityWaits(seq_stack'[j])
               PROVE  seq_stack'[k].cmd_processor \in Validate
  BY <1>1, <1>2 DEF AboveValidates, IntegrityWaits, IsWaiting, AtDependency, Command
<1>4. /\ j \in 1 .. n /\ IsWaiting(code, seq_stack[j]) /\ SamePlace(seq_stack'[j], seq_stack[j])
  <2>1. j < Len(seq_stack')
    BY <1>2, <1>3
  <2> QED BY <1>3, <2>1, WaitersBelow DEF IntegrityWaits
<1>5. IntegrityWaits(seq_stack[j])
  BY <1>1, <1>3, <1>4 DEF IntegrityWaits, SamePlace, Command
<1>6. Running /\ Top = seq_stack[n] /\ n \in Frames
  <2>1. Running
    <3>1. n # 0
      BY <1>2, <1>4
    <3> QED BY <3>1 DEF Running
  <2> QED BY <1>2, <1>4, <2>1 DEF Top
<1>7. \A i \in Frames : j < i => seq_stack[i].cmd_processor \in Validate
  BY <1>2, <1>4, <1>5 DEF AboveValidates
<1>8. ProcessorsStay
  BY <1>6, ProcessorsAfter
<1>9. CASE k <= n
  <2>1. seq_stack'[k].cmd_processor = seq_stack[k].cmd_processor
    BY <1>8, <1>9 DEF ProcessorsStay
  <2>2. k \in Frames
    BY <1>2, <1>9
  <2> QED BY <1>3, <1>7, <2>1, <2>2
<1>10. CASE ~(k <= n)
  <2>1. \/ /\ ~AtDependency(code, seq_stack'[n])
           /\ seq_stack'[k].cmd_processor = Top.cmd_processor
        \/ seq_stack'[k].cmd_processor \in Validate
        \/ Resumed("process_dependency")
    BY <1>8, <1>10 DEF ProcessorsStay
  <2>2. j = n \/ j < n
    BY <1>2, <1>4
  <2>3. CASE j = n
    <3>1. AtDependency(code, seq_stack'[n])
      BY <1>3, <2>3 DEF IntegrityWaits, IsWaiting
    <3>2. ~Resumed("process_dependency")
      BY <1>5, <1>6, <2>3 DEF Resumed, On, At, IntegrityWaits
    <3> QED BY <2>1, <3>1, <3>2
  <2>4. CASE j < n
    <3>1. Top.cmd_processor \in Validate
      BY <1>6, <1>7, <2>4
    <3>2. ~Resumed("process_dependency")
      BY <3>1 DEF Resumed, On, At, Run, Validate
    <3> QED BY <2>1, <3>1, <3>2
  <2> QED BY <2>2, <2>3, <2>4
<1> QED BY <1>9, <1>10

-----------------------------------------------------------------------------
(***************************************************************************)
(* The manifest that dependency-integrity validates is the one that its    *)
(* component stores: nothing writes to a component while it waits.         *)
(***************************************************************************)
LoadedFrom(f) ==
    envelope[f.manifest + 1] = content[components[SlotOf(f, f.current_component_idx)].component_id]

\* The dependency of the frame is being loaded, and has not failed to, or is loaded.
Verifying(f) ==
    /\ IntegrityWaits(f)
    /\ f.cmd_exec_state # Releasing
    /\ f.cmd_exec_state = Loading => \/ op = "loading"
                                     \/ op = "none" /\ op_ret = "SUCCESS"

VerifiesWhatIsStored == \A k \in Frames : Verifying(seq_stack[k]) => LoadedFrom(seq_stack[k])

\* The component of a frame that waits is the one it was.
LEMMA LoadedFromKept ==
    ASSUME Level, Placed, NEW k \in Frames, k \in Frames',
           NEW f, f = seq_stack[k], NEW g, g = seq_stack'[k],
           IsWaiting(code, f), SamePlace(g, f), LoadedFrom(f), UNCHANGED <<envelope, content>>
    PROVE  LoadedFrom(g)'
<1> DEFINE e == f.manifest
           i == f.current_component_idx
<1>1. e \in Entry /\ e < manifest_stack_height /\ (op # "none" => e # entry)
  <2>1. FramesBelow
    BY FramesLieBelow DEF Level, RegistryKept
  <2> QED BY <2>1 DEF FramesBelow
<1>2. e < manifest_stack_height' /\ (op' # "none" => e # entry')
  <2>1. FramesBelow'
    BY FramesLieBelowNext DEF Level, RegistryKept
  <2> QED BY <2>1 DEF FramesBelow, SamePlace
<1>3. /\ manifest_stack'[e] = manifest_stack[e]
      /\ \A n \in 1 .. Len(manifest_stack[e]) :
            components'[manifest_stack[e][n]].component_id =
               components[manifest_stack[e][n]].component_id
  BY <1>1, <1>2, ManifestKept DEF Level
<1>4. i \in 0 .. Len(manifest_stack[e]) - 1
  BY DEF Placed, PlacedAt, Indexes
<1>5. Len(manifest_stack[e]) \in Nat
  BY <1>1, Here, LenProperties DEF Level, Maps
<1>6. i + 1 \in 1 .. Len(manifest_stack[e])
  BY <1>4, <1>5
<1>7. components'[manifest_stack'[e][i + 1]].component_id =
         components[manifest_stack[e][i + 1]].component_id
  BY <1>3, <1>6
<1> QED BY <1>7 DEF LoadedFrom, SlotOf, SamePlace

\* A command that returns does not wait any more.
LEMMA ReturnLeaves ==
    ASSUME StackReady, AtCommand, NEW f \in F, SameOwner(f, Top),
           f.current_command = Top.current_command, NEW r \in Retvals, Return(f, r),
           NEW k \in 1 .. Len(seq_stack'), IsWaiting(code, seq_stack'[k])
    PROVE  k # Len(seq_stack)
<1> SUFFICES ASSUME k = Len(seq_stack) PROVE FALSE
  OBVIOUS
<1>1. GoesOn \/ FinishesAs(r)
  BY ReadyIsTyped, ReturnWay
<1>2. seq_stack \in Seq(F) /\ Len(seq_stack) \in Nat \ {0} /\ Running
  BY ReadyIsTyped DEF StackReady
<1>3. CASE GoesOn
  <2>1. PICK g \in F : g.cmd_exec_state = 0 /\ Continue(g)
    BY <1>3 DEF GoesOn
  <2>2. /\ Len(seq_stack') = Len(seq_stack)
        /\ \A j \in 1 .. Len(seq_stack) :
              seq_stack'[j] = IF j = Len(seq_stack) THEN g ELSE seq_stack[j]
    BY <1>2, <2>1, ContinuedStack
  <2>3. seq_stack'[k] = g
    BY <2>2
  <2> QED BY <2>1, <2>3 DEF IsWaiting
<1>4. CASE FinishesAs(r)
  <2>1. PICK g \in F : SameOwner(g, Top) /\ Finalize(g, r)
    BY <1>4 DEF FinishesAs
  <2>2. /\ Len(seq_stack) = 1 => seq_stack' = <<>> /\ seq_ret' = Result(g, r)
        /\ Len(seq_stack) > 1 =>
              LET n == Len(seq_stack) - 1 IN
              /\ seq_stack' \in Seq(FrameType(Retvals)) /\ Len(seq_stack') = n
              /\ \A j \in 1 .. n - 1 : seq_stack'[j] = seq_stack[j]
              /\ seq_stack'[n] = [seq_stack[n] EXCEPT
                     !.retval = Result(g, r), !.current_components = g.current_components]
              /\ seq_ret' = "ERR_AGAIN"
    <3>1. /\ seq_stack \in Seq(FrameType(Retvals)) /\ g \in FrameType(Retvals) /\ Running
          /\ "FAIL_SOFT_CONDITION" \in Retvals /\ Finalize(g, r) /\ r \in Retvals
      BY <1>2, <2>1 DEF F, StackReady, Retvals
    <3> QED BY <3>1, PoppedStack
  <2>3. Len(seq_stack') = Len(seq_stack) - 1
    BY <1>2, <2>2
  <2> QED BY <1>2, <2>3
<1> QED BY <1>1, <1>3, <1>4

LEMMA LoadFailedLeaves ==
    ASSUME StackReady, AtCommand, NEW r \in Retvals, LoadFailed(r),
           NEW k \in 1 .. Len(seq_stack'), IsWaiting(code, seq_stack'[k])
    PROVE  k # Len(seq_stack)
<1>1. /\ Current \in F /\ SameOwner(Current, Top)
      /\ Current.current_command = Top.current_command
  BY ReadyIsTyped, CurrentOf DEF StackReady
<1>2. PICK q \in {"FAIL_CONDITION", r} : Return(Current, q)
  BY DEF LoadFailed
<1>3. q \in Retvals
  BY <1>2 DEF Retvals, Endings
<1> QED BY <1>1, <1>2, <1>3, ReturnLeaves

\* A frame that executes a command and waits is open, or awaits the registry.
LEMMA WaitingState ==
    ASSUME PInv, NEW k \in Frames, IsWaiting(code, seq_stack[k])
    PROVE  /\ seq_stack[k].cmd_processor = "run"
           /\ k < Len(seq_stack) => IsOpen(code, seq_stack[k])
           /\ seq_stack[k].cmd_exec_state \in {Loading, Releasing} \cup (SHARED .. SEQ_MAX + 2)
<1>1. seq_stack[k] \in F /\ InCommand(code, seq_stack[k])
  BY ElementOfSeq, FramesNow DEF PInv, FramesOK, F
<1>2. seq_stack[k].cmd_exec_state \in Nat \ {0} /\ seq_stack[k].cmd_exec_state <= Releasing
  BY <1>1 DEF F, FrameType, InCommand, IsWaiting
<1>3. seq_stack[k].cmd_exec_state \in {Loading, Releasing} \cup (SHARED .. SEQ_MAX + 2)
  BY <1>2 DEF Loading, Releasing, SHARED, SEQ_MAX
<1>4. seq_stack[k].cmd_processor = "run"
  BY <1>1 DEF InCommand, IsWaiting
<1> QED BY <1>3, <1>4 DEF PInv, FramesOK, IsWaiting

\* dependency-integrity begins to load what its component stores.
LEMMA BeginsWithStored ==
    ASSUME Level, LoadDependency, Registry!BeginLoad, NEW g, g = Top'
    PROVE  LoadedFrom(g)'
<1>1. /\ ToLoad /\ op = "none" /\ StartLoad(content[components[CurrentSlot].component_id])
      /\ Continue([Current EXCEPT !.cmd_exec_state = Loading]) /\ content' = content
  BY DEF LoadDependency, Registry!LoadRefused, Registry!BeginLoad
<1>2. Running /\ On(DependencyCommands, Run)
  BY <1>1 DEF ToLoad, On, At, AtCommand
<1>3. /\ StackReady /\ Top \in F /\ Top = seq_stack[Len(seq_stack)] /\ Len(seq_stack) \in Frames
      /\ Current \in F /\ SameOwner(Current, Top) /\ Top.cmd_exec_state = 0
  BY <1>1, <1>2, InSequence, ReadyIsTyped, CurrentOf DEF Level, Frames, ToLoad
<1> DEFINE f == [Current EXCEPT !.cmd_exec_state = Loading]
<1>4. f \in F /\ f.manifest = Top.manifest
      /\ f.current_component_idx = Current.current_component_idx /\ Loading \in Nat
  BY <1>3 DEF F, FrameType, SameOwner, Loading
<1>5. g = f
  BY <1>1, <1>3, <1>4, TurnedTop
<1> HIDE DEF f
<1>6. manifest_stack_height = Top.manifest + 1
  <2>1. Height = root + Owed + (1 + DepthOfTop + (IF IsOpen(code, Top) THEN 1 ELSE 0))
        /\ DepthOfTop \in Nat /\ pc \in {"validate"} \cup Executing
    BY <1>2, InSequence DEF Level
  <2>2. ~IsOpen(code, Top)
    BY <1>3 DEF IsOpen, SHARED, SEQ_MAX
  <2>3. Owed = 0
    <3>1. ~AfterLoad
      BY <1>3, <2>1 DEF AfterLoad, Executing, Loading
    <3> QED BY <1>1, <3>1 DEF Owed
  <2>4. Top.manifest = root + DepthOfTop /\ manifest_stack_height = Height /\ root = 0
    BY <1>3 DEF Level, InStep, DepthOfTop
  <2> QED BY <2>1, <2>2, <2>3, <2>4
<1>7. manifest_stack_height \in Entry /\ Top.manifest \in Nat
  <2>1. manifest_stack_height \in Nat
    BY Here DEF Level
  <2>2. Top.manifest \in Nat
    BY <1>3 DEF F, FrameType, Entry
  <2> QED BY <2>1, <2>2, SeqExecAssumption DEF Registry!BeginLoad, Entry
<1>8. /\ envelope' = [envelope EXCEPT ![manifest_stack_height] =
                         content[components[CurrentSlot].component_id]]
      /\ manifest_stack' = [manifest_stack EXCEPT ![manifest_stack_height] = <<>>]
      /\ components' = components
  BY <1>1 DEF StartLoad, Registry!BeginLoad
<1>9. envelope'[Top.manifest + 1] = content[components[CurrentSlot].component_id]
  BY <1>6, <1>7, <1>8 DEF Level, PInv, WorldOK
<1>10. manifest_stack'[Top.manifest] = manifest_stack[Top.manifest]
  <2>1. manifest_stack \in [Entry -> Seq(Slot)]
    BY DEF Level, PInv, Proofs!RegistryInv, Proofs!TypeOK, Proofs!Entry, Proofs!Slot, Entry, Slot
  <2>2. Top.manifest \in Entry /\ Top.manifest # manifest_stack_height
    BY <1>3, <1>6, <1>7 DEF F, FrameType
  <2> QED BY <1>8, <2>1, <2>2
<1> QED BY <1>1, <1>3, <1>4, <1>5, <1>8, <1>9, <1>10
        DEF LoadedFrom, SlotOf, CurrentSlot, SameOwner

\* The command on top, dependency-integrity, goes on waiting for its dependency.
LEMMA TopVerifies ==
    ASSUME Level, ResumedInPlace, Running, IntegrityWaits(Top),
           LoadDependency => Registry!LoadRefused,
           Len(seq_stack) \in 1 .. Len(seq_stack'),
           NEW g, g = seq_stack'[Len(seq_stack)], Verifying(g)'
    PROVE  Verifying(Top) /\ UNCHANGED <<envelope, content>>
<1> DEFINE n == Len(seq_stack)
<1>0. code' = code
  BY CodeStays DEF Level
<1>1. StackReady /\ Top \in F /\ n \in Frames /\ Top = seq_stack[n] /\ pc # "load"
  BY InSequence, ReadyIsTyped DEF Level, Frames, Executing
<1>2. IsWaiting(code, Top) /\ Command(Top).op = "dependency_integrity"
      /\ AtCommand /\ AtDependency(code, Top)
      /\ Top.cmd_exec_state \in {Loading, Releasing} \cup (SHARED .. SEQ_MAX + 2)
      /\ Top.cmd_processor = "run"
  BY <1>1, WaitingState DEF Level, IntegrityWaits, IsWaiting, AtDependency, AtCommand
<1>3. IsWaiting(code, g) /\ g.cmd_exec_state # Releasing
  BY <1>0 DEF Verifying, IntegrityWaits, IsWaiting, AtDependency
<1>4. CASE UNCHANGED vars
  <2>1. g = Top
    BY <1>1, <1>4 DEF vars, stacks
  <2> QED BY <1>4, <2>1 DEF vars, registry_vars, world, Verifying, IntegrityWaits, IsWaiting,
             AtDependency, Command
<1>5. CASE op # "none" /\ (LoadStep \/ ReleaseStep)
  <2>1. UNCHANGED <<envelope, content>> \/ op \in {"unwinding", "releasing"}
    BY <1>5, RegistryTyped DEF Level, PInv, LoadStep, ReleaseStep, Registry!ReleaseStep,
       Registry!ReleaseMissing, Registry!ReleaseShared, Registry!ReleaseLast, Registry!ReleaseDone,
       Registry!Releasing
  <2>2. g = Top
    BY <1>1, <1>5 DEF LoadStep, ReleaseStep, stacks
  <2>3. AwaitsRegistry /\ (op = "releasing" <=> ~AfterLoad)
    BY <1>1, <1>5, InSequence DEF Level, PInv, ControlOK, Executing
  <2>4. Top.cmd_exec_state = Loading
    BY <1>3, <2>2, <2>3 DEF AwaitsRegistry
  <2>5. op # "releasing"
    BY <2>3, <2>4 DEF AfterLoad
  <2>6. op # "unwinding"
    <3>1. ASSUME op = "unwinding" PROVE FALSE
      <4>1. ReleaseStep
        BY <1>5, <3>1 DEF LoadStep
      <4>2. ReleaseMoves
        BY <4>1, ReleaseStepMoves DEF Level, ReleaseStep
      <4>3. op_ret # "SUCCESS"
        BY <3>1 DEF Level, PInv, ControlOK
      <4>4. (op' = "unwinding") \/ (op' = "none" /\ op_ret' # "SUCCESS")
        BY <3>1, <4>2, <4>3 DEF ReleaseMoves
      <4> QED BY <2>2, <2>4, <4>4 DEF Verifying
    <3> QED BY <3>1
  <2>7. op = "loading"
    BY <1>5, <2>5, <2>6, RegistryTyped DEF Level, PInv
  <2> QED BY <2>1, <2>4, <2>7 DEF Verifying, Loading, Releasing, SEQ_MAX
<1>6. ASSUME LoadStep \/ ReleaseStep PROVE op # "none"
  BY <1>6 DEF LoadStep, ReleaseStep, Registry!ReleaseStep, Registry!ReleaseMissing,
     Registry!ReleaseShared, Registry!ReleaseLast, Registry!ReleaseDone, Registry!Releasing
<1>7. CASE LoadedForIntegrity
  BY <1>7 DEF LoadedForIntegrity, Verifying, Loading, Releasing, SEQ_MAX
<1>8. CASE ValidateForIntegrity
  BY <1>8 DEF ValidateForIntegrity, Resumed, ScheduleDependency, Verifying, Loading, Releasing,
     SHARED, SEQ_MAX
<1>9. ~IntegrityFails /\ ~IntegrityHolds
  <2>1. ASSUME IntegrityFails \/ IntegrityHolds PROVE FALSE
    <3>1. \E v \in {"FAIL_CONDITION", "SUCCESS"} :
             Continue([Top EXCEPT !.cmd_exec_state = Releasing, !.retval = v])
      BY <2>1 DEF IntegrityFails, IntegrityHolds, ReleaseDependency
    <3>2. PICK v \in {"FAIL_CONDITION", "SUCCESS"} :
             Continue([Top EXCEPT !.cmd_exec_state = Releasing, !.retval = v])
      BY <3>1
    <3> DEFINE f == [Top EXCEPT !.cmd_exec_state = Releasing, !.retval = v]
    <3>3. f \in F /\ f.cmd_exec_state = Releasing
      <4>1. v \in Retvals /\ Releasing \in Nat
        BY DEF Retvals, Endings, Releasing, SEQ_MAX
      <4> QED BY <1>1, <4>1 DEF F, FrameType
    <3>4. Continue(f)
      BY <3>2
    <3> HIDE DEF f
    <3>5. \A k \in 1 .. n : seq_stack'[k] = IF k = n THEN f ELSE seq_stack[k]
      BY <1>1, <3>3, <3>4, ReadyIsTyped, ContinuedStack
    <3>6. n \in 1 .. n
      BY <1>1, ReadyIsTyped
    <3> HIDE DEF n
    <3>7. seq_stack'[n] = f
      BY <3>5, <3>6
    <3> QED BY <1>3, <3>3, <3>7 DEF n
  <2> QED BY <2>1
<1>10. ~RunCommand
  <2>1. ASSUME RunCommand PROVE FALSE
    <3>1. ~IsOpen(code, Top) /\ ~AwaitsRegistry
      BY <2>1, InPlaceIsNoCommand DEF Level, RunCommand
    <3> QED BY <1>2, <3>1 DEF IsOpen, AwaitsRegistry, DependencyCommands
  <2> QED BY <2>1
<1>11. ~LoadDependency /\ ~DependencyNotLoaded
  <2>1. ASSUME LoadDependency PROVE FALSE
    BY <1>2, <2>1 DEF LoadDependency, ToLoad, IsWaiting
  <2>2. ASSUME DependencyNotLoaded PROVE FALSE
    <3>1. LoadFailed(op_ret) /\ op_ret \in Retvals
      BY <2>2, RegistryTyped DEF DependencyNotLoaded, Level, PInv, Retvals
    <3> QED BY <1>1, <1>2, <1>3, <3>1, LoadFailedLeaves
  <2> QED BY <2>1, <2>2
<1>12. ~DependencyReleased
  <2>1. ASSUME DependencyReleased PROVE FALSE
    <3> DEFINE r == IF Top.retval = "SUCCESS" THEN op_ret ELSE Top.retval
               f == [Top EXCEPT !.retval = r]
    <3>1. Return(f, r) /\ op_ret \in Registry!Results
      BY <2>1, RegistryTyped DEF DependencyReleased, Level, PInv
    <3>2. r \in Retvals
      BY <1>1, <3>1 DEF Retvals, F, FrameType
    <3> HIDE DEF r
    <3>3. f \in F /\ SameOwner(f, Top) /\ f.current_command = Top.current_command
      BY <1>1, <3>2 DEF F, FrameType, SameOwner
    <3> HIDE DEF f
    <3> QED BY <1>1, <1>2, <1>3, <3>1, <3>2, <3>3, ReturnLeaves
  <2> QED BY <2>1
<1>13. CASE Loaded \/ ValidateNext \/ ValidationDone \/ DryRunNext \/ DryRunMain \/ DryRunRepeat
           \/ DryRunDone \/ ExecuteShared \/ ExecuteMain \/ (\E r \in PlatResults : Completed(r))
           \/ GiveUp \/ CallReturns \/ \E m \in Calls : Call(m)
  BY <1>13 DEF Loaded, ValidateNext, ValidationDone, DryRunNext, DryRunMain, DryRunRepeat,
     DryRunDone, ExecuteShared, ExecuteMain, Completed, GiveUp, CallReturns, Call, AtStep
<1>14. CASE ValidateForProcess \/ ExecuteDependency \/ ProcessFails
            \/ (\E r \in PlatResults : DependencyCompleted(r))
            \/ \E r \in AuthResults : AuthorizeDependency(r)
  BY <1>2, <1>14 DEF ValidateForProcess, ExecuteDependency, ProcessFails, DependencyCompleted,
     AuthorizeDependency, ResumedProcess, Resumed, On, At
<1> QED BY <1>4, <1>5, <1>6, <1>7, <1>8, <1>9, <1>10, <1>11, <1>12, <1>13, <1>14
        DEF Level, Next, Step

\* A sequence that validates changes neither the manifests nor what components store.
LEMMA ValidatingStays ==
    ASSUME Level, Running, Top.cmd_processor \in Validate
    PROVE  UNCHANGED <<envelope, content>>
<1>0. Top.cmd_processor \notin Run
  BY DEF Run, Validate
<1>1. ~AwaitsRegistry
  <2>1. ASSUME AwaitsRegistry PROVE FALSE
    BY <1>0, <2>1, Awaiting DEF Level, Run
  <2> QED BY <2>1
<1>2. op = "none"
  <2>1. pc \in {"validate"} \cup Executing
    BY InSequence DEF Level
  <2> QED BY <1>1, <2>1 DEF Level, PInv, ControlOK, Executing
<1>3. CASE RunCommand
  <2>1. call' = NoCall
    BY <1>0, <1>3, StepAsks DEF RunCommand, Asks
  <2>2. call'.call \notin Effects
    BY <2>1 DEF NoCall, Effects
  <2> QED BY <1>3, <2>2 DEF RunCommand
<1>4. ~DependencyStep
  BY <1>0, <1>1 DEF DependencyStep, LoadDependency, ToLoad, DependencyNotLoaded, LoadedForIntegrity,
     AuthorizeDependency, ValidateForIntegrity, IntegrityFails, IntegrityHolds,
     ValidateForProcess, ExecuteDependency, ProcessFails, DependencyCompleted,
     DependencyReleased, ResumedProcess, Resumed, On, At
<1>5. ~LoadStep /\ ~ReleaseStep
  BY <1>2 DEF LoadStep, ReleaseStep, Registry!ReleaseStep, Registry!ReleaseMissing,
     Registry!ReleaseShared, Registry!ReleaseLast, Registry!ReleaseDone, Registry!Releasing
<1>6. CASE UNCHANGED vars
  BY <1>6 DEF vars
<1>7. CASE Loaded \/ ValidateNext \/ ValidationDone \/ DryRunNext \/ DryRunMain \/ DryRunRepeat
           \/ DryRunDone \/ ExecuteShared \/ ExecuteMain \/ (\E r \in PlatResults : Completed(r))
           \/ GiveUp \/ CallReturns \/ \E n \in Calls : Call(n)
  BY <1>7 DEF Loaded, ValidateNext, ValidationDone, DryRunNext, DryRunMain, DryRunRepeat,
     DryRunDone, ExecuteShared, ExecuteMain, Completed, GiveUp, CallReturns, Call, AtStep
<1> QED BY <1>3, <1>4, <1>5, <1>6, <1>7 DEF Level, Next, Step, DependencyStep

\* The frame at k goes on waiting where it waited.
LEMMA WaiterVerifies ==
    ASSUME Level, ResumedInPlace, Placed, AboveValidates, VerifiesWhatIsStored,
           LoadDependency => Registry!LoadRefused,
           NEW k \in Frames', NEW g, g = seq_stack'[k], Verifying(g)'
    PROVE  LoadedFrom(g)'
<1> DEFINE n == Len(seq_stack)
<1>1. Frames = 1 .. n /\ n \in Nat /\ Frames' = 1 .. Len(seq_stack') /\ Len(seq_stack') \in Nat
  BY FramesNow, FramesNext DEF Level
<1>2. code' = code
  BY CodeStays DEF Level
<1>3. IsWaiting(code, g) /\ Command(g).op = "dependency_integrity"
      /\ g.cmd_exec_state # Releasing
  BY <1>2 DEF Verifying, IntegrityWaits, IsWaiting, AtDependency, Command
<1>4. /\ k \in Frames /\ IsWaiting(code, seq_stack[k]) /\ SamePlace(g, seq_stack[k])
  <2>1. WaitersStay
    BY OtherStepsWait DEF Level
  <2> QED BY <1>1, <1>3, <2>1 DEF WaitersStay
<1>5. IntegrityWaits(seq_stack[k])
  BY <1>3, <1>4 DEF IntegrityWaits, SamePlace, Command
<1>6. Running /\ Top = seq_stack[n] /\ n \in Frames
  BY <1>1, <1>4 DEF Running, Top
<1>7. Verifying(seq_stack[k]) /\ UNCHANGED <<envelope, content>>
  <2>1. CASE k = n
    <3>1. n \in 1 .. Len(seq_stack')
      BY <1>1, <2>1
    <3> QED BY <1>5, <1>6, <2>1, <3>1, TopVerifies
  <2>2. CASE k # n
    <3>1. k < n
      BY <1>1, <1>4, <2>2
    <3>2. Top.cmd_processor \in Validate
      BY <1>4, <1>5, <1>6, <3>1 DEF AboveValidates
    <3>3. IsOpen(code, seq_stack[k])
      BY <1>4, <3>1, WaitingState DEF Level
    <3>4. Verifying(seq_stack[k])
      BY <1>5, <3>3 DEF Verifying, IsOpen, Loading, Releasing, SHARED, SEQ_MAX
    <3> QED BY <1>6, <3>2, <3>4, ValidatingStays
  <2> QED BY <2>1, <2>2
<1>8. LoadedFrom(seq_stack[k])
  BY <1>4, <1>7 DEF VerifiesWhatIsStored
<1> QED BY <1>4, <1>7, <1>8, LoadedFromKept

LEMMA VerifiesStep ==
    ASSUME Level, ResumedInPlace, Placed, AboveValidates, VerifiesWhatIsStored
    PROVE  VerifiesWhatIsStored'
<1> SUFFICES ASSUME NEW k \in Frames', NEW g, g = seq_stack'[k], Verifying(g)'
             PROVE  LoadedFrom(g)'
  BY DEF VerifiesWhatIsStored, Verifying, IntegrityWaits, IsWaiting, AtDependency, Command,
     LoadedFrom, SlotOf
<1>1. CASE LoadDependency => Registry!LoadRefused
  BY <1>1, WaiterVerifies
<1>2. CASE LoadDependency /\ ~Registry!LoadRefused
  <2>1. Registry!BeginLoad
    BY <1>2 DEF LoadDependency, StartLoad
  <2> DEFINE f == [Current EXCEPT !.cmd_exec_state = Loading]
             n == Len(seq_stack)
  <2>2. Continue(f) /\ Running /\ op = "none" /\ ToLoad /\ On(DependencyCommands, Run)
    BY <1>2 DEF LoadDependency, ToLoad, On, At, AtCommand
  <2>3. StackReady /\ Current \in F
    BY <2>2, InSequence, ReadyIsTyped, CurrentOf DEF Level
  <2>4. f \in F
    BY <2>3 DEF F, FrameType, Loading
  <2> HIDE DEF f
  <2>5. /\ Len(seq_stack') = n
        /\ \A i \in 1 .. n : seq_stack'[i] = IF i = n THEN f ELSE seq_stack[i]
    BY <2>2, <2>3, <2>4, ReadyIsTyped, ContinuedStack
  <2>6. /\ Frames = 1 .. n /\ n \in Nat /\ Frames' = 1 .. Len(seq_stack')
        /\ Top = seq_stack[n] /\ n \in Frames
    BY <2>3, FramesNow, FramesNext, ReadyIsTyped DEF Level
  <2>7. k \in 1 .. n
    BY <2>5, <2>6
  <2>8. CASE k = n
    <3>1. g = Top'
      BY <2>5, <2>8 DEF Top
    <3> QED BY <1>2, <2>1, <3>1, BeginsWithStored
  <2>9. CASE k # n
    <3>1. seq_stack'[k] = seq_stack[k] /\ k < n
      BY <2>5, <2>7, <2>9
    <3>2. code' = code
      BY CodeStays DEF Level
    <3>3. IntegrityWaits(seq_stack[k])
      BY <3>1, <3>2 DEF Verifying, IntegrityWaits, IsWaiting, AtDependency, Command
    <3>4. Top.cmd_processor \in Validate
      BY <2>6, <2>7, <3>1, <3>3 DEF AboveValidates
    <3> QED BY <2>2, <3>4 DEF On, At, Run, Validate
  <2> QED BY <2>8, <2>9
<1> QED BY <1>1, <1>2

-----------------------------------------------------------------------------
(***************************************************************************)
(* The flag of a component in use stands for what the component stores, or *)
(* the slot has leaked.                                                    *)
(***************************************************************************)
Trusted(s) == integrity_checked[s] /\ IsDependency(s) /\ components[s].ref_count # 0
Vouched(s) == content[components[s].component_id] = checked[s] \/ Leaked(s)

CheckedIsStored ==
    /\ integrity_checked \in [Slot -> BOOLEAN]
    /\ \A s \in Slot : Trusted(s) => Vouched(s)

LEMMA SameReferences == \A s : Registry!References(s) = Proofs!References(s)
BY Zenon DEF Registry!References, Proofs!References, Registry!Live, Proofs!Live,
   Registry!Entry, Proofs!Entry, Registry!Releasing, Proofs!Releasing

LEMMA SameCardinality == \A S : Cardinality(S) = Proofs!Cardinality(S)
BY DEF Cardinality, Proofs!Cardinality

LEMMA LeakedMeans == \A s : Leaked(s) <=> components[s].ref_count > Proofs!Counted(s)
<1> SUFFICES ASSUME NEW s
             PROVE  Leaked(s) <=> components[s].ref_count > Proofs!Counted(s)
  OBVIOUS
<1>1. Proofs!Counted(s) = Proofs!Cardinality(Proofs!References(s))
  BY DEF Proofs!Counted
<1>2. Proofs!Counted(s) = Cardinality(Registry!References(s))
  BY <1>1, SameReferences, SameCardinality
<1> QED BY <1>2 DEF Leaked

LEMMA LeakedMeansNext == (\A s : Leaked(s) <=> components[s].ref_count > Proofs!Counted(s))'
BY LeakedMeans, PTL

\* A slot that leaked stays leaked.
LEMMA LeakKept ==
    ASSUME Level, ~DependencyDenied, NEW s \in Slot, Leaked(s)
    PROVE  Leaked(s)'
<1>1. s \in Proofs!Slot /\ DependencyDenied \in BOOLEAN
  BY ProcessorAssumption DEF Slot, Proofs!Slot
<1>2. components[s].ref_count > Proofs!Counted(s)
  BY LeakedMeans
<1>3. components'[s].ref_count > Proofs!Counted(s)'
  <2>1. CASE Proofs!Next
    <3>1. ~Proofs!PopDeniedDependency /\ Proofs!RegistryInv /\ Proofs!ReleasesTop
      BY DEF Proofs!PopDeniedDependency, Level, PInv, RegistryKept
    <3> QED BY <1>1, <1>2, <2>1, <3>1, Proofs!LeakStays, SeqExecAssumption DEF Proofs!LeakStays
  <2>2. CASE UNCHANGED Proofs!vars
    <3>1. Proofs!References(s)' = Proofs!References(s)
      BY <2>2 DEF Proofs!vars, Proofs!References, Proofs!Live, Proofs!Releasing
    <3> QED BY <1>2, <2>2, <3>1 DEF Proofs!vars, Proofs!Counted
  <2> QED BY <2>1, <2>2 DEF Level
<1> QED BY <1>3, LeakedMeansNext

\* Only a load takes a slot into use.
LEMMA SlotWasUsed ==
    ASSUME Level, op # "loading", NEW s \in Slot, components'[s].ref_count # 0
    PROVE  components[s].ref_count # 0
<1>1. s \in Proofs!Slot /\ DependencyDenied \in BOOLEAN /\ Proofs!RegistryInv
  BY ProcessorAssumption DEF Slot, Proofs!Slot, Level, PInv
<1>2. CASE Proofs!Next
  BY <1>1, <1>2, Proofs!OthersTakeNone, SeqExecAssumption
     DEF Proofs!OthersTakeNone, Proofs!InUse
<1>3. CASE UNCHANGED Proofs!vars
  BY <1>3 DEF Proofs!vars
<1> QED BY <1>2, <1>3 DEF Level

\* A slot in use, whose flag stood, and whose component stores what it stored.
LEMMA StillVouched ==
    ASSUME Level, ~DependencyDenied, CheckedIsStored, NEW s \in Slot,
           components[s].ref_count # 0, integrity_checked[s], Trusted(s)',
           checked'[s] = checked[s],
           content'[components[s].component_id] = content[components[s].component_id]
    PROVE  Vouched(s)'
<1>1. /\ components'[s].component_id = components[s].component_id
      /\ components'[s].is_dependency = components[s].is_dependency
  <2>1. s \in Proofs!Slot /\ DependencyDenied \in BOOLEAN /\ Proofs!RegistryInv
        /\ components'[s].ref_count # 0
    BY ProcessorAssumption DEF Slot, Proofs!Slot, Level, PInv, Trusted
  <2>2. CASE Proofs!Next
    <3>1. Proofs!SlotsStay
      BY <2>1, <2>2, Proofs!IdentityStep, SeqExecAssumption DEF Proofs!IdentityStep
    <3> QED BY <2>1, <3>1 DEF Proofs!SlotsStay, Proofs!InUse
  <2>3. CASE UNCHANGED Proofs!vars
    BY <2>3 DEF Proofs!vars
  <2> QED BY <2>2, <2>3 DEF Level
<1>2. Trusted(s)
  BY <1>1 DEF Trusted, IsDependency
<1>3. CASE content[components[s].component_id] = checked[s]
  BY <1>1, <1>3 DEF Vouched
<1>4. CASE Leaked(s)
  BY <1>4, LeakKept DEF Vouched
<1> QED BY <1>2, <1>3, <1>4 DEF CheckedIsStored, Vouched

\* What most steps do to the flags: they take some back.
FlagsFall ==
    /\ integrity_checked' \in [Slot -> BOOLEAN]
    /\ \A s \in Slot : integrity_checked'[s] => integrity_checked[s] /\ checked'[s] = checked[s]

LEMMA FallingFlags ==
    ASSUME Level, ~DependencyDenied, CheckedIsStored, FlagsFall, op # "loading",
           \A s \in Slot : Trusted(s)' =>
               content'[components[s].component_id] = content[components[s].component_id]
    PROVE  CheckedIsStored'
<1> SUFFICES ASSUME NEW s \in Slot, Trusted(s)' PROVE Vouched(s)'
  BY DEF CheckedIsStored, FlagsFall, Slot
<1>1. components[s].ref_count # 0 /\ integrity_checked[s] /\ checked'[s] = checked[s]
  BY SlotWasUsed DEF FlagsFall, Trusted
<1> QED BY <1>1, StillVouched

\* A command takes back the flag of what it asks the platform to write to.
WritesTo(s) ==
    /\ call'.call \in Effects \ {"invoke"} /\ ~call'.dry_run
    /\ call'.slot = s /\ IsDependency(s)

SeqFlags ==
    /\ integrity_checked' \in [Slot -> BOOLEAN]
    /\ \A s \in Slot : integrity_checked'[s] => integrity_checked[s] /\ ~WritesTo(s)
    /\ (call'.call \in Effects \ {"invoke"} /\ ~call'.dry_run) =>
          call'.slot = CurrentSlot /\ Current.current_component_idx \in Indexes(Current)

LEMMA ModifiedFlags ==
    ASSUME integrity_checked \in [Slot -> BOOLEAN], NEW slots, component_modified(slots)
    PROVE  /\ integrity_checked' \in [Slot -> BOOLEAN]
           /\ \A s \in Slot : integrity_checked'[s] =>
                 integrity_checked[s] /\ ~(s \in slots /\ IsDependency(s))
BY DEF component_modified

LEMMA QuietFlags ==
    ASSUME integrity_checked \in [Slot -> BOOLEAN], call'.call \notin Effects \ {"invoke"},
           UNCHANGED integrity_checked \/ \E slots : component_modified(slots)
    PROVE  SeqFlags
<1>1. CASE UNCHANGED integrity_checked
  BY <1>1 DEF SeqFlags, WritesTo
<1>2. CASE \E slots : component_modified(slots)
  <2>1. PICK slots : component_modified(slots)
    BY <1>2
  <2> QED BY <2>1, ModifiedFlags DEF SeqFlags, WritesTo
<1> QED BY <1>1, <1>2

LEMMA StepFlags ==
    ASSUME integrity_checked \in [Slot -> BOOLEAN], SeqStep
    PROVE  SeqFlags
<1>1. ASSUME call' = NoCall PROVE call'.call \notin Effects \ {"invoke"}
  BY <1>1 DEF NoCall, Effects
<1>2. ASSUME NEW o, NEW r, Called(o, r), o \notin Effects
      PROVE  call'.call \notin Effects \ {"invoke"}
  BY <1>2 DEF Called
<1>3. ASSUME NEW s, NEW r, SizeCall(s, r) PROVE call'.call \notin Effects \ {"invoke"}
  BY <1>3 DEF SizeCall, Effects
<1>4. ASSUME NEW pairs, Store(pairs) PROVE \E slots : component_modified(slots)
  BY <1>4, Zenon DEF Store
<1>5. CASE \/ EndOfSequence \/ RejectCommand \/ SkipCommand \/ ComponentGone
           \/ SetComponentIndex \/ TryEach \/ RunSequence \/ ValidateCommand
           \/ ValidateOverride \/ ParameterMissing \/ ParameterMalformed
           \/ AssumeCondition \/ Abort \/ ConditionIsDependency
           \/ DependencyIntegrityRefused \/ ProcessDependencyRefused
  <2>1. call' = NoCall /\ UNCHANGED integrity_checked
    <3>1. CASE \/ EndOfSequence \/ RejectCommand \/ SkipCommand \/ ComponentGone
               \/ SetComponentIndex \/ TryEach \/ RunSequence \/ ValidateCommand
               \/ ValidateOverride \/ ParameterMissing \/ ParameterMalformed
      BY <3>1 DEF EndOfSequence, RejectCommand, SkipCommand, ComponentGone, SetComponentIndex,
         TryEach, RunSequence, ValidateCommand, ValidateOverride, ParameterMissing, ParameterMalformed
    <3>2. CASE \/ AssumeCondition \/ Abort \/ ConditionIsDependency
               \/ DependencyIntegrityRefused \/ ProcessDependencyRefused
      BY <3>2 DEF AssumeCondition, Abort, ConditionIsDependency, DependencyIntegrityRefused,
         ProcessDependencyRefused
    <3> QED BY <1>5, <3>1, <3>2
  <2> QED BY <1>1, <2>1, QuietFlags
<1>6. ASSUME NEW r \in PlatResults, CheckCondition(r) PROVE SeqFlags
  <2>1. Command(Top).op \notin Effects
    BY <1>6 DEF CheckCondition, Ready, On, At, Checks, Effects
  <2> QED BY <1>2, <1>6, <2>1, QuietFlags DEF CheckCondition
<1>7. ASSUME NEW r \in PlatResults, Perform(r) PROVE SeqFlags
  <2> DEFINE slots == IF dry_run \/ Command(Top).op = "invoke" THEN {} ELSE {CurrentSlot}
  <2>1. /\ Current.current_component_idx \in Indexes(Current)
        /\ call' = [call |-> Command(Top).op, slot |-> CurrentSlot, dry_run |-> dry_run, ret |-> r]
        /\ component_modified(slots)
    BY <1>7 DEF Perform, Ready, On, Called
  <2>2. \A s : WritesTo(s) => s \in slots /\ IsDependency(s)
    BY <2>1 DEF WritesTo
  <2>3. call'.slot = CurrentSlot
    BY <2>1
  <2> HIDE DEF slots
  <2>4. /\ integrity_checked' \in [Slot -> BOOLEAN]
        /\ \A s \in Slot : integrity_checked'[s] =>
              integrity_checked[s] /\ ~(s \in slots /\ IsDependency(s))
    BY <2>1, ModifiedFlags
  <2> QED BY <2>1, <2>2, <2>3, <2>4 DEF SeqFlags
<1>8. ASSUME NEW r \in PlatResults, SetParameters(r) PROVE SeqFlags
  <2>1. call' = NoCall \/ Called("override_image_size", r)
    BY <1>8, Zenon DEF SetParameters
  <2>2. \E pairs : Store(pairs)
    BY <1>8, Zenon DEF SetParameters
  <2>3. "override_image_size" \notin Effects
    BY DEF Effects
  <2> QED BY <1>1, <1>2, <1>4, <2>1, <2>2, <2>3, QuietFlags
<1>9. CASE Override
  <2>1. call' = NoCall \/ \E s, r : SizeCall(s, r)
    BY <1>9, Zenon DEF Override
  <2>2. \E pairs : Store(pairs)
    BY <1>9, Zenon DEF Override
  <2> QED BY <1>1, <1>3, <1>4, <2>1, <2>2, QuietFlags
<1>10. ASSUME NEW i \in 0 .. MaxComponents - 1, NEW r \in PlatResults \ {"SUCCESS"},
              OverrideSizeFails(i, r)
       PROVE  SeqFlags
  <2>1. \E s : SizeCall(s, r)
    BY <1>10, Zenon DEF OverrideSizeFails
  <2>2. \E pairs : Store(pairs)
    BY <1>10, Zenon DEF OverrideSizeFails
  <2> QED BY <1>3, <1>4, <2>1, <2>2, QuietFlags
<1>11. ASSUME NEW r \in PlatResults \ {"SUCCESS"}, RetrieveFails(r) PROVE SeqFlags
  <2>1. "retrieve_manifest" \notin Effects
    BY DEF Effects
  <2> QED BY <1>2, <1>11, <2>1, QuietFlags DEF RetrieveFails
<1> QED BY <1>5, <1>6, <1>7, <1>8, <1>9, <1>10, <1>11 DEF SeqStep

\* The platform may change what a component stores whose flag is taken back.
LEMMA CommandTrust ==
    ASSUME Level, ~DependencyDenied, CheckedIsStored, RunCommand
    PROVE  CheckedIsStored'
<1>1. /\ SeqStep /\ op = "none" /\ Running
      /\ UNCHANGED <<components, checked>>
      /\ \/ content' = content
         \/ /\ call'.call \in Effects \ {"invoke"} /\ ~call'.dry_run /\ IsDependency(call'.slot)
            /\ \E name \in Stored :
                  content' = [content EXCEPT ![components[call'.slot].component_id] = name]
  BY StepRuns, StepAsks DEF RunCommand
<1>2. SeqFlags
  BY <1>1, StepFlags DEF CheckedIsStored
<1>3. FlagsFall
  BY <1>1, <1>2 DEF SeqFlags, FlagsFall
<1>4. ASSUME NEW s \in Slot, Trusted(s)'
      PROVE  content'[components[s].component_id] = content[components[s].component_id]
  <2>1. CASE content' = content
    BY <2>1
  <2>2. CASE /\ call'.call \in Effects \ {"invoke"} /\ ~call'.dry_run /\ IsDependency(call'.slot)
             /\ \E name \in Stored :
                   content' = [content EXCEPT ![components[call'.slot].component_id] = name]
    <3> DEFINE t == CurrentSlot
    <3>1. call'.slot = t /\ Current.current_component_idx \in Indexes(Current)
      BY <1>2, <2>2 DEF SeqFlags
    <3>2. t \in Slot /\ components[t].ref_count # 0
      BY <1>1, <3>1, SlotIsFilled DEF Level
    <3>3. s # t
      BY <1>2, <1>4, <2>2, <3>1 DEF SeqFlags, WritesTo, Trusted
    <3>4. components[s].ref_count # 0 /\ IsDependency(s)
      BY <1>1, <1>4 DEF Trusted, IsDependency
    <3> HIDE DEF t
    <3>5. components[s].component_id # components[t].component_id
      <4>1. Proofs!OneSlotPerComponent
        BY DEF Level, PInv, Proofs!RegistryInv, Proofs!PoolInv
      <4>2. s \in Proofs!Slot /\ t \in Proofs!Slot
        BY <3>2 DEF Slot, Proofs!Slot
      <4> QED BY <3>2, <3>3, <3>4, <4>1, <4>2 DEF Proofs!OneSlotPerComponent, Proofs!InUse
    <3>6. components[s].component_id \in DOMAIN content /\ content \in [DOMAIN content -> Stored]
      BY <3>4 DEF Level, PInv, WorldOK, IsDependency
    <3>7. PICK name \in Stored :
             content' = [content EXCEPT ![components[t].component_id] = name]
      BY <2>2, <3>1
    <3> QED BY <3>5, <3>6, <3>7
  <2> QED BY <1>1, <2>1, <2>2
<1> QED BY <1>1, <1>3, <1>4, FallingFlags

\* Between two calls a slot in use is one that leaked.
LEMMA CallTrust ==
    ASSUME Level, ~DependencyDenied, CheckedIsStored, NEW n \in Calls, Call(n)
    PROVE  CheckedIsStored'
<1>1. pc = "idle" /\ op = "none" /\ integrity_checked' = integrity_checked
  BY DEF Call, AtStep, store
<1>2. manifest_stack_height = 0
  BY <1>1, IdleHeight DEF Level, ManifestsRemoved
<1> SUFFICES ASSUME NEW s \in Slot, Trusted(s)' PROVE Vouched(s)'
  BY <1>1 DEF CheckedIsStored, Slot
<1>3. components[s].ref_count # 0 /\ components[s].ref_count \in Nat
  BY <1>1, SlotWasUsed, RegistryTyped DEF Trusted, Level, PInv
<1>4. Registry!References(s) = {}
  <2>1. ASSUME NEW r \in Registry!References(s) PROVE FALSE
    <3>1. r[1] \in Entry /\ Registry!Live(r[1])
      BY <2>1 DEF Registry!References, Registry!Entry, Entry
    <3>2. r[1] < 0
      BY <1>1, <1>2, <3>1 DEF Registry!Live
    <3> QED BY <3>1, <3>2, SeqExecAssumption DEF Entry
  <2> QED BY <2>1
<1>5. Leaked(s)
  <2>1. Cardinality(Registry!References(s)) = 0
    BY <1>4, FS_EmptySet
  <2> QED BY <1>3, <2>1 DEF Leaked
<1> QED BY <1>5, LeakKept DEF Vouched

\* The slot that a load takes into use is wiped.
LEMMA LoadWipes ==
    ASSUME Level, CheckedIsStored, LoadStep, NEW s \in Slot,
           components[s].ref_count = 0, components'[s].ref_count # 0
    PROVE  ~integrity_checked'[s]
<1> DEFINE list == envelopes[envelope[entry]].components
           n    == Len(manifest_stack[entry])
           c    == list[n + 1]
           new  == /\ op = "loading" /\ n < Len(list) /\ n < MaxComponents
                   /\ c.id \in ComponentId
                   /\ Registry!Holding(c.id) = {} /\ Registry!Free # {}
<1>0. components \in [Slot -> [component_id  : ComponentId \cup {"none"},
                               ref_count     : Nat,
                               is_dependency : {"unset", "false", "true"}]]
  BY RegistryTyped DEF Level, PInv
<1>1. /\ op = "loading"
      /\ \/ \E r \in LoadResults \ {"SUCCESS"} : Registry!LoadRejected(r)
         \/ n < Len(list) /\ c.id \in ComponentId
              /\ Registry!AppendComponent(c.id, c.dependency)
         \/ n < Len(list) /\ c.id \notin ComponentId /\ Registry!AppendUndecodable
         \/ n = Len(list) /\ \E r \in LoadResults : Registry!LoadDone(r)
      /\ Wiped(IF new THEN {Registry!First(Registry!Free)} ELSE {})
  BY DEF LoadStep, First, Registry!First
<1> HIDE DEF list, c
<1>2. components' # components
  OBVIOUS
<1>3. /\ n < Len(list) /\ c.id \in ComponentId
      /\ Registry!AppendComponent(c.id, c.dependency)
  BY <1>1, <1>2 DEF Registry!LoadRejected, Registry!AppendUndecodable, Registry!LoadDone
<1>4. CASE Registry!AppendToFullMap \/ Registry!AppendWithoutSlot(c.id)
  BY <1>2, <1>4 DEF Registry!AppendToFullMap, Registry!AppendWithoutSlot
<1>5. CASE Registry!AppendExisting(c.id, c.dependency)
  <2> DEFINE t == Registry!First(Registry!Holding(c.id))
  <2>1. t \in Slot /\ components[t].ref_count # 0
    <3>1. Registry!Holding(c.id) # {}
      BY <1>5 DEF Registry!AppendExisting
    <3>2. t \in Registry!Holding(c.id)
      BY <3>1, HoldingFirst
    <3> QED BY <3>2 DEF Registry!Holding, Registry!InUse, Registry!Slot, Slot
  <2>2. components' = [components EXCEPT ![t].ref_count = @ + 1,
                                         ![t].is_dependency = Registry!suit_bool(c.dependency)]
    BY <1>2, <1>5 DEF Registry!AppendExisting, Registry!Referenced
  <2> HIDE DEF t
  <2> QED BY <1>0, <2>1, <2>2
<1>6. ASSUME NEW r \in CreateResults, Registry!AppendNew(c.id, c.dependency, r)
      PROVE  ~integrity_checked'[s]
  <2> DEFINE t == Registry!First(Registry!Free)
  <2>1. /\ Registry!Holding(c.id) = {} /\ Registry!Free # {} /\ n < MaxComponents
        /\ \E x : components' = [components EXCEPT ![t] = x]
    BY <1>6, Zenon DEF Registry!AppendNew, Registry!component_map
  <2>2. new
    BY <1>1, <1>3, <2>1
  <2>3. Wiped({t})
    BY <1>1, <2>2
  <2> HIDE DEF t, new
  <2>4. s = t
    BY <1>0, <2>1
  <2> QED BY <2>3, <2>4 DEF Wiped
<1> QED BY <1>3, <1>4, <1>5, <1>6 DEF Registry!AppendComponent

LEMMA LoadTrust ==
    ASSUME Level, ~DependencyDenied, CheckedIsStored, LoadStep
    PROVE  CheckedIsStored'
<1>1. content' = content /\ \E slots : Wiped(slots)
  BY Zenon DEF LoadStep
<1>2. FlagsFall
  BY <1>1 DEF Wiped, FlagsFall, CheckedIsStored
<1> SUFFICES ASSUME NEW s \in Slot, Trusted(s)' PROVE Vouched(s)'
  BY <1>2 DEF CheckedIsStored, FlagsFall, Slot
<1>3. integrity_checked[s] /\ checked'[s] = checked[s]
  BY <1>2 DEF FlagsFall, Trusted
<1>4. components[s].ref_count # 0
  BY LoadWipes DEF Trusted
<1> QED BY <1>1, <1>3, <1>4, StillVouched

\* A command that waits for its dependency is about the component of its frame, and
\* the dependency is on top of the stack of manifests.
LEMMA ResumedTop ==
    ASSUME PInv, InStep, Placed, NEW name \in DependencyCommands, Resumed(name)
    PROVE  /\ Running /\ IsWaiting(code, Top) /\ Command(Top).op = name
           /\ Len(seq_stack) \in Frames /\ Top = seq_stack[Len(seq_stack)]
           /\ Current = Top /\ Current.current_component_idx \in Indexes(Current)
           /\ Dependency = Top.manifest + 1
<1>1. /\ op = "none" /\ On({name}, Run) /\ Top.cmd_exec_state \in SHARED .. SEQ_MAX + 2
      /\ AtCommand /\ Command(Top).op = name /\ Top.cmd_processor = "run"
      /\ Current.current_component_idx \in Indexes(Current)
  BY DEF Resumed, On, At, Run
<1>2. Running /\ StackReady
  BY <1>1, InSequence DEF AtCommand
<1>3. /\ Top \in F /\ Len(seq_stack) \in Frames /\ Top = seq_stack[Len(seq_stack)]
  BY <1>2, ReadyIsTyped DEF Frames
<1>4. IsWaiting(code, Top) /\ IsOpen(code, Top)
  BY <1>1 DEF IsWaiting, IsOpen, AtDependency, AtCommand, Command, SHARED, SEQ_MAX
<1>5. Current = Top
  <2>1. Top.current_component_idx \in Indexes(Top)
    BY <1>3, <1>4 DEF Placed, PlacedAt
  <2>2. /\ manifest_stack[Top.manifest] \in Seq(Slot)
        /\ Len(manifest_stack[Top.manifest]) <= MaxComponents
    BY <1>2, <1>3 DEF StackReady, Maps, F, FrameType
  <2>3. Indexes(Top) \subseteq 0 .. MaxComponents - 1
    BY <2>2, LenProperties, SeqExecAssumption DEF Indexes
  <2>4. Top.current_component_idx # NoIndex
    BY <2>1, <2>3, SeqExecAssumption DEF NoIndex
  <2> QED BY <2>4 DEF Current, component_idx_get
<1>6. Dependency = Top.manifest + 1
  <2>1. Height = root + Owed + (1 + DepthOfTop + 1) /\ DepthOfTop \in Nat
        /\ pc \in {"validate"} \cup Executing
    BY <1>2, <1>4, InSequence
  <2>2. Owed = 0
    <3>1. ~AfterLoad
      BY <1>1, <2>1 DEF AfterLoad, Executing, Loading, SHARED, SEQ_MAX
    <3> QED BY <1>1, <3>1 DEF Owed
  <2>3. Top.manifest = root + DepthOfTop /\ manifest_stack_height = Height /\ root = 0
    BY <1>3 DEF InStep, DepthOfTop
  <2> QED BY <2>1, <2>2, <2>3 DEF Dependency
<1> QED BY <1>1, <1>2, <1>3, <1>4, <1>5, <1>6

\* dependency-integrity sets the flag for what its component stores.
LEMMA IntegrityTrust ==
    ASSUME Level, ~DependencyDenied, Placed, VerifiesWhatIsStored, CheckedIsStored, IntegrityHolds
    PROVE  CheckedIsStored'
<1> DEFINE t == CurrentSlot
<1>1. /\ Resumed("dependency_integrity")
      /\ integrity_checked' = [integrity_checked EXCEPT ![t] = TRUE]
      /\ checked' = [checked EXCEPT ![t] = envelope[Dependency]]
      /\ content' = content /\ components' = components
  BY DEF IntegrityHolds, ReleaseDependency, Registry!BeginRelease
<1>2. /\ Running /\ IntegrityWaits(Top)
      /\ Len(seq_stack) \in Frames /\ Top = seq_stack[Len(seq_stack)]
      /\ Current = Top /\ Current.current_component_idx \in Indexes(Current)
      /\ Dependency = Top.manifest + 1
  BY <1>1, ResumedTop DEF Level, DependencyCommands, IntegrityWaits
<1>3. LoadedFrom(Top)
  <2>1. Top.cmd_exec_state \in SHARED .. SEQ_MAX + 2
    BY <1>1 DEF Resumed
  <2>2. Verifying(Top)
    BY <1>2, <2>1 DEF Verifying, Loading, Releasing, SHARED, SEQ_MAX
  <2> QED BY <1>2, <2>2 DEF VerifiesWhatIsStored
<1>4. content[components[t].component_id] = envelope[Dependency]
  BY <1>2, <1>3 DEF LoadedFrom, CurrentSlot
<1>5. t \in Slot
  BY <1>2, SlotIsFilled DEF Level
<1>6. integrity_checked \in [Slot -> BOOLEAN] /\ checked \in [Slot -> DOMAIN envelopes \cup {NoEnvelope}]
  BY DEF CheckedIsStored, Level, PInv, WorldOK
<1> HIDE DEF t
<1>7. integrity_checked' \in [Slot -> BOOLEAN]
  BY <1>1, <1>6
<1> SUFFICES ASSUME NEW s \in Slot, Trusted(s)' PROVE Vouched(s)'
  BY <1>7 DEF CheckedIsStored, Slot
<1>8. CASE s = t
  <2>1. checked'[s] = envelope[Dependency]
    BY <1>1, <1>6, <1>8
  <2> QED BY <1>1, <1>4, <1>8, <2>1 DEF Vouched
<1>9. CASE s # t
  <2>1. integrity_checked[s] /\ checked'[s] = checked[s]
    BY <1>1, <1>6, <1>9 DEF Trusted
  <2>2. components[s].ref_count # 0
    BY <1>1 DEF Trusted
  <2> QED BY <1>1, <2>1, <2>2, StillVouched
<1> QED BY <1>8, <1>9

LEMMA ReleasedTrust ==
    ASSUME Level, ~DependencyDenied, CheckedIsStored, DependencyReleased
    PROVE  CheckedIsStored'
<1>1. /\ op = "none" /\ content' = content /\ checked' = checked
      /\ \/ integrity_checked' = integrity_checked
         \/ integrity_checked' = [integrity_checked EXCEPT
               ![CurrentSlot] = @ /\ op_ret = "SUCCESS"]
  BY DEF DependencyReleased
<1>2. integrity_checked \in [Slot -> BOOLEAN]
  BY DEF CheckedIsStored
<1>3. FlagsFall
  <2>1. CASE integrity_checked' = integrity_checked
    BY <1>1, <1>2, <2>1 DEF FlagsFall
  <2>2. CASE integrity_checked' = [integrity_checked EXCEPT
                ![CurrentSlot] = @ /\ op_ret = "SUCCESS"]
    <3> DEFINE t == CurrentSlot
               b == op_ret = "SUCCESS"
    <3>1. b \in BOOLEAN /\ integrity_checked' = [integrity_checked EXCEPT ![t] = @ /\ b]
      BY <2>2
    <3> HIDE DEF t, b
    <3>2. integrity_checked' \in [Slot -> BOOLEAN]
      BY <1>2, <3>1
    <3>3. ASSUME NEW s \in Slot, integrity_checked'[s] PROVE integrity_checked[s]
      BY <1>2, <3>1, <3>3
    <3> QED BY <1>1, <3>2, <3>3 DEF FlagsFall
  <2> QED BY <1>1, <2>1, <2>2
<1> QED BY <1>1, <1>3, FallingFlags

LEMMA CheckedStep ==
    ASSUME Level, ~DependencyDenied, Placed, VerifiesWhatIsStored, CheckedIsStored
    PROVE  CheckedIsStored'
<1>1. ASSUME UNCHANGED <<integrity_checked, checked, content>>, op # "loading"
      PROVE  CheckedIsStored'
  <2>1. FlagsFall
    BY <1>1 DEF FlagsFall, CheckedIsStored
  <2> QED BY <1>1, <2>1, FallingFlags
<1>2. CASE UNCHANGED vars
  <2>1. op # "loading" \/ op = "loading"
    OBVIOUS
  <2>2. UNCHANGED <<integrity_checked, checked, content, components, manifest_stack,
                    manifest_stack_height, op, entry, pos>>
    BY <1>2 DEF vars, registry_vars, store
  <2>3. \A s : Registry!References(s)' = Registry!References(s)
    BY <2>2 DEF Registry!References, Registry!Live, Registry!Releasing
  <2> QED BY <2>2, <2>3 DEF CheckedIsStored, Trusted, Vouched, IsDependency, Leaked
<1>3. CASE ReleaseStep
  <2>1. op # "loading" /\ UNCHANGED <<integrity_checked, checked, content>>
    BY <1>3 DEF ReleaseStep, Registry!ReleaseStep, Registry!ReleaseMissing,
       Registry!ReleaseShared, Registry!ReleaseLast, Registry!ReleaseDone, Registry!Releasing, store
  <2> QED BY <1>1, <2>1
<1>4. CASE Loaded \/ ValidateNext \/ ValidationDone \/ DryRunNext \/ DryRunMain \/ DryRunRepeat
           \/ DryRunDone \/ ExecuteShared \/ ExecuteMain \/ (\E r \in PlatResults : Completed(r))
           \/ GiveUp \/ CallReturns
  <2>1. op # "loading" /\ UNCHANGED <<integrity_checked, checked, content>>
    BY <1>4 DEF Loaded, ValidateNext, ValidationDone, DryRunNext, DryRunMain, DryRunRepeat,
       DryRunDone, ExecuteShared, ExecuteMain, Completed, GiveUp, Leave, CallReturns, AtStep, store
  <2> QED BY <1>1, <2>1
<1>5. CASE LoadDependency \/ DependencyNotLoaded \/ LoadedForIntegrity
           \/ (\E r \in AuthResults : AuthorizeDependency(r))
           \/ ValidateForIntegrity \/ IntegrityFails \/ ValidateForProcess \/ ExecuteDependency
           \/ ProcessFails \/ \E r \in PlatResults : DependencyCompleted(r)
  <2>1. op # "loading" /\ UNCHANGED <<integrity_checked, checked, content>>
    BY <1>5 DEF LoadDependency, DependencyNotLoaded, LoadedForIntegrity, AuthorizeDependency,
       ValidateForIntegrity, IntegrityFails, ValidateForProcess, ExecuteDependency, ProcessFails,
       DependencyCompleted, ResumedProcess, Resumed, ScheduleDependency, ReleaseDependency, store
  <2> QED BY <1>1, <2>1
<1> QED BY <1>2, <1>3, <1>4, <1>5, LoadTrust, CallTrust, CommandTrust, IntegrityTrust,
           ReleasedTrust DEF Level, Next, Step

-----------------------------------------------------------------------------
(***************************************************************************)
(* The theorem: process-dependency begins to load a manifest only if       *)
(* dependency-integrity has accepted the one that the component stores.    *)
(***************************************************************************)
LEMMA LoadsWhatWasChecked ==
    ASSUME PInv, InStep, RegistryKept, CheckedIsStored, [Next]_vars,
           op = "none", op' = "loading", Running, Command(Top).op = "process_dependency"
    PROVE  Vouched(CurrentSlot)
<1>1. LoadDependency
  <2>1. CASE UNCHANGED vars
    BY <2>1 DEF vars, registry_vars
  <2>2. ~LoadStep /\ ~ReleaseStep
    BY DEF LoadStep, ReleaseStep, Registry!ReleaseStep, Registry!ReleaseMissing,
       Registry!ReleaseShared, Registry!ReleaseLast, Registry!ReleaseDone, Registry!Releasing
  <2>3. ~(Loaded \/ ValidateNext \/ ValidationDone \/ DryRunNext \/ DryRunMain \/ DryRunRepeat
           \/ DryRunDone \/ ExecuteShared \/ ExecuteMain \/ (\E r \in PlatResults : Completed(r))
           \/ GiveUp \/ CallReturns \/ \E n \in Calls : Call(n))
    BY DEF Loaded, ValidateNext, ValidationDone, DryRunNext, DryRunMain, DryRunRepeat,
       DryRunDone, ExecuteShared, ExecuteMain, Completed, GiveUp, CallReturns, Call, AtStep
  <2>4. ~RunCommand
    BY DEF RunCommand
  <2>5. ~(DependencyNotLoaded \/ LoadedForIntegrity \/ (\E r \in AuthResults : AuthorizeDependency(r))
          \/ ValidateForIntegrity \/ IntegrityFails \/ IntegrityHolds \/ ValidateForProcess
          \/ ExecuteDependency \/ ProcessFails \/ (\E r \in PlatResults : DependencyCompleted(r))
          \/ DependencyReleased)
    BY DEF DependencyNotLoaded, LoadedForIntegrity, AuthorizeDependency,
       ValidateForIntegrity, IntegrityFails, IntegrityHolds, ValidateForProcess, ExecuteDependency,
       ProcessFails, DependencyCompleted, DependencyReleased, ScheduleDependency, ReleaseDependency,
       Registry!BeginRelease, registry_vars
  <2> QED BY <2>1, <2>2, <2>3, <2>4, <2>5 DEF Next, Step
<1>2. /\ integrity_checked[CurrentSlot] /\ IsDependency(CurrentSlot)
      /\ Current.current_component_idx \in Indexes(Current)
  BY <1>1 DEF LoadDependency, ToLoad, On
<1>3. CurrentSlot \in Slot /\ components[CurrentSlot].ref_count # 0
  BY <1>2, SlotIsFilled
<1> QED BY <1>2, <1>3 DEF CheckedIsStored, Trusted

(***************************************************************************)
(* On a platform that denies no dependency, and as long as the commands    *)
(* that are resumed find themselves where they were, a dependency is       *)
(* processed with the manifest that was checked: nothing wrote to the      *)
(* component between the two commands, nor between the load and the end    *)
(* of the check, in this call or an earlier one.                           *)
(***************************************************************************)
THEOREM ProcessesTheChecked ==
    ASSUME ~DependencyDenied
    PROVE  Spec /\ []ResumedInPlace => ProcessesWhatWasChecked
<1> DEFINE Kept == InStep /\ RegistryKept /\ Placed /\ AboveValidates /\ VerifiesWhatIsStored
                   /\ CheckedIsStored
           AsChecked == (op = "none" /\ op' = "loading" /\ Running
                        /\ Command(Top).op = "process_dependency") =>
                           \/ content[components[CurrentSlot].component_id] = checked[CurrentSlot]
                           \/ Leaked(CurrentSlot)
<1>1. Init => Kept
  <2> SUFFICES ASSUME Init PROVE Kept
    OBVIOUS
  <2>1. InStep /\ RegistryKept /\ Placed
    BY InitIsPlaced DEF AllPlaced
  <2>2. Frames = {} /\ integrity_checked = [s \in Slot |-> FALSE]
    BY DEF Init, Frames
  <2>3. CheckedIsStored
    BY <2>2 DEF CheckedIsStored, Trusted
  <2>4. AboveValidates /\ VerifiesWhatIsStored
    BY <2>2 DEF AboveValidates, VerifiesWhatIsStored
  <2> QED BY <2>1, <2>3, <2>4
<1>2. PInv /\ PInv' /\ Kept /\ ResumedInPlace /\ [Next]_vars => Kept'
  <2> SUFFICES ASSUME PInv, PInv', Kept, ResumedInPlace, [Next]_vars PROVE Kept'
    OBVIOUS
  <2>1. InStep'
    BY InStepStep
  <2>2. RegistryKept' /\ (Proofs!Next \/ UNCHANGED Proofs!vars)
    BY RegistryStepKept
  <2>3. Level
    BY <2>1, <2>2 DEF Level
  <2>4. Placed' /\ AboveValidates'
    BY <2>3, PlacedStep, ValidatesStep
  <2>5. VerifiesWhatIsStored'
    BY <2>3, VerifiesStep
  <2>6. CheckedIsStored'
    BY <2>3, CheckedStep
  <2> QED BY <2>1, <2>2, <2>4, <2>5, <2>6
<1>3. PInv /\ Kept /\ [Next]_vars => [AsChecked]_vars
  BY LoadsWhatWasChecked DEF Vouched
<1> HIDE DEF Kept
<1> QED BY <1>1, <1>2, <1>3, ProcessorInvariant, PTL DEF Spec, ProcessesWhatWasChecked

\* So it is when no dependency unchecks the component it is executed from.
THEOREM CheckedProcessesTheChecked ==
    ASSUME ~DependencyDenied
    PROVE  Spec /\ []ResumedChecked => ProcessesWhatWasChecked
BY CommandsResumeInPlace, ProcessesTheChecked, PTL
===============================================================================
