------------------------------- MODULE SeqExec -------------------------------
(***************************************************************************)
(* The command sequence machine: suit_seq_exec.c (the stack of suspended   *)
(* sequences and the loop over the selected components), suit_schedule_    *)
(* seq.c (the two command processors, run and validate) and the commands   *)
(* of suit_directive.c and suit_condition.c that stay inside one manifest. *)
(*                                                                         *)
(* A step is one iteration of the component loop: one command applied to   *)
(* one selected component, with the call of the platform it makes and      *)
(* everything that follows it up to the next one.  try-each and            *)
(* run-sequence push a frame and suspend the command in the middle of that *)
(* loop; it is resumed, on the same component, when the frame is popped.   *)
(*                                                                         *)
(* A sequence is a list of decoded commands; "undecodable" stands for      *)
(* anything the CBOR decoder refuses where a command should start.         *)
(***************************************************************************)
EXTENDS Integers, Sequences, FiniteSets

CONSTANTS
    MaxSlots,           \* SUIT_MAX_NUM_COMPONENT_PARAMS, size of the pool
    MaxComponents,      \* SUIT_MAX_NUM_COMPONENTS, size of a component_map
    MaxManifests,       \* SUIT_MANIFEST_STACK_MAX_ENTRIES
    MaxSeqDepth,        \* SUIT_MAX_SEQ_DEPTH
    PlatResults         \* what a check or an operation of the platform returns

\* The platform functions are synchronous: none of them asks to be called
\* again, which the processor reserves for its own scheduling.
ASSUME SeqExecAssumption ==
    /\ MaxSlots \in Nat \ {0}
    /\ MaxComponents \in Nat \ {0}
    /\ MaxManifests \in Nat \ {0}
    /\ MaxSeqDepth \in Nat \ {0}
    /\ "SUCCESS" \in PlatResults
    /\ "ERR_AGAIN" \notin PlatResults
    /\ "FAIL_SOFT_CONDITION" \notin PlatResults

Slot  == 0 .. MaxSlots - 1
Entry == 0 .. MaxManifests - 1

VARIABLES
    code,               \* the command sequences, by name
    seq_stack,          \* the frames, the last one is on top
    seq_ret,            \* what suit_process_scheduled returned, AGAIN inside
    manifest_stack,     \* component_map of every manifest
    components,         \* the pool of component records
    parameters,         \* per slot, the parameters that are set
    integrity_checked,  \* per slot, suit_manifest_params.integrity_checked
    dry_run,            \* suit_processor_state.dry_run
    call                \* the platform call of the last step, if any

(***************************************************************************)
(* Commands: select holds the component indexes of set-component-index     *)
(* ({} for `true`, all of them), params the list of a parameter directive, *)
(* seqs and nil the alternatives of try-each (run-sequence has one).       *)
(***************************************************************************)
SoftFailure == [soft_failure_true |-> TRUE, soft_failure_false |-> FALSE]

\* The parameter a condition or directive needs to be set.
Required == [vendor_identifier |-> "vid",   class_identifier  |-> "cid",
             device_identifier |-> "did",   image_match       |-> "image_digest",
             component_slot    |-> "component_slot",
             check_content     |-> "content", version         |-> "version",
             fetch             |-> "uri",   write             |-> "content",
             copy              |-> "source_component"]

Checks   == {"vendor_identifier", "class_identifier", "device_identifier",
             "image_match", "component_slot", "check_content", "version"}
Effects  == {"fetch", "copy", "write", "invoke"}
Nesting  == {"try_each", "run_sequence"}
DependencyCommands == {"dependency_integrity", "process_dependency"}

\* The commands repeated for every selected component.
ComponentCommands ==
    Checks \cup Effects \cup Nesting \cup DependencyCommands
        \cup {"abort", "is_dependency", "set_parameters"}

\* A decoded command, and a program: run-sequence always names its sequence.
CommandType(names) ==
    [op : STRING, select : SUBSET Nat, params : Seq(STRING), seqs : Seq(names), nil : BOOLEAN]
IsProgram(c) ==
    \A name \in DOMAIN c :
        /\ c[name] \in Seq(CommandType(DOMAIN c))
        /\ \A k \in DOMAIN c[name] : c[name][k].op = "run_sequence" => c[name][k].seqs # <<>>

First(S) == CHOOSE i \in S : \A j \in S : i <= j
Last(S)  == CHOOSE i \in S : \A j \in S : j <= i

NoCall == [call |-> "none", slot |-> 0, dry_run |-> FALSE, ret |-> "none"]

-----------------------------------------------------------------------------
(***************************************************************************)
(* Frames.  NoIndex is the current_component_idx of a frame that is not    *)
(* inside the component loop.                                              *)
(***************************************************************************)
NoIndex == MaxComponents

Top        == seq_stack[Len(seq_stack)]
Command(f) == code[f.cmd_seq][f.current_command + 1]
Indexes(f) == 0 .. Len(manifest_stack[f.manifest]) - 1
SlotOf(f, i) == manifest_stack[f.manifest][i + 1]

NewFrame(seq, manifest, soft_failure, cmd_processor, selected) ==
    [cmd_seq |-> seq, current_command |-> 0, cmd_exec_state |-> 0,
     retval |-> "SUCCESS", soft_failure |-> soft_failure,
     current_component_idx |-> NoIndex,
     current_components |-> selected, current_components_backup |-> {},
     manifest |-> manifest, cmd_processor |-> cmd_processor]

\* The selection an entry sequence starts with: its only component, or none.
InitSelected(manifest) == IF Len(manifest_stack[manifest]) = 1 THEN {0} ELSE {}

\* Faulty variant: the loop comes to the same component again.
component_idx_next_again(f) ==
    LET first    == f.current_component_idx = NoIndex
        selected == IF first THEN f.current_components ELSE f.current_components_backup
        rest     == {i \in selected \cap Indexes(f) : first \/ f.current_component_idx <= i}
    IN [f EXCEPT !.current_components_backup = selected,
                 !.current_components = IF rest = {} THEN selected ELSE {First(rest)},
                 !.current_component_idx = IF rest = {} THEN NoIndex ELSE First(rest)]

\* suit_seq_exec_component_idx_next: the first call saves the selection, the
\* others move on through it, and the last one puts it back.
component_idx_next(f) ==
    LET first    == f.current_component_idx = NoIndex
        selected == IF first THEN f.current_components ELSE f.current_components_backup
        rest     == {i \in selected \cap Indexes(f) : first \/ f.current_component_idx < i}
    IN [f EXCEPT !.current_components_backup = selected,
                 !.current_components = IF rest = {} THEN selected ELSE {First(rest)},
                 !.current_component_idx = IF rest = {} THEN NoIndex ELSE First(rest)]

component_idx_get(f) ==
    IF f.current_component_idx = NoIndex THEN component_idx_next(f) ELSE f

-----------------------------------------------------------------------------
(***************************************************************************)
(* How a step ends.                                                        *)
(***************************************************************************)
Continue(f) ==
    /\ seq_stack' = [seq_stack EXCEPT ![Len(seq_stack)] = f]
    /\ seq_ret' = "ERR_AGAIN"

\* Faulty variant: the caller does not get the selection of its nested sequence.
FinalizeKeepsSelection(f, retval) ==
    LET ret    == IF f.soft_failure /\ retval = "FAIL_CONDITION"
                  THEN "FAIL_SOFT_CONDITION" ELSE retval
        parent == Len(seq_stack) - 1
    IN IF parent > 0
       THEN /\ seq_stack' = [SubSeq(seq_stack, 1, parent) EXCEPT ![parent].retval = ret]
            /\ seq_ret' = "ERR_AGAIN"
       ELSE /\ seq_stack' = <<>>
            /\ seq_ret' = ret

\* suit_seq_exec_finalize: the frame f, on top, ends with retval.
Finalize(f, retval) ==
    LET ret    == IF f.soft_failure /\ retval = "FAIL_CONDITION"
                  THEN "FAIL_SOFT_CONDITION" ELSE retval
        parent == Len(seq_stack) - 1
    IN IF parent > 0
       THEN /\ seq_stack' = [SubSeq(seq_stack, 1, parent) EXCEPT
                  ![parent].retval = ret,
                  ![parent].current_components = f.current_components]
            /\ seq_ret' = "ERR_AGAIN"
       ELSE /\ seq_stack' = <<>>
            /\ seq_ret' = ret

NextCommand(f) == [f EXCEPT !.current_command = @ + 1, !.cmd_exec_state = 0]

\* The command ended with ret on the current component: it is repeated on the
\* next one, or the sequence goes on, or ends with the error.
Return(f, ret) ==
    LET g == component_idx_next(f) IN
    IF ret # "SUCCESS" THEN Finalize(g, ret)
    ELSE IF g.current_component_idx # NoIndex
         THEN Continue([g EXCEPT !.cmd_exec_state = 0])
         ELSE Continue(NextCommand(g))

Push(f, seq, soft_failure, cmd_processor) ==
    /\ seq_stack' = Append([seq_stack EXCEPT ![Len(seq_stack)] = f],
             NewFrame(seq, f.manifest, soft_failure, cmd_processor, f.current_components))
    /\ seq_ret' = "ERR_AGAIN"

\* Faulty variants: one frame too many, or nested sequences always executed.
ScheduleOneMore(f, seq, soft_failure) ==
    IF Len(seq_stack) <= MaxSeqDepth
    THEN Push(f, seq, soft_failure, f.cmd_processor) ELSE Return(f, "ERR_OVERFLOW")

ScheduleToRun(f, seq, soft_failure) ==
    IF Len(seq_stack) < MaxSeqDepth
    THEN Push(f, seq, soft_failure, "run") ELSE Return(f, "ERR_OVERFLOW")

\* suit_seq_exec_schedule, called by a command of the same manifest.
Schedule(f, seq, soft_failure) ==
    IF Len(seq_stack) < MaxSeqDepth
    THEN Push(f, seq, soft_failure, f.cmd_processor) ELSE Return(f, "ERR_OVERFLOW")

-----------------------------------------------------------------------------
(***************************************************************************)
(* suit_seq_exec_step: which command is next.                              *)
(***************************************************************************)
Running == seq_stack # <<>>

EndOfSequence ==
    /\ Running
    /\ Top.current_command >= Len(code[Top.cmd_seq])
    /\ Finalize(Top, "SUCCESS")
    /\ call' = NoCall
    /\ UNCHANGED <<code, manifest_stack, components, parameters,
                   integrity_checked, dry_run>>

AtCommand == Running /\ Top.current_command < Len(code[Top.cmd_seq])

\* With several components an entry sequence begins with set-component-index.
MissingSetIndex ==
    /\ Top.current_command = 0
    /\ Len(manifest_stack[Top.manifest]) # 1
    /\ Len(seq_stack) < 2
    /\ Command(Top).op \notin {"set_component_index", "undecodable"}

\* The next command is op, on behalf of one of the command processors.
At(ops, processors) ==
    /\ AtCommand
    /\ ~MissingSetIndex
    /\ Command(Top).op \in ops
    /\ Top.cmd_processor \in processors

Run      == {"run"}
Validate == {"validate_shared", "validate_common"}

\* The frame inside the component loop, and the component it is about.
Current     == component_idx_get(Top)
CurrentSlot == SlotOf(Current, Current.current_component_idx)
On(ops, processors) ==
    At(ops, processors) /\ Current.current_component_idx \in Indexes(Current)

RejectCommand ==
    /\ AtCommand
    /\ \/ /\ MissingSetIndex
          /\ Finalize(Top, "ERR_MANIFEST_VALIDATION")
       \/ /\ Command(Top).op = "undecodable"
          /\ Finalize(Top, "ERR_DECODING")
    /\ call' = NoCall
    /\ UNCHANGED <<code, manifest_stack, components, parameters,
                   integrity_checked, dry_run>>

\* No component is selected: the body of the loop is not entered.
SkipCommand ==
    /\ At(ComponentCommands, Run \cup Validate)
    /\ Current.current_component_idx = NoIndex
    /\ Continue(NextCommand(Current))
    /\ call' = NoCall
    /\ UNCHANGED <<code, manifest_stack, components, parameters,
                   integrity_checked, dry_run>>

\* suit_manifest_get_component_params: the manifest was wiped under the loop.
ComponentGone ==
    /\ At(ComponentCommands, Run)
    /\ Current.current_component_idx \notin Indexes(Current) \cup {NoIndex}
    /\ Finalize(Current, "ERR_MISSING_COMPONENT")
    /\ call' = NoCall
    /\ UNCHANGED <<code, manifest_stack, components, parameters,
                   integrity_checked, dry_run>>

\* Faulty variant: the position in the sequence does not advance.
SetComponentIndexAgain ==
    /\ At({"set_component_index"}, Run \cup Validate)
    /\ LET select == Command(Top).select
           f == [Top EXCEPT !.current_components =
                    IF select = {} THEN Indexes(Top) ELSE select \cap Indexes(Top)]
       IN IF select \subseteq Indexes(Top) THEN Continue(f)
          ELSE Finalize(f, IF Top.cmd_processor \in Run THEN "ERR_MISSING_COMPONENT"
                           ELSE "ERR_MANIFEST_VALIDATION")
    /\ call' = NoCall
    /\ UNCHANGED <<code, manifest_stack, components, parameters,
                   integrity_checked, dry_run>>

SetComponentIndex ==
    /\ At({"set_component_index"}, Run \cup Validate)
    /\ LET select == Command(Top).select
           f == [Top EXCEPT !.current_components =
                    IF select = {} THEN Indexes(Top) ELSE select \cap Indexes(Top)]
       IN IF select \subseteq Indexes(Top) THEN Continue(NextCommand(f))
          ELSE Finalize(f, IF Top.cmd_processor \in Run THEN "ERR_MISSING_COMPONENT"
                           ELSE "ERR_MANIFEST_VALIDATION")
    /\ call' = NoCall
    /\ UNCHANGED <<code, manifest_stack, components, parameters,
                   integrity_checked, dry_run>>

-----------------------------------------------------------------------------
(***************************************************************************)
(* Nested sequences, run and validated alike.                              *)
(***************************************************************************)
MoreSequences(f) == f.cmd_exec_state < Len(Command(f).seqs)

\* Faulty variant: any failure leads to the next alternative.
NextAlternativeOnError(f) ==
    \/ f.cmd_exec_state = 0
    \/ f.retval # "SUCCESS"
    \/ f.cmd_processor \in Validate /\ f.retval = "SUCCESS" /\ MoreSequences(f)

\* Does try-each go on to another alternative?
NextAlternative(f) ==
    \/ f.cmd_exec_state = 0
    \/ f.retval = "FAIL_SOFT_CONDITION"
    \/ f.cmd_processor \in Validate /\ f.retval = "SUCCESS" /\ MoreSequences(f)

\* Faulty variant: try-each forgets which alternative it has started.
StartedUncounted(f) == [f EXCEPT !.retval = "SUCCESS"]

Started(f) == [f EXCEPT !.retval = "SUCCESS", !.cmd_exec_state = @ + 1]

TryEach ==
    /\ On({"try_each"}, Run \cup Validate)
    /\ LET f == Current
       IN IF ~NextAlternative(f) THEN Return(f, f.retval)
          ELSE IF MoreSequences(f)
               THEN Schedule(Started(f), Command(f).seqs[f.cmd_exec_state + 1], TRUE)
               ELSE Return([f EXCEPT !.retval = "SUCCESS"],
                           IF Command(f).nil THEN "SUCCESS" ELSE "ERR_CRASH")
    /\ call' = NoCall
    /\ UNCHANGED <<code, manifest_stack, components, parameters,
                   integrity_checked, dry_run>>

\* Faulty variant: the soft failure stays in retval.
RunSequenceKeepsResult ==
    /\ On({"run_sequence"}, Run \cup Validate)
    /\ LET f   == Current
           ret == IF f.retval = "FAIL_SOFT_CONDITION" THEN "SUCCESS" ELSE f.retval
       IN IF f.cmd_exec_state = 0
          THEN Schedule([f EXCEPT !.cmd_exec_state = 1], Command(f).seqs[1], FALSE)
          ELSE Return(f, ret)
    /\ call' = NoCall
    /\ UNCHANGED <<code, manifest_stack, components, parameters,
                   integrity_checked, dry_run>>

RunSequence ==
    /\ On({"run_sequence"}, Run \cup Validate)
    /\ LET f   == Current
           ret == IF f.retval = "FAIL_SOFT_CONDITION" THEN "SUCCESS" ELSE f.retval
       IN IF f.cmd_exec_state = 0
          THEN Schedule([f EXCEPT !.cmd_exec_state = 1], Command(f).seqs[1], FALSE)
          ELSE Return([f EXCEPT !.retval = ret], ret)
    /\ call' = NoCall
    /\ UNCHANGED <<code, manifest_stack, components, parameters,
                   integrity_checked, dry_run>>

(***************************************************************************)
(* suit_validate_single_command for everything else.                       *)
(***************************************************************************)
ForbiddenInShared == Effects \cup {"process_dependency", "set_parameters"}

ValidateCommand ==
    /\ On(ComponentCommands \ Nesting, Validate)
    /\ Return(Current, IF /\ Top.cmd_processor = "validate_shared"
                          /\ Command(Top).op \in ForbiddenInShared
                       THEN "ERR_MANIFEST_VALIDATION" ELSE "SUCCESS")
    /\ call' = NoCall
    /\ UNCHANGED <<code, manifest_stack, components, parameters,
                   integrity_checked, dry_run>>

ValidateOverride ==
    /\ At({"override_parameters"}, Validate)
    /\ Continue(NextCommand(Top))
    /\ call' = NoCall
    /\ UNCHANGED <<code, manifest_stack, components, parameters,
                   integrity_checked, dry_run>>

-----------------------------------------------------------------------------
(***************************************************************************)
(* Conditions.                                                             *)
(***************************************************************************)
IsDependency(s) == components[s].is_dependency = "true"

\* A condition or directive that lacks the parameter it works on.
ParameterMissing ==
    /\ On(DOMAIN Required, Run)
    /\ Required[Command(Top).op] \notin parameters[CurrentSlot]
    /\ Return(Current, IF Command(Top).op \in {"fetch", "write"}
                       THEN "ERR_UNAVAILABLE_PAYLOAD" ELSE "ERR_UNAVAILABLE_PARAMETER")
    /\ call' = NoCall
    /\ UNCHANGED <<code, manifest_stack, components, parameters,
                   integrity_checked, dry_run>>

Ready(ops) ==
    /\ On(ops, Run)
    /\ Command(Top).op \in DOMAIN Required =>
          Required[Command(Top).op] \in parameters[CurrentSlot]

\* Some parameters hold CBOR of their own or a component index, looked at only
\* now, in a dry run too: digest, version, source component, encryption info.
MalformedResults(o, set) ==
    CASE o = "image_match" -> {"ERR_DECODING", "ERR_UNSUPPORTED_ALG"}
      [] o = "version"     -> {"ERR_DECODING"}
      [] o \in {"fetch", "copy", "write"} ->
           (IF o = "copy" THEN {"ERR_MISSING_COMPONENT"} ELSE {})
               \cup (IF "encryption_info" \in set
                     THEN {"ERR_DECODING", "ERR_UNSUPPORTED_ALG", "ERR_UNAVAILABLE_PAYLOAD"}
                     ELSE {})
      [] OTHER -> {}

ParameterMalformed ==
    /\ Ready(DOMAIN Required)
    /\ \E ret \in MalformedResults(Command(Top).op, parameters[CurrentSlot]) :
          Return(Current, ret)
    /\ call' = NoCall
    /\ UNCHANGED <<code, manifest_stack, components, parameters,
                   integrity_checked, dry_run>>

Called(op, ret) ==
    call' = [call |-> op, slot |-> CurrentSlot, dry_run |-> dry_run, ret |-> ret]

\* The platform evaluates the condition, except in a dry run.
CheckCondition(ret) ==
    /\ Ready(Checks)
    /\ ~dry_run
    /\ Return(Current, ret)
    /\ Called(Command(Top).op, ret)
    /\ UNCHANGED <<code, manifest_stack, components, parameters,
                   integrity_checked, dry_run>>

AssumeCondition ==
    /\ Ready(Checks)
    /\ dry_run
    /\ Return(Current, "SUCCESS")
    /\ call' = NoCall
    /\ UNCHANGED <<code, manifest_stack, components, parameters,
                   integrity_checked, dry_run>>

Abort ==
    /\ On({"abort"}, Run)
    /\ Return(Current, "FAIL_CONDITION")
    /\ call' = NoCall
    /\ UNCHANGED <<code, manifest_stack, components, parameters,
                   integrity_checked, dry_run>>

ConditionIsDependency ==
    /\ On({"is_dependency"}, Run)
    /\ Return(Current, CASE components[CurrentSlot].is_dependency = "true"  -> "SUCCESS"
                         [] components[CurrentSlot].is_dependency = "false" -> "FAIL_CONDITION"
                         [] OTHER -> "ERR_TAMP")
    /\ call' = NoCall
    /\ UNCHANGED <<code, manifest_stack, components, parameters,
                   integrity_checked, dry_run>>

(***************************************************************************)
(* Directives.  component_modified clears integrity_checked before the     *)
(* platform touches a dependency, so also when it then fails.              *)
(***************************************************************************)
\* Faulty variant: the flag is not cleared.
component_modified_ignored(slots) == UNCHANGED integrity_checked

component_modified(slots) ==
    integrity_checked' = [s \in Slot |->
        integrity_checked[s] /\ ~(s \in slots /\ IsDependency(s))]

Perform(ret) ==
    /\ Ready(Effects)
    /\ Return(Current, ret)
    /\ Called(Command(Top).op, ret)
    /\ component_modified(IF dry_run \/ Command(Top).op = "invoke" THEN {} ELSE {CurrentSlot})
    /\ UNCHANGED <<code, manifest_stack, components, parameters, dry_run>>

\* Faulty variant: the parameters are stored on every component.
StoreEverywhere(pairs) ==
    /\ parameters' = [s \in Slot |-> parameters[s] \cup {p[2] : p \in pairs}]
    /\ component_modified({p[1] : p \in {q \in pairs : q[2] = "component_slot"}})

\* The parameters of the pairs <<slot, parameter>> are stored; a new
\* component-slot counts as a modification of the component.
Store(pairs) ==
    /\ parameters' = [s \in Slot |->
          parameters[s] \cup {p[2] : p \in {q \in pairs : q[1] = s}}]
    /\ component_modified({p[1] : p \in {q \in pairs : q[2] = "component_slot"}})

\* The first n parameters of the list.
Upto(params, n) == {params[k] : k \in 1 .. n} \ DOMAIN SoftFailure
Positions(params, p) == {k \in DOMAIN params : params[k] = p}
SoftPositions(params) == {k \in DOMAIN params : params[k] \in DOMAIN SoftFailure}

SetsSize(params) == "image_size" \in Upto(params, Len(params))

\* set-parameters stores what is not set yet on the current component.  The
\* platform is told the image size and may refuse it with ret.
SetParameters(ret) ==
    /\ On({"set_parameters"}, Run)
    /\ LET s       == CurrentSlot
           params  == Command(Top).params
           soft    == SoftPositions(params)
           size    == IF "image_size" \in parameters[s] THEN {}
                      ELSE {k \in Positions(params, "image_size") : \A j \in soft : k < j}
           stop    == IF ret = "SUCCESS" THEN soft ELSE size
           n       == IF stop = {} THEN Len(params) ELSE First(stop) - 1
       IN /\ ret # "SUCCESS" => size # {}
          /\ Store({s} \X (Upto(params, n) \ parameters[s]))
          /\ Return(Current, IF stop = {} THEN "SUCCESS"
                             ELSE IF ret = "SUCCESS" THEN "ERR_UNSUPPORTED_PARAMETER" ELSE ret)
          /\ IF size = {} THEN call' = NoCall ELSE Called("override_image_size", ret)
    /\ UNCHANGED <<code, manifest_stack, components, dry_run>>

(***************************************************************************)
(* override-parameters runs the component loop itself, once per parameter. *)
(***************************************************************************)
Selected == Top.current_components \cap Indexes(Top)
SlotsOf(indexes) == {SlotOf(Top, i) : i \in indexes}

SoftFailureAfter(params, n) ==
    LET soft == {k \in SoftPositions(params) : k <= n}
    IN IF soft = {} THEN Top.soft_failure ELSE SoftFailure[params[Last(soft)]]

\* Faulty variant: soft-failure is accepted anywhere.
NeverRefused(params) == {}

\* soft-failure is refused in a sequence that is alone on the stack.
Refused(params) == IF Len(seq_stack) < 2 THEN SoftPositions(params) ELSE {}

SizeCall(s, ret) ==
    call' = [call |-> "override_image_size", slot |-> s, dry_run |-> dry_run, ret |-> ret]

Override ==
    /\ At({"override_parameters"}, Run)
    /\ LET params == Command(Top).params
           stop   == Refused(params)
           n      == IF stop = {} THEN Len(params) ELSE First(stop) - 1
           size   == "image_size" \in Upto(params, n) /\ Selected # {}
       IN /\ Store(SlotsOf(Selected) \X Upto(params, n))
          /\ IF stop = {}
             THEN Continue(NextCommand([Top EXCEPT
                     !.soft_failure = SoftFailureAfter(params, n)]))
             ELSE Finalize(Top, "ERR_UNSUPPORTED_COMMAND")
          /\ IF size THEN SizeCall(SlotOf(Top, Last(Selected)), "SUCCESS") ELSE call' = NoCall
    /\ UNCHANGED <<code, manifest_stack, components, dry_run>>

\* The platform refuses the image size of the component with index i: the
\* parameters before it are stored, and the loop has moved on to the next one.
OverrideSizeFails(i, ret) ==
    /\ At({"override_parameters"}, Run)
    /\ SetsSize(Command(Top).params)
    /\ i \in Selected
    /\ LET params == Command(Top).params
           n      == First(Positions(params, "image_size"))
           before == {j \in Selected : j < i}
           f      == [Top EXCEPT !.soft_failure = SoftFailureAfter(params, n),
                                 !.current_components_backup = Top.current_components,
                                 !.current_component_idx = i]
       IN /\ \A j \in Refused(params) : n < j
          /\ Store((SlotsOf(Selected) \X Upto(params, n - 1))
                      \cup (SlotsOf(before) \X {"image_size"}))
          /\ Finalize(component_idx_next(f), ret)
          /\ SizeCall(SlotOf(Top, i), ret)
    /\ UNCHANGED <<code, manifest_stack, components, dry_run>>

-----------------------------------------------------------------------------
(***************************************************************************)
(* The early returns of the two commands that load a dependency manifest.  *)
(* They are evaluated again whenever the command is resumed.               *)
(***************************************************************************)
DependencyIntegrityRefused ==
    /\ On({"dependency_integrity"}, Run)
    /\ ~IsDependency(CurrentSlot) \/ dry_run
    /\ Return(Current, CASE components[CurrentSlot].is_dependency = "false" -> "FAIL_CONDITION"
                         [] IsDependency(CurrentSlot) -> "SUCCESS"
                         [] OTHER -> "ERR_TAMP")
    /\ call' = NoCall
    /\ UNCHANGED <<code, manifest_stack, components, parameters,
                   integrity_checked, dry_run>>

ProcessDependencyRefused ==
    /\ On({"process_dependency"}, Run)
    /\ ~IsDependency(CurrentSlot) \/ ~integrity_checked[CurrentSlot]
    /\ Return(Current,
          CASE components[CurrentSlot].is_dependency = "false" -> "ERR_UNSUPPORTED_COMPONENT_ID"
            [] IsDependency(CurrentSlot) -> (IF dry_run THEN "SUCCESS" ELSE "ERR_ORDER")
            [] OTHER -> "ERR_TAMP")
    /\ call' = NoCall
    /\ UNCHANGED <<code, manifest_stack, components, parameters,
                   integrity_checked, dry_run>>

\* The guards are passed and the command has not started: the dependency is to
\* be loaded.
ToLoad ==
    /\ On(DependencyCommands, Run)
    /\ IsDependency(CurrentSlot)
    /\ IF Command(Top).op = "dependency_integrity"
       THEN ~dry_run ELSE integrity_checked[CurrentSlot]
    /\ Top.cmd_exec_state = 0

\* Faulty variant: the condition reports why the manifest was not loaded.
LoadFailedHard(ret) == Return(Current, ret)

\* Nothing was loaded, for the reason ret: that fails the condition only.
LoadFailed(ret) ==
    Return(Current, IF Command(Top).op = "dependency_integrity"
                    THEN "FAIL_CONDITION" ELSE ret)

\* The platform has no envelope for the component.
RetrieveFails(ret) ==
    /\ ToLoad
    /\ LoadFailed(ret)
    /\ Called("retrieve_manifest", ret)
    /\ UNCHANGED <<code, manifest_stack, components, parameters,
                   integrity_checked, dry_run>>

\* One iteration of the loop in suit_process_scheduled, for every command that
\* stays inside its manifest.
SeqStep ==
    \/ EndOfSequence
    \/ RejectCommand
    \/ SkipCommand
    \/ ComponentGone
    \/ SetComponentIndex
    \/ TryEach
    \/ RunSequence
    \/ ValidateCommand
    \/ ValidateOverride
    \/ ParameterMissing
    \/ ParameterMalformed
    \/ \E ret \in PlatResults : CheckCondition(ret) \/ Perform(ret) \/ SetParameters(ret)
    \/ AssumeCondition
    \/ Abort
    \/ ConditionIsDependency
    \/ Override
    \/ \E i \in 0 .. MaxComponents - 1, ret \in PlatResults \ {"SUCCESS"} :
          OverrideSizeFails(i, ret)
    \/ DependencyIntegrityRefused
    \/ ProcessDependencyRefused
    \/ \E ret \in PlatResults \ {"SUCCESS"} : RetrieveFails(ret)

-----------------------------------------------------------------------------
\* The result of a nested sequence is consumed by the command that waited for
\* it: a command never starts with the result of an earlier one in
\* seq_exec_state->retval, which process-dependency would take for its own.
NoStaleResult ==
    (Running /\ Top.cmd_exec_state = 0) => Top.retval = "SUCCESS"

(***************************************************************************)
(* How far the machine has come.  A frame is at a command of its sequence, *)
(* at a component of the loop (0 outside it) and at one of the sequences   *)
(* of the command.  A stack is further on than another one if, above some  *)
(* frames that have not moved, a frame is further on or has ended.         *)
(***************************************************************************)
LoopPlace(f) == IF f.current_component_idx = NoIndex THEN 0 ELSE f.current_component_idx + 1

AtSamePlace(f, g) ==
    /\ g.cmd_seq = f.cmd_seq
    /\ g.current_command = f.current_command
    /\ LoopPlace(g) = LoopPlace(f)
    /\ g.cmd_exec_state = f.cmd_exec_state

FrameFurtherOn(f, g) ==
    /\ g.cmd_seq = f.cmd_seq
    /\ \/ g.current_command > f.current_command
       \/ /\ g.current_command = f.current_command
          /\ \/ LoopPlace(g) > LoopPlace(f)
             \/ LoopPlace(g) = LoopPlace(f) /\ g.cmd_exec_state > f.cmd_exec_state

StackFurtherOn(s, t) ==
    \E k \in DOMAIN s :
        /\ k <= Len(t) + 1
        /\ \A j \in 1 .. k - 1 : AtSamePlace(s[j], t[j])
        /\ k <= Len(t) => FrameFurtherOn(s[k], t[k])
=============================================================================
