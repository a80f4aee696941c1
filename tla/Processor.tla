------------------------------ MODULE Processor ------------------------------
(***************************************************************************)
(* The processor as a whole: suit_process_sequence (suit.c) drives the     *)
(* command machine of SeqExec over a manifest it loads into the registry   *)
(* of ComponentRegistry, and dependency-integrity and process-dependency   *)
(* do the same for the manifests the components of a manifest store.       *)
(*                                                                         *)
(* The caller asks for one sequence.  The processor loads the envelope,    *)
(* validates all sequences, tries the requested and the later ones out     *)
(* with dry_run set, executes the shared and the requested sequence, tells *)
(* the platform and releases the manifest.                                 *)
(*                                                                         *)
(* An envelope is the list of its components and its sequences: a name of  *)
(* a sequence in `code', or Severed when only its digest is left.          *)
(***************************************************************************)
EXTENDS SeqExec

CONSTANTS
    ComponentId,        \* component identifiers
    CreateResults,      \* what suit_plat_create_component_handle may return
    ReleaseResults,     \* what suit_plat_release_component_handle may return
    DependencyDenied,   \* see ComponentRegistry
    LoadResults,        \* "SUCCESS", and what a manifest may be rejected with
    AuthResults,        \* what suit_plat_authorize_process_dependency returns
    Worlds,             \* [envelopes, code, content] to start from
    Calls               \* the sequences the caller asks for

NoEnvelope == "none"
Severed    == "severed"
RootName   == "root"

ASSUME ProcessorAssumption ==
    /\ LoadResults \subseteq {"SUCCESS", "ERR_AUTHENTICATION"}
    /\ DependencyDenied \in BOOLEAN
    /\ AuthResults \subseteq {"SUCCESS"} \/ DependencyDenied
    /\ Calls \subseteq 1 .. 9

\* An envelope: the decoder refuses a manifest without components, and of their
\* identifiers the loading finds out which ones can be decoded.
IsEnvelope(e, names, stores) ==
    /\ e.components \in Seq([id : ComponentId \cup {"undecodable"}, dependency : BOOLEAN])
    /\ e.components # <<>>
    /\ \A k \in DOMAIN e.components :
          (e.components[k].dependency /\ e.components[k].id \in ComponentId)
              => e.components[k].id \in stores
    /\ \A n \in DOMAIN e.seqs : e.seqs[n] \in names \cup {Severed}

ASSUME WorldsAssumption ==
    \A w \in Worlds :
        /\ IsProgram(w.code)
        /\ RootName \in DOMAIN w.envelopes
        /\ \A name \in DOMAIN w.envelopes :
              IsEnvelope(w.envelopes[name], DOMAIN w.code, DOMAIN w.content)
        /\ w.content \in [DOMAIN w.content -> DOMAIN w.envelopes \ {RootName}]

VARIABLES
    manifest_stack_height, op, entry, pos, op_ret, handles,  \* the registry
    envelopes,          \* the envelopes there are, by name
    envelope,           \* the one every entry of the manifest stack was loaded from
    content,            \* the one every dependency component stores
    checked,            \* per slot, the one that passed dependency-integrity
    current_seq,        \* suit_processor_state.current_seq
    pc,                 \* where suit_process_sequence is
    seq,                \* the variable of its loops over the sequences
    root,               \* its manifest_state: an entry of the manifest stack
    ret                 \* what it returned

Registry == INSTANCE ComponentRegistry

registry_vars == <<components, manifest_stack, manifest_stack_height,
                   op, entry, pos, op_ret, handles>>
stacks        == <<seq_stack, seq_ret>>
store         == <<parameters, integrity_checked>>
driver        == <<current_seq, pc, seq, root, ret>>
world         == <<code, envelopes>>
vars == <<registry_vars, stacks, store, driver, world, dry_run, call, envelope, content, checked>>

\* enum suit_command_sequence
PARSE              == 1
SHARED             == 2
PAYLOAD_FETCH      == 4
CAND_VERIFICATION  == 5
VALIDATE           == 7
LOAD               == 8
INVOKE             == 9
SEQ_MAX            == 10

Stored == DOMAIN envelopes \ {RootName}

Init ==
    /\ \E w \in Worlds :
          /\ envelopes = w.envelopes
          /\ code = w.code
          /\ content = w.content
    /\ Registry!Init
    /\ envelope = [e \in Entry |-> NoEnvelope]
    /\ checked = [s \in Slot |-> NoEnvelope]
    /\ parameters = [s \in Slot |-> {}]
    /\ integrity_checked = [s \in Slot |-> FALSE]
    /\ seq_stack = <<>>
    /\ seq_ret = "SUCCESS"
    /\ dry_run = FALSE
    /\ call = NoCall
    /\ current_seq = 0
    /\ pc = "idle"
    /\ seq = 0
    /\ root = 0
    /\ ret = "none"

-----------------------------------------------------------------------------
(***************************************************************************)
(* suit_manifest_get_command_seq and suit_schedule_execution/validation.   *)
(***************************************************************************)
Sequences(e) == IF envelope[e] = NoEnvelope THEN <<>> ELSE envelopes[envelope[e]].seqs

Status(e, n) ==
    CASE n \notin SHARED .. SEQ_MAX - 1  -> "ERR_CRASH"
      [] n \notin DOMAIN Sequences(e)    -> "ERR_UNAVAILABLE_COMMAND_SEQ"
      [] Sequences(e)[n] = Severed       -> "ERR_UNAUTHORIZED_COMMAND_SEQ"
      [] OTHER                           -> "SUCCESS"

\* Faulty variant: the shared sequence is validated like the others.
ValidatorOfCommon(n) == "validate_common"

Validator(n) == IF n = SHARED THEN "validate_shared" ELSE "validate_common"

\* Faulty variant: one frame too many.
ScheduledOneMore(stack, e, n) ==
    IF Status(e, n) # "SUCCESS" THEN Status(e, n)
    ELSE IF Len(stack) <= MaxSeqDepth THEN "ERR_AGAIN" ELSE "ERR_OVERFLOW"

\* What scheduling sequence n of entry e returns when the stack is stack.
Scheduled(stack, e, n) ==
    IF Status(e, n) # "SUCCESS" THEN Status(e, n)
    ELSE IF Len(stack) < MaxSeqDepth THEN "ERR_AGAIN" ELSE "ERR_OVERFLOW"

Pushed(stack, e, n, processor) ==
    IF Scheduled(stack, e, n) = "ERR_AGAIN"
    THEN Append(stack, NewFrame(Sequences(e)[n], e, FALSE, processor, InitSelected(e)))
    ELSE stack

\* A missing sequence is no error, nor is a severed one that is not asked for.
Masked(r, n) ==
    IF \/ r = "ERR_AGAIN"
       \/ r = "ERR_UNAVAILABLE_COMMAND_SEQ"
       \/ r = "ERR_UNAUTHORIZED_COMMAND_SEQ" /\ n # current_seq
    THEN "SUCCESS" ELSE r

MaskUnavailable(r) == IF r = "ERR_UNAVAILABLE_COMMAND_SEQ" THEN "SUCCESS" ELSE r

-----------------------------------------------------------------------------
(***************************************************************************)
(* Loading and releasing, one platform call at a time.                     *)
(***************************************************************************)
StartLoad(name) ==
    /\ Registry!BeginLoad
    /\ envelope' = [envelope EXCEPT ![manifest_stack_height] = name]

\* Faulty variant: the parameters alone are cleared.
WipedParameters(slots) ==
    /\ parameters' = [s \in Slot |-> IF s \in slots THEN {} ELSE parameters[s]]
    /\ checked' = [s \in Slot |-> IF s \in slots THEN NoEnvelope ELSE checked[s]]
    /\ UNCHANGED integrity_checked

\* Faulty variant: a slot that another manifest uses is cleared for this one, too.
WipedInUse(slots) ==
    LET list  == envelopes[envelope[entry]].components
        n     == Len(manifest_stack[entry])
        found == IF n < Len(list) THEN Registry!Holding(list[n + 1].id) ELSE {}
        all   == slots \cup found
    IN /\ parameters' = [s \in Slot |-> IF s \in all THEN {} ELSE parameters[s]]
       /\ integrity_checked' = [s \in Slot |-> integrity_checked[s] /\ s \notin all]
       /\ checked' = [s \in Slot |-> IF s \in all THEN NoEnvelope ELSE checked[s]]

\* The memset of a slot that is taken into use.
Wiped(slots) ==
    /\ parameters' = [s \in Slot |-> IF s \in slots THEN {} ELSE parameters[s]]
    /\ integrity_checked' = [s \in Slot |-> integrity_checked[s] /\ s \notin slots]
    /\ checked' = [s \in Slot |-> IF s \in slots THEN NoEnvelope ELSE checked[s]]

\* The components of the envelope are appended in order; a slot that was free
\* is wiped before the platform is asked for a handle.
LoadStep ==
    /\ LET list == envelopes[envelope[entry]].components
           n    == Len(manifest_stack[entry])
           c    == list[n + 1]
           new  == /\ op = "loading" /\ n < Len(list) /\ n < MaxComponents
                   /\ c.id \in ComponentId
                   /\ Registry!Holding(c.id) = {} /\ Registry!Free # {}
       IN /\ op = "loading"
          /\ \/ \E r \in LoadResults \ {"SUCCESS"} : Registry!LoadRejected(r)
             \/ n < Len(list) /\ c.id \in ComponentId
                  /\ Registry!AppendComponent(c.id, c.dependency)
             \/ n < Len(list) /\ c.id \notin ComponentId /\ Registry!AppendUndecodable
             \/ n = Len(list) /\ \E r \in LoadResults : Registry!LoadDone(r)
          /\ Wiped(IF new THEN {First(Registry!Free)} ELSE {})
    /\ call' = NoCall
    /\ UNCHANGED <<stacks, driver, world, dry_run, envelope, content>>

ReleaseStep ==
    /\ Registry!ReleaseStep
    /\ envelope' = IF pos >= Len(manifest_stack[entry])
                   THEN [envelope EXCEPT ![entry] = NoEnvelope] ELSE envelope
    /\ call' = NoCall
    /\ UNCHANGED <<stacks, store, driver, world, dry_run, content, checked>>

-----------------------------------------------------------------------------
(***************************************************************************)
(* suit_process_sequence.  Between two of its steps the command machine    *)
(* runs until its stack is empty, or the registry until op is "none".      *)
(***************************************************************************)
AtStep(where) == pc = where /\ op = "none" /\ ~Running

\* Between two calls the platform may store anything in the components.
Call(n) ==
    /\ AtStep("idle")
    /\ current_seq' = n
    /\ root' = manifest_stack_height
    /\ \/ /\ StartLoad(RootName)
          /\ pc' = "load"
          /\ ret' = "none"
       \/ /\ Registry!LoadRefused
          /\ ret' = "ERR_OVERFLOW"
          /\ UNCHANGED <<pc, envelope>>
    /\ content' \in [DOMAIN content -> Stored]
    /\ call' = NoCall
    /\ UNCHANGED <<stacks, store, world, dry_run, checked, seq>>

Loaded ==
    /\ AtStep("load")
    /\ IF op_ret = "SUCCESS"
       THEN pc' = "validate" /\ seq' = SHARED /\ seq_ret' = "SUCCESS" /\ UNCHANGED ret
       ELSE pc' = "idle" /\ ret' = op_ret /\ UNCHANGED <<seq, seq_ret>>
    /\ call' = NoCall
    /\ UNCHANGED <<registry_vars, seq_stack, store, world, dry_run, envelope, content, checked,
                   current_seq, root>>

\* The validation loop.  Its result ends the loop but goes no further: the
\* variable that holds it is local to the loop.
ValidateNext ==
    /\ AtStep("validate")
    /\ seq_ret = "SUCCESS"
    /\ seq < SEQ_MAX
    /\ LET r == Scheduled(seq_stack, root, seq) IN
       /\ seq_stack' = Pushed(seq_stack, root, seq, Validator(seq))
       /\ seq_ret' = IF r = "ERR_AGAIN" THEN r ELSE Masked(r, seq)
    /\ seq' = seq + 1
    /\ call' = NoCall
    /\ UNCHANGED <<registry_vars, store, world, dry_run, envelope, content, checked,
                   current_seq, pc, root, ret>>

\* suit_dry_run_manifest starts with an error unless the sequences of its range
\* are optional.
DryRunFrom == IF current_seq = PARSE THEN CAND_VERIFICATION ELSE current_seq
BootSequence == current_seq \in {VALIDATE, LOAD, INVOKE}
DryRunTo   == IF DryRunFrom <= PAYLOAD_FETCH THEN PAYLOAD_FETCH ELSE INVOKE

\* Faulty variant: an earlier dry run that was cut short is not undone.
ValidationDoneStillDry ==
    /\ AtStep("validate")
    /\ seq_ret # "SUCCESS" \/ seq = SEQ_MAX
    /\ IF BootSequence
       THEN /\ pc' = "check"
            /\ seq_ret' = "SUCCESS"
            /\ UNCHANGED <<seq, dry_run>>
       ELSE /\ pc' = "dry_next"
            /\ seq_ret' = IF DryRunFrom <= PAYLOAD_FETCH THEN "SUCCESS" ELSE "ERR_TAMP"
            /\ dry_run' = TRUE
            /\ seq' = DryRunFrom
    /\ call' = NoCall
    /\ UNCHANGED <<registry_vars, seq_stack, store, world, envelope, content, checked,
                   current_seq, root, ret>>

ValidationDone ==
    /\ AtStep("validate")
    /\ seq_ret # "SUCCESS" \/ seq = SEQ_MAX
    /\ IF BootSequence
       THEN /\ pc' = "check"
            /\ seq_ret' = "SUCCESS"
            /\ dry_run' = FALSE
            /\ UNCHANGED seq
       ELSE /\ pc' = "dry_next"
            /\ seq_ret' = IF DryRunFrom <= PAYLOAD_FETCH THEN "SUCCESS" ELSE "ERR_TAMP"
            /\ dry_run' = TRUE
            /\ seq' = DryRunFrom
    /\ call' = NoCall
    /\ UNCHANGED <<registry_vars, seq_stack, store, world, envelope, content, checked,
                   current_seq, root, ret>>

\* A severed sequence ends the dry run at once, with dry_run still set.
DryRunNext ==
    /\ AtStep("dry_next")
    /\ seq <= DryRunTo
    /\ LET r == Status(root, seq) IN
       /\ pc' = CASE r = "SUCCESS"                      -> "dry_shared"
                  [] r = "ERR_UNAVAILABLE_COMMAND_SEQ"  -> "dry_next"
                  [] OTHER                              -> "check"
       /\ seq' = IF r = "ERR_UNAVAILABLE_COMMAND_SEQ" THEN seq + 1 ELSE seq
       /\ seq_ret' = CASE r = "SUCCESS"                      -> Scheduled(seq_stack, root, SHARED)
                       [] r = "ERR_UNAVAILABLE_COMMAND_SEQ"  -> seq_ret
                       [] OTHER                              -> r
       /\ seq_stack' = IF r = "SUCCESS" THEN Pushed(seq_stack, root, SHARED, "run")
                       ELSE seq_stack
    /\ call' = NoCall
    /\ UNCHANGED <<registry_vars, store, world, dry_run, envelope, content, checked,
                   current_seq, root, ret>>

DryRunMain ==
    /\ AtStep("dry_shared")
    /\ MaskUnavailable(seq_ret) = "SUCCESS"
    /\ pc' = "dry_main"
    /\ seq_ret' = Scheduled(seq_stack, root, seq)
    /\ seq_stack' = Pushed(seq_stack, root, seq, "run")
    /\ call' = NoCall
    /\ UNCHANGED <<registry_vars, store, world, dry_run, envelope, content, checked,
                   current_seq, seq, root, ret>>

\* Faulty variant: the loop stays at its sequence.
DryRunRepeatSame ==
    /\ AtStep("dry_main")
    /\ seq_ret = "SUCCESS"
    /\ pc' = "dry_next"
    /\ call' = NoCall
    /\ UNCHANGED <<registry_vars, stacks, store, world, dry_run, envelope, content, checked,
                   current_seq, seq, root, ret>>

DryRunRepeat ==
    /\ AtStep("dry_main")
    /\ seq_ret = "SUCCESS"
    /\ pc' = "dry_next"
    /\ seq' = seq + 1
    /\ call' = NoCall
    /\ UNCHANGED <<registry_vars, stacks, store, world, dry_run, envelope, content, checked,
                   current_seq, root, ret>>

DryRunDone ==
    /\ \/ AtStep("dry_next") /\ seq > DryRunTo
       \/ AtStep("dry_shared") /\ MaskUnavailable(seq_ret) # "SUCCESS"
       \/ AtStep("dry_main") /\ seq_ret # "SUCCESS"
    /\ pc' = "check"
    /\ dry_run' = FALSE
    /\ call' = NoCall
    /\ UNCHANGED <<registry_vars, stacks, store, world, envelope, content, checked,
                   current_seq, seq, root, ret>>

\* Is the sequence there at all?  Then the shared sequence is executed first.
ExecuteShared ==
    /\ AtStep("check")
    /\ seq_ret = "SUCCESS" /\ current_seq > PARSE
    /\ Status(root, current_seq) = "SUCCESS"
    /\ pc' = "run_shared"
    /\ seq_ret' = Scheduled(seq_stack, root, SHARED)
    /\ seq_stack' = Pushed(seq_stack, root, SHARED, "run")
    /\ call' = NoCall
    /\ UNCHANGED <<registry_vars, store, world, dry_run, envelope, content, checked,
                   current_seq, seq, root, ret>>

ExecuteMain ==
    /\ AtStep("run_shared")
    /\ MaskUnavailable(seq_ret) = "SUCCESS"
    /\ pc' = "run_main"
    /\ seq_ret' = Scheduled(seq_stack, root, current_seq)
    /\ seq_stack' = Pushed(seq_stack, root, current_seq, "run")
    /\ call' = NoCall
    /\ UNCHANGED <<registry_vars, store, world, dry_run, envelope, content, checked,
                   current_seq, seq, root, ret>>

\* Faulty variant: the manifest is popped and its components are forgotten.
LeaveWithoutRelease(r) ==
    /\ ret' = r
    /\ pc' = "release"
    /\ manifest_stack_height' = root
    /\ UNCHANGED <<components, manifest_stack, op, entry, pos, op_ret, handles>>
    /\ UNCHANGED <<stacks, store, world, dry_run, envelope, content, checked,
                   current_seq, seq, root>>

\* The end: the manifest is released whatever happened to it.
Leave(r) ==
    /\ ret' = r
    /\ pc' = "release"
    /\ Registry!BeginRelease(root)
    /\ UNCHANGED <<stacks, store, world, dry_run, envelope, content, checked,
                   current_seq, seq, root>>

Completed(r) ==
    /\ AtStep("run_main")
    /\ seq_ret = "SUCCESS"
    /\ call' = [NoCall EXCEPT !.call = "sequence_completed", !.dry_run = dry_run, !.ret = r]
    /\ Leave(r)

GiveUp ==
    /\ \/ /\ AtStep("check")
          /\ seq_ret # "SUCCESS" \/ current_seq = PARSE
          /\ Leave(seq_ret)
       \/ /\ AtStep("check")
          /\ seq_ret = "SUCCESS" /\ current_seq > PARSE
          /\ Status(root, current_seq) # "SUCCESS"
          /\ Leave(Status(root, current_seq))
       \/ /\ AtStep("run_shared")
          /\ MaskUnavailable(seq_ret) # "SUCCESS"
          /\ Leave(seq_ret)
       \/ /\ AtStep("run_main")
          /\ seq_ret # "SUCCESS"
          /\ Leave(seq_ret)
    /\ call' = NoCall

CallReturns ==
    /\ AtStep("release")
    /\ pc' = "idle"
    /\ call' = NoCall
    /\ UNCHANGED <<registry_vars, stacks, store, world, dry_run, envelope, content, checked,
                   current_seq, seq, root, ret>>

-----------------------------------------------------------------------------
(***************************************************************************)
(* The two dependency commands.  Their cmd_exec_state counts through the   *)
(* sequences of the dependency, from SHARED on; two more values stand for  *)
(* the middle of a call in which the registry is at work.                  *)
(***************************************************************************)
Loading   == 1
Releasing == SEQ_MAX + 3

AwaitsRegistry ==
    /\ AtCommand
    /\ Command(Top).op \in DependencyCommands
    /\ Top.cmd_exec_state \in {Loading, Releasing}

\* The dependency on top of the manifest stack.
Dependency == manifest_stack_height - 1

LoadDependency ==
    /\ op = "none"
    /\ ToLoad
    /\ Called("retrieve_manifest", "SUCCESS")
    /\ \/ /\ Registry!LoadRefused
          /\ LoadFailed("ERR_OVERFLOW")
          /\ UNCHANGED envelope
       \/ /\ StartLoad(content[components[CurrentSlot].component_id])
          /\ Continue([Current EXCEPT !.cmd_exec_state = Loading])
    /\ UNCHANGED <<store, driver, world, dry_run, content, checked>>

DependencyNotLoaded ==
    /\ op = "none"
    /\ AwaitsRegistry /\ Top.cmd_exec_state = Loading
    /\ op_ret # "SUCCESS"
    /\ LoadFailed(op_ret)
    /\ call' = NoCall
    /\ UNCHANGED <<registry_vars, store, driver, world, dry_run, envelope, content, checked>>

LoadedForIntegrity ==
    /\ op = "none"
    /\ AwaitsRegistry /\ Top.cmd_exec_state = Loading
    /\ op_ret = "SUCCESS"
    /\ Command(Top).op = "dependency_integrity"
    /\ Continue([Top EXCEPT !.cmd_exec_state = SHARED])
    /\ call' = NoCall
    /\ UNCHANGED <<registry_vars, store, driver, world, dry_run, envelope, content, checked>>

\* Faulty variant: the manifest below the one meant, if any, is released.
ReleaseDependencyBelow(e, retval) ==
    /\ Continue([Top EXCEPT !.cmd_exec_state = Releasing, !.retval = retval])
    /\ Registry!BeginRelease(IF e = 0 THEN e ELSE e - 1)
    /\ UNCHANGED <<driver, world, dry_run, envelope, content>>

\* The command is about to return retval: entry e of the manifest stack is
\* released first, and the stack is popped.
ReleaseDependency(e, retval) ==
    /\ Continue([Top EXCEPT !.cmd_exec_state = Releasing, !.retval = retval])
    /\ Registry!BeginRelease(e)
    /\ UNCHANGED <<driver, world, dry_run, envelope, content>>

\* manifest_state was read before the load: the entry of the parent.
AuthorizeDependency(r) ==
    /\ op = "none"
    /\ AwaitsRegistry /\ Top.cmd_exec_state = Loading
    /\ op_ret = "SUCCESS"
    /\ Command(Top).op = "process_dependency"
    /\ Called("authorize_process_dependency", r)
    /\ IF r = "SUCCESS"
       THEN /\ Continue([Top EXCEPT !.cmd_exec_state = SHARED])
            /\ UNCHANGED <<registry_vars, driver, world, dry_run, envelope, content>>
       ELSE ReleaseDependency(Dependency - 1, r)
    /\ UNCHANGED <<store, checked>>

\* What scheduling its sequence n returns.
ScheduledDependency(n) == Scheduled(seq_stack, Dependency, n)

\* Faulty variant: the sequence is not counted.
ScheduleDependencyUncounted(n, processor, retval) ==
    LET stack == [seq_stack EXCEPT ![Len(seq_stack)].retval = retval]
    IN /\ seq_stack' = Pushed(stack, Dependency, n, processor)
       /\ seq_ret' = "ERR_AGAIN"
       /\ call' = NoCall
       /\ UNCHANGED <<registry_vars, store, driver, world, dry_run, envelope, content, checked>>

\* Sequence n of the dependency is scheduled above the command; an error is
\* found in retval the next time the command runs.  (The AGAIN that retval holds
\* meanwhile is overwritten by the result of the sequence.)
ScheduleDependency(n, processor, retval) ==
    LET f == [Top EXCEPT !.cmd_exec_state = @ + 1, !.retval = retval]
        stack == [seq_stack EXCEPT ![Len(seq_stack)] = f]
    IN /\ seq_stack' = Pushed(stack, Dependency, n, processor)
       /\ seq_ret' = "ERR_AGAIN"
       /\ call' = NoCall
       /\ UNCHANGED <<registry_vars, store, driver, world, dry_run, envelope, content, checked>>

Unmasked(r) == IF r = "ERR_AGAIN" THEN "SUCCESS" ELSE r

\* The command is resumed with the dependency loaded.
Resumed(name) ==
    /\ op = "none"
    /\ On({name}, Run)
    /\ IsDependency(CurrentSlot)
    /\ Top.cmd_exec_state \in SHARED .. SEQ_MAX + 2

ValidateForIntegrity ==
    /\ Resumed("dependency_integrity") /\ ~dry_run
    /\ Top.cmd_exec_state < SEQ_MAX
    /\ Top.retval = "SUCCESS"
    /\ LET n == Top.cmd_exec_state IN
       ScheduleDependency(n, Validator(n), Masked(ScheduledDependency(n), n))

\* Faulty variant: the condition fails without releasing the dependency.
IntegrityFailsAtOnce ==
    /\ Resumed("dependency_integrity") /\ ~dry_run
    /\ Top.retval # "SUCCESS"
    /\ Return(Top, "FAIL_CONDITION")
    /\ call' = NoCall
    /\ UNCHANGED <<registry_vars, store, driver, world, dry_run, envelope, content, checked>>

IntegrityFails ==
    /\ Resumed("dependency_integrity") /\ ~dry_run
    /\ Top.retval # "SUCCESS"
    /\ ReleaseDependency(Dependency, "FAIL_CONDITION")
    /\ call' = NoCall
    /\ UNCHANGED <<store, checked>>

IntegrityHolds ==
    /\ Resumed("dependency_integrity") /\ ~dry_run
    /\ Top.cmd_exec_state >= SEQ_MAX
    /\ Top.retval = "SUCCESS"
    /\ integrity_checked' = [integrity_checked EXCEPT ![CurrentSlot] = TRUE]
    /\ checked' = [checked EXCEPT ![CurrentSlot] = envelope[Dependency]]
    /\ ReleaseDependency(Dependency, "SUCCESS")
    /\ call' = NoCall
    /\ UNCHANGED parameters

ResumedProcess == Resumed("process_dependency") /\ integrity_checked[CurrentSlot]

ValidateForProcess ==
    /\ ResumedProcess
    /\ Top.cmd_exec_state < SEQ_MAX
    /\ Top.retval = "SUCCESS"
    /\ LET n == Top.cmd_exec_state IN
       ScheduleDependency(n, Validator(n), Masked(ScheduledDependency(n), n))

ExecuteDependency ==
    /\ ResumedProcess
    /\ Top.retval = "SUCCESS"
    /\ \/ /\ Top.cmd_exec_state = SEQ_MAX
          /\ ScheduleDependency(SHARED, "run", Unmasked(ScheduledDependency(SHARED)))
       \/ /\ Top.cmd_exec_state = SEQ_MAX + 1
          /\ ScheduleDependency(current_seq, "run",
                 Unmasked(MaskUnavailable(ScheduledDependency(current_seq))))

\* Only what fails in the sequence itself fails the command softly.
ProcessFails ==
    /\ ResumedProcess
    /\ Top.retval # "SUCCESS"
    /\ ReleaseDependency(Dependency, IF Top.cmd_exec_state = SEQ_MAX + 2
                                     THEN "FAIL_CONDITION" ELSE Top.retval)
    /\ call' = NoCall
    /\ UNCHANGED <<store, checked>>

DependencyCompleted(r) ==
    /\ ResumedProcess
    /\ Top.retval = "SUCCESS"
    /\ Top.cmd_exec_state = SEQ_MAX + 2
    /\ Called("sequence_completed", r)
    /\ ReleaseDependency(Dependency, r)
    /\ UNCHANGED <<store, checked>>

\* The manifest is popped; failing to release it fails a command that succeeded.
DependencyReleased ==
    /\ op = "none"
    /\ AwaitsRegistry /\ Top.cmd_exec_state = Releasing
    /\ LET r == IF Top.retval = "SUCCESS" THEN op_ret ELSE Top.retval IN
       /\ Return([Top EXCEPT !.retval = r], r)
       /\ integrity_checked' =
             IF Command(Top).op = "dependency_integrity" /\ Top.retval = "SUCCESS"
             THEN [integrity_checked EXCEPT ![CurrentSlot] = @ /\ op_ret = "SUCCESS"]
             ELSE integrity_checked
    /\ call' = NoCall
    /\ UNCHANGED <<registry_vars, parameters, driver, world, dry_run, envelope, content, checked>>

-----------------------------------------------------------------------------
\* One command that stays inside its manifest.  The platform may leave anything
\* in a dependency component that a directive wrote to, also when it failed.
RunCommand ==
    /\ op = "none"
    /\ ~AwaitsRegistry
    /\ SeqStep
    /\ LET written == /\ call'.call \in Effects \ {"invoke"} /\ ~call'.dry_run
                      /\ IsDependency(call'.slot)
       IN IF written
          THEN \E name \in Stored :
                  content' = [content EXCEPT ![components[call'.slot].component_id] = name]
          ELSE content' = content
    /\ UNCHANGED <<manifest_stack_height, op, entry, pos, op_ret, handles,
                   driver, envelopes, envelope, checked>>

Step ==
    \/ LoadStep
    \/ ReleaseStep
    \/ Loaded
    \/ ValidateNext
    \/ ValidationDone
    \/ DryRunNext
    \/ DryRunMain
    \/ DryRunRepeat
    \/ DryRunDone
    \/ ExecuteShared
    \/ ExecuteMain
    \/ \E r \in PlatResults : Completed(r)
    \/ GiveUp
    \/ CallReturns
    \/ LoadDependency
    \/ DependencyNotLoaded
    \/ LoadedForIntegrity
    \/ \E r \in AuthResults : AuthorizeDependency(r)
    \/ ValidateForIntegrity
    \/ IntegrityFails
    \/ IntegrityHolds
    \/ ValidateForProcess
    \/ ExecuteDependency
    \/ ProcessFails
    \/ \E r \in PlatResults : DependencyCompleted(r)
    \/ DependencyReleased
    \/ RunCommand

Next == Step \/ \E n \in Calls : Call(n)

Spec     == Init /\ [][Next]_vars
FairSpec == Spec /\ WF_vars(Step)

-----------------------------------------------------------------------------
Frames == DOMAIN seq_stack

(***************************************************************************)
(* Type invariant.                                                         *)
(***************************************************************************)
TypeOK ==
    /\ pc \in {"idle", "load", "validate", "dry_next", "dry_shared", "dry_main", "check",
               "run_shared", "run_main", "release"}
    /\ current_seq \in 0 .. SEQ_MAX - 1
    /\ seq \in 0 .. SEQ_MAX
    /\ root \in 0 .. MaxManifests
    /\ pc # "idle" => root \in Entry
    /\ Len(seq_stack) <= MaxSeqDepth
    /\ \A k \in Frames : LET f == seq_stack[k] IN
          /\ f.cmd_seq \in DOMAIN code
          /\ f.current_command \in 0 .. Len(code[f.cmd_seq])
          /\ f.cmd_exec_state \in Nat
          /\ (/\ f.current_command < Len(code[f.cmd_seq])
              /\ Command(f).op \in DependencyCommands) => f.cmd_exec_state <= Releasing
          /\ f.soft_failure \in BOOLEAN
          /\ f.manifest \in Entry
    /\ Registry!TypeOK
    /\ \A s \in Slot : checked[s] \in DOMAIN envelopes \cup {NoEnvelope}

\* The processor uses the registry as its specification allows: it loads above
\* the top, releases only the top, and never starts one call inside another,
\* wherever suit_process_sequence and the two commands give up.
UsesRegistry == Registry!Spec

\* Whatever the manifests contain and the platform answers, a call leaves no
\* manifest, no sequence and no component behind for the next one.
IdleIsClean ==
    pc = "idle" =>
        /\ manifest_stack_height = 0
        /\ seq_stack = <<>>
        /\ \A s \in Slot : components[s].ref_count = 0

\* The frames suspended in a dependency command that has its dependency loaded
\* (cmd_exec_state says so).
Open == {k \in Frames :
            LET f == seq_stack[k] IN
            /\ f.cmd_processor = "run"
            /\ f.current_command < Len(code[f.cmd_seq])
            /\ Command(f).op \in DependencyCommands
            /\ f.cmd_exec_state \in SHARED .. SEQ_MAX + 2}

\* The stack of manifests and the stack of sequences stay in step: there is one
\* manifest above the root for every command that waits for one, and every
\* frame runs in the manifest of the nearest such command below it.
StacksAgree ==
    (pc \notin {"idle", "load", "release"} /\ op = "none" /\ ~AwaitsRegistry) =>
        /\ manifest_stack_height = root + 1 + Cardinality(Open)
        /\ \A k \in Frames :
              seq_stack[k].manifest = root + Cardinality({j \in Open : j < k})

\* A dependency command that is resumed passes the early returns again: nothing
\* that ran meanwhile has changed the component it works on.  On this condition the
\* two stacks stay in step; the code does not see to it if a dependency writes to
\* the component it is executed from (ManifestsRemoved below).
ResumedInPlace ==
    (op = "none" /\ Running /\ Len(seq_stack) \in Open) =>
        \/ Resumed("dependency_integrity") /\ ~dry_run
        \/ ResumedProcess

\* All that takes if the platform denies no dependency: process-dependency, when
\* it is resumed, finds the check of its component standing.
ResumedChecked ==
    (/\ op = "none" /\ Running /\ Len(seq_stack) \in Open
     /\ Command(Top).op = "process_dependency") => integrity_checked[CurrentSlot]

\* The code sees to that itself if no dependency can take a check back (theorem
\* TameStaysChecked of SharedSequence_proofs): a manifest without dependencies has
\* none to uncheck, and one with dependencies may modify nothing.

\* The sequences that a nesting command starts.
NestedBy(c) ==
    CASE c.op = "try_each"     -> {c.seqs[i] : i \in DOMAIN c.seqs}
      [] c.op = "run_sequence" -> {c.seqs[1]}
      [] OTHER                 -> {}

\* A command that has the platform write to a component, or gives it another slot.
Modifies(c) ==
    \/ c.op \in Effects \ {"invoke"}
    \/ \E i \in DOMAIN c.params : c.params[i] = "component_slot"

\* Sequences that modify nothing, nor does any sequence they start.
ReadOnlySet(prog, C) ==
    \A q \in C : \A j \in DOMAIN prog[q] :
        ~Modifies(prog[q][j]) /\ NestedBy(prog[q][j]) \subseteq C
ReadOnly(prog) ==
    {q \in DOMAIN prog : \E C \in SUBSET DOMAIN prog : ReadOnlySet(prog, C) /\ q \in C}

Leaf(e) == \A k \in DOMAIN e.components : ~e.components[k].dependency

\* Every envelope but the root is a leaf, or else it modifies nothing and the
\* platform releases what it is told to.
Tame(w) ==
    \A name \in DOMAIN w.envelopes \ {RootName} :
        \/ Leaf(w.envelopes[name])
        \/ /\ ReleaseResults \subseteq {"SUCCESS"}
           /\ \A n \in DOMAIN w.envelopes[name].seqs :
                 w.envelopes[name].seqs[n] \in ReadOnly(w.code) \cup {Severed}

\* References to the slot are counted that no manifest has: the platform refused a
\* release or denied a dependency, in this call or an earlier one.
Leaked(s) == components[s].ref_count > Cardinality(Registry!References(s))

\* process-dependency executes the very manifest that dependency-integrity has
\* checked: integrity_checked does not outlive a write to the component, a
\* failed one, nor the component itself, in the same call or a later one.  Only
\* a slot that leaked brings its flag along, and the content may be another by then.
ProcessesWhatWasChecked ==
    [][(op = "none" /\ op' = "loading" /\ Running /\ Command(Top).op = "process_dependency") =>
          \/ content[components[CurrentSlot].component_id] = checked[CurrentSlot]
          \/ Leaked(CurrentSlot)]_vars

\* The shared sequence of a dependency never has an effect: it was validated by
\* the dependency command that runs it, whichever sequence hides the directive.
DependencySharedHasNoEffect ==
    [][call'.call \in Effects =>
          \A k \in Open : seq_stack[k].cmd_exec_state = SEQ_MAX + 2]_vars

\* A command reaches the platform with dry_run set exactly while the driver is in
\* its dry run: no command is real before the dry run is over, and the flag that a
\* dry run cut short has left behind turns no later command into a rehearsal.
RehearsedOnlyInDryRun ==
    [][call'.call # "none" => (call'.dry_run <=> pc \in {"dry_shared", "dry_main"})]_vars

\* Any issue in loading or validating a dependency fails its integrity
\* condition, which a try-each can absorb, and never the processing.
IntegrityFailsSoftly ==
    [][(Len(seq_stack') < Len(seq_stack) /\ On({"dependency_integrity"}, Run)) =>
          (IF seq_stack' = <<>> THEN seq_ret' ELSE seq_stack'[Len(seq_stack')].retval)
              \in {"FAIL_CONDITION", "FAIL_SOFT_CONDITION"}]_vars

\* The step of suit_process_sequence that is next; its loops count through the
\* sequences.
Stage ==
    CASE pc = "load"       -> 0
      [] pc = "validate"   -> seq
      [] pc = "dry_next"   -> SEQ_MAX + 3 * seq + 1
      [] pc = "dry_shared" -> SEQ_MAX + 3 * seq + 2
      [] pc = "dry_main"   -> SEQ_MAX + 3 * seq + 3
      [] pc = "check"      -> 5 * SEQ_MAX
      [] pc = "run_shared" -> 5 * SEQ_MAX + 1
      [] pc = "run_main"   -> 5 * SEQ_MAX + 2
      [] pc = "release"    -> 5 * SEQ_MAX + 3
      [] pc = "idle"       -> 5 * SEQ_MAX + 4

\* A load appends components and then may give them back; a release goes
\* through them.
RegistryFurtherOn ==
    \/ op # "none" /\ op' = "none"
    \/ op = "loading" /\ op' = "unwinding"
    \/ /\ op # "none" /\ op' = op /\ entry' = entry
       /\ IF op = "loading"
          THEN Len(manifest_stack'[entry]) > Len(manifest_stack[entry])
          ELSE pos' > pos

\* Every step of a call gets further: in suit_process_sequence, or else in the
\* commands of the manifests under way, or else in the load or release that a
\* command waits for.  A dependency that is its own dependency is no exception:
\* the command that processes it has moved on, and the stacks are finite.
MovesForward ==
    [][pc # "idle" =>
          \/ Stage' > Stage
          \/ Stage' = Stage /\ StackFurtherOn(seq_stack, seq_stack')
          \/ Stage' = Stage /\ seq_stack' = seq_stack /\ RegistryFurtherOn]_vars

\* Every call returns, however the dependencies refer to one another.
EveryCallReturns == pc # "idle" ~> pc = "idle"

-----------------------------------------------------------------------------
(***************************************************************************)
(* What the repository says and the processor does not keep.               *)
(***************************************************************************)
\* REQUIREMENTS.md line 45: commands with side effects must not be executed at
\* any time in the shared sequence, and any such command must abort.
SharedHasNoEffect == [][call'.call \in Effects => pc # "run_shared"]_vars

\* suit_directive.c line 314: soft-failure may be set only within try-each or a
\* nested command sequence, not at the entry point of a manifest's sequence.
SoftFailureOnlyNested ==
    \A k \in Frames : seq_stack[k].soft_failure =>
        /\ k > 1
        /\ seq_stack[k - 1].manifest = seq_stack[k].manifest

\* suit_directive.c, the comment at the end of process-dependency: "Remove the
\* checked manifest from the stack".
CheckedManifestRemoved ==
    [][(op = "none" /\ op' = "releasing" /\ Running) => entry' = Dependency]_vars

\* The same comment: no manifest is still on the stack when the call returns.
ManifestsRemoved == pc = "idle" => manifest_stack_height = 0
=============================================================================
