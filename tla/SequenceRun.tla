----------------------------- MODULE SequenceRun -----------------------------
(***************************************************************************)
(* suit_process_scheduled on one sequence of one manifest: the entry       *)
(* sequence has just been scheduled on an empty stack, to be executed or   *)
(* to be validated, and the machine runs until the stack is empty again.   *)
(* The platform has no envelope for dependencies; Processor adds them.     *)
(* The log is what the platform sees.                                      *)
(***************************************************************************)
EXTENDS SeqExec

CONSTANTS
    Setups,             \* what may be run, and how: see Init
    Dependencies        \* slots of dependency components

Main == "main"

\* The commands were decoded and the components appended by the processor, so
\* the map fits; the caller never schedules another processor than these.
ASSUME SetupsAssumption ==
    \A s \in Setups :
        /\ IsProgram(s.code) /\ Main \in DOMAIN s.code
        /\ s.map \in Seq(Slot) /\ Len(s.map) <= MaxComponents
        /\ s.processor \in Run \cup Validate /\ s.dry_run \in BOOLEAN

VARIABLES
    setup,              \* what is run
    log                 \* the calls of the platform, in order
vars == <<code, seq_stack, seq_ret, manifest_stack, components, parameters,
          integrity_checked, dry_run, call, setup, log>>

\* A setup has the command sequences of the manifest and its component map, the
\* parameters set before, the command processor of the entry sequence, dry_run.
Init ==
    /\ setup \in Setups
    /\ code = setup.code
    /\ manifest_stack = [e \in Entry |-> IF e = 0 THEN setup.map ELSE <<>>]
    /\ components = [s \in Slot |->
          [is_dependency |-> IF s \in Dependencies THEN "true" ELSE "false"]]
    /\ parameters = setup.parameters
    /\ integrity_checked = [s \in Slot |-> FALSE]
    /\ dry_run = setup.dry_run
    /\ seq_stack = <<NewFrame(Main, 0, FALSE, setup.processor, InitSelected(0))>>
    /\ seq_ret = "ERR_AGAIN"
    /\ call = NoCall
    /\ log = <<>>

Step ==
    /\ SeqStep
    /\ log' = IF call' = NoCall THEN log ELSE Append(log, call')
    /\ UNCHANGED setup

Terminated ==
    /\ ~Running
    /\ UNCHANGED vars

Next == Step \/ Terminated

Spec     == Init /\ [][Next]_vars
FairSpec == Spec /\ WF_vars(Step)

-----------------------------------------------------------------------------
Frames == DOMAIN seq_stack

(***************************************************************************)
(* Type invariant.                                                         *)
(***************************************************************************)
TypeOK ==
    /\ Len(seq_stack) <= MaxSeqDepth
    /\ \A k \in Frames : LET f == seq_stack[k] IN
          /\ f.cmd_seq \in DOMAIN code
          /\ f.current_command \in 0 .. Len(code[f.cmd_seq])
          /\ f.cmd_exec_state \in Nat
          /\ f.soft_failure \in BOOLEAN
          /\ f.manifest \in Entry
          /\ f.current_component_idx \in Indexes(f) \cup {NoIndex}
          /\ f.current_components \subseteq Indexes(f)
          /\ f.current_components_backup \subseteq Indexes(f)
    /\ seq_ret # "ERR_AGAIN" <=> ~Running
    /\ integrity_checked \in [Slot -> BOOLEAN]

\* A frame below the top is suspended in exactly the command that pushed the
\* frame above it: on one component, in the alternative that is running.
\* suit_seq_exec_finalize can therefore hand a result to the frame below
\* without saying whose result it is.
CallChain ==
    \A k \in Frames \ {Len(seq_stack)} :
        LET f == seq_stack[k]
            g == seq_stack[k + 1]
        IN /\ f.current_command < Len(code[f.cmd_seq])
           /\ Command(f).op \in Nesting
           /\ f.cmd_exec_state \in DOMAIN Command(f).seqs
           /\ Command(f).seqs[f.cmd_exec_state] = g.cmd_seq
           /\ f.current_component_idx # NoIndex
           /\ f.cmd_processor = g.cmd_processor

\* A soft failure is a private matter of nested sequences: the entry sequence
\* ends with a plain result code.
SoftFailureStaysInside == ~Running => seq_ret # "FAIL_SOFT_CONDITION"

\* An error of the platform other than a failed condition is final: nothing
\* is called after it, no alternative and no enclosing sequence absorbs it, and
\* it is what suit_process_scheduled returns.  (A dependency that cannot be
\* retrieved only fails its integrity condition.)
HardErrorIsFinal ==
    \A k \in DOMAIN log :
        (log[k].call # "retrieve_manifest" /\ log[k].ret \notin {"SUCCESS", "FAIL_CONDITION"}) =>
            /\ k = Len(log)
            /\ ~Running => seq_ret = log[k].ret

\* A validated sequence is only looked at: whatever it contains, the platform
\* is not called and no parameter changes.
ValidationIsPure ==
    [][setup.processor \in Validate =>
          UNCHANGED <<log, parameters, integrity_checked>>]_vars

\* A step touches only components the manifest selected at that moment,
\* whatever the nested sequences and the interrupted loops did before.
OnlySelectedTouched ==
    [][LET selected == SlotsOf(Selected) IN
       Running => /\ \A s \in Slot \ selected : parameters'[s] = parameters[s]
                  /\ call'.call # "none" => call'.slot \in selected]_vars

\* Every step gets further in the lexicographic order of commands, components
\* and alternatives, through all suspended frames: no command is applied twice to
\* a component it is done with, no alternative is tried twice, and a resumed
\* frame goes on where it was left, whatever was selected above it.
MovesForward == [][Running => StackFurtherOn(seq_stack, seq_stack')]_vars

\* Every sequence comes to an end: commands are never repeated on a component
\* they were done with, nor alternatives tried twice.
Termination == <>~Running

\* REQUIREMENTS.md line 51: the interpreter aborts when a directive reports a
\* failure, regardless of the soft-failure flag.
FailedDirectiveAborts ==
    \A k \in DOMAIN log :
        (log[k].call \in Effects /\ log[k].ret # "SUCCESS") =>
            /\ k = Len(log)
            /\ ~Running => seq_ret # "SUCCESS"
=============================================================================
