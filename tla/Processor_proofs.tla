--------------------------- MODULE Processor_proofs ---------------------------
(***************************************************************************)
(* Proofs about the processor as a whole, for every manifest, every        *)
(* nesting of dependencies and every answer of the platform.               *)
(*                                                                         *)
(* Nothing here relies on the manifest of a frame being loaded still: the  *)
(* processor goes on with a manifest whose components were released when a *)
(* dependency of it was denied.  So the lemmas of SeqExec_proofs, which    *)
(* are about manifests that stay, do not apply; what a step does to the    *)
(* stack is settled again, for less.                                       *)
(***************************************************************************)
EXTENDS Processor, SeqExec_proofs

\* What is known of the registry itself, in the state of the processor.
Proofs == INSTANCE ComponentRegistry_proofs WITH mishaps <- {}

\* What may be found in the retval of a frame.
Retvals ==
    Endings \cup AuthResults \cup Registry!Results \cup
    {"FAIL_SOFT_CONDITION", "ERR_AGAIN",
     "ERR_UNAVAILABLE_COMMAND_SEQ", "ERR_UNAUTHORIZED_COMMAND_SEQ"}

-----------------------------------------------------------------------------
(***************************************************************************)
(* The inductive invariant.                                                *)
(***************************************************************************)
WorldOK ==
    /\ IsProgram(code)
    /\ RootName \in DOMAIN envelopes
    /\ \A name \in DOMAIN envelopes :
          IsEnvelope(envelopes[name], DOMAIN code, DOMAIN content)
    /\ content \in [DOMAIN content -> Stored]
    /\ envelope \in [Entry -> DOMAIN envelopes \cup {NoEnvelope}]
    /\ checked \in [Slot -> DOMAIN envelopes \cup {NoEnvelope}]
    /\ \A s \in Slot : components[s].is_dependency = "true"
                           => components[s].component_id \in DOMAIN content
    /\ op = "loading" => envelope[entry] \in DOMAIN envelopes

\* The command of a frame of the program c, and whether it is one of the two that
\* load a dependency and has one loaded.
AtDependency(c, f) ==
    /\ f.current_command < Len(c[f.cmd_seq])
    /\ c[f.cmd_seq][f.current_command + 1].op \in DependencyCommands
IsOpen(c, f) ==
    /\ f.cmd_processor = "run"
    /\ AtDependency(c, f)
    /\ f.cmd_exec_state \in SHARED .. SEQ_MAX + 2

\* A frame that is in the middle of a command is at one that can be.
InCommand(c, f) ==
    /\ f.current_command <= Len(c[f.cmd_seq])
    /\ (AtDependency(c, f) /\ f.cmd_exec_state # 0) =>
          f.cmd_processor = "run" /\ f.cmd_exec_state <= Releasing

FramesOK ==
    /\ seq_stack \in Seq(FrameType(Retvals))
    /\ Len(seq_stack) <= MaxSeqDepth
    /\ \A k \in Frames :
          /\ InCommand(code, seq_stack[k])
          /\ k < Len(seq_stack) /\ AtDependency(code, seq_stack[k])
                => IsOpen(code, seq_stack[k])

\* Where suit_process_sequence may be while commands are executed.
Executing == {"dry_shared", "dry_main", "run_shared", "run_main"}

\* What is to be seen to next is the result of a load.
AfterLoad == \/ pc = "load"
             \/ Running /\ AwaitsRegistry /\ Top.cmd_exec_state = Loading

ControlOK ==
    /\ pc \in {"idle", "load", "dry_next", "check", "release", "validate"} \cup Executing
    /\ current_seq \in 0 .. SEQ_MAX - 1
    /\ seq \in 0 .. SEQ_MAX
    /\ pc \in {"dry_shared", "dry_main"} => seq < SEQ_MAX
    /\ root \in 0 .. MaxManifests
    /\ pc # "idle" => root \in Entry
    /\ Running => pc \in {"validate"} \cup Executing
    /\ pc = "validate" => \A k \in Frames : seq_stack[k].cmd_processor \in Validate
    /\ op # "none" => pc \in {"load", "release"} \/ (Running /\ AwaitsRegistry)
    /\ op # "none" => (op = "releasing" <=> ~AfterLoad)
    /\ op = "unwinding" => op_ret # "SUCCESS"
    /\ dry_run \in BOOLEAN
    /\ pc \in {"dry_next", "dry_shared", "dry_main"} => dry_run
    /\ pc \in {"run_shared", "run_main"} => ~dry_run
    /\ pc = "check" /\ seq_ret = "SUCCESS" => ~dry_run

(***************************************************************************)
(* How high the stack of manifests is: above the root there is a manifest  *)
(* for every open command, and the one a registry call is about.           *)
(***************************************************************************)
OpenBelow(c, stack, m) == {k \in DOMAIN stack : k < m /\ IsOpen(c, stack[k])}
Depth(c, stack, m)     == Cardinality(OpenBelow(c, stack, m))

Owed ==
    CASE op = "loading"   -> 0
      [] op = "unwinding" -> IF entry < manifest_stack_height THEN 1 ELSE 0
      [] op = "releasing" -> 1
      [] OTHER            -> IF AfterLoad /\ op_ret = "SUCCESS" THEN 1 ELSE 0

Height ==
    root + Owed + (IF pc \in {"idle", "load", "release"} THEN 0
                   ELSE 1 + Depth(code, seq_stack, Len(seq_stack) + 1))

PInv ==
    /\ WorldOK
    /\ FramesOK
    /\ ControlOK
    /\ Proofs!RegistryInv
    /\ Height <= manifest_stack_height

\* The two stacks are exactly in step, and so is the registry.
InStep ==
    /\ manifest_stack_height = Height
    /\ \A k \in Frames : seq_stack[k].manifest = root + Depth(code, seq_stack, k)
    /\ root = 0
-----------------------------------------------------------------------------
(***************************************************************************)
(* What a step of the command machine does to the stack: the frame on top  *)
(* goes on, schedules a nested sequence of the same manifest, or ends.     *)
(***************************************************************************)
F == FrameType(Retvals)

Typed ==
    /\ IsProgram(code)
    /\ Maps
    /\ seq_stack \in Seq(F)
    /\ Running => InCommand(code, Top)

GoesOn ==
    \E g \in F :
        /\ SameOwner(g, Top) /\ InCommand(code, g)
        /\ g.cmd_exec_state = 0
        /\ Continue(g)

Schedules ==
    \E g \in F, name \in DOMAIN code, soft \in BOOLEAN :
        /\ SameOwner(g, Top) /\ InCommand(code, g)
        /\ ~AtDependency(code, g)
        /\ Len(seq_stack) < MaxSeqDepth
        /\ Push(g, name, soft, g.cmd_processor)

FinishesAs(r) == \E g \in F : SameOwner(g, Top) /\ Finalize(g, r)
Finishes      == \E r \in Retvals : FinishesAs(r)

LEMMA TopOf ==
    ASSUME Typed, Running
    PROVE  /\ Top \in F /\ InCommand(code, Top)
           /\ Len(seq_stack) \in Nat \ {0}
           /\ Len(seq_stack) \in DOMAIN seq_stack
           /\ DOMAIN seq_stack = 1 .. Len(seq_stack)
<1>1. seq_stack \in Seq(F) /\ seq_stack # <<>>
  BY DEF Typed, Running
<1>2. Len(seq_stack) \in Nat \ {0} /\ DOMAIN seq_stack = 1 .. Len(seq_stack)
  BY <1>1, EmptySeq, LenProperties
<1>3. Top \in F
  BY <1>1, <1>2, ElementOfSeq DEF Top
<1> QED BY <1>1, <1>2, <1>3 DEF Typed

LEMMA CommandOf ==
    ASSUME IsProgram(code), NEW f \in F, f.current_command < Len(code[f.cmd_seq])
    PROVE  /\ Command(f) \in CommandType(DOMAIN code)
           /\ Len(code[f.cmd_seq]) \in Nat
           /\ f.current_command \in Nat
           /\ f.current_command + 1 <= Len(code[f.cmd_seq])
           /\ Command(f).op = "run_sequence" => Command(f).seqs # <<>>
<1>1. f.cmd_seq \in DOMAIN code /\ f.current_command \in Nat
  BY DEF F, FrameType
<1>2. code[f.cmd_seq] \in Seq(CommandType(DOMAIN code))
  BY <1>1 DEF IsProgram
<1>3. Len(code[f.cmd_seq]) \in Nat /\ DOMAIN code[f.cmd_seq] = 1 .. Len(code[f.cmd_seq])
  BY <1>2, LenProperties
<1>4. f.current_command + 1 \in 1 .. Len(code[f.cmd_seq])
  BY <1>1, <1>3
<1>5. Command(f) \in CommandType(DOMAIN code)
  BY <1>2, <1>4, ElementOfSeq DEF Command
<1>6. Command(f).op = "run_sequence" => Command(f).seqs # <<>>
  BY <1>1, <1>3, <1>4 DEF IsProgram, Command
<1> QED BY <1>1, <1>3, <1>4, <1>5, <1>6

\* The component loop changes the selection and the index only.
LEMMA LoopKeepsRest ==
    ASSUME Typed, NEW f \in F
    PROVE  LET g == component_idx_next(f) IN
           /\ g \in F /\ SameOwner(g, f)
           /\ g.current_command = f.current_command
           /\ g.cmd_exec_state = f.cmd_exec_state
           /\ g.retval = f.retval
<1> DEFINE first    == f.current_component_idx = NoIndex
           selected == IF first THEN f.current_components ELSE f.current_components_backup
           rest     == {i \in selected \cap Indexes(f) : first \/ f.current_component_idx < i}
           comps    == IF rest = {} THEN selected ELSE {First(rest)}
           idx      == IF rest = {} THEN NoIndex ELSE First(rest)
           g        == component_idx_next(f)
<1>1. Indexes(f) \subseteq 0 .. MaxComponents - 1
  <2>1. f.manifest \in Entry
    BY DEF F, FrameType
  <2>2. /\ manifest_stack[f.manifest] \in Seq(Slot)
        /\ Len(manifest_stack[f.manifest]) <= MaxComponents
    BY <2>1 DEF Typed, Maps
  <2> QED BY <2>2, LenProperties, SeqExecAssumption DEF Indexes
<1>2. selected \in SUBSET Nat /\ rest \in SUBSET Nat /\ rest \subseteq Indexes(f)
  BY DEF F, FrameType
<1>3. rest # {} => First(rest) \in rest
  BY <1>2, FirstOfSet
<1>4. comps \in SUBSET Nat /\ idx \in 0 .. MaxComponents
  BY <1>1, <1>2, <1>3, SeqExecAssumption DEF NoIndex
<1>5. g = [f EXCEPT !.current_components_backup = selected,
                    !.current_components = comps,
                    !.current_component_idx = idx]
  BY DEF component_idx_next
<1> HIDE DEF first, selected, rest, comps, idx, g
<1>6. /\ g \in F /\ SameOwner(g, f)
      /\ g.current_command = f.current_command
      /\ g.cmd_exec_state = f.cmd_exec_state
      /\ g.retval = f.retval
  BY <1>2, <1>4, <1>5 DEF F, FrameType, SameOwner
<1> QED BY <1>6 DEF g

LEMMA CurrentOf ==
    ASSUME Typed, Running
    PROVE  /\ Current \in F /\ SameOwner(Current, Top)
           /\ Current.current_command = Top.current_command
           /\ Current.cmd_exec_state = Top.cmd_exec_state
           /\ Current.retval = Top.retval
           /\ Command(Current) = Command(Top)
<1>1. Top \in F
  BY TopOf
<1>2. /\ Current \in F /\ SameOwner(Current, Top)
      /\ Current.current_command = Top.current_command
      /\ Current.cmd_exec_state = Top.cmd_exec_state
      /\ Current.retval = Top.retval
  BY <1>1, LoopKeepsRest DEF Current, component_idx_get, SameOwner
<1> QED BY <1>2 DEF SameOwner, Command

\* The frame behind its command: where it stands there, and not in the middle.
LEMMA NextCommandStands ==
    ASSUME IsProgram(code), NEW f \in F, f.current_command < Len(code[f.cmd_seq])
    PROVE  /\ NextCommand(f) \in F /\ SameOwner(NextCommand(f), f)
           /\ InCommand(code, NextCommand(f))
           /\ NextCommand(f).cmd_exec_state = 0
<1>1. /\ Len(code[f.cmd_seq]) \in Nat /\ f.current_command \in Nat
      /\ f.current_command + 1 <= Len(code[f.cmd_seq])
  BY CommandOf
<1>2. NextCommand(f) = [f EXCEPT !.current_command = f.current_command + 1,
                                 !.cmd_exec_state = 0]
  BY DEF NextCommand
<1>3. /\ NextCommand(f) \in F /\ SameOwner(NextCommand(f), f)
      /\ NextCommand(f).current_command = f.current_command + 1
      /\ NextCommand(f).cmd_exec_state = 0
  <2> DEFINE n == f.current_command + 1
             g == NextCommand(f)
  <2>1. n \in Nat /\ 0 \in Nat
    BY <1>1
  <2>2. g = [f EXCEPT !.current_command = n, !.cmd_exec_state = 0]
    BY <1>2
  <2> HIDE DEF n, g
  <2>3. g \in F /\ SameOwner(g, f) /\ g.current_command = n /\ g.cmd_exec_state = 0
    BY <2>1, <2>2 DEF F, FrameType, SameOwner
  <2> QED BY <2>3 DEF n, g
<1>4. InCommand(code, NextCommand(f))
  BY <1>1, <1>3 DEF InCommand, SameOwner
<1> QED BY <1>3, <1>4

LEMMA ReturnWay ==
    ASSUME Typed, AtCommand, NEW f \in F, SameOwner(f, Top),
           f.current_command = Top.current_command, NEW r \in Retvals, Return(f, r)
    PROVE  /\ r = "SUCCESS" => GoesOn
           /\ r # "SUCCESS" => FinishesAs(r)
<1> DEFINE g == component_idx_next(f)
<1>1. /\ g \in F /\ SameOwner(g, f)
      /\ g.current_command = f.current_command
  BY LoopKeepsRest
<1>2. IF r # "SUCCESS" THEN Finalize(g, r)
      ELSE IF g.current_component_idx # NoIndex
           THEN Continue([g EXCEPT !.cmd_exec_state = 0])
           ELSE Continue(NextCommand(g))
  BY DEF Return
<1> HIDE DEF g
<1>3. SameOwner(g, Top)
  BY <1>1 DEF SameOwner
<1>4. g.current_command < Len(code[g.cmd_seq])
  BY <1>1, <1>3 DEF AtCommand, SameOwner
<1>5. CASE r # "SUCCESS"
  BY <1>1, <1>2, <1>3, <1>5 DEF FinishesAs
<1>6. CASE r = "SUCCESS" /\ g.current_component_idx # NoIndex
  <2> DEFINE h == [g EXCEPT !.cmd_exec_state = 0]
  <2>1. /\ h \in F /\ SameOwner(h, g)
        /\ h.current_command = g.current_command /\ h.cmd_exec_state = 0
    BY <1>1 DEF F, FrameType, SameOwner
  <2>2. Continue(h)
    BY <1>2, <1>6
  <2>3. Len(code[g.cmd_seq]) \in Nat /\ g.current_command \in Nat
    BY <1>1, <1>4, CommandOf DEF Typed
  <2> HIDE DEF h
  <2>4. InCommand(code, h) /\ SameOwner(h, Top)
    BY <1>3, <1>4, <2>1, <2>3 DEF InCommand, SameOwner
  <2> QED BY <1>6, <2>1, <2>2, <2>4 DEF GoesOn
<1>7. CASE r = "SUCCESS" /\ g.current_component_idx = NoIndex
  <2>1. /\ NextCommand(g) \in F /\ SameOwner(NextCommand(g), g)
        /\ InCommand(code, NextCommand(g)) /\ NextCommand(g).cmd_exec_state = 0
    BY <1>1, <1>4, NextCommandStands DEF Typed
  <2>2. SameOwner(NextCommand(g), Top)
    BY <1>3, <2>1 DEF SameOwner
  <2> QED BY <1>2, <1>7, <2>1, <2>2 DEF GoesOn
<1> QED BY <1>5, <1>6, <1>7

LEMMA ReturnsCurrent ==
    ASSUME Typed, AtCommand, NEW r \in Retvals, Return(Current, r)
    PROVE  /\ r = "SUCCESS" => GoesOn
           /\ r # "SUCCESS" => FinishesAs(r)
<1>1. Running
  BY DEF AtCommand
<1> QED BY <1>1, CurrentOf, ReturnWay

\* A nested sequence is scheduled by the command that f stands in.
LEMMA ScheduleWay ==
    ASSUME Typed, AtCommand, Command(Top).op \in Nesting,
           NEW f \in F, SameOwner(f, Top), f.current_command = Top.current_command,
           NEW name \in DOMAIN code, NEW soft \in BOOLEAN, Schedule(f, name, soft)
    PROVE  Schedules \/ Finishes
<1>1. Top \in F /\ InCommand(code, Top) /\ Top.current_command < Len(code[Top.cmd_seq])
  BY TopOf DEF AtCommand
<1>2. Command(f) = Command(Top) /\ f.current_command < Len(code[f.cmd_seq])
  BY <1>1 DEF SameOwner, Command
<1>3. ~AtDependency(code, f)
  BY <1>2 DEF AtDependency, Command, Nesting, DependencyCommands
<1>4. InCommand(code, f)
  BY <1>2, <1>3, CommandOf DEF InCommand, Typed
<1>5. CASE Len(seq_stack) < MaxSeqDepth
  BY <1>3, <1>4, <1>5 DEF Schedule, Schedules
<1>6. CASE ~(Len(seq_stack) < MaxSeqDepth)
  <2>1. Return(f, "ERR_OVERFLOW")
    BY <1>6 DEF Schedule
  <2>2. "ERR_OVERFLOW" \in Retvals
    BY DEF Retvals, Endings
  <2> QED BY <2>1, <2>2, ReturnWay DEF Finishes
<1> QED BY <1>5, <1>6

LEMMA TryEachWay ==
    ASSUME Typed, TryEach
    PROVE  GoesOn \/ Schedules \/ Finishes
<1> DEFINE f == Current
<1>1. AtCommand /\ Command(Top).op \in Nesting /\ Running
  BY DEF TryEach, On, At, AtCommand, Nesting
<1>2. /\ f \in F /\ SameOwner(f, Top)
      /\ f.current_command = Top.current_command
      /\ f.cmd_exec_state = Top.cmd_exec_state
      /\ Command(f) = Command(Top)
  BY <1>1, CurrentOf
<1>3. IF ~NextAlternative(f) THEN Return(f, f.retval)
      ELSE IF MoreSequences(f)
           THEN Schedule(Started(f), Command(f).seqs[f.cmd_exec_state + 1], TRUE)
           ELSE Return([f EXCEPT !.retval = "SUCCESS"],
                       IF Command(f).nil THEN "SUCCESS" ELSE "ERR_CRASH")
  BY DEF TryEach
<1> HIDE DEF f
<1>4. "SUCCESS" \in Retvals /\ "ERR_CRASH" \in Retvals
  BY DEF Retvals, Endings
<1>5. CASE ~NextAlternative(f)
  <2>1. Return(f, f.retval) /\ f.retval \in Retvals
    BY <1>2, <1>3, <1>5 DEF F, FrameType
  <2> QED BY <1>1, <1>2, <2>1, ReturnWay DEF Finishes
<1>6. CASE NextAlternative(f) /\ MoreSequences(f)
  <2> DEFINE g == Started(f)
             name == Command(f).seqs[f.cmd_exec_state + 1]
  <2>1. g = [f EXCEPT !.retval = "SUCCESS", !.cmd_exec_state = f.cmd_exec_state + 1]
    BY DEF Started
  <2>2. g \in F /\ SameOwner(g, f) /\ g.current_command = f.current_command
    <3> DEFINE n == f.cmd_exec_state + 1
    <3>1. n \in Nat
      BY <1>2 DEF F, FrameType
    <3>2. g = [f EXCEPT !.retval = "SUCCESS", !.cmd_exec_state = n]
      BY <2>1
    <3> HIDE DEF n, g
    <3> QED BY <1>2, <1>4, <3>1, <3>2 DEF F, FrameType, SameOwner
  <2>3. name \in DOMAIN code
    <3>1. Command(Top) \in CommandType(DOMAIN code)
      BY <1>1, TopOf, CommandOf DEF Typed, AtCommand
    <3>2. Command(f).seqs \in Seq(DOMAIN code)
      BY <1>2, <3>1 DEF CommandType
    <3>3. f.cmd_exec_state + 1 \in 1 .. Len(Command(f).seqs)
      BY <1>2, <1>6, <3>2, LenProperties DEF MoreSequences, F, FrameType
    <3> QED BY <3>2, <3>3, ElementOfSeq
  <2>4. Schedule(g, name, TRUE)
    BY <1>3, <1>6
  <2> HIDE DEF g, name
  <2>5. SameOwner(g, Top) /\ g.current_command = Top.current_command
    BY <1>2, <2>2 DEF SameOwner
  <2> QED BY <1>1, <2>2, <2>3, <2>4, <2>5, ScheduleWay
<1>7. CASE NextAlternative(f) /\ ~MoreSequences(f)
  <2> DEFINE g == [f EXCEPT !.retval = "SUCCESS"]
             r == IF Command(f).nil THEN "SUCCESS" ELSE "ERR_CRASH"
  <2>1. g \in F /\ SameOwner(g, Top) /\ g.current_command = Top.current_command
    BY <1>2, <1>4 DEF F, FrameType, SameOwner
  <2>2. Return(g, r) /\ r \in Retvals
    BY <1>3, <1>4, <1>7
  <2> HIDE DEF g, r
  <2> QED BY <1>1, <2>1, <2>2, ReturnWay DEF Finishes
<1> QED BY <1>5, <1>6, <1>7

LEMMA RunSequenceWay ==
    ASSUME Typed, RunSequence
    PROVE  GoesOn \/ Schedules \/ Finishes
<1> DEFINE f == Current
           r == IF f.retval = "FAIL_SOFT_CONDITION" THEN "SUCCESS" ELSE f.retval
<1>1. AtCommand /\ Command(Top).op = "run_sequence" /\ Running
  BY DEF RunSequence, On, At, AtCommand
<1>2. /\ f \in F /\ SameOwner(f, Top)
      /\ f.current_command = Top.current_command
      /\ Command(f) = Command(Top)
  BY <1>1, CurrentOf
<1>3. IF f.cmd_exec_state = 0
      THEN Schedule([f EXCEPT !.cmd_exec_state = 1], Command(f).seqs[1], FALSE)
      ELSE Return([f EXCEPT !.retval = r], r)
  BY DEF RunSequence
<1>4. r \in Retvals
  BY <1>2 DEF F, FrameType, Retvals, Endings
<1> HIDE DEF f, r
<1>5. CASE f.cmd_exec_state = 0
  <2> DEFINE g == [f EXCEPT !.cmd_exec_state = 1]
             name == Command(f).seqs[1]
  <2>1. g \in F /\ SameOwner(g, Top) /\ g.current_command = Top.current_command
    BY <1>2 DEF F, FrameType, SameOwner
  <2>2. name \in DOMAIN code
    <3>1. /\ Command(f) \in CommandType(DOMAIN code)
          /\ Command(f).seqs # <<>>
      BY <1>1, <1>2, TopOf, CommandOf DEF Typed, AtCommand
    <3>2. Command(f).seqs \in Seq(DOMAIN code)
      BY <3>1 DEF CommandType
    <3>3. 1 \in 1 .. Len(Command(f).seqs)
      BY <3>1, <3>2, EmptySeq, LenProperties
    <3> QED BY <3>2, <3>3, ElementOfSeq
  <2>3. Schedule(g, name, FALSE)
    BY <1>3, <1>5
  <2>4. Command(Top).op \in Nesting
    BY <1>1 DEF Nesting
  <2> HIDE DEF g, name
  <2> QED BY <1>1, <2>1, <2>2, <2>3, <2>4, ScheduleWay
<1>6. CASE f.cmd_exec_state # 0
  <2> DEFINE g == [f EXCEPT !.retval = r]
  <2>1. g \in F /\ SameOwner(g, Top) /\ g.current_command = Top.current_command
    BY <1>2, <1>4 DEF F, FrameType, SameOwner
  <2>2. Return(g, r)
    BY <1>3, <1>6
  <2> HIDE DEF g
  <2> QED BY <1>1, <1>4, <2>1, <2>2, ReturnWay DEF Finishes
<1> QED BY <1>5, <1>6

LEMMA TopFinishes ==
    ASSUME Typed, Running, NEW r \in Endings, Finalize(Top, r)
    PROVE  Finishes
<1>1. Top \in F /\ r \in Retvals
  BY TopOf DEF Retvals
<1> QED BY <1>1 DEF Finishes, FinishesAs, SameOwner

LEMMA OverrideWay ==
    ASSUME Typed, Override
    PROVE  GoesOn \/ Finishes
<1> DEFINE params == Command(Top).params
           stop   == Refused(params)
           n      == IF stop = {} THEN Len(params) ELSE First(stop) - 1
           soft   == SoftFailureAfter(params, n)
           f      == [Top EXCEPT !.soft_failure = soft]
<1>1. /\ AtCommand /\ Running
      /\ IF stop = {} THEN Continue(NextCommand(f)) ELSE Finalize(Top, "ERR_UNSUPPORTED_COMMAND")
  BY DEF Override, At, AtCommand
<1>2. /\ Top \in F /\ Top.current_command < Len(code[Top.cmd_seq])
      /\ Command(Top) \in CommandType(DOMAIN code)
  BY <1>1, TopOf, CommandOf DEF AtCommand, Typed
<1>3. CASE stop # {}
  BY <1>1, <1>3, TopFinishes DEF Endings
<1>4. CASE stop = {}
  <2>1. soft \in BOOLEAN
    BY <1>2, SoftFailureTyped DEF CommandType, F, FrameType
  <2>2. Continue(NextCommand(f))
    BY <1>1, <1>4
  <2> HIDE DEF soft
  <2>3. f \in F /\ SameOwner(f, Top) /\ f.current_command = Top.current_command
    BY <1>2, <2>1 DEF F, FrameType, SameOwner
  <2> HIDE DEF f
  <2>4. /\ NextCommand(f) \in F /\ SameOwner(NextCommand(f), f)
        /\ InCommand(code, NextCommand(f)) /\ NextCommand(f).cmd_exec_state = 0
    BY <1>2, <2>3, NextCommandStands DEF Typed, SameOwner
  <2>5. SameOwner(NextCommand(f), Top)
    BY <2>3, <2>4 DEF SameOwner
  <2> QED BY <2>2, <2>4, <2>5 DEF GoesOn
<1> QED BY <1>3, <1>4

LEMMA OverrideSizeFailsWay ==
    ASSUME Typed, NEW i \in 0 .. MaxComponents - 1, NEW r \in PlatResults,
           OverrideSizeFails(i, r)
    PROVE  Finishes
<1> DEFINE params == Command(Top).params
           n      == First(Positions(params, "image_size"))
           soft   == SoftFailureAfter(params, n)
           f      == [Top EXCEPT !.soft_failure = soft,
                                 !.current_components_backup = Top.current_components,
                                 !.current_component_idx = i]
<1>1. AtCommand /\ Running /\ Finalize(component_idx_next(f), r)
  BY DEF OverrideSizeFails, At, AtCommand
<1>2. Top \in F /\ Command(Top) \in CommandType(DOMAIN code)
  BY <1>1, TopOf, CommandOf DEF AtCommand, Typed
<1>3. soft \in BOOLEAN
  BY <1>2, SoftFailureTyped DEF CommandType, F, FrameType
<1>4. i \in 0 .. MaxComponents
  BY SeqExecAssumption
<1> HIDE DEF soft
<1>5. f \in F /\ SameOwner(f, Top)
  BY <1>2, <1>3, <1>4 DEF F, FrameType, SameOwner
<1> HIDE DEF f
<1>6. component_idx_next(f) \in F /\ SameOwner(component_idx_next(f), f)
  BY <1>5, LoopKeepsRest
<1>7. SameOwner(component_idx_next(f), Top) /\ r \in Retvals
  BY <1>5, <1>6 DEF SameOwner, Retvals, Endings
<1> QED BY <1>1, <1>6, <1>7 DEF Finishes, FinishesAs

LEMMA SetComponentIndexWay ==
    ASSUME Typed, SetComponentIndex
    PROVE  GoesOn \/ Finishes
<1> DEFINE select == Command(Top).select
           comps  == IF select = {} THEN Indexes(Top) ELSE select \cap Indexes(Top)
           f      == [Top EXCEPT !.current_components = comps]
           r      == IF Top.cmd_processor \in Run THEN "ERR_MISSING_COMPONENT"
                     ELSE "ERR_MANIFEST_VALIDATION"
<1>1. /\ AtCommand /\ Running
      /\ IF select \subseteq Indexes(Top) THEN Continue(NextCommand(f)) ELSE Finalize(f, r)
  BY DEF SetComponentIndex, At, AtCommand
<1>2. Top \in F /\ Top.current_command < Len(code[Top.cmd_seq])
  BY <1>1, TopOf DEF AtCommand
<1>3. comps \in SUBSET Nat
  BY DEF Indexes
<1> HIDE DEF comps
<1>4. f \in F /\ SameOwner(f, Top) /\ f.current_command = Top.current_command
  BY <1>2, <1>3 DEF F, FrameType, SameOwner
<1>5. r \in Retvals
  BY DEF Retvals, Endings
<1> HIDE DEF f, r
<1>6. CASE select \subseteq Indexes(Top)
  <2>1. /\ NextCommand(f) \in F /\ SameOwner(NextCommand(f), f)
        /\ InCommand(code, NextCommand(f)) /\ NextCommand(f).cmd_exec_state = 0
    BY <1>2, <1>4, NextCommandStands DEF Typed, SameOwner
  <2>2. SameOwner(NextCommand(f), Top)
    BY <1>4, <2>1 DEF SameOwner
  <2> QED BY <1>1, <1>6, <2>1, <2>2 DEF GoesOn
<1>7. CASE ~(select \subseteq Indexes(Top))
  BY <1>1, <1>4, <1>5, <1>7 DEF Finishes, FinishesAs
<1> QED BY <1>6, <1>7

LEMMA OtherWays ==
    ASSUME Typed,
           EndOfSequence \/ RejectCommand \/ SkipCommand \/ ComponentGone \/ ValidateOverride
    PROVE  GoesOn \/ Finishes
<1>1. CASE EndOfSequence
  BY <1>1, TopFinishes DEF EndOfSequence, Endings
<1>2. CASE RejectCommand
  <2>1. Running /\ \E r \in Endings : Finalize(Top, r)
    BY <1>2 DEF RejectCommand, AtCommand, Endings
  <2> QED BY <2>1, TopFinishes
<1>3. CASE SkipCommand
  <2>1. AtCommand /\ Running /\ Continue(NextCommand(Current))
    BY <1>3 DEF SkipCommand, At, AtCommand
  <2>2. /\ Current \in F /\ SameOwner(Current, Top)
        /\ Current.current_command < Len(code[Current.cmd_seq])
    BY <2>1, CurrentOf DEF AtCommand, SameOwner
  <2>3. /\ NextCommand(Current) \in F /\ SameOwner(NextCommand(Current), Current)
        /\ InCommand(code, NextCommand(Current)) /\ NextCommand(Current).cmd_exec_state = 0
    BY <2>2, NextCommandStands DEF Typed
  <2>4. SameOwner(NextCommand(Current), Top)
    BY <2>2, <2>3 DEF SameOwner
  <2> QED BY <2>1, <2>3, <2>4 DEF GoesOn
<1>4. CASE ComponentGone
  <2>1. Running /\ Finalize(Current, "ERR_MISSING_COMPONENT")
    BY <1>4 DEF ComponentGone, At, AtCommand
  <2>2. "ERR_MISSING_COMPONENT" \in Retvals
    BY DEF Retvals, Endings
  <2> QED BY <2>1, <2>2, CurrentOf DEF Finishes, FinishesAs
<1>5. CASE ValidateOverride
  <2>1. AtCommand /\ Running /\ Continue(NextCommand(Top))
    BY <1>5 DEF ValidateOverride, At, AtCommand
  <2>2. Top \in F /\ Top.current_command < Len(code[Top.cmd_seq])
    BY <2>1, TopOf DEF AtCommand
  <2> QED BY <2>1, <2>2, NextCommandStands DEF Typed, GoesOn
<1> QED BY <1>1, <1>2, <1>3, <1>4, <1>5

\* One iteration of the loop in suit_process_scheduled, whatever the command.
LEMMA StepWay ==
    ASSUME Typed, SeqStep
    PROVE  GoesOn \/ Schedules \/ Finishes
<1>1. CASE \E o \in SUBSET (ComponentCommands \ Nesting), p \in {Run, Validate} :
              On(o, p) /\ \E r \in Endings : Return(Current, r)
  <2>1. PICK r \in Endings : Return(Current, r)
    BY <1>1
  <2>2. AtCommand /\ r \in Retvals
    BY <1>1 DEF On, At, Retvals
  <2> QED BY <2>1, <2>2, ReturnsCurrent DEF Finishes
<1>2. CASE \E i \in 0 .. MaxComponents - 1, r \in PlatResults \ {"SUCCESS"} :
              OverrideSizeFails(i, r)
  BY <1>2, OverrideSizeFailsWay
<1> QED
  BY <1>1, <1>2, ReturningStep, TryEachWay, RunSequenceWay, OverrideWay,
     SetComponentIndexWay, OtherWays DEF SeqStep

\* The platform is called by the command processor that executes, and learns
\* whether it is a rehearsal.
Asks ==
    \/ call' = NoCall
    \/ Top.cmd_processor \in Run /\ call'.dry_run = dry_run

LEMMA StepRuns ==
    ASSUME SeqStep
    PROVE  Running
BY DEF SeqStep, AtCommand, At, On, Ready, ToLoad, EndOfSequence, RejectCommand, SkipCommand,
   ComponentGone, SetComponentIndex, TryEach, RunSequence, ValidateCommand, ValidateOverride,
   ParameterMissing, ParameterMalformed, CheckCondition, Perform, SetParameters,
   AssumeCondition, Abort, ConditionIsDependency, Override, OverrideSizeFails,
   DependencyIntegrityRefused, ProcessDependencyRefused, RetrieveFails

LEMMA StepAsks ==
    ASSUME SeqStep
    PROVE  /\ Asks
           /\ UNCHANGED <<code, manifest_stack, components, dry_run>>
<1>1. ASSUME NEW o, NEW r, Called(o, r) PROVE call'.dry_run = dry_run
  BY <1>1 DEF Called
<1>2. ASSUME NEW s, NEW r, SizeCall(s, r) PROVE call'.dry_run = dry_run
  BY <1>2 DEF SizeCall
<1>3. CASE \/ EndOfSequence \/ RejectCommand \/ SkipCommand \/ ComponentGone
           \/ SetComponentIndex \/ TryEach \/ RunSequence \/ ValidateCommand
           \/ ValidateOverride \/ ParameterMissing \/ ParameterMalformed
  BY <1>3 DEF Asks, EndOfSequence, RejectCommand, SkipCommand, ComponentGone, SetComponentIndex,
     TryEach, RunSequence, ValidateCommand, ValidateOverride, ParameterMissing, ParameterMalformed
<1>4. CASE \/ AssumeCondition \/ Abort \/ ConditionIsDependency
           \/ DependencyIntegrityRefused \/ ProcessDependencyRefused
  BY <1>4 DEF Asks, AssumeCondition, Abort, ConditionIsDependency,
     DependencyIntegrityRefused, ProcessDependencyRefused
<1>5. ASSUME NEW r \in PlatResults, CheckCondition(r)
      PROVE  Asks /\ UNCHANGED <<code, manifest_stack, components, dry_run>>
  BY <1>1, <1>5 DEF Asks, CheckCondition, Ready, On, At
<1>6. ASSUME NEW r \in PlatResults, Perform(r)
      PROVE  Asks /\ UNCHANGED <<code, manifest_stack, components, dry_run>>
  BY <1>1, <1>6 DEF Asks, Perform, Ready, On, At
<1>7. ASSUME NEW r \in PlatResults, SetParameters(r)
      PROVE  Asks /\ UNCHANGED <<code, manifest_stack, components, dry_run>>
  BY <1>1, <1>7 DEF Asks, SetParameters, On, At
<1>8. CASE Override
  BY <1>2, <1>8 DEF Asks, Override, At
<1>9. ASSUME NEW i \in 0 .. MaxComponents - 1, NEW r \in PlatResults \ {"SUCCESS"},
             OverrideSizeFails(i, r)
      PROVE  Asks /\ UNCHANGED <<code, manifest_stack, components, dry_run>>
  BY <1>2, <1>9 DEF Asks, OverrideSizeFails, At
<1>10. ASSUME NEW r \in PlatResults \ {"SUCCESS"}, RetrieveFails(r)
       PROVE  Asks /\ UNCHANGED <<code, manifest_stack, components, dry_run>>
  BY <1>1, <1>10 DEF Asks, RetrieveFails, ToLoad, On, At
<1> QED BY <1>3, <1>4, <1>5, <1>6, <1>7, <1>8, <1>9, <1>10 DEF SeqStep
-----------------------------------------------------------------------------
(***************************************************************************)
(* The registry: its steps are the ones ComponentRegistry_proofs is about, *)
(* and so is a release of an entry further down.                           *)
(***************************************************************************)
LEMMA RegistryTyped ==
    ASSUME Proofs!RegistryInv
    PROVE  /\ Maps
           /\ manifest_stack_height \in 0 .. MaxManifests
           /\ op \in {"none", "loading", "unwinding", "releasing"}
           /\ entry \in Entry /\ pos \in Nat
           /\ op_ret \in Registry!Results
           /\ components \in [Slot -> [component_id  : ComponentId \cup {"none"},
                                       ref_count     : Nat,
                                       is_dependency : {"unset", "false", "true"}]]
           /\ op = "loading" => entry = manifest_stack_height
           /\ op = "unwinding" => entry \in {manifest_stack_height, manifest_stack_height - 1}
           /\ op = "releasing" => entry < manifest_stack_height
           /\ \A s \in Slot : components[s].ref_count # 0 => components[s].is_dependency # "unset"
<1>1. Proofs!Slot = Slot /\ Proofs!Entry = Entry
  BY DEF Proofs!Slot, Slot, Proofs!Entry, Entry
<1>2. Proofs!Results = Registry!Results
  BY DEF Proofs!Results, Registry!Results
<1>3. Proofs!TypeOK /\ Proofs!CallEntry /\ Proofs!SlotsFilled
  BY DEF Proofs!RegistryInv, Proofs!PoolInv
<1>4. Maps
  BY <1>1, <1>3 DEF Proofs!TypeOK, Maps
<1>5. pos \in Nat
  BY <1>3, SeqExecAssumption DEF Proofs!TypeOK
<1>6. components \in [Slot -> [component_id  : ComponentId \cup {"none"},
                               ref_count     : Nat,
                               is_dependency : {"unset", "false", "true"}]]
  BY <1>1, <1>3 DEF Proofs!TypeOK, Proofs!SlotState, Proofs!NoId
<1>7. \A s \in Slot : components[s].ref_count # 0 => components[s].is_dependency # "unset"
  BY <1>1, <1>3 DEF Proofs!SlotsFilled, Proofs!InUse
<1> QED BY <1>1, <1>2, <1>3, <1>4, <1>5, <1>6, <1>7 DEF Proofs!TypeOK, Proofs!CallEntry

\* The steps of the registry the processor takes.
Loads ==
    \/ Registry!LoadRefused
    \/ Registry!BeginLoad
    \/ Registry!LoadRejected("ERR_AUTHENTICATION")
    \/ \E id \in ComponentId, dependency \in BOOLEAN : Registry!AppendComponent(id, dependency)
    \/ Registry!AppendUndecodable
    \/ \E r \in {"SUCCESS", "ERR_AUTHENTICATION"} : Registry!LoadDone(r)

LEMMA SameLoads ==
    ASSUME Loads
    PROVE  Proofs!Next
<1>1. CASE Registry!LoadRefused
  BY <1>1 DEF Registry!LoadRefused, Proofs!LoadRefused, Proofs!Next
<1>2. CASE Registry!BeginLoad
  BY <1>2 DEF Registry!BeginLoad, Proofs!BeginLoad, Proofs!Next
<1>3. CASE Registry!LoadRejected("ERR_AUTHENTICATION")
  BY <1>3 DEF Registry!LoadRejected, Proofs!LoadRejected, Proofs!Next,
     Registry!component_map, Proofs!component_map
<1>4. ASSUME NEW id \in ComponentId, NEW dependency \in BOOLEAN,
             Registry!AppendComponent(id, dependency)
      PROVE  Proofs!Next
  <2>0. /\ Registry!component_map = Proofs!component_map
        /\ Registry!Holding(id) = Proofs!Holding(id)
        /\ Registry!Free = Proofs!Free
        /\ \A S : Registry!First(S) = Proofs!First(S)
        /\ \A s : Registry!Appended(s) <=> Proofs!Appended(s)
        /\ \A r : Registry!Unwind(r) <=> Proofs!Unwind(r)
        /\ \A s : Registry!Referenced(s, dependency) <=> Proofs!Referenced(s, dependency)
        /\ \A s : Registry!OtherKind(s, dependency) <=> Proofs!OtherKind(s, dependency)
        /\ Registry!suit_bool(dependency) = Proofs!suit_bool(dependency)
        /\ Registry!EmptySlot = Proofs!EmptySlot
    BY Zenon DEF Registry!component_map, Proofs!component_map, Registry!Holding, Proofs!Holding,
       Registry!Free, Proofs!Free, Registry!InUse, Proofs!InUse, Registry!Slot, Proofs!Slot,
       Registry!First, Proofs!First, Registry!Appended, Proofs!Appended,
       Registry!Unwind, Proofs!Unwind, Registry!Referenced, Proofs!Referenced,
       Registry!OtherKind, Proofs!OtherKind, Registry!suit_bool, Proofs!suit_bool,
       Registry!EmptySlot, Proofs!EmptySlot, Registry!NoId, Proofs!NoId
  <2>1. CASE Registry!AppendToFullMap
    BY <2>0, <2>1 DEF Registry!AppendToFullMap, Proofs!AppendToFullMap, Proofs!AppendComponent,
       Proofs!Next
  <2>2. CASE Registry!AppendExisting(id, dependency)
    BY <2>0, <2>2 DEF Registry!AppendExisting, Proofs!AppendExisting, Proofs!AppendComponent,
       Proofs!Next
  <2>3. ASSUME NEW r \in CreateResults, Registry!AppendNew(id, dependency, r)
        PROVE  Proofs!Next
    <3>1. Proofs!AppendNew(id, dependency, r)
      BY <2>0, <2>3 DEF Registry!AppendNew, Proofs!AppendNew
    <3> QED BY <3>1 DEF Proofs!AppendComponent, Proofs!Next
  <2>4. CASE Registry!AppendWithoutSlot(id)
    BY <2>0, <2>4 DEF Registry!AppendWithoutSlot, Proofs!AppendWithoutSlot,
       Proofs!AppendComponent, Proofs!Next
  <2> QED BY <1>4, <2>1, <2>2, <2>3, <2>4 DEF Registry!AppendComponent
<1>5. CASE Registry!AppendUndecodable
  BY <1>5 DEF Registry!AppendUndecodable, Proofs!AppendUndecodable, Proofs!Next,
     Registry!Unwind, Proofs!Unwind
<1>6. CASE \E r \in {"SUCCESS", "ERR_AUTHENTICATION"} : Registry!LoadDone(r)
  BY <1>6 DEF Registry!LoadDone, Proofs!LoadDone, Proofs!Next,
     Registry!component_map, Proofs!component_map
<1> QED BY <1>1, <1>2, <1>3, <1>4, <1>5, <1>6 DEF Loads

LEMMA SameRelease ==
    ASSUME Registry!ReleaseStep
    PROVE  Proofs!Next
<1>0. /\ Registry!component_map = Proofs!component_map
      /\ Registry!Releasing <=> Proofs!Releasing
      /\ \A s : Registry!InUse(s) <=> Proofs!InUse(s)
      /\ \A r : Registry!Finish(r) <=> Proofs!Finish(r)
  BY Zenon DEF Registry!component_map, Proofs!component_map, Registry!Releasing,
     Proofs!Releasing, Registry!InUse, Proofs!InUse, Registry!Finish, Proofs!Finish
<1>1. CASE Registry!ReleaseMissing
  BY <1>0, <1>1 DEF Registry!ReleaseMissing, Proofs!ReleaseMissing, Proofs!ReleaseStep, Proofs!Next
<1>2. CASE Registry!ReleaseShared
  BY <1>0, <1>2 DEF Registry!ReleaseShared, Proofs!ReleaseShared, Proofs!ReleaseStep, Proofs!Next
<1>3. ASSUME NEW r \in ReleaseResults, Registry!ReleaseLast(r)
      PROVE  Proofs!Next
  <2>1. Proofs!ReleaseLast(r)
    BY <1>0, <1>3 DEF Registry!ReleaseLast, Proofs!ReleaseLast
  <2> QED BY <2>1 DEF Proofs!ReleaseStep, Proofs!Next
<1>4. CASE Registry!ReleaseDone
  BY <1>0, <1>4 DEF Registry!ReleaseDone, Proofs!ReleaseDone, Proofs!ReleaseStep, Proofs!Next
<1> QED BY <1>1, <1>2, <1>3, <1>4 DEF Registry!ReleaseStep

LEMMA RegistryMoves ==
    ASSUME Proofs!RegistryInv, Loads \/ Registry!ReleaseStep \/ UNCHANGED registry_vars
    PROVE  Proofs!RegistryInv'
<1>1. Proofs!Next \/ UNCHANGED Proofs!vars
  BY SameLoads, SameRelease DEF registry_vars, Proofs!vars
<1>2. DependencyDenied \in BOOLEAN
  BY ProcessorAssumption
<1> QED BY <1>1, <1>2, Proofs!StepInv, SeqExecAssumption DEF Proofs!StepInv

LEMMA RegistryReleases ==
    ASSUME Proofs!RegistryInv, NEW e \in Entry, e < manifest_stack_height,
           Registry!BeginRelease(e)
    PROVE  Proofs!RegistryInv'
<1>1. /\ op' = "releasing" /\ entry' = e /\ pos' = 0 /\ op_ret' = "none"
      /\ UNCHANGED <<components, manifest_stack, manifest_stack_height, handles>>
  BY DEF Registry!BeginRelease
<1>2. e \in Proofs!Entry
  BY DEF Entry, Proofs!Entry
<1>3. Proofs!TypeOK'
  BY <1>1, <1>2, SeqExecAssumption DEF Proofs!RegistryInv, Proofs!TypeOK, Proofs!Results
<1>4. Proofs!CallEntry'
  BY <1>1 DEF Proofs!CallEntry
<1>5. Proofs!PoolInv'
  BY <1>1 DEF Proofs!RegistryInv, Proofs!PoolInv, Proofs!SlotsFilled, Proofs!OneSlotPerComponent,
     Proofs!HandlesMatch, Proofs!InUse
<1> QED BY <1>3, <1>4, <1>5 DEF Proofs!RegistryInv
-----------------------------------------------------------------------------
(***************************************************************************)
(* How many open commands there are below a frame.                         *)
(***************************************************************************)
LEMMA OpenFinite ==
    ASSUME NEW c, NEW S, NEW st \in Seq(S), NEW m
    PROVE  IsFiniteSet(OpenBelow(c, st, m)) /\ Depth(c, st, m) \in Nat
<1>1. DOMAIN st = 1 .. Len(st) /\ Len(st) \in Int /\ 1 \in Int
  BY LenProperties
<1>2. IsFiniteSet(DOMAIN st)
  BY <1>1, FS_Interval
<1>3. IsFiniteSet(OpenBelow(c, st, m))
  BY <1>2, FS_Subset DEF OpenBelow
<1> QED BY <1>3, FS_CardinalityType DEF Depth

LEMMA DepthOfFirst ==
    ASSUME NEW c, NEW S, NEW st \in Seq(S)
    PROVE  Depth(c, st, 1) = 0
<1>1. DOMAIN st = 1 .. Len(st) /\ Len(st) \in Nat
  BY LenProperties
<1>2. OpenBelow(c, st, 1) = {}
  BY <1>1 DEF OpenBelow
<1> QED BY <1>2, FS_EmptySet DEF Depth

LEMMA DepthOfNext ==
    ASSUME NEW c, NEW S, NEW st \in Seq(S), NEW m \in 1 .. Len(st)
    PROVE  Depth(c, st, m + 1) = Depth(c, st, m) + (IF IsOpen(c, st[m]) THEN 1 ELSE 0)
<1>1. DOMAIN st = 1 .. Len(st) /\ Len(st) \in Nat
  BY LenProperties
<1>2. CASE IsOpen(c, st[m])
  <2>1. OpenBelow(c, st, m + 1) = OpenBelow(c, st, m) \cup {m}
    BY <1>1, <1>2 DEF OpenBelow
  <2>2. m \notin OpenBelow(c, st, m)
    BY DEF OpenBelow
  <2> QED BY <1>2, <2>1, <2>2, OpenFinite, FS_AddElement DEF Depth
<1>3. CASE ~IsOpen(c, st[m])
  <2>1. OpenBelow(c, st, m + 1) = OpenBelow(c, st, m)
    <3>1. ASSUME NEW k \in DOMAIN st, IsOpen(c, st[k]), k < m + 1 PROVE k < m
      <4>1. k # m
        BY <1>3, <3>1
      <4> QED BY <1>1, <3>1, <4>1
    <3> QED BY <1>1, <3>1 DEF OpenBelow
  <2>2. Depth(c, st, m) \in Nat
    BY OpenFinite
  <2> QED BY <1>3, <2>1, <2>2 DEF Depth
<1> QED BY <1>2, <1>3

\* It depends on the frames below only.
LEMMA DepthOfSame ==
    ASSUME NEW c, NEW S, NEW st \in Seq(S), NEW T, NEW st2 \in Seq(T),
           NEW m \in Nat, m <= Len(st) + 1, m <= Len(st2) + 1,
           \A k \in 1 .. m - 1 : IsOpen(c, st2[k]) <=> IsOpen(c, st[k])
    PROVE  Depth(c, st2, m) = Depth(c, st, m)
<1>1. /\ DOMAIN st = 1 .. Len(st) /\ Len(st) \in Nat
      /\ DOMAIN st2 = 1 .. Len(st2) /\ Len(st2) \in Nat
  BY LenProperties
<1>2. OpenBelow(c, st2, m) = OpenBelow(c, st, m)
  BY <1>1 DEF OpenBelow
<1> QED BY <1>2 DEF Depth

\* Every frame runs in the manifest of the nearest open command below it.
Chained(c, st, r) == \A k \in DOMAIN st : st[k].manifest = r + Depth(c, st, k)

(***************************************************************************)
(* The stack of frames after a step: it is sound, the open commands are d, *)
(* and nobody executes above one who validates.                            *)
(***************************************************************************)
AllValidate(st) == \A k \in DOMAIN st : st[k].cmd_processor \in Validate

StackAfter(d) ==
    /\ FramesOK'
    /\ Depth(code, seq_stack', Len(seq_stack') + 1) = d
    /\ AllValidate(seq_stack) => AllValidate(seq_stack')

DepthOfTop == Depth(code, seq_stack, Len(seq_stack))

StackReady ==
    /\ FramesOK
    /\ IsProgram(code)
    /\ Maps
    /\ Running

LEMMA ReadyIsTyped ==
    ASSUME StackReady
    PROVE  /\ Typed
           /\ seq_stack \in Seq(F)
           /\ Len(seq_stack) \in Nat \ {0} /\ DOMAIN seq_stack = 1 .. Len(seq_stack)
           /\ Top \in F /\ Top = seq_stack[Len(seq_stack)]
           /\ DepthOfTop \in Nat
           /\ Depth(code, seq_stack, Len(seq_stack) + 1) =
                 DepthOfTop + (IF IsOpen(code, Top) THEN 1 ELSE 0)
<1>1. seq_stack \in Seq(F) /\ seq_stack # <<>>
  BY DEF StackReady, FramesOK, F, Running
<1>2. Len(seq_stack) \in Nat \ {0} /\ DOMAIN seq_stack = 1 .. Len(seq_stack)
  BY <1>1, EmptySeq, LenProperties
<1>3. Len(seq_stack) \in 1 .. Len(seq_stack)
  BY <1>2
<1>4. InCommand(code, Top)
  BY <1>2, <1>3 DEF StackReady, FramesOK, Frames, Top
<1>5. Typed
  BY <1>1, <1>4 DEF Typed, StackReady
<1>6. Top \in F
  BY <1>1, <1>3, ElementOfSeq DEF Top
<1>7. DepthOfTop \in Nat
  BY <1>1, OpenFinite DEF DepthOfTop
<1>8. Depth(code, seq_stack, Len(seq_stack) + 1) =
         DepthOfTop + (IF IsOpen(code, Top) THEN 1 ELSE 0)
  BY <1>1, <1>3, DepthOfNext DEF DepthOfTop, Top
<1> QED BY <1>1, <1>2, <1>5, <1>6, <1>7, <1>8 DEF Top

\* The frames keep to their manifests.
KeepsChain ==
    \A r \in Nat : Chained(code, seq_stack, r) => Chained(code, seq_stack', r)

\* The top of the stack is not one that waits for the registry.
Settled == Running' => ~AwaitsRegistry'

LEMMA FramesAfter ==
    ASSUME code' = code, seq_stack' \in Seq(F), Len(seq_stack') <= MaxSeqDepth,
           \A k \in 1 .. Len(seq_stack') :
               /\ InCommand(code, seq_stack'[k])
               /\ k < Len(seq_stack') /\ AtDependency(code, seq_stack'[k])
                     => IsOpen(code, seq_stack'[k])
    PROVE  FramesOK'
<1>1. seq_stack' \in Seq(FrameType(Retvals)')
  BY DEF F, FrameType
<1>2. Frames' = 1 .. Len(seq_stack')
  BY LenProperties DEF Frames
<1>3. \A k \in Frames' : InCommand(code', seq_stack'[k])
                         /\ (k < Len(seq_stack') /\ AtDependency(code', seq_stack'[k])
                                => IsOpen(code', seq_stack'[k]))
  BY <1>2
<1> QED BY <1>1, <1>3 DEF FramesOK

\* The frame on top is replaced by g.
LEMMA TurnsStack ==
    ASSUME StackReady, code' = code, NEW g \in F, InCommand(code, g),
           SameOwner(g, Top), Continue(g)
    PROVE  /\ StackAfter(DepthOfTop + (IF IsOpen(code, g) THEN 1 ELSE 0))
           /\ KeepsChain
           /\ Running' /\ Top' = g /\ Len(seq_stack') = Len(seq_stack)
           /\ seq_ret' = "ERR_AGAIN"
<1> DEFINE n == Len(seq_stack)
<1>1. /\ Typed /\ seq_stack \in Seq(F)
      /\ n \in Nat /\ n >= 1 /\ n = Len(seq_stack) /\ DOMAIN seq_stack = 1 .. n
      /\ Top = seq_stack[n] /\ DepthOfTop = Depth(code, seq_stack, n)
  BY ReadyIsTyped DEF DepthOfTop
<1>2. /\ seq_stack' \in Seq(F) /\ Len(seq_stack') = n
      /\ \A k \in 1 .. n : seq_stack'[k] = IF k = n THEN g ELSE seq_stack[k]
      /\ seq_ret' = "ERR_AGAIN"
  BY <1>1, ContinuedStack DEF StackReady
<1>3. n \in 1 .. n /\ seq_stack'[n] = g /\ DOMAIN seq_stack' = 1 .. n
  <2>1. n \in 1 .. n
    BY <1>1
  <2>2. DOMAIN seq_stack' = 1 .. n
    BY <1>2, LenProperties
  <2> QED BY <1>2, <2>1, <2>2
<1> HIDE DEF n
<1>4. Running' /\ Top' = g
  BY <1>1, <1>2, <1>3, EmptySeq DEF Running, Top
<1>5. FramesOK'
  <2>1. Len(seq_stack') <= MaxSeqDepth
    BY <1>1, <1>2 DEF StackReady, FramesOK
  <2>2. ASSUME NEW k \in 1 .. n
        PROVE  /\ InCommand(code, seq_stack'[k])
               /\ k < n /\ AtDependency(code, seq_stack'[k]) => IsOpen(code, seq_stack'[k])
    <3>1. CASE k = n
      BY <1>1, <1>3, <3>1
    <3>2. CASE k # n
      BY <1>1, <1>2, <3>2 DEF StackReady, FramesOK, Frames
    <3> QED BY <3>1, <3>2
  <2> QED BY <1>2, <2>1, <2>2, FramesAfter
<1>6. \A m \in 1 .. n : Depth(code, seq_stack', m) = Depth(code, seq_stack, m)
  <2> TAKE m \in 1 .. n
  <2>1. \A k \in 1 .. m - 1 : IsOpen(code, seq_stack'[k]) <=> IsOpen(code, seq_stack[k])
    BY <1>1, <1>2
  <2>2. m \in Nat /\ m <= n + 1
    BY <1>1
  <2> QED BY <1>1, <1>2, <2>1, <2>2, DepthOfSame
<1>7. Depth(code, seq_stack', Len(seq_stack') + 1) =
         DepthOfTop + (IF IsOpen(code, g) THEN 1 ELSE 0)
  BY <1>1, <1>2, <1>3, <1>6, DepthOfNext
<1>8. AllValidate(seq_stack) => AllValidate(seq_stack')
  <2> SUFFICES ASSUME AllValidate(seq_stack), NEW k \in 1 .. n
               PROVE  seq_stack'[k].cmd_processor \in Validate
    BY <1>3 DEF AllValidate
  <2>1. seq_stack[k].cmd_processor \in Validate
    BY <1>1 DEF AllValidate
  <2> QED BY <1>1, <1>2, <2>1 DEF SameOwner
<1>9. KeepsChain
  <2> SUFFICES ASSUME NEW r \in Nat, Chained(code, seq_stack, r), NEW k \in 1 .. n
               PROVE  seq_stack'[k].manifest = r + Depth(code, seq_stack', k)
    BY <1>3 DEF KeepsChain, Chained
  <2>1. seq_stack[k].manifest = r + Depth(code, seq_stack, k)
    BY <1>1 DEF Chained
  <2> QED BY <1>1, <1>2, <1>6, <2>1 DEF SameOwner
<1> QED BY <1>1, <1>2, <1>4, <1>5, <1>7, <1>8, <1>9 DEF StackAfter

\* The frame on top is replaced by g, and h is pushed above it.
LEMMA DescendsStack ==
    ASSUME StackReady, code' = code, NEW g \in F, InCommand(code, g), SameOwner(g, Top),
           AtDependency(code, g) => IsOpen(code, g),
           NEW h \in F, h.current_command = 0, h.cmd_exec_state = 0,
           AllValidate(seq_stack) => h.cmd_processor \in Validate,
           Len(seq_stack) < MaxSeqDepth,
           seq_stack' = Append([seq_stack EXCEPT ![Len(seq_stack)] = g], h)
    PROVE  LET d == DepthOfTop + (IF IsOpen(code, g) THEN 1 ELSE 0) IN
           /\ StackAfter(d) /\ Settled /\ Running'
           /\ \A r \in Nat : (Chained(code, seq_stack, r) /\ h.manifest = r + d)
                                => Chained(code, seq_stack', r)
<1> DEFINE n == Len(seq_stack)
           s == [seq_stack EXCEPT ![n] = g]
           d == DepthOfTop + (IF IsOpen(code, g) THEN 1 ELSE 0)
<1>1. /\ Typed /\ seq_stack \in Seq(F)
      /\ n \in Nat /\ n >= 1 /\ n = Len(seq_stack) /\ DOMAIN seq_stack = 1 .. n
      /\ Top = seq_stack[n] /\ DepthOfTop = Depth(code, seq_stack, n)
  BY ReadyIsTyped DEF DepthOfTop
<1>2. n \in 1 .. n
  BY <1>1
<1>3. /\ s \in Seq(F) /\ Len(s) = n
      /\ \A k \in 1 .. n : s[k] = IF k = n THEN g ELSE seq_stack[k]
  BY <1>1, <1>2, ExceptSeq
<1>4. seq_stack' = Append(s, h)
  OBVIOUS
<1> HIDE DEF n, s
<1>5. /\ seq_stack' \in Seq(F) /\ Len(seq_stack') = n + 1
      /\ \A k \in 1 .. n : seq_stack'[k] = IF k = n THEN g ELSE seq_stack[k]
      /\ seq_stack'[n + 1] = h
      /\ DOMAIN seq_stack' = 1 .. n + 1
  BY <1>1, <1>3, <1>4, AppendProperties, LenProperties
<1>6. seq_stack'[n] = g /\ n + 1 \in 1 .. n + 1 /\ n \in 1 .. n + 1
  BY <1>1, <1>2, <1>5
<1>7. Running' /\ Top' = h
  BY <1>1, <1>5, EmptySeq DEF Running, Top
<1>8. Settled
  BY <1>7 DEF Settled, AwaitsRegistry, Loading, Releasing, SEQ_MAX
<1>9. FramesOK'
  <2>1. Len(seq_stack') <= MaxSeqDepth
    BY <1>1, <1>5, SeqExecAssumption
  <2>2. InCommand(code, h)
    <3>1. h.cmd_seq \in DOMAIN code /\ code[h.cmd_seq] \in Seq(CommandType(DOMAIN code))
      BY DEF F, FrameType, StackReady, IsProgram
    <3>2. Len(code[h.cmd_seq]) \in Nat
      BY <3>1, LenProperties
    <3> QED BY <3>2 DEF InCommand
  <2>3. ASSUME NEW k \in 1 .. n + 1
        PROVE  /\ InCommand(code, seq_stack'[k])
               /\ k < n + 1 /\ AtDependency(code, seq_stack'[k]) => IsOpen(code, seq_stack'[k])
    <3>1. CASE k = n + 1
      BY <1>1, <1>5, <2>2, <3>1
    <3>2. CASE k = n
      BY <1>6, <3>2
    <3>3. CASE k # n /\ k # n + 1
      <4>1. k \in 1 .. n /\ k < n
        BY <1>1, <3>3
      <4> QED BY <1>1, <1>5, <4>1 DEF StackReady, FramesOK, Frames
    <3> QED BY <3>1, <3>2, <3>3
  <2> QED BY <1>5, <2>1, <2>3, FramesAfter
<1>10. \A m \in 1 .. n : Depth(code, seq_stack', m) = Depth(code, seq_stack, m)
  <2> TAKE m \in 1 .. n
  <2>1. \A k \in 1 .. m - 1 : IsOpen(code, seq_stack'[k]) <=> IsOpen(code, seq_stack[k])
    BY <1>1, <1>5
  <2>2. m \in Nat /\ m <= n + 1 /\ m <= n + 1 + 1
    BY <1>1
  <2> QED BY <1>1, <1>5, <2>1, <2>2, DepthOfSame
<1>11. Depth(code, seq_stack', n + 1) = d
  <2>1. n \in 1 .. Len(seq_stack')
    BY <1>5, <1>6
  <2>2. Depth(code, seq_stack', n + 1) =
           Depth(code, seq_stack', n) + (IF IsOpen(code, seq_stack'[n]) THEN 1 ELSE 0)
    BY <1>5, <2>1, DepthOfNext
  <2> QED BY <1>1, <1>2, <1>6, <1>10, <2>2
<1>12. Depth(code, seq_stack', Len(seq_stack') + 1) = d
  <2>1. ~IsOpen(code, h)
    BY DEF IsOpen, SHARED, SEQ_MAX
  <2>2. Depth(code, seq_stack', n + 1 + 1) = Depth(code, seq_stack', n + 1)
    <3>1. Depth(code, seq_stack', n + 1) \in Nat
      BY <1>5, OpenFinite
    <3>2. n + 1 \in 1 .. Len(seq_stack')
      BY <1>5, <1>6
    <3>3. Depth(code, seq_stack', n + 1 + 1) =
             Depth(code, seq_stack', n + 1) + (IF IsOpen(code, seq_stack'[n + 1]) THEN 1 ELSE 0)
      BY <1>5, <3>2, DepthOfNext
    <3> QED BY <1>5, <2>1, <3>1, <3>3
  <2> QED BY <1>5, <1>11, <2>2
<1>13. AllValidate(seq_stack) => AllValidate(seq_stack')
  <2> SUFFICES ASSUME AllValidate(seq_stack), NEW k \in 1 .. n + 1
               PROVE  seq_stack'[k].cmd_processor \in Validate
    BY <1>5 DEF AllValidate
  <2>1. CASE k = n + 1
    BY <1>5, <2>1
  <2>2. CASE k # n + 1
    <3>1. k \in 1 .. n /\ seq_stack[k].cmd_processor \in Validate
      BY <1>1, <2>2 DEF AllValidate
    <3> QED BY <1>1, <1>5, <3>1 DEF SameOwner
  <2> QED BY <2>1, <2>2
<1>14. ASSUME NEW r \in Nat, Chained(code, seq_stack, r), h.manifest = r + d
       PROVE  Chained(code, seq_stack', r)
  <2> SUFFICES ASSUME NEW k \in 1 .. n + 1
               PROVE  seq_stack'[k].manifest = r + Depth(code, seq_stack', k)
    BY <1>5 DEF Chained
  <2>1. CASE k = n + 1
    BY <1>5, <1>11, <1>14, <2>1
  <2>2. CASE k # n + 1
    <3>1. k \in 1 .. n /\ seq_stack[k].manifest = r + Depth(code, seq_stack, k)
      BY <1>1, <1>14, <2>2 DEF Chained
    <3> QED BY <1>1, <1>5, <1>10, <3>1 DEF SameOwner
  <2> QED BY <2>1, <2>2
<1> QED BY <1>7, <1>8, <1>9, <1>12, <1>13, <1>14 DEF StackAfter

\* The frame on top ends.
LEMMA PopsStack ==
    ASSUME StackReady, code' = code, NEW r \in Retvals, FinishesAs(r)
    PROVE  StackAfter(DepthOfTop) /\ Settled /\ KeepsChain
<1>1. PICK g \in F : SameOwner(g, Top) /\ Finalize(g, r)
  BY DEF FinishesAs
<1>2. /\ Len(seq_stack) = 1 => seq_stack' = <<>> /\ seq_ret' = Result(g, r)
      /\ Len(seq_stack) > 1 =>
            LET n == Len(seq_stack) - 1 IN
            /\ seq_stack' \in Seq(FrameType(Retvals)) /\ Len(seq_stack') = n
            /\ \A k \in 1 .. n - 1 : seq_stack'[k] = seq_stack[k]
            /\ seq_stack'[n] = [seq_stack[n] EXCEPT
                   !.retval = Result(g, r), !.current_components = g.current_components]
            /\ seq_ret' = "ERR_AGAIN"
  <2>1. /\ seq_stack \in Seq(FrameType(Retvals)) /\ g \in FrameType(Retvals) /\ Running
        /\ "FAIL_SOFT_CONDITION" \in Retvals /\ Finalize(g, r) /\ r \in Retvals
    BY <1>1, ReadyIsTyped DEF F, StackReady, Retvals
  <2> QED BY <2>1, PoppedStack
<1> DEFINE n == Len(seq_stack)
           m == Len(seq_stack) - 1
<1>3. /\ Typed /\ seq_stack \in Seq(F) /\ Running
      /\ n \in Nat /\ n >= 1 /\ n = Len(seq_stack) /\ DOMAIN seq_stack = 1 .. n
      /\ DepthOfTop = Depth(code, seq_stack, n)
  BY ReadyIsTyped DEF DepthOfTop, StackReady
<1>4. CASE n = 1
  <2>1. seq_stack' = <<>>
    BY <1>3, <1>4, <1>2
  <2>2. /\ seq_stack' \in Seq(F) /\ Len(seq_stack') = 0 /\ DOMAIN seq_stack' = 1 .. 0
    BY <2>1
  <2>3. 1 .. 0 = {}
    OBVIOUS
  <2>4. FramesOK'
    BY <2>2, <2>3, SeqExecAssumption, FramesAfter
  <2>5. Depth(code, seq_stack', Len(seq_stack') + 1) = DepthOfTop
    <3>1. Depth(code, seq_stack', 1) = 0 /\ Depth(code, seq_stack, 1) = 0
      BY <1>3, <2>2, DepthOfFirst
    <3> QED BY <1>3, <1>4, <2>2, <3>1
  <2>6. Settled /\ KeepsChain /\ AllValidate(seq_stack')
    BY <2>1, <2>2, <2>3 DEF Settled, Running, KeepsChain, Chained, AllValidate
  <2> QED BY <2>4, <2>5, <2>6 DEF StackAfter
<1>5. CASE n # 1
  <2>1. m \in Nat /\ m >= 1 /\ n = m + 1 /\ m \in 1 .. m /\ m \in 1 .. n
    BY <1>3, <1>5
  <2>2. /\ seq_stack' \in Seq(F) /\ Len(seq_stack') = m
        /\ \A k \in 1 .. m - 1 : seq_stack'[k] = seq_stack[k]
        /\ seq_stack'[m] = [seq_stack[m] EXCEPT
               !.retval = Result(g, r), !.current_components = g.current_components]
    <3>1. Len(seq_stack) > 1 /\ m = Len(seq_stack) - 1
      BY <1>3, <1>5
    <3> HIDE DEF n, m
    <3> QED BY <1>2, <3>1 DEF F
  <2> HIDE DEF n, m
  <2>3. DOMAIN seq_stack' = 1 .. m
    BY <2>2, LenProperties
  <2>4. \A k \in 1 .. m : k \in 1 .. n /\ k < n
    BY <2>1
  <2>5. ASSUME NEW k \in 1 .. m
        PROVE  /\ seq_stack'[k].cmd_seq = seq_stack[k].cmd_seq
               /\ seq_stack'[k].current_command = seq_stack[k].current_command
               /\ seq_stack'[k].cmd_exec_state = seq_stack[k].cmd_exec_state
               /\ seq_stack'[k].manifest = seq_stack[k].manifest
               /\ seq_stack'[k].cmd_processor = seq_stack[k].cmd_processor
    <3>1. CASE k = m
      <4>1. seq_stack[m] \in F
        BY <1>3, <2>1, ElementOfSeq
      <4> QED BY <2>2, <3>1, <4>1 DEF F, FrameType
    <3>2. CASE k # m
      <4>1. k \in 1 .. m - 1
        BY <2>1, <3>2
      <4> QED BY <2>2, <4>1
    <3> QED BY <3>1, <3>2
  <2>6. ASSUME NEW k \in 1 .. m
        PROVE  /\ IsOpen(code, seq_stack'[k]) <=> IsOpen(code, seq_stack[k])
               /\ AtDependency(code, seq_stack'[k]) <=> AtDependency(code, seq_stack[k])
               /\ InCommand(code, seq_stack'[k]) <=> InCommand(code, seq_stack[k])
    BY <2>5 DEF IsOpen, AtDependency, InCommand
  <2>7. ASSUME NEW k \in 1 .. m
        PROVE  /\ InCommand(code, seq_stack'[k])
               /\ AtDependency(code, seq_stack'[k]) => IsOpen(code, seq_stack'[k])
    BY <1>3, <2>4, <2>6 DEF StackReady, FramesOK, Frames
  <2>8. FramesOK'
    <3>1. Len(seq_stack') <= MaxSeqDepth
      BY <1>3, <2>1, <2>2, SeqExecAssumption DEF StackReady, FramesOK
    <3> QED BY <2>2, <2>7, <3>1, FramesAfter
  <2>9. \A k \in 1 .. n : Depth(code, seq_stack', k) = Depth(code, seq_stack, k)
    <3> TAKE k \in 1 .. n
    <3>1. k \in Nat /\ k <= m + 1 /\ k <= n + 1
      BY <1>3, <2>1
    <3>2. \A j \in 1 .. k - 1 : j \in 1 .. m
      BY <1>3, <2>1
    <3>3. \A j \in 1 .. k - 1 : IsOpen(code, seq_stack'[j]) <=> IsOpen(code, seq_stack[j])
      BY <2>6, <3>2
    <3>4. k <= Len(seq_stack) + 1 /\ k <= Len(seq_stack') + 1
      BY <1>3, <2>2, <3>1
    <3>5. k \in Nat /\ seq_stack \in Seq(F) /\ seq_stack' \in Seq(F)
      BY <1>3, <2>2, <3>1
    <3> QED BY <3>3, <3>4, <3>5, DepthOfSame
  <2>10. Depth(code, seq_stack', Len(seq_stack') + 1) = DepthOfTop
    <3>1. n \in 1 .. n
      BY <1>3
    <3> QED BY <1>3, <2>1, <2>2, <2>9, <3>1
  <2>11. Settled
    <3>1. Top' = seq_stack'[m]
      BY <2>2 DEF Top
    <3>2. AtDependency(code, seq_stack'[m]) =>
             seq_stack'[m].cmd_exec_state \in SHARED .. SEQ_MAX + 2
      BY <2>1, <2>7 DEF IsOpen
    <3>3. Loading \notin SHARED .. SEQ_MAX + 2 /\ Releasing \notin SHARED .. SEQ_MAX + 2
      BY DEF Loading, Releasing, SHARED, SEQ_MAX
    <3> QED
      BY <3>1, <3>2, <3>3 DEF Settled, AwaitsRegistry, AtCommand, AtDependency, Command
  <2>12. AllValidate(seq_stack) => AllValidate(seq_stack')
    BY <1>3, <2>3, <2>4, <2>5 DEF AllValidate
  <2>13. KeepsChain
    <3> SUFFICES ASSUME NEW q \in Nat, Chained(code, seq_stack, q), NEW k \in 1 .. m
                 PROVE  seq_stack'[k].manifest = q + Depth(code, seq_stack', k)
      BY <2>3 DEF KeepsChain, Chained
    <3>1. k \in 1 .. n /\ seq_stack[k].manifest = q + Depth(code, seq_stack, k)
      BY <1>3, <2>4 DEF Chained
    <3> QED BY <2>5, <2>9, <3>1
  <2> QED BY <2>8, <2>10, <2>11, <2>12, <2>13 DEF StackAfter
<1> QED BY <1>4, <1>5

\* A nested sequence belongs to the manifest of its command.
LEMMA SchedulesStack ==
    ASSUME StackReady, code' = code, Schedules
    PROVE  /\ StackAfter(DepthOfTop) /\ Settled
           /\ \A r \in Nat : (Chained(code, seq_stack, r) /\ Top.manifest = r + DepthOfTop)
                                => Chained(code, seq_stack', r)
<1>1. PICK g \in F, name \in DOMAIN code, soft \in BOOLEAN :
         /\ SameOwner(g, Top) /\ InCommand(code, g)
         /\ ~AtDependency(code, g)
         /\ Len(seq_stack) < MaxSeqDepth
         /\ Push(g, name, soft, g.cmd_processor)
  BY DEF Schedules
<1> DEFINE h == NewFrame(name, g.manifest, soft, g.cmd_processor, g.current_components)
<1>2. h = [cmd_seq |-> name, current_command |-> 0, cmd_exec_state |-> 0,
           retval |-> "SUCCESS", soft_failure |-> soft, current_component_idx |-> NoIndex,
           current_components |-> g.current_components, current_components_backup |-> {},
           manifest |-> g.manifest, cmd_processor |-> g.cmd_processor]
  BY DEF NewFrame
<1>3. seq_stack' = Append([seq_stack EXCEPT ![Len(seq_stack)] = g], h)
  BY <1>1 DEF Push
<1> HIDE DEF h
<1>4. h \in F
  <2>1. NoIndex \in 0 .. MaxComponents
    BY SeqExecAssumption DEF NoIndex
  <2>2. "SUCCESS" \in Retvals
    BY DEF Retvals, Endings
  <2> QED BY <1>1, <1>2, <2>1, <2>2 DEF F, FrameType
<1>5. /\ h.current_command = 0 /\ h.cmd_exec_state = 0
      /\ h.cmd_processor = g.cmd_processor /\ h.manifest = g.manifest
  BY <1>2
<1>6. AllValidate(seq_stack) => h.cmd_processor \in Validate
  <2>1. Len(seq_stack) \in DOMAIN seq_stack /\ Top = seq_stack[Len(seq_stack)]
    BY ReadyIsTyped, TopOf DEF StackReady
  <2> QED BY <1>1, <1>5, <2>1 DEF AllValidate, SameOwner
<1>7. ~IsOpen(code, g) /\ DepthOfTop \in Nat
  BY <1>1, ReadyIsTyped DEF IsOpen
<1>8. /\ StackAfter(DepthOfTop + 0) /\ Settled
      /\ \A r \in Nat : (Chained(code, seq_stack, r) /\ h.manifest = r + (DepthOfTop + 0))
                           => Chained(code, seq_stack', r)
  BY <1>1, <1>3, <1>4, <1>5, <1>6, <1>7, DescendsStack
<1>9. DepthOfTop + 0 = DepthOfTop
  BY <1>7
<1> QED BY <1>1, <1>5, <1>8, <1>9 DEF SameOwner

\* So whatever command is executed inside a manifest, the open commands below the
\* top stay as they are.
LEMMA StepStack ==
    ASSUME StackReady, SeqStep
    PROVE  /\ StackAfter(DepthOfTop) /\ Settled
           /\ \A r \in Nat : (Chained(code, seq_stack, r) /\ Top.manifest = r + DepthOfTop)
                                => Chained(code, seq_stack', r)
<1>1. code' = code
  BY StepAsks
<1>2. GoesOn \/ Schedules \/ Finishes
  BY ReadyIsTyped, StepWay
<1>3. CASE GoesOn
  <2>1. PICK g \in F : /\ SameOwner(g, Top) /\ InCommand(code, g)
                       /\ g.cmd_exec_state = 0
                       /\ Continue(g)
    BY <1>3 DEF GoesOn
  <2>2. ~IsOpen(code, g)
    BY <2>1 DEF IsOpen, SHARED, SEQ_MAX
  <2>3. /\ StackAfter(DepthOfTop + 0) /\ KeepsChain /\ Top' = g
    BY <1>1, <2>1, <2>2, TurnsStack
  <2>4. Settled
    BY <2>1, <2>3 DEF Settled, AwaitsRegistry, Loading, Releasing, SEQ_MAX
  <2>5. DepthOfTop + 0 = DepthOfTop
    BY ReadyIsTyped
  <2> QED BY <2>3, <2>4, <2>5 DEF KeepsChain
<1>4. CASE Schedules
  BY <1>1, <1>4, SchedulesStack
<1>5. CASE Finishes
  BY <1>1, <1>5, PopsStack DEF Finishes, KeepsChain
<1> QED BY <1>2, <1>3, <1>4, <1>5

LEMMA GoesOnStack ==
    ASSUME StackReady, code' = code, GoesOn
    PROVE  StackAfter(DepthOfTop) /\ Settled /\ KeepsChain
<1>1. PICK g \in F : /\ SameOwner(g, Top) /\ InCommand(code, g)
                     /\ g.cmd_exec_state = 0
                     /\ Continue(g)
  BY DEF GoesOn
<1>2. ~IsOpen(code, g)
  BY <1>1 DEF IsOpen, SHARED, SEQ_MAX
<1>3. StackAfter(DepthOfTop + 0) /\ KeepsChain /\ Top' = g
  BY <1>1, <1>2, TurnsStack
<1>4. Settled
  BY <1>1, <1>3 DEF Settled, AwaitsRegistry, Loading, Releasing, SEQ_MAX
<1>5. DepthOfTop + 0 = DepthOfTop
  BY ReadyIsTyped
<1> QED BY <1>3, <1>4, <1>5

LEMMA ReturnsStack ==
    ASSUME StackReady, code' = code, AtCommand, NEW f \in F, SameOwner(f, Top),
           f.current_command = Top.current_command, NEW r \in Retvals, Return(f, r)
    PROVE  StackAfter(DepthOfTop) /\ Settled /\ KeepsChain
BY ReadyIsTyped, ReturnWay, GoesOnStack, PopsStack

-----------------------------------------------------------------------------
(***************************************************************************)
(* The processor in the middle of a sequence.                              *)
(***************************************************************************)
Slack == manifest_stack_height - Height

LEMMA Here ==
    ASSUME PInv
    PROVE  /\ Maps /\ IsProgram(code)
           /\ manifest_stack_height \in Nat /\ manifest_stack_height <= MaxManifests
           /\ root \in Nat /\ Owed \in {0, 1}
           /\ Depth(code, seq_stack, Len(seq_stack) + 1) \in Nat
           /\ Height \in Nat /\ Height <= manifest_stack_height
           /\ Running => StackReady
<1>1. Maps /\ manifest_stack_height \in 0 .. MaxManifests
  BY RegistryTyped DEF PInv
<1>2. root \in Nat
  BY SeqExecAssumption DEF PInv, ControlOK
<1>3. Depth(code, seq_stack, Len(seq_stack) + 1) \in Nat
  BY OpenFinite DEF PInv, FramesOK
<1>4. Owed \in {0, 1}
  BY DEF Owed
<1>5. Height \in Nat
  BY <1>2, <1>3, <1>4 DEF Height
<1>6. IsProgram(code) /\ (Running => StackReady)
  BY <1>1 DEF PInv, WorldOK, StackReady
<1> QED BY <1>1, <1>2, <1>3, <1>4, <1>5, <1>6, SeqExecAssumption DEF PInv

LEMMA InSequence ==
    ASSUME PInv, Running
    PROVE  /\ StackReady /\ DepthOfTop \in Nat
           /\ pc \in {"validate"} \cup Executing
           /\ Height = root + Owed + (1 + DepthOfTop + (IF IsOpen(code, Top) THEN 1 ELSE 0))
<1>1. StackReady /\ DepthOfTop \in Nat
      /\ Depth(code, seq_stack, Len(seq_stack) + 1) =
            DepthOfTop + (IF IsOpen(code, Top) THEN 1 ELSE 0)
  BY Here, ReadyIsTyped
<1>2. pc \in {"validate"} \cup Executing
  BY DEF PInv, ControlOK
<1>3. pc \notin {"idle", "load", "release"}
  BY <1>2 DEF Executing
<1> QED BY <1>1, <1>2, <1>3, Here DEF Height

\* What a step owes the invariant when it starts inside a sequence.
LEMMA SequenceKeeps ==
    ASSUME PInv, Running, UNCHANGED <<driver, dry_run, code>>,
           NEW d \in Nat, StackAfter(d), NEW o \in Nat, Owed' = o,
           op' # "none" => Running' /\ AwaitsRegistry',
           op' # "none" => (op' = "releasing" <=> ~AfterLoad'),
           op' = "unwinding" => op_ret' # "SUCCESS"
    PROVE  FramesOK' /\ ControlOK' /\ Height' = root + o + (1 + d)
<1>1. UNCHANGED <<current_seq, pc, seq, root, ret>> /\ pc \in {"validate"} \cup Executing
  BY InSequence DEF driver
<1>2. pc \notin {"idle", "load", "release", "dry_next", "check"}
  BY <1>1 DEF Executing
<1>3. FramesOK' /\ Depth(code', seq_stack', Len(seq_stack') + 1) = d
  BY DEF StackAfter
<1>4. Height' = root + o + (1 + d)
  BY <1>1, <1>2, <1>3 DEF Height
<1>5. pc = "validate" => \A k \in Frames' : seq_stack'[k].cmd_processor \in Validate
  BY DEF PInv, ControlOK, StackAfter, AllValidate, Frames
<1>6. ControlOK'
  BY <1>1, <1>2, <1>5 DEF PInv, ControlOK, Validate
<1> QED BY <1>3, <1>4, <1>6

\* The world stays what it was, except for what the platform stores.
LEMMA WorldKept ==
    ASSUME WorldOK, UNCHANGED <<code, envelopes, components>>,
           content' = content \/ \E x : \E name \in Stored : content' = [content EXCEPT ![x] = name],
           envelope' \in [Entry -> DOMAIN envelopes \cup {NoEnvelope}],
           checked' \in [Slot -> DOMAIN envelopes \cup {NoEnvelope}],
           op' = "loading" => envelope'[entry'] \in DOMAIN envelopes
    PROVE  WorldOK'
<1>1. DOMAIN content' = DOMAIN content /\ content' \in [DOMAIN content -> Stored]
  BY DEF WorldOK
<1>2. Stored' = Stored
  BY DEF Stored
<1> QED BY <1>1, <1>2 DEF WorldOK

LEMMA WorldSame ==
    ASSUME WorldOK, UNCHANGED <<code, envelopes, components, content, envelope, checked>>,
           op' # "loading"
    PROVE  WorldOK'
BY WorldKept DEF WorldOK

\* The frame on top stands at a command that works on a dependency.
LEMMA AtDependencyCommand ==
    ASSUME StackReady, On(DependencyCommands, Run)
    PROVE  /\ AtCommand /\ AtDependency(code, Top) /\ Top.cmd_processor = "run"
           /\ Command(Top).op \in DependencyCommands
           /\ CurrentSlot \in Slot
           /\ Current \in F /\ SameOwner(Current, Top)
           /\ Current.current_command = Top.current_command
<1>1. /\ AtCommand /\ Command(Top).op \in DependencyCommands /\ Top.cmd_processor = "run"
      /\ Current.current_component_idx \in Indexes(Current)
  BY DEF On, At, Run
<1>2. AtDependency(code, Top)
  BY <1>1 DEF AtDependency, AtCommand, Command
<1>3. /\ Current \in F /\ SameOwner(Current, Top)
      /\ Current.current_command = Top.current_command
  BY ReadyIsTyped, CurrentOf DEF StackReady
<1>4. CurrentSlot \in Slot
  <2>1. Current.manifest \in Entry
    BY <1>3 DEF F, FrameType
  <2>2. manifest_stack[Current.manifest] \in Seq(Slot)
    BY <2>1 DEF StackReady, Maps
  <2>3. Len(manifest_stack[Current.manifest]) \in Nat
    BY <2>2, LenProperties
  <2>4. Current.current_component_idx + 1 \in 1 .. Len(manifest_stack[Current.manifest])
    BY <1>1, <2>3 DEF Indexes
  <2> QED BY <2>2, <2>4, ElementOfSeq DEF CurrentSlot, SlotOf
<1> QED BY <1>1, <1>2, <1>3, <1>4

\* The frame on top stays in its command and cmd_exec_state becomes n.
LEMMA StaysInCommand ==
    ASSUME StackReady, AtDependency(code, Top), Top.cmd_processor = "run",
           NEW f \in F, SameOwner(f, Top), f.current_command = Top.current_command,
           NEW n \in Nat, n <= Releasing, f.cmd_exec_state = n
    PROVE  /\ InCommand(code, f) /\ AtDependency(code, f)
           /\ IsOpen(code, f) <=> n \in SHARED .. SEQ_MAX + 2
<1>1. Top \in F /\ InCommand(code, Top)
  BY ReadyIsTyped, TopOf DEF StackReady
<1>2. AtDependency(code, f)
  BY DEF AtDependency, SameOwner
<1>3. InCommand(code, f)
  BY <1>1, <1>2 DEF InCommand, SameOwner
<1> QED BY <1>2, <1>3 DEF IsOpen, SameOwner

LEMMA Awaiting ==
    ASSUME PInv, Running, AwaitsRegistry
    PROVE  /\ AtCommand /\ AtDependency(code, Top) /\ Top.cmd_processor = "run"
           /\ Top \in F /\ ~IsOpen(code, Top)
           /\ Command(Top).op \in DependencyCommands
           /\ Top.cmd_exec_state \in {Loading, Releasing}
<1>1. /\ AtCommand /\ Command(Top).op \in DependencyCommands
      /\ Top.cmd_exec_state \in {Loading, Releasing}
  BY DEF AwaitsRegistry
<1>2. AtDependency(code, Top)
  BY <1>1 DEF AtDependency, AtCommand, Command
<1>3. Top \in F /\ InCommand(code, Top)
  BY InSequence, ReadyIsTyped, TopOf
<1> QED BY <1>1, <1>2, <1>3 DEF IsOpen, InCommand, Loading, Releasing, SHARED, SEQ_MAX

-----------------------------------------------------------------------------
(***************************************************************************)
(* The steps inside a sequence.  Each of them leaves the difference        *)
(* between the two stacks as it is, and every frame in its manifest.       *)
(***************************************************************************)
KeepsPlace == Chained(code, seq_stack, root) => Chained(code, seq_stack', root)
Accounted  == Slack' = Slack /\ (Slack = 0 => KeepsPlace)

\* A step after which the stack of manifests is as high as before.
LEMMA LevelStep ==
    ASSUME PInv, Running, UNCHANGED <<driver, dry_run, code, manifest_stack_height>>,
           WorldOK', Proofs!RegistryInv',
           NEW d \in Nat, StackAfter(d), NEW o \in Nat, Owed' = o,
           op' # "none" => Running' /\ AwaitsRegistry',
           op' # "none" => (op' = "releasing" <=> ~AfterLoad'),
           op' = "unwinding" => op_ret' # "SUCCESS",
           o + d = Owed + DepthOfTop + (IF IsOpen(code, Top) THEN 1 ELSE 0)
    PROVE  PInv' /\ Slack' = Slack
<1>1. FramesOK' /\ ControlOK' /\ Height' = root + o + (1 + d)
  BY SequenceKeeps
<1>2. /\ Height = root + Owed + (1 + DepthOfTop + (IF IsOpen(code, Top) THEN 1 ELSE 0))
      /\ DepthOfTop \in Nat
  BY InSequence
<1>3. root \in Nat /\ Owed \in Nat /\ Height <= manifest_stack_height
  BY Here
<1>4. Height' = Height
  BY <1>1, <1>2, <1>3
<1>5. Height' <= manifest_stack_height'
  BY <1>3, <1>4
<1> QED BY <1>1, <1>4, <1>5 DEF PInv, Slack

\* The command returns without a call of the registry.
LEMMA ReturnKeeps ==
    ASSUME PInv, AtCommand, UNCHANGED <<driver, dry_run, code, manifest_stack_height>>,
           WorldOK', Proofs!RegistryInv', op' = "none",
           Owed = 0, ~IsOpen(code, Top),
           NEW f \in F, SameOwner(f, Top), f.current_command = Top.current_command,
           NEW r \in Retvals, Return(f, r)
    PROVE  PInv' /\ Accounted
<1>1. Running /\ StackReady /\ DepthOfTop \in Nat
  BY InSequence DEF AtCommand
<1>2. StackAfter(DepthOfTop) /\ Settled /\ KeepsChain
  BY <1>1, ReturnsStack
<1>3. pc' = pc /\ pc \notin {"load"}
  BY <1>1, InSequence DEF driver, Executing
<1>4. Owed' = 0
  BY <1>2, <1>3 DEF Owed, AfterLoad, Settled
<1>5. PInv' /\ Slack' = Slack
  BY <1>1, <1>2, <1>4, LevelStep
<1>6. KeepsPlace
  BY <1>2, Here DEF KeepsPlace, KeepsChain
<1> QED BY <1>5, <1>6 DEF Accounted

LEMMA LoadRefusedKeeps ==
    ASSUME PInv, op = "none", ToLoad, Registry!LoadRefused, LoadFailed("ERR_OVERFLOW"),
           UNCHANGED <<store, driver, world, dry_run, envelope, content, checked>>
    PROVE  PInv' /\ Accounted
<1>1. Running /\ On(DependencyCommands, Run) /\ Top.cmd_exec_state = 0
  BY DEF ToLoad, On, At, AtCommand
<1>2. StackReady /\ pc \notin {"load"}
  BY <1>1, InSequence DEF Executing
<1>3. /\ AtCommand /\ Current \in F /\ SameOwner(Current, Top)
      /\ Current.current_command = Top.current_command
  BY <1>1, <1>2, AtDependencyCommand
<1>4. /\ op' = op /\ op_ret' = "ERR_OVERFLOW"
      /\ UNCHANGED <<components, manifest_stack, manifest_stack_height, entry, pos, handles>>
  BY DEF Registry!LoadRefused
<1>5. Owed = 0 /\ ~IsOpen(code, Top)
  BY <1>1, <1>2 DEF Owed, AfterLoad, Loading, IsOpen, SHARED, SEQ_MAX
<1>6. Proofs!RegistryInv'
  BY RegistryMoves DEF PInv, Loads
<1>7. WorldOK'
  BY <1>4, WorldSame DEF PInv, world
<1>8. PICK r \in {"FAIL_CONDITION", "ERR_OVERFLOW"} : Return(Current, r)
  BY DEF LoadFailed
<1>9. r \in Retvals
  BY <1>8 DEF Retvals, Endings
<1> QED BY <1>3, <1>4, <1>5, <1>6, <1>7, <1>8, <1>9, ReturnKeeps DEF world

LEMMA LoadBegins ==
    ASSUME PInv, op = "none", ToLoad, StartLoad(content[components[CurrentSlot].component_id]),
           Continue([Current EXCEPT !.cmd_exec_state = Loading]),
           UNCHANGED <<store, driver, world, dry_run, content, checked>>
    PROVE  PInv' /\ Accounted
<1> DEFINE f == [Current EXCEPT !.cmd_exec_state = Loading]
<1>1. Running /\ On(DependencyCommands, Run) /\ Top.cmd_exec_state = 0 /\ IsDependency(CurrentSlot)
  BY DEF ToLoad, On, At, AtCommand
<1>2. StackReady /\ pc \notin {"load"} /\ DepthOfTop \in Nat
  BY <1>1, InSequence DEF Executing
<1>3. /\ AtCommand /\ AtDependency(code, Top) /\ Top.cmd_processor = "run"
      /\ Command(Top).op \in DependencyCommands
      /\ CurrentSlot \in Slot
      /\ Current \in F /\ SameOwner(Current, Top)
      /\ Current.current_command = Top.current_command
  BY <1>1, <1>2, AtDependencyCommand
<1>4. /\ op' = "loading" /\ entry' = manifest_stack_height
      /\ manifest_stack_height \in Entry
      /\ UNCHANGED <<components, manifest_stack_height>>
  <2>1. manifest_stack_height < MaxManifests
    BY DEF StartLoad, Registry!BeginLoad
  <2> QED BY <2>1, Here, SeqExecAssumption DEF StartLoad, Registry!BeginLoad, Entry
<1>5. Owed = 0 /\ ~IsOpen(code, Top)
  BY <1>1, <1>2 DEF Owed, AfterLoad, Loading, IsOpen, SHARED, SEQ_MAX
<1>6. Proofs!RegistryInv'
  BY RegistryMoves DEF PInv, Loads, StartLoad
<1>7. WorldOK'
  <2>1. components[CurrentSlot].component_id \in DOMAIN content
    BY <1>1, <1>3 DEF PInv, WorldOK, IsDependency
  <2>2. content[components[CurrentSlot].component_id] \in DOMAIN envelopes
    BY <2>1 DEF PInv, WorldOK, Stored
  <2>3. /\ envelope' \in [Entry -> DOMAIN envelopes \cup {NoEnvelope}]
        /\ envelope'[entry'] \in DOMAIN envelopes
    BY <1>4, <2>2 DEF PInv, WorldOK, StartLoad
  <2> QED BY <1>4, <2>3, WorldKept DEF PInv, WorldOK, world
<1>8. /\ f \in F /\ SameOwner(f, Top) /\ f.cmd_exec_state = Loading
      /\ f.current_command = Top.current_command
  BY <1>3 DEF F, FrameType, SameOwner, Loading
<1>9. Continue(f)
  OBVIOUS
<1> HIDE DEF f
<1>10. InCommand(code, f) /\ AtDependency(code, f) /\ ~IsOpen(code, f)
  <2>1. Loading \in Nat /\ Loading <= Releasing /\ Loading \notin SHARED .. SEQ_MAX + 2
    BY DEF Loading, Releasing, SHARED, SEQ_MAX
  <2> QED BY <1>2, <1>3, <1>8, <2>1, StaysInCommand
<1>11. /\ StackAfter(DepthOfTop + 0) /\ KeepsChain /\ Running' /\ Top' = f
  BY <1>2, <1>8, <1>9, <1>10, TurnsStack DEF world
<1>12. AwaitsRegistry'
  <2>1. f.current_command < Len(code[f.cmd_seq]) /\ Command(f) = Command(Top)
    BY <1>3, <1>8 DEF AtCommand, SameOwner, Command
  <2>2. code' = code
    BY DEF world
  <2> QED BY <1>3, <1>8, <1>11, <2>1, <2>2 DEF AwaitsRegistry, AtCommand, Command
<1>13. Owed' = 0 /\ DepthOfTop + 0 = DepthOfTop
  BY <1>2, <1>4 DEF Owed
<1>14. AfterLoad' /\ op' = "loading" /\ op' # "releasing"
  BY <1>4, <1>8, <1>11, <1>12 DEF AfterLoad
<1>15. PInv' /\ Slack' = Slack
  BY <1>1, <1>2, <1>4, <1>5, <1>6, <1>7, <1>11, <1>12, <1>13, <1>14, LevelStep DEF world
<1> QED BY <1>11, <1>15, Here DEF Accounted, KeepsPlace, KeepsChain

\* The command goes on: it has seen to the result of the registry.
LEMMA LoadedKeeps ==
    ASSUME PInv, Running, AwaitsRegistry, Top.cmd_exec_state = Loading,
           op = "none", op_ret = "SUCCESS",
           Continue([Top EXCEPT !.cmd_exec_state = SHARED]),
           UNCHANGED <<registry_vars, driver, world, dry_run, envelope, content, checked>>
    PROVE  PInv' /\ Accounted
<1> DEFINE f == [Top EXCEPT !.cmd_exec_state = SHARED]
<1>1. StackReady /\ DepthOfTop \in Nat /\ pc \in {"validate"} \cup Executing
  BY InSequence
<1>2. /\ AtDependency(code, Top) /\ Top.cmd_processor = "run"
      /\ Top \in F /\ ~IsOpen(code, Top)
  BY Awaiting
<1>3. Owed = 1
  BY DEF Owed, AfterLoad
<1>4. /\ f \in F /\ SameOwner(f, Top) /\ f.cmd_exec_state = SHARED
      /\ f.current_command = Top.current_command /\ Continue(f)
  BY <1>2 DEF F, FrameType, SameOwner, SHARED
<1> HIDE DEF f
<1>5. InCommand(code, f) /\ IsOpen(code, f)
  <2>1. SHARED \in Nat /\ SHARED <= Releasing /\ SHARED \in SHARED .. SEQ_MAX + 2
    BY DEF Releasing, SHARED, SEQ_MAX
  <2> QED BY <1>1, <1>2, <1>4, <2>1, StaysInCommand
<1>6. StackAfter(DepthOfTop + 1) /\ KeepsChain /\ Running' /\ Top' = f
  BY <1>1, <1>4, <1>5, TurnsStack DEF world
<1>7. Owed' = 0 /\ op' = "none" /\ manifest_stack_height' = manifest_stack_height
  <2>1. op' = "none" /\ pc' = pc /\ manifest_stack_height' = manifest_stack_height
    BY DEF registry_vars, driver
  <2>2. Top'.cmd_exec_state # Loading
    BY <1>4, <1>6 DEF SHARED, Loading
  <2>3. ~AfterLoad'
    BY <1>1, <2>1, <2>2 DEF AfterLoad, Executing
  <2> QED BY <2>1, <2>3 DEF Owed
<1>8. Proofs!RegistryInv'
  BY RegistryMoves DEF PInv
<1>9. WorldOK'
  BY <1>7, WorldSame DEF PInv, world, registry_vars
<1>10. DepthOfTop + 1 \in Nat /\ 0 + (DepthOfTop + 1) = 1 + DepthOfTop + 0
  BY <1>1
<1>11. PInv' /\ Slack' = Slack
  BY <1>2, <1>3, <1>6, <1>7, <1>8, <1>9, <1>10, LevelStep DEF world
<1> QED BY <1>6, <1>11, Here DEF Accounted, KeepsPlace, KeepsChain

\* The dependency, or another manifest of the stack, is released.
LEMMA ReleaseBegins ==
    ASSUME PInv, Running, AtDependency(code, Top), Top.cmd_processor = "run",
           (IsOpen(code, Top) /\ Owed = 0) \/ (~IsOpen(code, Top) /\ Owed = 1),
           NEW e, e = Dependency \/ e = Dependency - 1,
           NEW v \in Retvals, ReleaseDependency(e, v),
           checked' \in [Slot -> DOMAIN envelopes \cup {NoEnvelope}]
    PROVE  PInv' /\ Accounted
<1> DEFINE f == [Top EXCEPT !.cmd_exec_state = Releasing, !.retval = v]
<1>1. StackReady /\ DepthOfTop \in Nat /\ pc \in {"validate"} \cup Executing
  BY InSequence
<1>2. Top \in F
  BY <1>1, ReadyIsTyped
<1>3. e \in Entry /\ e < manifest_stack_height
  <2>1. Height = root + 1 + (1 + DepthOfTop) \/ Height = root + 0 + (1 + DepthOfTop + 1)
    BY InSequence
  <2>2. Height >= 2 /\ Height <= manifest_stack_height
    BY <1>1, <2>1, Here
  <2>3. /\ manifest_stack_height \in Nat /\ manifest_stack_height <= MaxManifests
        /\ Height \in Nat
    BY Here
  <2>4. e = manifest_stack_height - 1 \/ e = manifest_stack_height - 2
    BY <2>3 DEF Dependency
  <2> QED BY <2>2, <2>3, <2>4, SeqExecAssumption DEF Entry
<1>4. /\ op' = "releasing" /\ entry' = e
      /\ UNCHANGED <<components, manifest_stack_height>>
      /\ Registry!BeginRelease(e)
  BY DEF ReleaseDependency, Registry!BeginRelease
<1>5. Proofs!RegistryInv'
  BY <1>3, <1>4, RegistryReleases DEF PInv
<1>6. WorldOK'
  BY <1>4, WorldKept DEF PInv, WorldOK, world, ReleaseDependency
<1>7. /\ f \in F /\ SameOwner(f, Top) /\ f.cmd_exec_state = Releasing
      /\ f.current_command = Top.current_command
  <2>1. Releasing \in Nat
    BY DEF Releasing, SEQ_MAX
  <2> QED BY <1>2, <2>1 DEF F, FrameType, SameOwner
<1>8. Continue(f)
  BY DEF ReleaseDependency
<1> HIDE DEF f
<1>9. InCommand(code, f) /\ AtDependency(code, f) /\ ~IsOpen(code, f)
  <2>1. Releasing \in Nat /\ Releasing <= Releasing /\ Releasing \notin SHARED .. SEQ_MAX + 2
    BY DEF Releasing, SHARED, SEQ_MAX
  <2> QED BY <1>1, <1>7, <2>1, StaysInCommand
<1>10. code' = code
  BY DEF ReleaseDependency, world
<1>11. /\ StackAfter(DepthOfTop + 0) /\ KeepsChain /\ Running' /\ Top' = f
  BY <1>1, <1>7, <1>8, <1>9, <1>10, TurnsStack
<1>12. AwaitsRegistry'
  BY <1>7, <1>9, <1>10, <1>11 DEF AwaitsRegistry, AtCommand, AtDependency, Command
<1>13. ~AfterLoad'
  <2>1. pc' = pc /\ pc # "load"
    BY <1>1 DEF ReleaseDependency, driver, Executing
  <2> QED BY <1>7, <1>11, <2>1 DEF AfterLoad, Loading, Releasing, SEQ_MAX
<1>14. Owed' = 1 /\ DepthOfTop + 0 = DepthOfTop
  BY <1>1, <1>4 DEF Owed
<1>15. 1 + DepthOfTop = Owed + DepthOfTop + (IF IsOpen(code, Top) THEN 1 ELSE 0)
  BY <1>1
<1>16. UNCHANGED <<driver, dry_run, code, manifest_stack_height>>
  BY <1>4, <1>10 DEF ReleaseDependency
<1>17. PInv' /\ Slack' = Slack
  BY <1>1, <1>4, <1>5, <1>6, <1>11, <1>12, <1>13, <1>14, <1>15, <1>16, LevelStep
<1> QED BY <1>11, <1>17, Here DEF Accounted, KeepsPlace, KeepsChain

LEMMA ResumedOpen ==
    ASSUME PInv, NEW name \in DependencyCommands, Resumed(name)
    PROVE  /\ Running /\ op = "none"
           /\ AtDependency(code, Top) /\ Top.cmd_processor = "run"
           /\ IsOpen(code, Top) /\ Owed = 0
           /\ Top.cmd_exec_state \in SHARED .. SEQ_MAX + 2
           /\ Top.retval \in Retvals
           /\ CurrentSlot \in Slot /\ Dependency \in Entry
<1>1. /\ op = "none" /\ On({name}, Run) /\ Top.cmd_exec_state \in SHARED .. SEQ_MAX + 2
  BY DEF Resumed
<1>2. On(DependencyCommands, Run) /\ Running
  BY <1>1 DEF On, At, AtCommand
<1>3. /\ StackReady /\ DepthOfTop \in Nat
      /\ pc \in {"validate"} \cup Executing
      /\ Height = root + Owed + (1 + DepthOfTop + (IF IsOpen(code, Top) THEN 1 ELSE 0))
  BY <1>2, InSequence
<1>4. AtDependency(code, Top) /\ Top.cmd_processor = "run" /\ CurrentSlot \in Slot
  BY <1>2, <1>3, AtDependencyCommand
<1>5. IsOpen(code, Top)
  BY <1>1, <1>4 DEF IsOpen
<1>6. Owed = 0
  <2>1. Top.cmd_exec_state # Loading /\ pc # "load"
    BY <1>1, <1>3 DEF Loading, SHARED, SEQ_MAX, Executing
  <2> QED BY <1>1, <2>1 DEF Owed, AfterLoad
<1>7. Dependency \in Entry
  <2>1. /\ Height <= manifest_stack_height /\ root \in Nat
        /\ manifest_stack_height \in Nat /\ manifest_stack_height <= MaxManifests
    BY Here
  <2> QED BY <1>3, <1>5, <1>6, <2>1, SeqExecAssumption DEF Dependency, Entry
<1>8. Top.retval \in Retvals
  BY <1>3, ReadyIsTyped DEF F, FrameType
<1> QED BY <1>1, <1>2, <1>4, <1>5, <1>6, <1>7, <1>8

LEMMA ReleaseOfTopBegins ==
    ASSUME PInv, NEW name \in DependencyCommands, Resumed(name),
           NEW v \in Retvals, ReleaseDependency(Dependency, v),
           checked' \in [Slot -> DOMAIN envelopes \cup {NoEnvelope}]
    PROVE  PInv' /\ Accounted
<1>1. Running /\ AtDependency(code, Top) /\ Top.cmd_processor = "run"
  BY ResumedOpen
<1>2. (IsOpen(code, Top) /\ Owed = 0) \/ (~IsOpen(code, Top) /\ Owed = 1)
  BY ResumedOpen
<1>3. Dependency = Dependency \/ Dependency = Dependency - 1
  OBVIOUS
<1> QED BY <1>1, <1>2, <1>3, ReleaseBegins

\* What scheduling a sequence of an entry takes and returns.
LEMMA StatusSuccess ==
    ASSUME WorldOK, NEW e \in Entry, NEW n, Status(e, n) = "SUCCESS"
    PROVE  n \in DOMAIN Sequences(e) /\ Sequences(e)[n] \in DOMAIN code
<1>1. n \in DOMAIN Sequences(e) /\ Sequences(e)[n] # Severed
  BY DEF Status
<1>2. envelope[e] \in DOMAIN envelopes \cup {NoEnvelope}
  BY DEF WorldOK
<1>3. CASE envelope[e] = NoEnvelope
  <2>1. DOMAIN Sequences(e) = {}
    BY <1>3 DEF Sequences
  <2> QED BY <1>1, <2>1
<1>4. CASE envelope[e] # NoEnvelope
  <2>1. Sequences(e) = envelopes[envelope[e]].seqs
    BY <1>4 DEF Sequences
  <2>2. IsEnvelope(envelopes[envelope[e]], DOMAIN code, DOMAIN content)
    BY <1>2, <1>4 DEF WorldOK
  <2> QED BY <1>1, <2>1, <2>2 DEF IsEnvelope
<1> QED BY <1>3, <1>4

LEMMA ScheduledResult ==
    ASSUME NEW st, NEW e, NEW n
    PROVE  /\ Scheduled(st, e, n) \in {"ERR_AGAIN", "ERR_OVERFLOW", "ERR_CRASH",
                    "ERR_UNAVAILABLE_COMMAND_SEQ", "ERR_UNAUTHORIZED_COMMAND_SEQ"}
           /\ Scheduled(st, e, n) = "ERR_AGAIN" =>
                 Status(e, n) = "SUCCESS" /\ Len(st) < MaxSeqDepth
<1>1. Status(e, n) \in {"ERR_CRASH", "ERR_UNAVAILABLE_COMMAND_SEQ",
                        "ERR_UNAUTHORIZED_COMMAND_SEQ", "SUCCESS"}
  BY DEF Status
<1>2. Status(e, n) # "ERR_AGAIN"
  BY <1>1
<1> QED BY <1>1, <1>2 DEF Scheduled

LEMMA FirstFrameTyped ==
    ASSUME WorldOK, NEW e \in Entry, NEW n, Status(e, n) = "SUCCESS",
           NEW p \in Run \cup Validate
    PROVE  LET h == NewFrame(Sequences(e)[n], e, FALSE, p, InitSelected(e)) IN
           /\ h \in F /\ h.current_command = 0 /\ h.cmd_exec_state = 0
           /\ h.cmd_processor = p /\ h.manifest = e
<1> DEFINE name == Sequences(e)[n]
           sel  == InitSelected(e)
           h    == NewFrame(name, e, FALSE, p, sel)
<1>1. name \in DOMAIN code
  BY StatusSuccess
<1>2. sel \in SUBSET Nat
  BY DEF InitSelected
<1>3. h = [cmd_seq |-> name, current_command |-> 0, cmd_exec_state |-> 0,
           retval |-> "SUCCESS", soft_failure |-> FALSE, current_component_idx |-> NoIndex,
           current_components |-> sel, current_components_backup |-> {},
           manifest |-> e, cmd_processor |-> p]
  BY DEF NewFrame
<1> HIDE DEF name, sel, h
<1>4. NoIndex \in 0 .. MaxComponents /\ "SUCCESS" \in Retvals
  BY SeqExecAssumption DEF NoIndex, Retvals, Endings
<1>5. /\ h \in F /\ h.current_command = 0 /\ h.cmd_exec_state = 0
      /\ h.cmd_processor = p /\ h.manifest = e
  BY <1>1, <1>2, <1>3, <1>4 DEF F, FrameType
<1> QED BY <1>5 DEF h, name, sel

\* The next sequence of the dependency is scheduled, or cannot be.
LEMMA SchedulingKeeps ==
    ASSUME PInv, Running, op = "none", AtDependency(code, Top), Top.cmd_processor = "run",
           Top.cmd_exec_state \in SHARED .. SEQ_MAX + 1,
           NEW n, NEW p \in Run \cup Validate, NEW v \in Retvals, ScheduleDependency(n, p, v)
    PROVE  PInv' /\ Accounted
<1> DEFINE x == Top.cmd_exec_state + 1
           f == [Top EXCEPT !.cmd_exec_state = x, !.retval = v]
           stack == [seq_stack EXCEPT ![Len(seq_stack)] = f]
           d == Dependency
           h == NewFrame(Sequences(d)[n], d, FALSE, p, InitSelected(d))
<1>1. StackReady /\ DepthOfTop \in Nat /\ pc \in {"validate"} \cup Executing
  BY InSequence
<1>2. Top \in F /\ seq_stack \in Seq(F) /\ Len(seq_stack) \in DOMAIN seq_stack
      /\ Top = seq_stack[Len(seq_stack)]
  BY <1>1, ReadyIsTyped, TopOf DEF StackReady
<1>3. IsOpen(code, Top) /\ Top.cmd_exec_state \notin {Loading, Releasing}
  BY DEF IsOpen, Loading, Releasing, SHARED, SEQ_MAX
<1>4. Owed = 0 /\ pc # "load"
  BY <1>1, <1>3 DEF Owed, AfterLoad, Executing
<1>5. d \in Entry /\ (Slack = 0 => d = root + (DepthOfTop + 1))
  <2>1. /\ Height = root + 0 + (1 + DepthOfTop + 1)
        /\ Height <= manifest_stack_height /\ Height \in Nat /\ root \in Nat
        /\ manifest_stack_height \in Nat /\ manifest_stack_height <= MaxManifests
    BY <1>3, <1>4, InSequence, Here
  <2> QED BY <1>1, <2>1, SeqExecAssumption DEF Dependency, Entry, Slack
<1>6. x \in Nat /\ x <= Releasing /\ x \in SHARED .. SEQ_MAX + 2
      /\ x \notin {0, Loading, Releasing}
  BY DEF Loading, Releasing, SHARED, SEQ_MAX
<1>7. /\ seq_stack' = Pushed(stack, d, n, p)
      /\ seq_ret' = "ERR_AGAIN"
      /\ UNCHANGED <<registry_vars, store, driver, world, dry_run, envelope, content, checked>>
  BY DEF ScheduleDependency
<1> HIDE DEF x
<1>8. /\ f \in F /\ SameOwner(f, Top) /\ f.cmd_exec_state = x
      /\ f.current_command = Top.current_command
  BY <1>2, <1>6 DEF F, FrameType, SameOwner
<1> HIDE DEF f
<1>9. InCommand(code, f) /\ IsOpen(code, f)
  BY <1>1, <1>6, <1>8, StaysInCommand
<1>10. /\ StackAfter(DepthOfTop + 1) /\ Settled /\ Running'
       /\ Slack = 0 => KeepsPlace
  <2>1. code' = code
    BY <1>7 DEF world
  <2>2. CASE Scheduled(stack, d, n) = "ERR_AGAIN"
    <3>1. Status(d, n) = "SUCCESS" /\ Len(stack) < MaxSeqDepth
      BY <2>2, ScheduledResult
    <3>2. Len(seq_stack) < MaxSeqDepth
      BY <1>2, <1>8, <3>1, ExceptSeq
    <3>3. /\ h \in F /\ h.current_command = 0 /\ h.cmd_exec_state = 0
          /\ h.manifest = d
      <4>1. d \in Entry /\ WorldOK
        BY <1>5 DEF PInv
      <4> HIDE DEF d
      <4> QED BY <3>1, <4>1, FirstFrameTyped
    <3>4. seq_stack' = Append(stack, h)
      BY <1>7, <2>2 DEF Pushed
    <3>5. ~AllValidate(seq_stack)
      BY <1>2 DEF AllValidate, Validate
    <3> HIDE DEF h, d
    <3>6. /\ StackAfter(DepthOfTop + 1) /\ Settled /\ Running'
          /\ \A r \in Nat : (Chained(code, seq_stack, r) /\ h.manifest = r + (DepthOfTop + 1))
                               => Chained(code, seq_stack', r)
      BY <1>1, <1>8, <1>9, <2>1, <3>2, <3>3, <3>4, <3>5, DescendsStack
    <3> QED BY <1>5, <3>3, <3>6, Here DEF KeepsPlace
  <2>3. CASE Scheduled(stack, d, n) # "ERR_AGAIN"
    <3>1. Continue(f)
      BY <1>7, <2>3 DEF Pushed, Continue
    <3>2. StackAfter(DepthOfTop + 1) /\ KeepsChain /\ Running' /\ Top' = f
      BY <1>1, <1>8, <1>9, <2>1, <3>1, TurnsStack
    <3>3. Settled
      BY <1>6, <1>8, <3>2 DEF Settled, AwaitsRegistry
    <3> QED BY <3>2, <3>3, Here DEF KeepsPlace, KeepsChain
  <2> QED BY <2>2, <2>3
<1>11. op' = "none" /\ pc' = pc /\ UNCHANGED <<components, manifest_stack_height>>
  BY <1>7 DEF registry_vars, driver
<1>12. Owed' = 0
  BY <1>4, <1>10, <1>11 DEF Owed, AfterLoad, Settled
<1>13. Proofs!RegistryInv'
  BY <1>7, RegistryMoves DEF PInv
<1>14. WorldOK'
  BY <1>7, <1>11, WorldSame DEF PInv, world
<1>15. DepthOfTop + 1 \in Nat /\ 0 + (DepthOfTop + 1) = 0 + DepthOfTop + 1
  BY <1>1
<1>16. PInv' /\ Slack' = Slack
  BY <1>3, <1>4, <1>7, <1>10, <1>11, <1>12, <1>13, <1>14, <1>15, LevelStep DEF world
<1> QED BY <1>10, <1>16 DEF Accounted

\* One command inside a manifest.  Only if it is one that had a dependency loaded
\* and gives up at once, the stack of manifests is left too high.
LEMMA CommandKeeps ==
    ASSUME PInv, RunCommand
    PROVE  /\ PInv'
           /\ ~IsOpen(code, Top) => Accounted
<1>1. /\ op = "none" /\ ~AwaitsRegistry /\ SeqStep
      /\ UNCHANGED <<manifest_stack_height, op, entry, pos, op_ret, handles,
                     driver, envelopes, envelope, checked>>
  BY DEF RunCommand
<1>2. UNCHANGED <<code, manifest_stack, components, dry_run>>
  BY <1>1, StepAsks
<1>3. Running
  BY <1>1, StepRuns
<1>4. StackReady /\ DepthOfTop \in Nat /\ pc \in {"validate"} \cup Executing
      /\ Height = root + Owed + (1 + DepthOfTop + (IF IsOpen(code, Top) THEN 1 ELSE 0))
  BY <1>3, InSequence
<1>5. Owed = 0 /\ pc # "load"
  BY <1>1, <1>4 DEF Owed, AfterLoad, AwaitsRegistry, Executing, Loading
<1>6. /\ StackAfter(DepthOfTop) /\ Settled
      /\ \A r \in Nat : (Chained(code, seq_stack, r) /\ Top.manifest = r + DepthOfTop)
                           => Chained(code, seq_stack', r)
  BY <1>1, <1>4, StepStack
<1>7. UNCHANGED <<driver, dry_run, code, manifest_stack_height>> /\ op' = "none"
  BY <1>1, <1>2
<1>8. Owed' = 0
  <2>1. pc' = pc
    BY <1>1 DEF driver
  <2> QED BY <1>5, <1>6, <1>7, <2>1 DEF Owed, AfterLoad, Settled
<1>9. Proofs!RegistryInv'
  BY <1>1, <1>2, RegistryMoves DEF PInv, registry_vars
<1>10. WorldOK'
  <2>1. content' = content \/ \E x : \E name \in Stored : content' = [content EXCEPT ![x] = name]
    BY DEF RunCommand
  <2> QED BY <1>1, <1>2, <2>1, WorldKept DEF PInv, WorldOK
<1>11. PInv'
  <2>1. FramesOK' /\ ControlOK' /\ Height' = root + 0 + (1 + DepthOfTop)
    BY <1>3, <1>4, <1>6, <1>7, <1>8, SequenceKeeps
  <2>2. Height' <= manifest_stack_height'
    BY <1>4, <1>5, <1>7, <2>1, Here
  <2> QED BY <1>9, <1>10, <2>1, <2>2 DEF PInv
<1>12. ASSUME ~IsOpen(code, Top)
       PROVE  Accounted
  <2>1. 0 + DepthOfTop = Owed + DepthOfTop + 0
    BY <1>4, <1>5
  <2>2. Slack' = Slack
    BY <1>3, <1>4, <1>6, <1>7, <1>8, <1>9, <1>10, <1>12, <2>1, LevelStep
  <2>3. KeepsPlace
    <3> SUFFICES ASSUME Chained(code, seq_stack, root)
                 PROVE  Chained(code, seq_stack', root)
      BY DEF KeepsPlace
    <3>1. Len(seq_stack) \in DOMAIN seq_stack /\ Top = seq_stack[Len(seq_stack)]
      BY <1>3, <1>4, ReadyIsTyped, TopOf
    <3>2. Top.manifest = root + DepthOfTop
      BY <3>1 DEF Chained, DepthOfTop
    <3> QED BY <1>6, <3>2, Here
  <2> QED BY <2>2, <2>3 DEF Accounted
<1> QED BY <1>11, <1>12

LEMMA NotLoadedKeeps ==
    ASSUME PInv, DependencyNotLoaded
    PROVE  PInv' /\ Accounted
<1>1. /\ op = "none" /\ AwaitsRegistry /\ Top.cmd_exec_state = Loading
      /\ op_ret # "SUCCESS" /\ LoadFailed(op_ret)
      /\ UNCHANGED <<registry_vars, store, driver, world, dry_run, envelope, content, checked>>
  BY DEF DependencyNotLoaded
<1>2. Running
  BY <1>1 DEF AwaitsRegistry, AtCommand
<1>3. AtCommand /\ ~IsOpen(code, Top)
  BY <1>1, <1>2, Awaiting
<1>4. /\ Current \in F /\ SameOwner(Current, Top)
      /\ Current.current_command = Top.current_command
  BY <1>2, InSequence, ReadyIsTyped, CurrentOf
<1>5. Owed = 0
  BY <1>1 DEF Owed
<1>6. PICK r \in {"FAIL_CONDITION", op_ret} : Return(Current, r)
  BY <1>1 DEF LoadFailed
<1>7. r \in Retvals
  <2>1. op_ret \in Registry!Results
    BY RegistryTyped DEF PInv
  <2> QED BY <2>1 DEF Retvals, Endings
<1>8. op' = "none" /\ UNCHANGED <<components, manifest_stack_height>>
  BY <1>1 DEF registry_vars
<1>9. Proofs!RegistryInv'
  BY <1>1, RegistryMoves DEF PInv
<1>10. WorldOK'
  BY <1>1, <1>8, WorldSame DEF PInv, world
<1> QED BY <1>1, <1>3, <1>4, <1>5, <1>6, <1>7, <1>8, <1>9, <1>10, ReturnKeeps DEF world

LEMMA ReleasedKeeps ==
    ASSUME PInv, DependencyReleased
    PROVE  PInv' /\ Accounted
<1> DEFINE r == IF Top.retval = "SUCCESS" THEN op_ret ELSE Top.retval
           f == [Top EXCEPT !.retval = r]
<1>1. /\ op = "none" /\ AwaitsRegistry /\ Top.cmd_exec_state = Releasing
      /\ Return(f, r)
      /\ UNCHANGED <<registry_vars, parameters, driver, world, dry_run, envelope, content, checked>>
  BY DEF DependencyReleased
<1>2. Running
  BY <1>1 DEF AwaitsRegistry, AtCommand
<1>3. AtCommand /\ ~IsOpen(code, Top) /\ Top \in F
  BY <1>1, <1>2, Awaiting
<1>4. r \in Retvals
  <2>1. op_ret \in Registry!Results
    BY RegistryTyped DEF PInv
  <2> QED BY <1>3, <2>1 DEF Retvals, F, FrameType
<1> HIDE DEF r
<1>5. /\ f \in F /\ SameOwner(f, Top)
      /\ f.current_command = Top.current_command
  BY <1>3, <1>4 DEF F, FrameType, SameOwner
<1> HIDE DEF f
<1>6. Owed = 0
  <2>1. pc # "load"
    BY <1>2, InSequence DEF Executing
  <2> QED BY <1>1, <2>1 DEF Owed, AfterLoad, Loading, Releasing, SEQ_MAX
<1>7. op' = "none" /\ UNCHANGED <<components, manifest_stack_height>>
  BY <1>1 DEF registry_vars
<1>8. Proofs!RegistryInv'
  BY <1>1, RegistryMoves DEF PInv
<1>9. WorldOK'
  BY <1>1, <1>7, WorldSame DEF PInv, world
<1> QED BY <1>1, <1>3, <1>4, <1>5, <1>6, <1>7, <1>8, <1>9, ReturnKeeps DEF world

\* The results of scheduling a sequence are results a frame may hold.
LEMMA MaskedResults ==
    ASSUME NEW n
    PROVE  /\ Masked(ScheduledDependency(n), n) \in Retvals
           /\ Unmasked(ScheduledDependency(n)) \in Retvals
           /\ Unmasked(MaskUnavailable(ScheduledDependency(n))) \in Retvals
<1>1. ScheduledDependency(n) \in
         {"ERR_AGAIN", "ERR_OVERFLOW", "ERR_CRASH",
          "ERR_UNAVAILABLE_COMMAND_SEQ", "ERR_UNAUTHORIZED_COMMAND_SEQ"}
  BY ScheduledResult DEF ScheduledDependency
<1>2. {"ERR_AGAIN", "ERR_OVERFLOW", "ERR_CRASH", "SUCCESS",
       "ERR_UNAVAILABLE_COMMAND_SEQ", "ERR_UNAUTHORIZED_COMMAND_SEQ"} \subseteq Retvals
  BY DEF Retvals, Endings
<1> QED BY <1>1, <1>2 DEF Masked, Unmasked, MaskUnavailable

\* The steps of the two dependency commands.
DependencyStep ==
    \/ LoadDependency
    \/ DependencyNotLoaded
    \/ LoadedForIntegrity
    \/ \E r \in AuthResults : AuthorizeDependency(r)
    \/ ValidateForIntegrity
    \/ IntegrityFails
    \/ IntegrityHolds
    \/ ValidateForProcess
    \/ ExecuteDependency
    \/ ProcessFails
    \/ \E r \in PlatResults : DependencyCompleted(r)
    \/ DependencyReleased

LEMMA DependencyKeeps ==
    ASSUME PInv, DependencyStep
    PROVE  PInv' /\ Accounted
<1>1. checked \in [Slot -> DOMAIN envelopes \cup {NoEnvelope}]
  BY DEF PInv, WorldOK
<1>2. {"FAIL_CONDITION", "SUCCESS"} \cup AuthResults \cup PlatResults \subseteq Retvals
  BY DEF Retvals, Endings
<1>3. DependencyCommands = {"dependency_integrity", "process_dependency"}
  BY DEF DependencyCommands
<1>4. CASE LoadDependency
  BY <1>4, LoadRefusedKeeps, LoadBegins DEF LoadDependency
<1>5. CASE DependencyNotLoaded
  BY <1>5, NotLoadedKeeps
<1>6. CASE LoadedForIntegrity
  <2>1. Running
    BY <1>6 DEF LoadedForIntegrity, AwaitsRegistry, AtCommand
  <2> QED BY <1>6, <2>1, LoadedKeeps DEF LoadedForIntegrity
<1>7. ASSUME NEW r \in AuthResults, AuthorizeDependency(r)
      PROVE  PInv' /\ Accounted
  <2>1. /\ op = "none" /\ AwaitsRegistry /\ Top.cmd_exec_state = Loading
        /\ op_ret = "SUCCESS" /\ UNCHANGED <<store, checked>>
        /\ IF r = "SUCCESS"
           THEN /\ Continue([Top EXCEPT !.cmd_exec_state = SHARED])
                /\ UNCHANGED <<registry_vars, driver, world, dry_run, envelope, content>>
           ELSE ReleaseDependency(Dependency - 1, r)
    BY <1>7 DEF AuthorizeDependency
  <2>2. Running
    BY <2>1 DEF AwaitsRegistry, AtCommand
  <2>3. CASE r = "SUCCESS"
    BY <2>1, <2>2, <2>3, LoadedKeeps
  <2>4. CASE r # "SUCCESS"
    <3>1. AtDependency(code, Top) /\ Top.cmd_processor = "run" /\ ~IsOpen(code, Top)
      BY <2>1, <2>2, Awaiting
    <3>2. Owed = 1
      BY <2>1, <2>2 DEF Owed, AfterLoad
    <3> DEFINE e == Dependency - 1
    <3>3. ReleaseDependency(e, r) /\ r \in Retvals
      BY <1>2, <2>1, <2>4
    <3>4. checked' = checked
      BY <2>1
    <3> QED BY <1>1, <2>2, <3>1, <3>2, <3>3, <3>4, ReleaseBegins
  <2> QED BY <2>3, <2>4
<1>8. CASE ValidateForIntegrity \/ ValidateForProcess
  <2>1. PICK name \in DependencyCommands : Resumed(name)
    BY <1>3, <1>8 DEF ValidateForIntegrity, ValidateForProcess, ResumedProcess
  <2> DEFINE n == Top.cmd_exec_state
             p == Validator(n)
             v == Masked(ScheduledDependency(n), n)
  <2>2. /\ ScheduleDependency(n, p, v) /\ Top.cmd_exec_state < SEQ_MAX
    BY <1>8 DEF ValidateForIntegrity, ValidateForProcess
  <2>3. p \in Run \cup Validate /\ v \in Retvals
    BY MaskedResults DEF Validator, Validate
  <2> HIDE DEF n, p, v
  <2>4. Top.cmd_exec_state \in SHARED .. SEQ_MAX + 1
    BY <2>1, <2>2, ResumedOpen DEF SHARED, SEQ_MAX
  <2> QED BY <2>1, <2>2, <2>3, <2>4, ResumedOpen, SchedulingKeeps
<1>9. CASE IntegrityFails
  <2>1. Resumed("dependency_integrity") /\ ReleaseDependency(Dependency, "FAIL_CONDITION")
        /\ checked' = checked
    BY <1>9 DEF IntegrityFails
  <2> QED BY <1>1, <1>2, <1>3, <2>1, ReleaseOfTopBegins
<1>10. CASE IntegrityHolds
  <2>1. /\ Resumed("dependency_integrity") /\ ReleaseDependency(Dependency, "SUCCESS")
        /\ checked' = [checked EXCEPT ![CurrentSlot] = envelope[Dependency]]
    BY <1>10 DEF IntegrityHolds
  <2>2. Dependency \in Entry
    BY <1>3, <2>1, ResumedOpen
  <2>3. envelope[Dependency] \in DOMAIN envelopes \cup {NoEnvelope}
    BY <2>2 DEF PInv, WorldOK
  <2>4. checked' \in [Slot -> DOMAIN envelopes \cup {NoEnvelope}]
    BY <1>1, <2>1, <2>3
  <2> QED BY <1>2, <1>3, <2>1, <2>4, ReleaseOfTopBegins
<1>11. CASE ExecuteDependency
  <2>1. Resumed("process_dependency")
    BY <1>11 DEF ExecuteDependency, ResumedProcess
  <2>2. CASE /\ Top.cmd_exec_state = SEQ_MAX
             /\ ScheduleDependency(SHARED, "run", Unmasked(ScheduledDependency(SHARED)))
    <3>1. Top.cmd_exec_state \in SHARED .. SEQ_MAX + 1
      BY <2>2 DEF SHARED, SEQ_MAX
    <3>2. "run" \in Run \cup Validate /\ Unmasked(ScheduledDependency(SHARED)) \in Retvals
      BY MaskedResults DEF Run
    <3> QED BY <1>3, <2>1, <2>2, <3>1, <3>2, ResumedOpen, SchedulingKeeps
  <2>3. CASE /\ Top.cmd_exec_state = SEQ_MAX + 1
             /\ ScheduleDependency(current_seq, "run",
                    Unmasked(MaskUnavailable(ScheduledDependency(current_seq))))
    <3>1. Top.cmd_exec_state \in SHARED .. SEQ_MAX + 1
      BY <2>3 DEF SHARED, SEQ_MAX
    <3>2. "run" \in Run \cup Validate
          /\ Unmasked(MaskUnavailable(ScheduledDependency(current_seq))) \in Retvals
      BY MaskedResults DEF Run
    <3> QED BY <1>3, <2>1, <2>3, <3>1, <3>2, ResumedOpen, SchedulingKeeps
  <2> QED BY <1>11, <2>2, <2>3 DEF ExecuteDependency
<1>12. CASE ProcessFails
  <2> DEFINE v == IF Top.cmd_exec_state = SEQ_MAX + 2 THEN "FAIL_CONDITION" ELSE Top.retval
  <2>1. /\ Resumed("process_dependency") /\ ReleaseDependency(Dependency, v)
        /\ checked' = checked
    BY <1>12 DEF ProcessFails, ResumedProcess
  <2>2. v \in Retvals
    BY <1>2, <1>3, <2>1, ResumedOpen
  <2> HIDE DEF v
  <2> QED BY <1>1, <1>3, <2>1, <2>2, ReleaseOfTopBegins
<1>13. ASSUME NEW r \in PlatResults, DependencyCompleted(r)
       PROVE  PInv' /\ Accounted
  <2>1. /\ Resumed("process_dependency") /\ ReleaseDependency(Dependency, r)
        /\ checked' = checked
    BY <1>13 DEF DependencyCompleted, ResumedProcess
  <2> QED BY <1>1, <1>2, <1>3, <2>1, ReleaseOfTopBegins
<1>14. CASE DependencyReleased
  BY <1>14, ReleasedKeeps
<1> QED BY <1>4, <1>5, <1>6, <1>7, <1>8, <1>9, <1>10, <1>11, <1>12, <1>13, <1>14 DEF DependencyStep

-----------------------------------------------------------------------------
(***************************************************************************)
(* The steps of the driver: it moves on while no sequence is executed.     *)
(***************************************************************************)
Outside == {"idle", "load", "release"}

\* The stack is empty, or holds the first frame of a sequence of the root.
Fresh ==
    /\ FramesOK'
    /\ Depth(code', seq_stack', Len(seq_stack') + 1) = 0
    /\ Settled
    /\ Chained(code, seq_stack', root)

LEMMA NothingRuns ==
    ASSUME PInv, ~Running
    PROVE  /\ seq_stack = <<>>
           /\ Height = root + Owed + (IF pc \in Outside THEN 0 ELSE 1)
           /\ pc # "load" => ~AfterLoad
<1>1. seq_stack = <<>> /\ Len(seq_stack) = 0 /\ seq_stack \in Seq(F)
  BY DEF Running
<1>2. Depth(code, seq_stack, 1) = 0
  BY <1>1, DepthOfFirst
<1>3. Len(seq_stack) + 1 = 1
  BY <1>1
<1>4. Depth(code, seq_stack, Len(seq_stack) + 1) = 0
  BY <1>2, <1>3
<1> QED BY <1>1, <1>4 DEF Height, Outside, AfterLoad

LEMMA StillNothing ==
    ASSUME PInv, ~Running, UNCHANGED <<code, seq_stack>>
    PROVE  Fresh /\ ~Running' /\ AllValidate(seq_stack')
<1>1. seq_stack' = <<>> /\ seq_stack = <<>> /\ Len(seq_stack) = 0 /\ ~Running'
  BY DEF Running
<1>2. /\ seq_stack' \in Seq(F) /\ Len(seq_stack') = 0 /\ Len(seq_stack') + 1 = 1
      /\ DOMAIN seq_stack' = {} /\ 1 .. 0 = {}
  BY <1>1
<1>3. DOMAIN seq_stack' = {}
  BY <1>2
<1>4. FramesOK'
  BY <1>2, SeqExecAssumption, FramesAfter
<1>5. Depth(code, seq_stack', 1) = 0
  BY <1>2, DepthOfFirst
<1>6. Settled /\ Chained(code, seq_stack', root) /\ AllValidate(seq_stack')
  BY <1>1, <1>3 DEF Settled, Chained, AllValidate
<1> QED BY <1>1, <1>2, <1>4, <1>5, <1>6 DEF Fresh

\* A sequence of the root is scheduled, or cannot be.
LEMMA FirstPush ==
    ASSUME PInv, ~Running, root \in Entry, code' = code,
           NEW n, NEW p \in Run \cup Validate, seq_stack' = Pushed(seq_stack, root, n, p)
    PROVE  Fresh /\ (p \in Validate => AllValidate(seq_stack'))
<1> DEFINE h == NewFrame(Sequences(root)[n], root, FALSE, p, InitSelected(root))
<1>1. seq_stack = <<>>
  BY DEF Running
<1>2. CASE Scheduled(seq_stack, root, n) # "ERR_AGAIN"
  BY <1>2, StillNothing DEF Pushed
<1>3. CASE Scheduled(seq_stack, root, n) = "ERR_AGAIN"
  <2>1. Status(root, n) = "SUCCESS"
    BY <1>3, ScheduledResult
  <2>2. /\ h \in F /\ h.current_command = 0 /\ h.cmd_exec_state = 0
        /\ h.cmd_processor = p /\ h.manifest = root
    BY <2>1, FirstFrameTyped DEF PInv
  <2>3. seq_stack' = Append(seq_stack, h)
    BY <1>3 DEF Pushed
  <2> HIDE DEF h
  <2>4. /\ seq_stack' \in Seq(F) /\ Len(seq_stack') = 1 /\ seq_stack'[1] = h
        /\ DOMAIN seq_stack' = 1 .. 1
    <3>1. seq_stack \in Seq(F) /\ Len(seq_stack) = 0
      BY <1>1
    <3>2. /\ seq_stack' \in Seq(F) /\ Len(seq_stack') = 0 + 1 /\ seq_stack'[0 + 1] = h
      BY <2>2, <2>3, <3>1, AppendProperties
    <3> QED BY <3>2, LenProperties
  <2>5. \A k \in 1 .. 1 : k = 1
    OBVIOUS
  <2>6. Running' /\ Top' = h
    BY <2>4, EmptySeq DEF Running, Top
  <2>7. Settled
    BY <2>2, <2>6 DEF Settled, AwaitsRegistry, Loading, Releasing, SEQ_MAX
  <2>8. InCommand(code, h)
    <3>1. h.cmd_seq \in DOMAIN code /\ code[h.cmd_seq] \in Seq(CommandType(DOMAIN code))
      BY <2>2 DEF F, FrameType, PInv, WorldOK, IsProgram
    <3>2. Len(code[h.cmd_seq]) \in Nat
      BY <3>1, LenProperties
    <3> QED BY <2>2, <3>2 DEF InCommand
  <2>9. FramesOK'
    <3>1. Len(seq_stack') <= MaxSeqDepth
      BY <2>4, SeqExecAssumption
    <3> QED BY <2>4, <2>5, <2>8, <3>1, FramesAfter
  <2>10. Depth(code, seq_stack', 1) = 0
    BY <2>4, DepthOfFirst
  <2>11. Depth(code, seq_stack', Len(seq_stack') + 1) = 0
    <3>1. ~IsOpen(code, h)
      BY <2>2 DEF IsOpen, SHARED, SEQ_MAX
    <3>2. 1 \in 1 .. Len(seq_stack')
      BY <2>4
    <3>3. Depth(code, seq_stack', 1 + 1) =
             Depth(code, seq_stack', 1) + (IF IsOpen(code, seq_stack'[1]) THEN 1 ELSE 0)
      BY <2>4, <3>2, DepthOfNext
    <3> QED BY <2>4, <2>10, <3>1, <3>3
  <2>12. Chained(code, seq_stack', root)
    BY <2>2, <2>4, <2>5, <2>10, Here DEF Chained
  <2>13. p \in Validate => AllValidate(seq_stack')
    BY <2>2, <2>4, <2>5 DEF AllValidate
  <2> QED BY <2>7, <2>9, <2>11, <2>12, <2>13 DEF Fresh
<1> QED BY <1>2, <1>3

\* What the driver owes the invariant when it leaves the registry alone.
LEMMA DriverKeeps ==
    ASSUME PInv, ~Running, op = "none", pc # "load", pc' # "load",
           UNCHANGED <<registry_vars, world, envelope, content, checked, root>>,
           Fresh, ControlOK', pc' \in Outside <=> pc \in Outside
    PROVE  PInv' /\ Accounted
<1>1. /\ op' = "none" /\ root' = root /\ code' = code
      /\ UNCHANGED <<components, manifest_stack_height>>
  BY DEF registry_vars, world
<1>2. Proofs!RegistryInv'
  BY RegistryMoves DEF PInv
<1>3. WorldOK'
  BY <1>1, WorldSame DEF PInv, world
<1>4. Owed = 0 /\ Owed' = 0
  BY <1>1, NothingRuns DEF Owed, AfterLoad, Fresh, Settled
<1>5. Height = root + 0 + (IF pc \in Outside THEN 0 ELSE 1)
  BY <1>4, NothingRuns
<1>6. Height' = root + 0 + (IF pc' \in Outside THEN 0 ELSE 1)
  BY <1>1, <1>4, Here DEF Height, Outside, Fresh
<1>7. Height' = Height
  BY <1>5, <1>6
<1>8. PInv' /\ Slack' = Slack
  BY <1>1, <1>2, <1>3, <1>7 DEF PInv, Slack, Fresh
<1> QED BY <1>8 DEF Accounted, KeepsPlace, Fresh

LEMMA ValidateNextKeeps ==
    ASSUME PInv, ValidateNext
    PROVE  PInv' /\ Accounted
<1>1. /\ pc = "validate" /\ op = "none" /\ ~Running /\ seq < SEQ_MAX
      /\ seq_stack' = Pushed(seq_stack, root, seq, Validator(seq))
      /\ seq' = seq + 1
      /\ UNCHANGED <<registry_vars, store, world, dry_run, envelope, content, checked,
                     current_seq, pc, root, ret>>
  BY DEF ValidateNext, AtStep
<1>2. root \in Entry
  BY <1>1 DEF PInv, ControlOK
<1>3. Validator(seq) \in Validate
  BY DEF Validator, Validate
<1>4. Fresh /\ AllValidate(seq_stack')
  BY <1>1, <1>2, <1>3, FirstPush DEF world
<1>5. seq' \in 0 .. SEQ_MAX
  BY <1>1 DEF PInv, ControlOK, SEQ_MAX
<1>6. ControlOK'
  BY <1>1, <1>4, <1>5 DEF PInv, ControlOK, registry_vars, AllValidate, Frames, Executing
<1> QED BY <1>1, <1>4, <1>6, DriverKeeps

LEMMA DryRunBounds ==
    ASSUME PInv
    PROVE  DryRunFrom \in 1 .. SEQ_MAX - 1 \cup {0} /\ DryRunTo \in 1 .. SEQ_MAX - 1
BY DEF PInv, ControlOK, DryRunFrom, DryRunTo, PARSE, CAND_VERIFICATION, PAYLOAD_FETCH, INVOKE, SEQ_MAX

LEMMA ValidationDoneKeeps ==
    ASSUME PInv, ValidationDone
    PROVE  PInv' /\ Accounted
<1>1. /\ pc = "validate" /\ op = "none" /\ ~Running
      /\ \/ pc' = "check" /\ dry_run' = FALSE /\ seq' = seq
         \/ pc' = "dry_next" /\ dry_run' = TRUE /\ seq' = DryRunFrom
      /\ UNCHANGED <<registry_vars, seq_stack, store, world, envelope, content, checked,
                     current_seq, root, ret>>
  BY DEF ValidationDone, AtStep
<1>2. Fresh /\ ~Running'
  BY <1>1, StillNothing DEF world
<1>3. seq' \in 0 .. SEQ_MAX
  BY <1>1, DryRunBounds DEF PInv, ControlOK, SEQ_MAX
<1>4. ControlOK'
  BY <1>1, <1>2, <1>3 DEF PInv, ControlOK, registry_vars, Executing
<1> QED BY <1>1, <1>2, <1>4, DriverKeeps DEF Outside

LEMMA DryRunNextKeeps ==
    ASSUME PInv, DryRunNext
    PROVE  PInv' /\ Accounted
<1>1. /\ pc = "dry_next" /\ op = "none" /\ ~Running /\ seq <= DryRunTo
      /\ UNCHANGED <<registry_vars, store, world, dry_run, envelope, content, checked,
                     current_seq, root, ret>>
  BY DEF DryRunNext, AtStep
<1>2. root \in Entry /\ dry_run = TRUE
  BY <1>1 DEF PInv, ControlOK
<1>3. seq < SEQ_MAX /\ seq + 1 \in 0 .. SEQ_MAX /\ seq \in 0 .. SEQ_MAX
  BY <1>1, DryRunBounds DEF PInv, ControlOK, SEQ_MAX
<1>4. CASE Status(root, seq) = "SUCCESS"
  <2>1. /\ pc' = "dry_shared" /\ seq' = seq
        /\ seq_stack' = Pushed(seq_stack, root, SHARED, "run")
    BY <1>4 DEF DryRunNext
  <2>2. "run" \in Run \cup Validate
    BY DEF Run
  <2>3. Fresh
    BY <1>1, <1>2, <2>1, <2>2, FirstPush DEF world
  <2>4. ControlOK'
    BY <1>1, <1>2, <1>3, <2>1 DEF PInv, ControlOK, registry_vars, Executing
  <2> QED BY <1>1, <2>1, <2>3, <2>4, DriverKeeps DEF Outside
<1>5. CASE Status(root, seq) # "SUCCESS"
  <2>1. /\ \/ pc' = "dry_next" /\ seq' = seq + 1
           \/ pc' = "check" /\ seq' = seq /\ seq_ret' # "SUCCESS"
        /\ seq_stack' = seq_stack
    <3>1. CASE Status(root, seq) = "ERR_UNAVAILABLE_COMMAND_SEQ"
      BY <3>1 DEF DryRunNext
    <3>2. CASE Status(root, seq) # "ERR_UNAVAILABLE_COMMAND_SEQ"
      BY <1>5, <3>2 DEF DryRunNext
    <3> QED BY <3>1, <3>2
  <2>2. Fresh /\ ~Running'
    BY <1>1, <2>1, StillNothing DEF world
  <2>3. seq' \in 0 .. SEQ_MAX
    BY <1>3, <2>1
  <2>4. ControlOK'
    BY <1>1, <1>2, <2>1, <2>2, <2>3 DEF PInv, ControlOK, registry_vars, Executing
  <2> QED BY <1>1, <2>1, <2>2, <2>4, DriverKeeps DEF Outside
<1> QED BY <1>4, <1>5

LEMMA DryRunMainKeeps ==
    ASSUME PInv, DryRunMain
    PROVE  PInv' /\ Accounted
<1>1. /\ pc = "dry_shared" /\ op = "none" /\ ~Running /\ pc' = "dry_main"
      /\ seq_stack' = Pushed(seq_stack, root, seq, "run")
      /\ UNCHANGED <<registry_vars, store, world, dry_run, envelope, content, checked,
                     current_seq, seq, root, ret>>
  BY DEF DryRunMain, AtStep
<1>2. root \in Entry
  BY <1>1 DEF PInv, ControlOK
<1>3. "run" \in Run \cup Validate
  BY DEF Run
<1>4. Fresh
  BY <1>1, <1>2, <1>3, FirstPush DEF world
<1>5. ControlOK'
  BY <1>1 DEF PInv, ControlOK, registry_vars, Executing
<1> QED BY <1>1, <1>4, <1>5, DriverKeeps DEF Outside

LEMMA DryRunRepeatKeeps ==
    ASSUME PInv, DryRunRepeat
    PROVE  PInv' /\ Accounted
<1>1. /\ pc = "dry_main" /\ op = "none" /\ ~Running /\ pc' = "dry_next" /\ seq' = seq + 1
      /\ UNCHANGED <<registry_vars, stacks, store, world, dry_run, envelope, content, checked,
                     current_seq, root, ret>>
  BY DEF DryRunRepeat, AtStep
<1>2. Fresh /\ ~Running'
  BY <1>1, StillNothing DEF world, stacks
<1>3. seq' \in 0 .. SEQ_MAX
  BY <1>1 DEF PInv, ControlOK, SEQ_MAX
<1>4. ControlOK'
  BY <1>1, <1>2, <1>3 DEF PInv, ControlOK, registry_vars, Executing
<1> QED BY <1>1, <1>2, <1>4, DriverKeeps DEF Outside

LEMMA DryRunDoneKeeps ==
    ASSUME PInv, DryRunDone
    PROVE  PInv' /\ Accounted
<1>1. /\ pc \in {"dry_next", "dry_shared", "dry_main"} /\ op = "none" /\ ~Running
      /\ pc' = "check" /\ dry_run' = FALSE
      /\ UNCHANGED <<registry_vars, stacks, store, world, envelope, content, checked,
                     current_seq, seq, root, ret>>
  BY DEF DryRunDone, AtStep
<1>2. Fresh /\ ~Running'
  BY <1>1, StillNothing DEF world, stacks
<1>3. ControlOK'
  BY <1>1, <1>2 DEF PInv, ControlOK, registry_vars, Executing
<1> QED BY <1>1, <1>2, <1>3, DriverKeeps DEF Outside

LEMMA ExecuteKeeps ==
    ASSUME PInv, ExecuteShared \/ ExecuteMain
    PROVE  PInv' /\ Accounted
<1>1. /\ pc \in {"check", "run_shared"} /\ op = "none" /\ ~Running
      /\ pc' \in {"run_shared", "run_main"}
      /\ pc = "check" => seq_ret = "SUCCESS"
      /\ \E n : seq_stack' = Pushed(seq_stack, root, n, "run")
      /\ UNCHANGED <<registry_vars, store, world, dry_run, envelope, content, checked,
                     current_seq, seq, root, ret>>
  BY DEF ExecuteShared, ExecuteMain, AtStep
<1>2. root \in Entry /\ dry_run = FALSE
  BY <1>1 DEF PInv, ControlOK
<1>3. "run" \in Run \cup Validate
  BY DEF Run
<1>4. Fresh
  BY <1>1, <1>2, <1>3, FirstPush DEF world
<1>5. ControlOK'
  BY <1>1, <1>2 DEF PInv, ControlOK, registry_vars, Executing
<1> QED BY <1>1, <1>4, <1>5, DriverKeeps DEF Outside

LEMMA CallReturnsKeeps ==
    ASSUME PInv, CallReturns
    PROVE  PInv' /\ Accounted
<1>1. /\ pc = "release" /\ op = "none" /\ ~Running /\ pc' = "idle"
      /\ UNCHANGED <<registry_vars, stacks, store, world, dry_run, envelope, content, checked,
                     current_seq, seq, root, ret>>
  BY DEF CallReturns, AtStep
<1>2. Fresh /\ ~Running'
  BY <1>1, StillNothing DEF world, stacks
<1>3. ControlOK'
  BY <1>1, <1>2 DEF PInv, ControlOK, registry_vars, Executing
<1> QED BY <1>1, <1>2, <1>3, DriverKeeps DEF Outside

LEMMA LoadEndsKeeps ==
    ASSUME PInv, Loaded
    PROVE  PInv' /\ Accounted
<1>1. /\ pc = "load" /\ op = "none" /\ ~Running
      /\ IF op_ret = "SUCCESS" THEN pc' = "validate" /\ seq' = SHARED
                               ELSE pc' = "idle" /\ seq' = seq
      /\ UNCHANGED <<registry_vars, seq_stack, store, world, dry_run, envelope, content, checked,
                     current_seq, root>>
  BY DEF Loaded, AtStep
<1>2. Fresh /\ ~Running' /\ AllValidate(seq_stack')
  BY <1>1, StillNothing DEF world
<1>3. /\ op' = "none" /\ root' = root /\ code' = code
      /\ UNCHANGED <<components, manifest_stack_height>>
  BY <1>1 DEF registry_vars, world
<1>4. seq' \in 0 .. SEQ_MAX
  BY <1>1 DEF PInv, ControlOK, SHARED, SEQ_MAX
<1>5. ControlOK'
  BY <1>1, <1>2, <1>3, <1>4 DEF PInv, ControlOK, Executing, AllValidate, Frames
<1>6. Proofs!RegistryInv'
  BY <1>1, RegistryMoves DEF PInv
<1>7. WorldOK'
  BY <1>1, <1>3, WorldSame DEF PInv, world
<1>8. Height = root + (IF op_ret = "SUCCESS" THEN 1 ELSE 0)
  BY <1>1, NothingRuns, Here DEF Owed, AfterLoad, Outside
<1>9. Height' = root + (IF op_ret = "SUCCESS" THEN 1 ELSE 0)
  <2>1. Owed' = 0
    BY <1>1, <1>2, <1>3 DEF Owed, AfterLoad
  <2> QED BY <1>1, <1>2, <1>3, <2>1, Here DEF Height, Fresh
<1>10. PInv' /\ Slack' = Slack
  BY <1>2, <1>3, <1>5, <1>6, <1>7, <1>8, <1>9 DEF PInv, Slack, Fresh
<1> QED BY <1>10, <1>2 DEF Accounted, KeepsPlace, Fresh

\* A call starts from wherever the manifest stack is.
LEMMA CallKeeps ==
    ASSUME PInv, NEW n \in Calls, Call(n)
    PROVE  /\ PInv'
           /\ Slack' = 0 /\ Chained(code', seq_stack', root')
           /\ root' = manifest_stack_height
<1>1. /\ pc = "idle" /\ op = "none" /\ ~Running
      /\ current_seq' = n /\ root' = manifest_stack_height
      /\ \/ StartLoad(RootName) /\ pc' = "load"
         \/ Registry!LoadRefused /\ pc' = pc /\ envelope' = envelope
      /\ content' \in [DOMAIN content -> Stored]
      /\ UNCHANGED <<stacks, store, world, dry_run, checked, seq>>
  BY DEF Call, AtStep
<1>2. Fresh /\ ~Running' /\ AllValidate(seq_stack')
  BY <1>1, StillNothing DEF world, stacks
<1>3. /\ manifest_stack_height' = manifest_stack_height /\ code' = code
      /\ components' = components
      /\ \/ op' = "loading" /\ entry' = manifest_stack_height /\ manifest_stack_height \in Entry
         \/ op' = "none"
  <2>1. manifest_stack_height < MaxManifests => manifest_stack_height \in Entry
    BY Here, SeqExecAssumption DEF Entry
  <2> QED BY <1>1, <2>1 DEF StartLoad, Registry!BeginLoad, Registry!LoadRefused, world
<1>4. pc' = "load" <=> op' = "loading"
  BY <1>1 DEF StartLoad, Registry!BeginLoad, Registry!LoadRefused
<1>5. current_seq' \in 0 .. SEQ_MAX - 1
  BY <1>1, ProcessorAssumption DEF SEQ_MAX
<1>6. root' \in 0 .. MaxManifests
  BY <1>1, Here, SeqExecAssumption
<1>7. ControlOK'
  BY <1>1, <1>2, <1>3, <1>4, <1>5, <1>6 DEF PInv, ControlOK, Executing, AllValidate, Frames, AfterLoad
<1>8. Proofs!RegistryInv'
  BY <1>1, RegistryMoves DEF PInv, StartLoad, Loads
<1>9. WorldOK'
  <2>1. DOMAIN content' = DOMAIN content /\ Stored' = Stored
    BY <1>1 DEF Stored, world
  <2>2. /\ envelope' \in [Entry -> DOMAIN envelopes \cup {NoEnvelope}]
        /\ op' = "loading" => envelope'[entry'] \in DOMAIN envelopes
    <3>1. CASE StartLoad(RootName)
      BY <1>3, <1>4, <3>1 DEF PInv, WorldOK, StartLoad, Registry!BeginLoad
    <3>2. CASE Registry!LoadRefused /\ envelope' = envelope
      BY <1>1, <3>2 DEF PInv, WorldOK, Registry!LoadRefused
    <3> QED BY <1>1, <3>1, <3>2
  <2> QED BY <1>1, <1>3, <2>1, <2>2 DEF PInv, WorldOK, world
<1>10. Height' = manifest_stack_height'
  <2>1. Owed' = 0
    BY <1>1, <1>2, <1>3, <1>4 DEF Owed, AfterLoad
  <2>2. pc' \in {"idle", "load"}
    BY <1>1
  <2> QED BY <1>1, <1>3, <2>1, <2>2, Here DEF Height
<1>11. manifest_stack_height' \in Nat
  BY <1>3, Here
<1>12. Chained(code', seq_stack', root')
  <2>1. seq_stack' = <<>>
    BY <1>2 DEF Running
  <2> QED BY <2>1 DEF Chained
<1>13. Slack' = 0 /\ Height' <= manifest_stack_height'
  <2> DEFINE h == manifest_stack_height'
             k == Height'
  <2>1. h \in Nat /\ k = h
    BY <1>10, <1>11
  <2> HIDE DEF h, k
  <2>2. h - k = 0 /\ k <= h
    BY <2>1
  <2> QED BY <2>2 DEF h, k, Slack
<1>14. PInv'
  BY <1>2, <1>7, <1>8, <1>9, <1>13 DEF PInv, Fresh
<1> QED BY <1>1, <1>12, <1>13, <1>14

\* The end of the call, however it went: the root is on the stack still.
LEMMA LeaveKeeps ==
    ASSUME PInv, (\E r \in PlatResults : Completed(r)) \/ GiveUp
    PROVE  /\ PInv' /\ Accounted
           /\ Registry!BeginRelease(root)
           /\ Height = root + 1
<1>1. /\ pc \in {"check", "run_shared", "run_main"} /\ op = "none" /\ ~Running
      /\ pc' = "release" /\ Registry!BeginRelease(root)
      /\ UNCHANGED <<stacks, store, world, dry_run, envelope, content, checked,
                     current_seq, seq, root>>
  BY DEF Completed, GiveUp, AtStep, Leave
<1>2. Fresh /\ ~Running' /\ AllValidate(seq_stack')
  BY <1>1, StillNothing DEF world, stacks
<1>3. /\ op' = "releasing" /\ root' = root /\ code' = code
      /\ UNCHANGED <<components, manifest_stack_height>>
  BY <1>1 DEF Registry!BeginRelease, world
<1>4. ControlOK'
  BY <1>1, <1>2, <1>3 DEF PInv, ControlOK, Executing, AfterLoad
<1>5. Owed = 0
  BY <1>1, NothingRuns DEF Owed
<1>6. Height = root + 1
  BY <1>1, <1>5, NothingRuns, Here DEF Outside
<1>7. Height' = root + 1
  BY <1>1, <1>3, Here DEF Height, Owed
<1>8. root \in Entry /\ root < manifest_stack_height
  BY <1>1, <1>6, Here DEF PInv, ControlOK
<1>9. Proofs!RegistryInv'
  BY <1>1, <1>8, RegistryReleases DEF PInv
<1>10. WorldOK'
  BY <1>1, <1>3, WorldSame DEF PInv, world
<1>11. PInv' /\ Slack' = Slack
  BY <1>2, <1>3, <1>4, <1>6, <1>7, <1>9, <1>10 DEF PInv, Slack, Fresh
<1> QED BY <1>1, <1>2, <1>6, <1>11 DEF Accounted, KeepsPlace, Fresh

-----------------------------------------------------------------------------
(***************************************************************************)
(* The steps of the registry: the stack of frames waits meanwhile.         *)
(***************************************************************************)
\* The slot of a component that is there already.
LEMMA HoldingFirst ==
    ASSUME NEW id, Registry!Holding(id) # {}
    PROVE  Registry!First(Registry!Holding(id)) \in Registry!Holding(id)
<1>1. /\ Registry!Holding(id) = Proofs!Holding(id)
      /\ \A S : Registry!First(S) = Proofs!First(S)
  BY Zenon DEF Registry!Holding, Proofs!Holding, Registry!InUse, Proofs!InUse,
     Registry!Slot, Proofs!Slot, Registry!First, Proofs!First
<1>2. Proofs!Holding(id) \in SUBSET Proofs!Slot /\ Proofs!Holding(id) # {}
  BY <1>1 DEF Proofs!Holding
<1>3. Proofs!First(Proofs!Holding(id)) \in Proofs!Holding(id)
  BY <1>2, Proofs!FirstIsMember, SeqExecAssumption, ProcessorAssumption DEF Proofs!FirstIsMember
<1> QED BY <1>1, <1>3

\* What a step of a load may do.
LoadMoves ==
    /\ entry' = entry
    /\ op' # "releasing"
    /\ \/ op' = "loading" /\ manifest_stack_height' = manifest_stack_height
       \/ /\ op' = "unwinding" /\ op_ret' # "SUCCESS"
          /\ manifest_stack_height' \in {manifest_stack_height, manifest_stack_height + 1}
       \/ /\ op' = "none" /\ op_ret' # "SUCCESS"
          /\ manifest_stack_height' = manifest_stack_height
       \/ /\ op' = "none" /\ op_ret' = "SUCCESS"
          /\ manifest_stack_height' = manifest_stack_height + 1
    /\ \A s \in Slot : components'[s].is_dependency = "true" =>
          \/ /\ components[s].is_dependency = "true"
             /\ components'[s].component_id = components[s].component_id
          \/ components'[s].component_id \in DOMAIN content

\* Where a component of a slot comes from.
LEMMA AppendMoves ==
    ASSUME PInv, op = "loading", NEW id \in ComponentId, NEW dependency \in BOOLEAN,
           dependency => id \in DOMAIN content,
           Registry!AppendComponent(id, dependency)
    PROVE  LoadMoves
<1>0. components \in [Slot -> [component_id  : ComponentId \cup {"none"},
                               ref_count     : Nat,
                               is_dependency : {"unset", "false", "true"}]]
  BY RegistryTyped DEF PInv
<1>1. ASSUME NEW r, r # "SUCCESS", Registry!Unwind(r), UNCHANGED components
      PROVE  LoadMoves
  BY <1>1 DEF LoadMoves, Registry!Unwind
<1>2. CASE Registry!AppendToFullMap \/ Registry!AppendWithoutSlot(id)
  BY <1>1, <1>2 DEF Registry!AppendToFullMap, Registry!AppendWithoutSlot
<1>3. CASE Registry!AppendExisting(id, dependency)
  <2> DEFINE s == Registry!First(Registry!Holding(id))
  <2>1. CASE Registry!OtherKind(s, dependency)
    BY <1>1, <1>3, <2>1 DEF Registry!AppendExisting
  <2>2. CASE ~Registry!OtherKind(s, dependency)
    <3>1. Registry!Appended(s) /\ Registry!Referenced(s, dependency)
      BY <1>3, <2>2 DEF Registry!AppendExisting
    <3>2. s \in Slot /\ components[s].ref_count # 0 /\ components[s].component_id = id
      <4>1. Registry!Holding(id) # {}
        BY <1>3 DEF Registry!AppendExisting
      <4>2. Registry!First(Registry!Holding(id)) \in Registry!Holding(id)
        BY <4>1, HoldingFirst
      <4> QED BY <4>2 DEF Registry!Holding, Registry!InUse, Registry!Slot, Slot
    <3>3. /\ components' = [components EXCEPT ![s].ref_count = @ + 1,
                                             ![s].is_dependency = Registry!suit_bool(dependency)]
          /\ UNCHANGED <<manifest_stack_height, op, entry, pos, op_ret>>
      BY <3>1 DEF Registry!Appended, Registry!Referenced
    <3> HIDE DEF s
    <3>4. \A t \in Slot : /\ components'[t].component_id = components[t].component_id
                          /\ t # s => components'[t].is_dependency = components[t].is_dependency
      BY <1>0, <3>2, <3>3
    <3>5. components'[s].is_dependency = "true" => dependency
      BY <1>0, <3>2, <3>3 DEF Registry!suit_bool
    <3> QED BY <3>2, <3>3, <3>4, <3>5 DEF LoadMoves
  <2> QED BY <2>1, <2>2
<1>4. ASSUME NEW r \in CreateResults, Registry!AppendNew(id, dependency, r)
      PROVE  LoadMoves
  <2> DEFINE s == Registry!First(Registry!Free)
             c == [component_id |-> id, ref_count |-> 1,
                   is_dependency |-> Registry!suit_bool(dependency)]
             e == [Registry!EmptySlot EXCEPT !.component_id = id]
  <2>1. CASE r = "SUCCESS"
    <3>1. Registry!Appended(s) /\ components' = [components EXCEPT ![s] = c]
      BY <1>4, <2>1 DEF Registry!AppendNew
    <3>2. c.component_id = id /\ (c.is_dependency = "true" => dependency)
      BY DEF Registry!suit_bool
    <3> HIDE DEF c, s
    <3>3. \A t \in Slot : components'[t] = c \/ components'[t] = components[t]
      BY <1>0, <3>1
    <3> QED BY <3>1, <3>2, <3>3 DEF LoadMoves, Registry!Appended
  <2>2. CASE r # "SUCCESS"
    <3>1. Registry!Unwind(r) /\ components' = [components EXCEPT ![s] = e]
      BY <1>4, <2>2 DEF Registry!AppendNew
    <3>2. e.is_dependency = "unset"
      BY DEF Registry!EmptySlot
    <3> HIDE DEF e, s
    <3>3. \A t \in Slot : components'[t] = e \/ components'[t] = components[t]
      BY <1>0, <3>1
    <3> QED BY <2>2, <3>1, <3>2, <3>3 DEF LoadMoves, Registry!Unwind
  <2> QED BY <2>1, <2>2
<1> QED BY <1>2, <1>3, <1>4 DEF Registry!AppendComponent

LEMMA LoadStepMoves ==
    ASSUME PInv, LoadStep
    PROVE  Loads /\ LoadMoves
<1> DEFINE list == envelopes[envelope[entry]].components
           n    == Len(manifest_stack[entry])
           c    == list[n + 1]
<1>1. /\ op = "loading"
      /\ \/ \E r \in LoadResults \ {"SUCCESS"} : Registry!LoadRejected(r)
         \/ n < Len(list) /\ c.id \in ComponentId
              /\ Registry!AppendComponent(c.id, c.dependency)
         \/ Registry!AppendUndecodable
         \/ \E r \in LoadResults : Registry!LoadDone(r)
  BY DEF LoadStep
<1>2. CASE \E r \in LoadResults \ {"SUCCESS"} : Registry!LoadRejected(r)
  <2>1. Registry!LoadRejected("ERR_AUTHENTICATION")
    BY <1>2, ProcessorAssumption
  <2> QED BY <2>1 DEF Loads, LoadMoves, Registry!LoadRejected
<1>3. CASE n < Len(list) /\ c.id \in ComponentId
             /\ Registry!AppendComponent(c.id, c.dependency)
  <2>1. /\ list \in Seq([id : ComponentId \cup {"undecodable"}, dependency : BOOLEAN])
        /\ \A k \in DOMAIN list :
              (list[k].dependency /\ list[k].id \in ComponentId) => list[k].id \in DOMAIN content
    BY <1>1 DEF PInv, WorldOK, IsEnvelope
  <2>2. n \in Nat
    <3>1. entry \in Entry /\ Maps
      BY RegistryTyped DEF PInv
    <3> QED BY <3>1, LenProperties DEF Maps
  <2>3. n + 1 \in 1 .. Len(list) /\ n + 1 \in DOMAIN list
    BY <1>3, <2>1, <2>2, LenProperties
  <2> HIDE DEF n, list
  <2>4. c \in [id : ComponentId \cup {"undecodable"}, dependency : BOOLEAN]
    BY <2>1, <2>3, ElementOfSeq
  <2>5. c.dependency \in BOOLEAN /\ (c.dependency => c.id \in DOMAIN content)
    BY <1>3, <2>1, <2>3, <2>4
  <2> HIDE DEF c
  <2> QED BY <1>1, <1>3, <2>5, AppendMoves DEF Loads
<1>4. CASE Registry!AppendUndecodable
  BY <1>4 DEF Loads, LoadMoves, Registry!AppendUndecodable, Registry!Unwind
<1>5. CASE \E r \in LoadResults : Registry!LoadDone(r)
  <2>1. PICK r \in {"SUCCESS", "ERR_AUTHENTICATION"} : Registry!LoadDone(r)
    BY <1>5, ProcessorAssumption
  <2> QED BY <2>1 DEF Loads, LoadMoves, Registry!LoadDone
<1> QED BY <1>1, <1>2, <1>3, <1>4, <1>5

\* What a step of a release may do.
ReleaseMoves ==
    /\ op \in {"unwinding", "releasing"} /\ entry' = entry
    /\ \/ op' = op /\ op_ret' = op_ret /\ manifest_stack_height' = manifest_stack_height
       \/ /\ op' = "none" /\ (op = "unwinding" => op_ret' = op_ret)
          /\ manifest_stack_height' = IF entry < manifest_stack_height
                                      THEN manifest_stack_height - 1 ELSE manifest_stack_height
    /\ \A s \in Slot : components'[s].is_dependency = "true" =>
          /\ components[s].is_dependency = "true"
          /\ components'[s].component_id = components[s].component_id

LEMMA ReleaseStepMoves ==
    ASSUME PInv, Registry!ReleaseStep
    PROVE  ReleaseMoves
<1>0. components \in [Slot -> [component_id  : ComponentId \cup {"none"},
                               ref_count     : Nat,
                               is_dependency : {"unset", "false", "true"}]]
  BY RegistryTyped DEF PInv
<1>1. ASSUME NEW r, Registry!Releasing, Registry!Finish(r), UNCHANGED components
      PROVE  ReleaseMoves
  BY <1>1 DEF ReleaseMoves, Registry!Finish, Registry!Releasing
<1>2. CASE Registry!ReleaseMissing \/ Registry!ReleaseDone
  BY <1>1, <1>2 DEF Registry!ReleaseMissing, Registry!ReleaseDone
<1>3. CASE Registry!ReleaseShared
  <2> DEFINE s == Registry!component_map[pos + 1]
  <2>1. /\ components' = [components EXCEPT ![s].ref_count = @ - 1]
        /\ op \in {"unwinding", "releasing"}
        /\ UNCHANGED <<manifest_stack_height, op, entry, op_ret>>
    BY <1>3 DEF Registry!ReleaseShared, Registry!Releasing
  <2> HIDE DEF s
  <2>2. \A t \in Slot : /\ components'[t].component_id = components[t].component_id
                        /\ components'[t].is_dependency = components[t].is_dependency
    BY <1>0, <2>1
  <2> QED BY <2>1, <2>2 DEF ReleaseMoves
<1>4. ASSUME NEW r, Registry!ReleaseLast(r)
      PROVE  ReleaseMoves
  <2> DEFINE s == Registry!component_map[pos + 1]
  <2>1. CASE r = "SUCCESS"
    <3>1. /\ components' = [components EXCEPT ![s].ref_count = 0, ![s].is_dependency = "unset"]
          /\ op \in {"unwinding", "releasing"}
          /\ UNCHANGED <<manifest_stack_height, op, entry, op_ret>>
      BY <1>4, <2>1 DEF Registry!ReleaseLast, Registry!Releasing
    <3> HIDE DEF s
    <3>2. \A t \in Slot :
             /\ components'[t].component_id = components[t].component_id
             /\ components'[t].is_dependency \in {components[t].is_dependency, "unset"}
      BY <1>0, <3>1
    <3> QED BY <3>1, <3>2 DEF ReleaseMoves
  <2>2. CASE r # "SUCCESS"
    <3>1. Registry!Releasing /\ Registry!Finish(r) /\ UNCHANGED components
      BY <1>4, <2>2 DEF Registry!ReleaseLast
    <3> QED BY <1>1, <3>1
  <2> QED BY <2>1, <2>2
<1> QED BY <1>2, <1>3, <1>4 DEF Registry!ReleaseStep

\* What a step of the registry owes the invariant.
LEMMA RegistryStepKeeps ==
    ASSUME PInv, op # "none", UNCHANGED <<stacks, driver, world, dry_run>>,
           WorldOK', Proofs!RegistryInv',
           op' # "none" => (op' = "releasing" <=> op = "releasing"),
           op' = "unwinding" => op_ret' # "SUCCESS",
           NEW o \in {0, 1}, Owed' = o,
           manifest_stack_height' = manifest_stack_height + o - Owed
    PROVE  PInv' /\ Accounted
<1>1. /\ UNCHANGED <<seq_stack, seq_ret, current_seq, pc, seq, root, ret, dry_run, code>>
  BY DEF stacks, driver, world
<1>2. /\ AfterLoad' <=> AfterLoad
      /\ Running' <=> Running
      /\ AwaitsRegistry' <=> AwaitsRegistry
  BY <1>1 DEF AfterLoad, AwaitsRegistry, AtCommand, Command, Top, Running
<1>3. FramesOK'
  <2>1. seq_stack \in Seq(F) /\ seq_stack' = seq_stack /\ code' = code
    BY <1>1 DEF PInv, FramesOK, F
  <2>2. DOMAIN seq_stack = 1 .. Len(seq_stack)
    BY <2>1, LenProperties
  <2> QED BY <2>1, <2>2, FramesAfter DEF PInv, FramesOK, Frames
<1>4. ControlOK'
  BY <1>1, <1>2 DEF PInv, ControlOK, Frames
<1> DEFINE d == IF pc \in Outside THEN 0 ELSE 1 + Depth(code, seq_stack, Len(seq_stack) + 1)
           k == Height'
           h == manifest_stack_height'
<1>5. Height = root + Owed + d /\ k = root + o + d
  BY <1>1 DEF Height, Outside
<1>6. /\ d \in Nat /\ root \in Nat /\ Owed \in Nat /\ o \in Nat
      /\ manifest_stack_height \in Nat /\ Height <= manifest_stack_height
      /\ h = manifest_stack_height + o - Owed
  BY Here
<1> HIDE DEF d, k, h
<1>7. k <= h /\ h - k = manifest_stack_height - Height
  BY <1>5, <1>6
<1>8. PInv' /\ Slack' = Slack
  BY <1>3, <1>4, <1>7 DEF PInv, Slack, k, h
<1> QED BY <1>1, <1>8 DEF Accounted, KeepsPlace

LEMMA LoadStepKeeps ==
    ASSUME PInv, LoadStep
    PROVE  PInv' /\ Accounted
<1>1. /\ op = "loading"
      /\ \E S : Wiped(S)
      /\ UNCHANGED <<stacks, driver, world, dry_run, envelope, content>>
  BY DEF LoadStep
<1>2. Loads /\ LoadMoves
  BY LoadStepMoves
<1>3. Proofs!RegistryInv'
  BY <1>2, RegistryMoves DEF PInv
<1>4. WorldOK'
  <2>1. checked' \in [Slot -> DOMAIN envelopes \cup {NoEnvelope}]
    BY <1>1 DEF Wiped, PInv, WorldOK
  <2>2. /\ code' = code /\ envelopes' = envelopes /\ envelope' = envelope /\ content' = content
        /\ Stored' = Stored
    BY <1>1 DEF world, Stored
  <2>3. \A s \in Slot : components'[s].is_dependency = "true"
                           => components'[s].component_id \in DOMAIN content'
    BY <1>2, <2>2 DEF LoadMoves, PInv, WorldOK
  <2>4. op' = "loading" => envelope'[entry'] \in DOMAIN envelopes'
    BY <1>1, <1>2, <2>2 DEF LoadMoves, PInv, WorldOK
  <2> QED BY <2>1, <2>2, <2>3, <2>4 DEF PInv, WorldOK
<1>5. AfterLoad /\ Owed = 0 /\ entry = manifest_stack_height
  BY <1>1, RegistryTyped DEF PInv, ControlOK, Owed
<1>6. AfterLoad'
  BY <1>1, <1>5 DEF AfterLoad, AwaitsRegistry, AtCommand, Command, Top, Running, stacks, driver, world
<1>7. manifest_stack_height \in Nat
  BY Here
<1>8. PICK o \in {0, 1} : Owed' = o /\ manifest_stack_height' = manifest_stack_height + o
  <2>1. CASE op' = "loading" /\ manifest_stack_height' = manifest_stack_height
    BY <1>7, <2>1 DEF Owed
  <2>2. CASE op' = "unwinding" /\ manifest_stack_height' = manifest_stack_height
    BY <1>2, <1>5, <1>7, <2>2 DEF Owed, LoadMoves
  <2>3. CASE op' = "unwinding" /\ manifest_stack_height' = manifest_stack_height + 1
    BY <1>2, <1>5, <1>7, <2>3 DEF Owed, LoadMoves
  <2>4. CASE op' = "none" /\ op_ret' # "SUCCESS" /\ manifest_stack_height' = manifest_stack_height
    BY <1>7, <2>4 DEF Owed
  <2>5. CASE op' = "none" /\ op_ret' = "SUCCESS"
             /\ manifest_stack_height' = manifest_stack_height + 1
    BY <1>6, <1>7, <2>5 DEF Owed
  <2> QED BY <1>2, <2>1, <2>2, <2>3, <2>4, <2>5 DEF LoadMoves
<1>9. manifest_stack_height' = manifest_stack_height + o - Owed
  BY <1>5, <1>7, <1>8
<1>10. /\ op' # "none" => (op' = "releasing" <=> op = "releasing")
       /\ op' = "unwinding" => op_ret' # "SUCCESS"
  BY <1>1, <1>2 DEF LoadMoves
<1> QED BY <1>1, <1>3, <1>4, <1>8, <1>9, <1>10, RegistryStepKeeps

LEMMA ReleaseStepKeeps ==
    ASSUME PInv, ReleaseStep
    PROVE  PInv' /\ Accounted
<1>1. /\ Registry!ReleaseStep
      /\ UNCHANGED <<stacks, driver, world, dry_run, content, checked>>
      /\ envelope' = [envelope EXCEPT ![entry] = NoEnvelope] \/ envelope' = envelope
  BY DEF ReleaseStep
<1>2. ReleaseMoves
  BY <1>1, ReleaseStepMoves
<1>3. Proofs!RegistryInv'
  BY <1>1, RegistryMoves DEF PInv
<1>4. WorldOK'
  <2>1. envelope' \in [Entry -> DOMAIN envelopes \cup {NoEnvelope}]
    BY <1>1 DEF PInv, WorldOK
  <2>2. /\ code' = code /\ envelopes' = envelopes /\ checked' = checked /\ content' = content
        /\ Stored' = Stored
    BY <1>1 DEF world, Stored
  <2>3. \A s \in Slot : components'[s].is_dependency = "true"
                           => components'[s].component_id \in DOMAIN content'
    BY <1>2, <2>2 DEF ReleaseMoves, PInv, WorldOK
  <2>4. op' # "loading"
    BY <1>2 DEF ReleaseMoves
  <2> QED BY <2>1, <2>2, <2>3, <2>4 DEF PInv, WorldOK
<1>5. /\ op = "releasing" => entry < manifest_stack_height /\ ~AfterLoad
      /\ op = "unwinding" => op_ret # "SUCCESS"
      /\ op \in {"unwinding", "releasing"}
  BY <1>2, RegistryTyped DEF PInv, ControlOK, ReleaseMoves
<1>6. AfterLoad' <=> AfterLoad
  BY <1>1 DEF AfterLoad, AwaitsRegistry, AtCommand, Command, Top, Running, stacks, driver, world
<1>7. manifest_stack_height \in Nat /\ Owed \in {0, 1}
  BY Here
<1>8. PICK o \in {0, 1} : Owed' = o /\ manifest_stack_height' = manifest_stack_height + o - Owed
  <2>1. CASE op' = op /\ op_ret' = op_ret /\ manifest_stack_height' = manifest_stack_height
    <3>1. Owed' = Owed
      BY <1>2, <1>5, <2>1 DEF Owed, ReleaseMoves
    <3> QED BY <1>7, <2>1, <3>1
  <2>2. CASE op' = "none"
    <3>1. Owed' = 0
      BY <1>2, <1>5, <1>6, <2>2 DEF Owed, ReleaseMoves
    <3>2. Owed = IF entry < manifest_stack_height THEN 1 ELSE 0
      BY <1>5 DEF Owed
    <3>3. manifest_stack_height' = IF entry < manifest_stack_height
                                   THEN manifest_stack_height - 1 ELSE manifest_stack_height
      BY <1>2, <1>5, <2>2 DEF ReleaseMoves
    <3> QED BY <1>7, <3>1, <3>2, <3>3
  <2> QED BY <1>2, <2>1, <2>2 DEF ReleaseMoves
<1>9. /\ op' # "none" => (op' = "releasing" <=> op = "releasing")
      /\ op' = "unwinding" => op_ret' # "SUCCESS"
      /\ op # "none"
  BY <1>2, <1>5 DEF ReleaseMoves
<1> QED BY <1>1, <1>3, <1>4, <1>8, <1>9, RegistryStepKeeps

-----------------------------------------------------------------------------
(***************************************************************************)
(* The invariant, and what follows from it alone.                          *)
(***************************************************************************)
LEMMA InitPInv == Init => PInv /\ Slack = 0 /\ Chained(code, seq_stack, root) /\ root = 0
<1> SUFFICES ASSUME Init
             PROVE  PInv /\ Slack = 0 /\ Chained(code, seq_stack, root) /\ root = 0
  OBVIOUS
<1>1. PICK w \in Worlds : envelopes = w.envelopes /\ code = w.code /\ content = w.content
  BY DEF Init
<1>2. /\ components = [s \in Slot |-> Registry!EmptySlot]
      /\ manifest_stack_height = 0 /\ op = "none" /\ op_ret = "none"
      /\ Proofs!Init
  <2>1. Registry!Slot = Slot
    BY DEF Registry!Slot, Slot
  <2>2. Registry!Init
    BY DEF Init
  <2>3. Proofs!Init
    BY <2>2 DEF Registry!Init, Proofs!Init, Registry!Slot, Proofs!Slot, Registry!Entry,
       Proofs!Entry, Registry!EmptySlot, Proofs!EmptySlot, Registry!NoId, Proofs!NoId
  <2> QED BY <2>1, <2>2, <2>3 DEF Registry!Init
<1>3. /\ envelope = [e \in Entry |-> NoEnvelope] /\ checked = [s \in Slot |-> NoEnvelope]
      /\ seq_stack = <<>> /\ dry_run = FALSE /\ current_seq = 0 /\ pc = "idle"
      /\ seq = 0 /\ root = 0
  BY DEF Init
<1>4. Proofs!RegistryInv
  <2>1. DependencyDenied \in BOOLEAN
    BY ProcessorAssumption
  <2> QED BY <1>2, <2>1, Proofs!InitInv, SeqExecAssumption DEF Proofs!InitInv
<1>5. WorldOK
  <2>1. /\ IsProgram(code)
        /\ RootName \in DOMAIN envelopes
        /\ \A name \in DOMAIN envelopes :
              IsEnvelope(envelopes[name], DOMAIN code, DOMAIN content)
        /\ content \in [DOMAIN content -> Stored]
    BY <1>1, WorldsAssumption DEF Stored
  <2>2. \A s \in Slot : components[s].is_dependency # "true"
    BY <1>2 DEF Registry!EmptySlot
  <2> QED BY <1>2, <1>3, <2>1, <2>2 DEF WorldOK
<1>6. Len(seq_stack) = 0 /\ DOMAIN seq_stack = {} /\ seq_stack \in Seq(FrameType(Retvals)) /\ ~Running
  BY <1>3 DEF Running
<1>7. FramesOK
  BY <1>6, SeqExecAssumption DEF FramesOK, Frames
<1>8. ControlOK
  <2>1. 0 \in 0 .. SEQ_MAX - 1 /\ 0 \in 0 .. SEQ_MAX /\ 0 \in 0 .. MaxManifests
    BY SeqExecAssumption DEF SEQ_MAX
  <2> QED BY <1>2, <1>3, <1>6, <2>1 DEF ControlOK, Executing
<1>9. Height = 0
  BY <1>2, <1>3, <1>6 DEF Height, Owed, AfterLoad
<1>10. PInv /\ Slack = 0
  BY <1>2, <1>4, <1>5, <1>7, <1>8, <1>9 DEF PInv, Slack
<1> QED BY <1>3, <1>6, <1>10 DEF Chained

\* Every step but the start of a call, and but a dependency command that gives up
\* its dependency, leaves the two stacks as far apart as they are.
LEMMA StepKeeps ==
    ASSUME PInv, Step
    PROVE  /\ PInv'
           /\ (RunCommand => ~IsOpen(code, Top)) => Accounted
<1>1. CASE RunCommand
  BY <1>1, CommandKeeps
<1>2. CASE DependencyStep
  BY <1>2, DependencyKeeps
<1>3. CASE LoadStep \/ ReleaseStep \/ Loaded
  BY <1>3, LoadStepKeeps, ReleaseStepKeeps, LoadEndsKeeps
<1>4. CASE ValidateNext \/ ValidationDone \/ DryRunNext \/ DryRunMain \/ DryRunRepeat \/ DryRunDone
  BY <1>4, ValidateNextKeeps, ValidationDoneKeeps, DryRunNextKeeps, DryRunMainKeeps,
     DryRunRepeatKeeps, DryRunDoneKeeps
<1>5. CASE ExecuteShared \/ ExecuteMain \/ (\E r \in PlatResults : Completed(r)) \/ GiveUp \/ CallReturns
  BY <1>5, ExecuteKeeps, LeaveKeeps, CallReturnsKeeps
<1> QED BY <1>1, <1>2, <1>3, <1>4, <1>5 DEF Step, DependencyStep

LEMMA StutterKeeps ==
    ASSUME PInv, UNCHANGED vars
    PROVE  PInv' /\ Accounted
<1>1. UNCHANGED <<registry_vars, stacks, store, driver, world, dry_run, call, envelope, content, checked>>
  BY DEF vars
<1>2. Proofs!RegistryInv'
  BY <1>1, RegistryMoves DEF PInv
<1>3. /\ UNCHANGED <<seq_stack, seq_ret, current_seq, pc, seq, root, ret, dry_run, code, envelopes,
                     manifest_stack_height, op, entry, op_ret, components, envelope, content, checked>>
  BY <1>1 DEF registry_vars, stacks, driver, world
<1>4. Height' = Height /\ FramesOK' /\ ControlOK' /\ WorldOK'
  <2>1. AfterLoad' <=> AfterLoad
    BY <1>3 DEF AfterLoad, AwaitsRegistry, AtCommand, Command, Top, Running
  <2>2. Height' = Height
    BY <1>3, <2>1 DEF Height, Owed
  <2>3. FramesOK'
    <3>1. seq_stack \in Seq(F) /\ seq_stack' = seq_stack /\ code' = code
      BY <1>3 DEF PInv, FramesOK, F
    <3>2. DOMAIN seq_stack = 1 .. Len(seq_stack)
      BY <3>1, LenProperties
    <3> QED BY <3>1, <3>2, FramesAfter DEF PInv, FramesOK, Frames
  <2>4. ControlOK'
    BY <1>3, <2>1 DEF PInv, ControlOK, Frames, Running, AwaitsRegistry, AtCommand, Command, Top
  <2>5. WorldOK'
    BY <1>3 DEF PInv, WorldOK, Stored
  <2> QED BY <2>2, <2>3, <2>4, <2>5
<1> QED BY <1>2, <1>3, <1>4 DEF PInv, Accounted, Slack, KeepsPlace

(***************************************************************************)
(* Whatever the manifests contain and the platform answers, the variables  *)
(* of suit_process_sequence, the stack of frames, the registry and the     *)
(* world fit together, and the stack of manifests is never lower than the  *)
(* commands that wait for a dependency need it to be.                      *)
(***************************************************************************)
THEOREM ProcessorInvariant == Spec => []PInv
<1>1. Init => PInv
  BY InitPInv
<1>2. PInv /\ [Next]_vars => PInv'
  BY StepKeeps, StutterKeeps, CallKeeps DEF Next
<1> QED BY <1>1, <1>2, PTL DEF Spec

(***************************************************************************)
(* Every frame runs a sequence of the program in a manifest, stands at one *)
(* of its commands, and a dependency command counts no further than it has *)
(* sequences; the driver works on an entry of the manifest stack.          *)
(***************************************************************************)
THEOREM TypeCorrect == Spec => []TypeOK
<1>1. PInv => TypeOK
  <2> SUFFICES ASSUME PInv PROVE TypeOK
    OBVIOUS
  <2>1. Registry!TypeOK
    BY DEF PInv, Proofs!RegistryInv, Proofs!TypeOK, Registry!TypeOK, Proofs!Slot, Registry!Slot,
       Proofs!Entry, Registry!Entry, Proofs!SlotState, Registry!SlotState, Proofs!NoId, Registry!NoId,
       Proofs!Results, Registry!Results
  <2>2. ASSUME NEW k \in Frames
        PROVE  LET f == seq_stack[k] IN
               /\ f.cmd_seq \in DOMAIN code
               /\ f.current_command \in 0 .. Len(code[f.cmd_seq])
               /\ f.cmd_exec_state \in Nat
               /\ (/\ f.current_command < Len(code[f.cmd_seq])
                   /\ Command(f).op \in DependencyCommands) => f.cmd_exec_state <= Releasing
               /\ f.soft_failure \in BOOLEAN
               /\ f.manifest \in Entry
    <3> DEFINE f == seq_stack[k]
    <3>1. seq_stack \in Seq(F) /\ InCommand(code, f)
      BY <2>2 DEF PInv, FramesOK, F
    <3>2. f \in F
      <4>1. k \in 1 .. Len(seq_stack)
        BY <2>2, <3>1, LenProperties DEF Frames
      <4> QED BY <3>1, <4>1, ElementOfSeq
    <3> HIDE DEF f
    <3>3. /\ f.cmd_seq \in DOMAIN code /\ f.current_command \in Nat /\ f.cmd_exec_state \in Nat
          /\ f.soft_failure \in BOOLEAN /\ f.manifest \in Entry
      BY <3>2 DEF F, FrameType
    <3>4. Len(code[f.cmd_seq]) \in Nat
      <4>1. code[f.cmd_seq] \in Seq(CommandType(DOMAIN code))
        BY <3>3 DEF PInv, WorldOK, IsProgram
      <4> QED BY <4>1, LenProperties
    <3>5. f.current_command \in 0 .. Len(code[f.cmd_seq])
      BY <3>1, <3>3, <3>4 DEF InCommand
    <3>6. (/\ f.current_command < Len(code[f.cmd_seq])
           /\ Command(f).op \in DependencyCommands) => f.cmd_exec_state <= Releasing
      BY <3>1 DEF InCommand, AtDependency, Command, Releasing, SEQ_MAX
    <3> QED BY <3>3, <3>5, <3>6 DEF f
  <2> QED BY <2>1, <2>2 DEF TypeOK, PInv, ControlOK, FramesOK, WorldOK, Executing
<1> QED BY <1>1, ProcessorInvariant, PTL

(***************************************************************************)
(* The platform rehearses exactly while the dry run executes: validation   *)
(* calls nobody, and every frame that executes hands dry_run on.           *)
(***************************************************************************)
THEOREM RehearsesInDryRun == Spec => RehearsedOnlyInDryRun
<1> DEFINE A == call'.call # "none" => (call'.dry_run <=> pc \in {"dry_shared", "dry_main"})
<1>1. PInv /\ [Next]_vars => [A]_vars
  <2> SUFFICES ASSUME PInv, Next, call'.call # "none"
               PROVE  call'.dry_run <=> pc \in {"dry_shared", "dry_main"}
    OBVIOUS
  <2>0. call' # NoCall
    BY DEF NoCall
  <2>1. ASSUME Running, Top.cmd_processor \in Run, call'.dry_run = dry_run
        PROVE  call'.dry_run <=> pc \in {"dry_shared", "dry_main"}
    <3>1. pc \in {"validate"} \cup Executing
      BY <2>1, InSequence
    <3>2. pc # "validate"
      <4>1. Len(seq_stack) \in Frames
        BY <2>1, InSequence, ReadyIsTyped, TopOf DEF Frames
      <4> QED BY <2>1, <4>1 DEF PInv, ControlOK, Top, Run, Validate
    <3> QED BY <2>1, <3>1, <3>2 DEF PInv, ControlOK, Executing
  <2>2. CASE RunCommand
    <3>1. Running /\ Asks
      BY <2>2, StepRuns, StepAsks DEF RunCommand
    <3> QED BY <2>0, <2>1, <3>1 DEF Asks
  <2>3. CASE LoadDependency
    <3>1. ToLoad /\ Called("retrieve_manifest", "SUCCESS")
      BY <2>3 DEF LoadDependency
    <3>2. Running /\ Top.cmd_processor \in Run /\ call'.dry_run = dry_run
      BY <3>1 DEF ToLoad, On, At, AtCommand, Called
    <3> QED BY <2>1, <3>2
  <2>4. ASSUME NEW r, AuthorizeDependency(r)
        PROVE  call'.dry_run <=> pc \in {"dry_shared", "dry_main"}
    <3>1. AwaitsRegistry /\ call'.dry_run = dry_run
      BY <2>4 DEF AuthorizeDependency, Called
    <3>2. Running /\ Top.cmd_processor = "run"
      BY <3>1, Awaiting DEF AwaitsRegistry, AtCommand
    <3> QED BY <2>1, <3>1, <3>2 DEF Run
  <2>5. ASSUME NEW r, DependencyCompleted(r)
        PROVE  call'.dry_run <=> pc \in {"dry_shared", "dry_main"}
    <3>1. Resumed("process_dependency") /\ call'.dry_run = dry_run
      BY <2>5 DEF DependencyCompleted, ResumedProcess, Called
    <3>2. Running /\ Top.cmd_processor \in Run
      BY <3>1 DEF Resumed, On, At, AtCommand
    <3> QED BY <2>1, <3>1, <3>2
  <2>6. ASSUME NEW r, Completed(r)
        PROVE  call'.dry_run <=> pc \in {"dry_shared", "dry_main"}
    <3>1. pc = "run_main" /\ call'.dry_run = dry_run
      BY <2>6 DEF Completed, AtStep, NoCall
    <3> QED BY <3>1 DEF PInv, ControlOK
  <2>7. CASE \/ LoadStep \/ ReleaseStep \/ Loaded \/ ValidateNext \/ ValidationDone \/ DryRunNext
             \/ DryRunMain \/ DryRunRepeat \/ DryRunDone \/ ExecuteShared \/ ExecuteMain
             \/ GiveUp \/ CallReturns \/ \E n \in Calls : Call(n)
    BY <2>0, <2>7 DEF LoadStep, ReleaseStep, Loaded, ValidateNext, ValidationDone, DryRunNext,
       DryRunMain, DryRunRepeat, DryRunDone, ExecuteShared, ExecuteMain, GiveUp, CallReturns, Call
  <2>8. CASE \/ DependencyNotLoaded \/ LoadedForIntegrity \/ ValidateForIntegrity \/ IntegrityFails
             \/ IntegrityHolds \/ ValidateForProcess \/ ExecuteDependency \/ ProcessFails
             \/ DependencyReleased
    BY <2>0, <2>8 DEF DependencyNotLoaded, LoadedForIntegrity, ValidateForIntegrity, IntegrityFails,
       IntegrityHolds, ValidateForProcess, ExecuteDependency, ProcessFails, DependencyReleased,
       ScheduleDependency
  <2> QED BY <2>2, <2>3, <2>4, <2>5, <2>6, <2>7, <2>8 DEF Next, Step
<1> QED BY <1>1, ProcessorInvariant, PTL DEF Spec, RehearsedOnlyInDryRun

-----------------------------------------------------------------------------
(***************************************************************************)
(* What follows when the dependency commands are resumed in place.         *)
(***************************************************************************)
\* A dependency command that is resumed in place is none of the commands that stay
\* inside their manifest.
LEMMA InPlaceIsNoCommand ==
    ASSUME PInv, ResumedInPlace, RunCommand
    PROVE  ~IsOpen(code, Top)
<1> SUFFICES ASSUME IsOpen(code, Top) PROVE FALSE
  OBVIOUS
<1>1. op = "none" /\ SeqStep /\ Running
  BY StepRuns DEF RunCommand
<1>2. StackReady /\ Len(seq_stack) \in DOMAIN seq_stack
  BY <1>1, InSequence, ReadyIsTyped, TopOf
<1>3. Len(seq_stack) \in Open
  BY <1>2 DEF Open, Frames, IsOpen, AtDependency, Command, Top
<1>4. \/ Resumed("dependency_integrity") /\ ~dry_run
      \/ Resumed("process_dependency") /\ integrity_checked[CurrentSlot]
  BY <1>1, <1>3 DEF ResumedInPlace, ResumedProcess
<1>5. /\ AtCommand /\ ~MissingSetIndex /\ Command(Top).op \in DependencyCommands
      /\ Top.cmd_processor = "run" /\ Current.current_component_idx \in Indexes(Current)
      /\ IsDependency(CurrentSlot) /\ Top.cmd_exec_state # 0
      /\ Command(Top).op = "dependency_integrity" => ~dry_run
      /\ Command(Top).op = "process_dependency" => integrity_checked[CurrentSlot]
  BY <1>4 DEF Resumed, On, At, Run, DependencyCommands, SHARED
<1>6. Current.current_component_idx # NoIndex
  <2>1. Current.manifest \in Entry
    BY <1>2, ReadyIsTyped, CurrentOf, <1>1 DEF F, FrameType
  <2>2. Indexes(Current) \subseteq 0 .. MaxComponents - 1
    <3>1. /\ manifest_stack[Current.manifest] \in Seq(Slot)
          /\ Len(manifest_stack[Current.manifest]) <= MaxComponents
      BY <1>2, <2>1 DEF StackReady, Maps
    <3> QED BY <3>1, LenProperties, SeqExecAssumption DEF Indexes
  <2> QED BY <1>5, <2>2, SeqExecAssumption DEF NoIndex
<1>7. ~(EndOfSequence \/ RejectCommand \/ SkipCommand \/ ComponentGone)
  <2>1. Len(code[Top.cmd_seq]) \in Nat /\ Top.current_command \in Nat
    BY <1>2, <1>5, ReadyIsTyped, CommandOf DEF AtCommand, Typed
  <2>2. ~EndOfSequence
    BY <1>5, <2>1 DEF EndOfSequence, AtCommand
  <2> QED BY <1>5, <1>6, <2>2 DEF RejectCommand, SkipCommand, ComponentGone, DependencyCommands
<1>8. ~(SetComponentIndex \/ TryEach \/ RunSequence \/ ValidateCommand \/ ValidateOverride)
  BY <1>5 DEF SetComponentIndex, TryEach, RunSequence, ValidateCommand, ValidateOverride,
     On, At, Validate, DependencyCommands
<1>9. ~(ParameterMissing \/ ParameterMalformed \/ AssumeCondition \/ Abort \/ ConditionIsDependency
        \/ Override)
  <2>1. DOMAIN Required \cap DependencyCommands = {}
    BY DEF Required, DependencyCommands
  <2> QED BY <1>5, <2>1 DEF ParameterMissing, ParameterMalformed, AssumeCondition, Abort,
             ConditionIsDependency, Override, Ready, On, At, Checks, DependencyCommands
<1>10. /\ \A r : ~(CheckCondition(r) \/ Perform(r) \/ SetParameters(r) \/ RetrieveFails(r))
       /\ \A i, r : ~OverrideSizeFails(i, r)
  BY <1>5 DEF CheckCondition, Perform, SetParameters, RetrieveFails, OverrideSizeFails, ToLoad,
     Ready, On, At, Checks, Effects, DependencyCommands
<1>11. ~(DependencyIntegrityRefused \/ ProcessDependencyRefused)
  BY <1>5 DEF DependencyIntegrityRefused, ProcessDependencyRefused, On, At
<1> QED BY <1>1, <1>7, <1>8, <1>9, <1>10, <1>11 DEF SeqStep

LEMMA InStepMeans == InStep <=> (manifest_stack_height = Height
                                 /\ Chained(code, seq_stack, root) /\ root = 0)
BY DEF InStep, Chained, Frames

\* Only Call(n) changes the root.
LEMMA RootStays ==
    ASSUME Step \/ UNCHANGED vars
    PROVE  root' = root /\ code' = code
<1>1. CASE \/ LoadStep \/ ReleaseStep \/ Loaded \/ ValidateNext \/ ValidationDone \/ DryRunNext
           \/ DryRunMain \/ DryRunRepeat \/ DryRunDone \/ ExecuteShared \/ ExecuteMain
           \/ (\E r \in PlatResults : Completed(r)) \/ GiveUp \/ CallReturns
  BY <1>1 DEF LoadStep, ReleaseStep, Loaded, ValidateNext, ValidationDone, DryRunNext,
     DryRunMain, DryRunRepeat, DryRunDone, ExecuteShared, ExecuteMain, Completed, GiveUp, Leave,
     CallReturns, driver, world
<1>2. CASE \/ LoadDependency \/ DependencyNotLoaded \/ LoadedForIntegrity
           \/ (\E r \in AuthResults : AuthorizeDependency(r))
           \/ ValidateForIntegrity \/ IntegrityFails \/ IntegrityHolds \/ ValidateForProcess
           \/ ExecuteDependency \/ ProcessFails \/ (\E r \in PlatResults : DependencyCompleted(r))
           \/ DependencyReleased
  BY <1>2 DEF LoadDependency, DependencyNotLoaded, LoadedForIntegrity, AuthorizeDependency,
     ValidateForIntegrity, IntegrityFails, IntegrityHolds, ValidateForProcess, ExecuteDependency,
     ProcessFails, DependencyCompleted, DependencyReleased, ScheduleDependency, ReleaseDependency,
     driver, world
<1>3. CASE RunCommand
  BY <1>3, StepAsks DEF RunCommand, driver
<1>4. CASE UNCHANGED vars
  BY <1>4 DEF vars, driver, world
<1> QED BY <1>1, <1>2, <1>3, <1>4 DEF Step

LEMMA NoSlack == PInv /\ Slack = 0 => manifest_stack_height = Height
<1> SUFFICES ASSUME PInv, Slack = 0 PROVE manifest_stack_height = Height
  OBVIOUS
<1>1. manifest_stack_height \in Nat /\ Height \in Nat
  BY Here
<1> QED BY <1>1 DEF Slack

LEMMA NoSlackNext == (PInv /\ Slack = 0 => manifest_stack_height = Height)'
BY NoSlack, PTL

LEMMA InStepStep == PInv /\ ResumedInPlace /\ InStep /\ [Next]_vars => InStep'
<1> SUFFICES ASSUME PInv, ResumedInPlace, InStep, [Next]_vars PROVE InStep'
  OBVIOUS
<1>1. /\ manifest_stack_height = Height /\ Chained(code, seq_stack, root) /\ root = 0
  BY InStepMeans
<1>2. Slack = 0
  BY <1>1, Here DEF Slack
<1>3. ASSUME PInv', Slack' = 0, Chained(code', seq_stack', root'), root' = 0
      PROVE  InStep'
  <2>1. manifest_stack_height' = Height'
    BY <1>3, NoSlackNext
  <2> QED BY <1>3, <2>1 DEF InStep, Chained, Frames
<1>4. CASE Step
  <2>1. PInv' /\ Accounted
    BY <1>4, StepKeeps, InPlaceIsNoCommand
  <2>2. Slack' = 0 /\ Chained(code', seq_stack', root') /\ root' = 0
    BY <1>1, <1>2, <1>4, <2>1, RootStays DEF Accounted, KeepsPlace
  <2> QED BY <1>3, <2>1, <2>2
<1>5. CASE UNCHANGED vars
  <2>1. PInv' /\ Accounted
    BY <1>5, StutterKeeps
  <2>2. Slack' = 0 /\ Chained(code', seq_stack', root') /\ root' = 0
    BY <1>1, <1>2, <1>5, <2>1, RootStays DEF Accounted, KeepsPlace
  <2> QED BY <1>3, <2>1, <2>2
<1>6. ASSUME NEW n \in Calls, Call(n) PROVE InStep'
  <2>1. PInv' /\ Slack' = 0 /\ Chained(code', seq_stack', root') /\ root' = manifest_stack_height
    BY <1>6, CallKeeps
  <2>2. manifest_stack_height = 0
    <3>1. pc = "idle" /\ op = "none" /\ ~Running
      BY <1>6 DEF Call, AtStep
    <3>2. Height = root + 0
      BY <3>1, NothingRuns, Here DEF Owed, Outside
    <3> QED BY <1>1, <3>2
  <2> QED BY <1>3, <2>1, <2>2
<1> QED BY <1>4, <1>5, <1>6 DEF Next

(***************************************************************************)
(* If every dependency command that is resumed finds its component as it   *)
(* left it, the stack of manifests is exactly as high as the commands that *)
(* wait for a dependency say, and every frame runs in the manifest of the  *)
(* nearest of them below it.                                               *)
(***************************************************************************)
THEOREM StacksInStep == Spec /\ []ResumedInPlace => []InStep
<1>1. Init => InStep
  <2> SUFFICES ASSUME Init PROVE InStep
    OBVIOUS
  <2>1. PInv /\ Slack = 0 /\ Chained(code, seq_stack, root) /\ root = 0
    BY InitPInv
  <2>2. manifest_stack_height = Height
    BY <2>1, NoSlack
  <2> QED BY <2>1, <2>2, InStepMeans
<1> QED BY <1>1, InStepStep, ProcessorInvariant, PTL DEF Spec

\* Between two steps of the registry, in terms of the frames alone.
LEMMA InStepAgrees == PInv /\ InStep => StacksAgree
<1> SUFFICES ASSUME PInv, InStep, pc \notin {"idle", "load", "release"}, op = "none", ~AwaitsRegistry
             PROVE  /\ manifest_stack_height = root + 1 + Cardinality(Open)
                    /\ \A k \in Frames :
                          seq_stack[k].manifest = root + Cardinality({j \in Open : j < k})
  BY DEF StacksAgree
<1>1. seq_stack \in Seq(F) /\ Frames = 1 .. Len(seq_stack) /\ Len(seq_stack) \in Nat
  BY LenProperties DEF PInv, FramesOK, F, Frames
<1>2. Open = {k \in Frames : IsOpen(code, seq_stack[k])}
  BY DEF Open, IsOpen, AtDependency, Command
<1>3. \A m : {j \in Open : j < m} = OpenBelow(code, seq_stack, m)
  BY <1>2 DEF OpenBelow, Frames
<1>4. Open = OpenBelow(code, seq_stack, Len(seq_stack) + 1)
  BY <1>1, <1>2 DEF OpenBelow, Frames
<1>5. Owed = 0
  BY DEF Owed, AfterLoad, AwaitsRegistry
<1>6. manifest_stack_height = root + 0 + (1 + Depth(code, seq_stack, Len(seq_stack) + 1))
  BY <1>5 DEF InStep, Height
<1>7. manifest_stack_height = root + 1 + Cardinality(Open)
  BY <1>4, <1>6, Here DEF Depth
<1>8. \A k \in Frames : seq_stack[k].manifest = root + Cardinality({j \in Open : j < k})
  BY <1>3 DEF InStep, Depth
<1> QED BY <1>7, <1>8

(***************************************************************************)
(* Wherever the processor is between two calls of the registry, there is   *)
(* one manifest above the root for every command that waits for one.       *)
(***************************************************************************)
THEOREM ManifestPerOpenCommand == Spec /\ []ResumedInPlace => []StacksAgree
BY StacksInStep, InStepAgrees, ProcessorInvariant, PTL

LEMMA LoadsAreNext ==
    ASSUME Loads
    PROVE  Registry!Next
BY DEF Loads, Registry!Next

LEMMA LeavesRegistryAlone ==
    ASSUME UNCHANGED registry_vars
    PROVE  UNCHANGED Registry!vars
BY DEF registry_vars, Registry!vars

LEMMA StepUsesRegistry == PInv /\ InStep /\ [Next]_vars => [Registry!Next]_(Registry!vars)
<1> SUFFICES ASSUME PInv, InStep, [Next]_vars
             PROVE  Registry!Next \/ UNCHANGED Registry!vars
  OBVIOUS
<1>0. manifest_stack_height \in Nat
  BY Here
<1>1. CASE LoadStep
  BY <1>1, LoadStepMoves, LoadsAreNext
<1>2. CASE ReleaseStep
  BY <1>2 DEF ReleaseStep, Registry!Next
<1>3. CASE \E n \in Calls : Call(n)
  BY <1>3, LoadsAreNext DEF Call, StartLoad, Loads
<1>4. CASE LoadDependency
  BY <1>4, LoadsAreNext DEF LoadDependency, StartLoad, Loads
<1>5. CASE (\E r \in PlatResults : Completed(r)) \/ GiveUp
  <2>1. Registry!BeginRelease(root) /\ Height = root + 1
    BY <1>5, LeaveKeeps
  <2>2. root = manifest_stack_height - 1
    BY <2>1, Here DEF InStep
  <2>3. Registry!PopManifest
    BY <2>1, <2>2 DEF Registry!PopManifest
  <2> QED BY <2>3 DEF Registry!Next
<1>6. ASSUME NEW v, ReleaseDependency(Dependency, v)
      PROVE  Registry!Next
  <2>1. Registry!BeginRelease(manifest_stack_height - 1)
    BY <1>6 DEF ReleaseDependency, Dependency
  <2> QED BY <2>1 DEF Registry!PopManifest, Registry!Next
<1>7. CASE IntegrityFails \/ IntegrityHolds \/ ProcessFails \/ \E r \in PlatResults : DependencyCompleted(r)
  BY <1>6, <1>7 DEF IntegrityFails, IntegrityHolds, ProcessFails, DependencyCompleted
<1>8. ASSUME NEW r \in AuthResults, AuthorizeDependency(r)
      PROVE  Registry!Next \/ UNCHANGED Registry!vars
  <2>1. CASE r = "SUCCESS"
    BY <1>8, <2>1, LeavesRegistryAlone DEF AuthorizeDependency
  <2>2. CASE r # "SUCCESS"
    <3>1. /\ Registry!BeginRelease(Dependency - 1) /\ op = "none" /\ op_ret = "SUCCESS"
          /\ AwaitsRegistry /\ Top.cmd_exec_state = Loading
      BY <1>8, <2>2 DEF AuthorizeDependency, ReleaseDependency
    <3>2. Running
      BY <3>1 DEF AwaitsRegistry, AtCommand
    <3>3. DependencyDenied
      BY <1>8, <2>2, ProcessorAssumption
    <3>4. manifest_stack_height > 1
      <4>1. Owed = 1
        BY <3>1, <3>2 DEF Owed, AfterLoad
      <4>2. Height = root + 1 + (1 + DepthOfTop + (IF IsOpen(code, Top) THEN 1 ELSE 0))
            /\ DepthOfTop \in Nat
        BY <3>2, <4>1, InSequence
      <4> QED BY <4>2, Here
    <3>5. Dependency - 1 = manifest_stack_height - 2
      BY <1>0 DEF Dependency
    <3>6. Registry!PopDeniedDependency
      BY <3>1, <3>3, <3>4, <3>5 DEF Registry!PopDeniedDependency
    <3> QED BY <3>6 DEF Registry!Next
  <2> QED BY <2>1, <2>2
<1>9. CASE RunCommand
  <2>1. UNCHANGED registry_vars
    BY <1>9, StepAsks DEF RunCommand, registry_vars
  <2> QED BY <2>1, LeavesRegistryAlone
<1>10. CASE \/ Loaded \/ ValidateNext \/ ValidationDone \/ DryRunNext \/ DryRunMain \/ DryRunRepeat
            \/ DryRunDone \/ ExecuteShared \/ ExecuteMain \/ CallReturns
            \/ DependencyNotLoaded \/ LoadedForIntegrity \/ ValidateForIntegrity
            \/ ValidateForProcess \/ ExecuteDependency \/ DependencyReleased \/ UNCHANGED vars
  <2>1. UNCHANGED registry_vars
    BY <1>10 DEF Loaded, ValidateNext, ValidationDone, DryRunNext, DryRunMain, DryRunRepeat,
       DryRunDone, ExecuteShared, ExecuteMain, CallReturns, DependencyNotLoaded, LoadedForIntegrity,
       ValidateForIntegrity, ValidateForProcess, ExecuteDependency, DependencyReleased,
       ScheduleDependency, vars
  <2> QED BY <2>1, LeavesRegistryAlone
<1> QED BY <1>1, <1>2, <1>3, <1>4, <1>5, <1>7, <1>8, <1>9, <1>10 DEF Next, Step

(***************************************************************************)
(* The processor implements the registry: under the same condition it      *)
(* keeps the discipline that ComponentRegistry states of its callers.      *)
(***************************************************************************)
THEOREM ImplementsRegistry == Spec /\ []ResumedInPlace => UsesRegistry
<1>1. Init => Registry!Init
  BY DEF Init
<1> QED BY <1>1, StepUsesRegistry, StacksInStep, ProcessorInvariant, PTL DEF Spec, UsesRegistry, Registry!Spec

LEMMA IdleHeight == PInv /\ InStep => ManifestsRemoved /\ (pc = "idle" => seq_stack = <<>>)
<1> SUFFICES ASSUME PInv, InStep, pc = "idle"
             PROVE  manifest_stack_height = 0 /\ seq_stack = <<>>
  BY DEF ManifestsRemoved
<1>1. ~Running
  BY DEF PInv, ControlOK, Executing
<1>2. op = "none"
  BY <1>1 DEF PInv, ControlOK
<1>3. Owed = 0
  BY <1>1, <1>2 DEF Owed, AfterLoad
<1>4. Height = 0
  BY <1>3 DEF Height, InStep
<1> QED BY <1>1, <1>4 DEF InStep, Running

(***************************************************************************)
(* The call takes the manifest of every dependency off the stack again,    *)
(* whatever failed, and whatever the platform refuses or denies.           *)
(***************************************************************************)
THEOREM LastManifestRemoved == Spec /\ []ResumedInPlace => []ManifestsRemoved
BY StacksInStep, IdleHeight, ProcessorInvariant, PTL

\* A load neither starts nor continues a release.
LEMMA LoadsStart ==
    ASSUME Loads
    PROVE  op \in {"none", "loading"} /\ op' # "releasing"
<1>1. ASSUME NEW id \in ComponentId, NEW dependency \in BOOLEAN,
             Registry!AppendComponent(id, dependency)
      PROVE  op = "loading" /\ op' \in {"loading", "unwinding"}
  BY <1>1 DEF Registry!AppendComponent, Registry!AppendToFullMap, Registry!AppendExisting,
     Registry!AppendNew, Registry!AppendWithoutSlot, Registry!Appended, Registry!Unwind
<1>2. CASE ~\E id \in ComponentId, dependency \in BOOLEAN : Registry!AppendComponent(id, dependency)
  BY <1>2 DEF Loads, Registry!LoadRefused, Registry!BeginLoad, Registry!LoadRejected,
     Registry!AppendUndecodable, Registry!LoadDone, Registry!Unwind
<1> QED BY <1>1, <1>2

\* When the platform releases every handle and denies no dependency, no step of the
\* registry is one of the two the counts do not recover from.
LEMMA NoMishap ==
    ASSUME Proofs!RegistryInv, Registry!Next,
           ReleaseResults \subseteq {"SUCCESS"}, ~DependencyDenied
    PROVE  Proofs!NextHistory
<1>1. CASE Loads
  <2>1. ~Proofs!DeniedDependency /\ ~Proofs!RefusedRelease
    BY <1>1, LoadsStart DEF Proofs!DeniedDependency, Proofs!RefusedRelease, Proofs!Releasing
  <2> QED BY <1>1, <2>1, SameLoads DEF Proofs!NextHistory, Proofs!Mishaps
<1>2. CASE Registry!PopManifest
  <2>1. Proofs!Next
    BY <1>2 DEF Registry!PopManifest, Registry!BeginRelease, Proofs!PopManifest, Proofs!BeginRelease,
       Proofs!Next
  <2>2. ~Proofs!DeniedDependency /\ ~Proofs!RefusedRelease
    BY <1>2 DEF Registry!PopManifest, Registry!BeginRelease, Proofs!DeniedDependency,
       Proofs!RefusedRelease, Proofs!Releasing
  <2> QED BY <2>1, <2>2 DEF Proofs!NextHistory, Proofs!Mishaps
<1>3. CASE Registry!ReleaseStep
  <2>0. op \in {"unwinding", "releasing"}
    BY <1>3 DEF Registry!ReleaseStep, Registry!ReleaseMissing, Registry!ReleaseShared,
       Registry!ReleaseLast, Registry!ReleaseDone, Registry!Releasing
  <2>1. ~Proofs!DeniedDependency
    BY <2>0 DEF Proofs!DeniedDependency
  <2>2. ASSUME Proofs!RefusedRelease PROVE FALSE
    <3>1. /\ Registry!component_map = Proofs!component_map
          /\ \A s : Registry!InUse(s) <=> Proofs!InUse(s)
      BY Zenon DEF Registry!component_map, Proofs!component_map, Registry!InUse, Proofs!InUse
    <3>2. op' = "none" /\ pos < Len(Registry!component_map)
          /\ Registry!InUse(Registry!component_map[pos + 1])
      BY <2>2, <3>1 DEF Proofs!RefusedRelease
    <3>3. ~Registry!ReleaseMissing /\ ~Registry!ReleaseShared
      BY <2>0, <3>2 DEF Registry!ReleaseMissing, Registry!ReleaseShared
    <3>4. ~Registry!ReleaseLast("SUCCESS")
      BY <2>0, <3>2 DEF Registry!ReleaseLast
    <3>5. pos >= Len(Registry!component_map)
      BY <1>3, <3>3, <3>4 DEF Registry!ReleaseStep, Registry!ReleaseDone
    <3>6. Registry!component_map \in Seq(Slot) /\ pos \in Nat
      BY RegistryTyped DEF Maps, Registry!component_map
    <3>7. Len(Registry!component_map) \in Nat
      BY <3>6, LenProperties
    <3> QED BY <3>2, <3>5, <3>6, <3>7
  <2> QED BY <1>3, <2>1, <2>2, SameRelease DEF Proofs!NextHistory, Proofs!Mishaps
<1> QED BY <1>1, <1>2, <1>3, LoadsAreNext DEF Registry!Next, Loads, Registry!PopDeniedDependency

(***************************************************************************)
(* If the platform also releases what it is told to and authorises what it *)
(* loaded, a call leaves no manifest, no sequence and no component behind: *)
(* the counts of the registry are exact, so an empty stack empties the     *)
(* pool.                                                                   *)
(***************************************************************************)
THEOREM CallsLeaveNothing ==
    ASSUME ReleaseResults \subseteq {"SUCCESS"}, ~DependencyDenied
    PROVE  Spec /\ []ResumedInPlace => []IdleIsClean
<1>1. Spec /\ []ResumedInPlace => Proofs!SpecHistory
  <2>1. Init => Proofs!InitHistory
    BY DEF Init, Registry!Init, Proofs!InitHistory, Proofs!Init, Registry!Slot, Proofs!Slot,
       Registry!EmptySlot, Proofs!EmptySlot, Registry!NoId, Proofs!NoId, Registry!Entry, Proofs!Entry
  <2>2. PInv /\ InStep /\ [Next]_vars => [Proofs!NextHistory]_(Proofs!history_vars)
    <3> SUFFICES ASSUME PInv, InStep, [Next]_vars
                 PROVE  Proofs!NextHistory \/ UNCHANGED Proofs!history_vars
      OBVIOUS
    <3>1. CASE Registry!Next
      BY <3>1, NoMishap DEF PInv
    <3>2. CASE UNCHANGED Registry!vars
      BY <3>2 DEF Registry!vars, Proofs!history_vars, Proofs!vars
    <3> QED BY <3>1, <3>2, StepUsesRegistry
  <2> QED BY <2>1, <2>2, StacksInStep, ProcessorInvariant, PTL DEF Spec, Proofs!SpecHistory
<1>2. Proofs!SpecHistory => []Proofs!PoolEmptyUntilMishap
  BY Proofs!PoolEmpties, SeqExecAssumption, ProcessorAssumption DEF Proofs!PoolEmpties
<1>3. PInv /\ InStep /\ Proofs!PoolEmptyUntilMishap => IdleIsClean
  <2> SUFFICES ASSUME PInv, InStep, Proofs!PoolEmptyUntilMishap, pc = "idle", NEW s \in Slot
               PROVE  /\ manifest_stack_height = 0 /\ seq_stack = <<>>
                      /\ components[s].ref_count = 0
    BY IdleHeight DEF IdleIsClean, ManifestsRemoved
  <2>1. manifest_stack_height = 0 /\ seq_stack = <<>>
    BY IdleHeight DEF ManifestsRemoved
  <2>2. op = "none"
    BY <2>1 DEF PInv, ControlOK, Running
  <2>3. ~Proofs!InUse(s)
    BY <2>1, <2>2 DEF Proofs!PoolEmptyUntilMishap, Proofs!PoolEmptyWhenIdle, Slot, Proofs!Slot
  <2> QED BY <2>1, <2>3 DEF Proofs!InUse
<1> QED BY <1>1, <1>2, <1>3, StacksInStep, ProcessorInvariant, PTL

-----------------------------------------------------------------------------
(***************************************************************************)
(* Every step of a call gets further, whatever the manifests do to one     *)
(* another: this takes neither the stacks in step nor any condition on the *)
(* platform.                                                               *)
(***************************************************************************)
Further ==
    \/ Stage' > Stage
    \/ Stage' = Stage /\ StackFurtherOn(seq_stack, seq_stack')
    \/ Stage' = Stage /\ seq_stack' = seq_stack /\ RegistryFurtherOn

LEMMA SameStage ==
    ASSUME UNCHANGED driver
    PROVE  Stage' = Stage
BY DEF driver, Stage

\* The frame on top has a later cmd_exec_state, and there may be one above it.
LEMMA TopMovesOn ==
    ASSUME PInv, Running, UNCHANGED driver, NEW g,
           g.cmd_seq = Top.cmd_seq, g.current_command = Top.current_command,
           g.current_component_idx = Top.current_component_idx,
           g.cmd_exec_state \in Nat, g.cmd_exec_state > Top.cmd_exec_state,
           LET s == [seq_stack EXCEPT ![Len(seq_stack)] = g] IN
           seq_stack' = s \/ \E h : seq_stack' = Append(s, h)
    PROVE  Further
<1>1. seq_stack \in Seq(FrameType(Retvals)) /\ Top \in FrameType(Retvals)
  BY InSequence, ReadyIsTyped DEF F, StackReady, FramesOK
<1>2. Top.current_component_idx \in 0 .. MaxComponents /\ MaxComponents \in Nat
  BY <1>1, SeqExecAssumption DEF FrameType
<1>3. LoopPlace(g) = LoopPlace(Top) /\ LoopPlace(Top) \in Nat
  BY <1>2 DEF LoopPlace
<1>4. FrameFurtherOn(Top, g)
  BY <1>1, <1>2, <1>3, LaterIsFurther
<1>5. Forward
  BY <1>1, <1>4, TurnIsForward
<1> QED BY <1>5, SameStage DEF Further, Forward

LEMMA ReleaseIsFurther ==
    ASSUME PInv, Running, NEW e, NEW v, ReleaseDependency(e, v),
           Top.cmd_exec_state \in 0 .. SEQ_MAX + 2
    PROVE  Further
<1> DEFINE g == [Top EXCEPT !.cmd_exec_state = Releasing, !.retval = v]
<1>1. Top \in FrameType(Retvals)
  BY InSequence, ReadyIsTyped DEF F
<1>2. /\ g.cmd_seq = Top.cmd_seq /\ g.current_command = Top.current_command
      /\ g.current_component_idx = Top.current_component_idx
      /\ g.cmd_exec_state = Releasing
  BY <1>1 DEF FrameType
<1>3. seq_stack' = [seq_stack EXCEPT ![Len(seq_stack)] = g] /\ UNCHANGED driver
  BY DEF ReleaseDependency, Continue
<1> HIDE DEF g
<1>4. Releasing \in Nat /\ Releasing > Top.cmd_exec_state
  BY DEF Releasing, SEQ_MAX
<1> QED BY <1>2, <1>3, <1>4, TopMovesOn

LEMMA SchedulingIsFurther ==
    ASSUME PInv, Running, NEW n, NEW p, NEW v, ScheduleDependency(n, p, v)
    PROVE  Further
<1> DEFINE g == [Top EXCEPT !.cmd_exec_state = @ + 1, !.retval = v]
           s == [seq_stack EXCEPT ![Len(seq_stack)] = g]
<1>1. Top \in FrameType(Retvals)
  BY InSequence, ReadyIsTyped DEF F
<1>2. /\ g.cmd_seq = Top.cmd_seq /\ g.current_command = Top.current_command
      /\ g.current_component_idx = Top.current_component_idx
      /\ g.cmd_exec_state = Top.cmd_exec_state + 1
      /\ Top.cmd_exec_state \in Nat
  BY <1>1 DEF FrameType
<1>3. UNCHANGED driver /\ seq_stack' = Pushed(s, Dependency, n, p)
  BY DEF ScheduleDependency
<1>4. seq_stack' = s \/ \E h : seq_stack' = Append(s, h)
  <2> HIDE DEF s
  <2> QED BY <1>3 DEF Pushed
<1> HIDE DEF g
<1>5. g.cmd_exec_state \in Nat /\ g.cmd_exec_state > Top.cmd_exec_state
  BY <1>2
<1> QED BY <1>2, <1>3, <1>4, <1>5, TopMovesOn

\* A command that returns, to the next component or command, or ends its sequence.
LEMMA ReturnIsFurther ==
    ASSUME PInv, Running, UNCHANGED driver, NEW f \in FrameType(Retvals),
           f.cmd_seq = Top.cmd_seq, f.current_command = Top.current_command,
           LoopPlace(f) >= LoopPlace(Top), NEW r, Return(f, r)
    PROVE  Further
<1>1. Maps /\ seq_stack \in Seq(FrameType(Retvals))
  BY InSequence, ReadyIsTyped DEF F, StackReady
<1>2. Forward
  BY <1>1, ReturnIsForward
<1> QED BY <1>2, SameStage DEF Further, Forward

LEMMA ReturnCurrentIsFurther ==
    ASSUME PInv, Running, UNCHANGED driver, NEW r, Return(Current, r)
    PROVE  Further
<1>1. Maps /\ seq_stack \in Seq(FrameType(Retvals))
  BY InSequence, ReadyIsTyped DEF F, StackReady
<1> QED BY <1>1, CurrentGoesUp, ReturnIsFurther

LEMMA LoadingIsFurther ==
    ASSUME PInv, LoadDependency
    PROVE  Further
<1>1. Running /\ UNCHANGED driver /\ Top.cmd_exec_state = 0
  BY DEF LoadDependency, ToLoad, On, At, AtCommand
<1>2. Maps /\ seq_stack \in Seq(FrameType(Retvals))
  BY <1>1, InSequence, ReadyIsTyped DEF F, StackReady
<1>3. CASE LoadFailed("ERR_OVERFLOW")
  BY <1>1, <1>3, ReturnCurrentIsFurther DEF LoadFailed
<1>4. CASE Continue([Current EXCEPT !.cmd_exec_state = Loading])
  <2> DEFINE g == [Current EXCEPT !.cmd_exec_state = Loading]
  <2>1. /\ Top \in FrameType(Retvals) /\ Current \in FrameType(Retvals)
        /\ Current.cmd_seq = Top.cmd_seq
        /\ Current.current_command = Top.current_command
        /\ Current.current_component_idx \in 0 .. MaxComponents
        /\ LoopPlace(Current) >= LoopPlace(Top)
    BY <1>1, <1>2, CurrentGoesUp
  <2>2. /\ g.cmd_seq = Current.cmd_seq /\ g.current_command = Current.current_command
        /\ g.current_component_idx = Current.current_component_idx
        /\ g.cmd_exec_state = 1
    BY <2>1 DEF FrameType, Loading
  <2>3. seq_stack' = [seq_stack EXCEPT ![Len(seq_stack)] = g]
    BY <1>4 DEF Continue
  <2> HIDE DEF g
  <2>4. LoopPlace(g) = LoopPlace(Current)
    BY <2>2 DEF LoopPlace
  <2>5. FrameFurtherOn(Top, g)
    BY <1>1, <2>1, <2>2, <2>4, LaterIsFurther
  <2>6. Forward
    BY <1>1, <1>2, <2>3, <2>5, TurnIsForward
  <2> QED BY <1>1, <2>6, SameStage DEF Further, Forward
<1> QED BY <1>3, <1>4 DEF LoadDependency

LEMMA ReleasedIsFurther ==
    ASSUME PInv, DependencyReleased
    PROVE  Further
<1>1. Running /\ UNCHANGED driver
  BY DEF DependencyReleased, AwaitsRegistry, AtCommand
<1>2. Top \in FrameType(Retvals)
  BY <1>1, InSequence, ReadyIsTyped DEF F
<1>3. PICK r : r = (IF Top.retval = "SUCCESS" THEN op_ret ELSE Top.retval)
               /\ Return([Top EXCEPT !.retval = r], r)
  BY DEF DependencyReleased
<1>4. r \in Retvals
  BY <1>2, <1>3, RegistryTyped DEF PInv, Retvals, FrameType
<1> DEFINE f == [Top EXCEPT !.retval = r]
<1>5. /\ f \in FrameType(Retvals) /\ f.cmd_seq = Top.cmd_seq
      /\ f.current_command = Top.current_command
      /\ f.current_component_idx = Top.current_component_idx
  BY <1>2, <1>4 DEF FrameType
<1> HIDE DEF f
<1>6. LoopPlace(f) >= LoopPlace(Top)
  <2>1. Top.current_component_idx \in 0 .. MaxComponents /\ MaxComponents \in Nat
    BY <1>2, SeqExecAssumption DEF FrameType
  <2> QED BY <1>5, <2>1 DEF LoopPlace
<1>7. Return(f, r)
  BY <1>3 DEF f
<1> QED BY <1>1, <1>5, <1>6, <1>7, ReturnIsFurther

LEMMA DependencyIsFurther ==
    ASSUME PInv, DependencyStep
    PROVE  Further
<1>1. /\ Loading = 1 /\ SHARED = 2 /\ SEQ_MAX = 10
  BY DEF Loading, SHARED, SEQ_MAX
<1>2. CASE LoadDependency
  BY <1>2, LoadingIsFurther
<1>3. CASE DependencyNotLoaded
  BY <1>3, ReturnCurrentIsFurther
     DEF DependencyNotLoaded, LoadFailed, AwaitsRegistry, AtCommand
<1>4. CASE LoadedForIntegrity
  <2> DEFINE g == [Top EXCEPT !.cmd_exec_state = SHARED]
  <2>1. /\ Running /\ UNCHANGED driver /\ Top.cmd_exec_state = Loading
        /\ seq_stack' = [seq_stack EXCEPT ![Len(seq_stack)] = g]
    BY <1>4 DEF LoadedForIntegrity, AwaitsRegistry, AtCommand, Continue
  <2>2. Top \in FrameType(Retvals)
    BY <2>1, InSequence, ReadyIsTyped DEF F
  <2>3. /\ g.cmd_seq = Top.cmd_seq /\ g.current_command = Top.current_command
        /\ g.current_component_idx = Top.current_component_idx
        /\ g.cmd_exec_state = SHARED
    BY <2>2 DEF FrameType
  <2> HIDE DEF g
  <2>4. g.cmd_exec_state \in Nat /\ g.cmd_exec_state > Top.cmd_exec_state
    BY <1>1, <2>1, <2>3
  <2> QED BY <2>1, <2>3, <2>4, TopMovesOn
<1>5. ASSUME NEW r \in AuthResults, AuthorizeDependency(r)
      PROVE  Further
  <2> DEFINE g == [Top EXCEPT !.cmd_exec_state = SHARED]
  <2>1. Running /\ Top.cmd_exec_state = Loading
    BY <1>5 DEF AuthorizeDependency, AwaitsRegistry, AtCommand
  <2>2. Top \in FrameType(Retvals)
    BY <2>1, InSequence, ReadyIsTyped DEF F
  <2>3. /\ g.cmd_seq = Top.cmd_seq /\ g.current_command = Top.current_command
        /\ g.current_component_idx = Top.current_component_idx
        /\ g.cmd_exec_state = SHARED
    BY <2>2 DEF FrameType
  <2> HIDE DEF g
  <2>6. g.cmd_exec_state \in Nat /\ g.cmd_exec_state > Top.cmd_exec_state
    BY <1>1, <2>1, <2>3
  <2>4. CASE r = "SUCCESS"
    <3>1. UNCHANGED driver /\ seq_stack' = [seq_stack EXCEPT ![Len(seq_stack)] = g]
      BY <1>5, <2>4 DEF AuthorizeDependency, Continue, g
    <3> QED BY <2>1, <2>3, <2>6, <3>1, TopMovesOn
  <2>5. CASE r # "SUCCESS"
    BY <1>1, <1>5, <2>1, <2>5, ReleaseIsFurther DEF AuthorizeDependency
  <2> QED BY <2>4, <2>5
<1>6. CASE ValidateForIntegrity
  BY <1>6, ResumedOpen, SchedulingIsFurther DEF ValidateForIntegrity, DependencyCommands
<1>7. CASE IntegrityFails
  BY <1>1, <1>7, ResumedOpen, ReleaseIsFurther DEF IntegrityFails, DependencyCommands
<1>8. CASE IntegrityHolds
  BY <1>1, <1>8, ResumedOpen, ReleaseIsFurther DEF IntegrityHolds, DependencyCommands
<1>9. CASE ValidateForProcess
  BY <1>9, ResumedOpen, SchedulingIsFurther DEF ValidateForProcess, ResumedProcess, DependencyCommands
<1>10. CASE ExecuteDependency
  BY <1>10, ResumedOpen, SchedulingIsFurther DEF ExecuteDependency, ResumedProcess, DependencyCommands
<1>11. CASE ProcessFails
  BY <1>1, <1>11, ResumedOpen, ReleaseIsFurther DEF ProcessFails, ResumedProcess, DependencyCommands
<1>12. ASSUME NEW r \in PlatResults, DependencyCompleted(r)
       PROVE  Further
  BY <1>1, <1>12, ResumedOpen, ReleaseIsFurther
     DEF DependencyCompleted, ResumedProcess, DependencyCommands
<1>13. CASE DependencyReleased
  BY <1>13, ReleasedIsFurther
<1> QED BY <1>2, <1>3, <1>4, <1>5, <1>6, <1>7, <1>8, <1>9, <1>10, <1>11, <1>12, <1>13
        DEF DependencyStep

LEMMA CommandIsFurther ==
    ASSUME PInv, RunCommand
    PROVE  Further
<1>1. SeqStep /\ UNCHANGED driver
  BY DEF RunCommand
<1>2. Running
  BY <1>1, StepRuns
<1>3. IsProgram(code) /\ Maps /\ seq_stack \in Seq(FrameType(Retvals)) /\ "SUCCESS" \in Retvals
  BY <1>2, InSequence, ReadyIsTyped DEF F, StackReady, Retvals, Registry!Results
<1>4. Forward
  BY <1>1, <1>3, StepIsForward
<1> QED BY <1>1, <1>4, SameStage DEF Further, Forward

LEMMA LoadIsFurther ==
    ASSUME PInv, LoadStep
    PROVE  Further
<1>1. UNCHANGED driver /\ seq_stack' = seq_stack /\ op = "loading"
  BY DEF LoadStep, stacks
<1>2. manifest_stack \in [Entry -> Seq(Slot)] /\ entry \in Entry
  <2>1. Proofs!Slot = Slot /\ Proofs!Entry = Entry
    BY DEF Proofs!Slot, Slot, Proofs!Entry, Entry
  <2> QED BY <2>1, RegistryTyped DEF PInv, Proofs!RegistryInv, Proofs!TypeOK
<1>3. ASSUME NEW s, Registry!Appended(s)
      PROVE  RegistryFurtherOn
  <2>1. /\ op' = op /\ entry' = entry
        /\ manifest_stack'[entry] = Append(manifest_stack[entry], s)
    BY <1>2, <1>3 DEF Registry!Appended, Entry
  <2>2. Len(manifest_stack'[entry]) = Len(manifest_stack[entry]) + 1
    <3>1. manifest_stack[entry] \in Seq(Slot \cup {s}) /\ s \in Slot \cup {s}
      BY <1>2, SeqMonotonic
    <3> QED BY <2>1, <3>1, AppendProperties
  <2>3. Len(manifest_stack[entry]) \in Nat
    BY <1>2, LenProperties
  <2> QED BY <1>1, <2>1, <2>2, <2>3 DEF RegistryFurtherOn
<1>4. ASSUME NEW id, NEW dependency, Registry!AppendComponent(id, dependency)
      PROVE  RegistryFurtherOn
  <2>1. (\E s : Registry!Appended(s)) \/ op' = "unwinding"
    BY <1>4 DEF Registry!AppendComponent, Registry!AppendToFullMap, Registry!AppendExisting,
       Registry!AppendNew, Registry!AppendWithoutSlot, Registry!Unwind
  <2> QED BY <1>1, <1>3, <2>1 DEF RegistryFurtherOn
<1>5. RegistryFurtherOn
  <2>1. CASE \E r \in LoadResults \ {"SUCCESS"} : Registry!LoadRejected(r)
    BY <1>1, <2>1 DEF Registry!LoadRejected, RegistryFurtherOn
  <2>2. CASE \E id, dependency : Registry!AppendComponent(id, dependency)
    BY <1>4, <2>2
  <2>3. CASE Registry!AppendUndecodable
    BY <1>1, <2>3 DEF Registry!AppendUndecodable, Registry!Unwind, RegistryFurtherOn
  <2>4. CASE \E r \in LoadResults : Registry!LoadDone(r)
    BY <1>1, <2>4 DEF Registry!LoadDone, RegistryFurtherOn
  <2> QED BY <2>1, <2>2, <2>3, <2>4 DEF LoadStep
<1> QED BY <1>1, <1>5, SameStage DEF Further

LEMMA ReleaseStepIsFurther ==
    ASSUME PInv, ReleaseStep
    PROVE  Further
<1>1. UNCHANGED driver /\ seq_stack' = seq_stack /\ Registry!ReleaseStep
  BY DEF ReleaseStep, stacks
<1>2. op \in {"unwinding", "releasing"} /\ pos \in Nat
  BY <1>1, RegistryTyped DEF PInv, Registry!ReleaseStep, Registry!ReleaseMissing,
     Registry!ReleaseShared, Registry!ReleaseLast, Registry!ReleaseDone, Registry!Releasing
<1>3. \/ op' = "none"
      \/ op' = op /\ entry' = entry /\ pos' = pos + 1
  BY <1>1 DEF Registry!ReleaseStep, Registry!ReleaseMissing, Registry!ReleaseShared,
     Registry!ReleaseLast, Registry!ReleaseDone, Registry!Finish
<1>4. RegistryFurtherOn
  BY <1>2, <1>3 DEF RegistryFurtherOn
<1> QED BY <1>1, <1>4, SameStage DEF Further

\* The driver goes through the values of pc and seq in one order.
LEMMA DriverIsFurther ==
    ASSUME PInv,
           \/ Loaded \/ ValidateNext \/ ValidationDone \/ DryRunNext \/ DryRunMain
           \/ DryRunRepeat \/ DryRunDone \/ ExecuteShared \/ ExecuteMain
           \/ \E r \in PlatResults : Completed(r)
           \/ GiveUp \/ CallReturns
    PROVE  Stage' > Stage
<1>1. /\ seq \in 0 .. 10
      /\ pc \in {"dry_shared", "dry_main"} => seq < 10
      /\ SEQ_MAX = 10 /\ SHARED = 2
  BY DEF PInv, ControlOK, SEQ_MAX, SHARED
<1>2. CASE Loaded
  BY <1>1, <1>2 DEF Loaded, AtStep, Stage
<1>3. CASE ValidateNext
  BY <1>1, <1>3 DEF ValidateNext, AtStep, Stage
<1>4. CASE ValidationDone
  <2>1. DryRunFrom \in 0 .. 9
    BY DryRunBounds, <1>1
  <2> QED BY <1>1, <1>4, <2>1 DEF ValidationDone, AtStep, Stage
<1>5. CASE DryRunNext
  <2>1. DryRunTo \in 1 .. 9 /\ seq <= DryRunTo
    BY DryRunBounds, <1>1, <1>5 DEF DryRunNext
  <2> QED BY <1>1, <1>5, <2>1 DEF DryRunNext, AtStep, Stage
<1>6. CASE DryRunMain
  BY <1>1, <1>6 DEF DryRunMain, AtStep, Stage
<1>7. CASE DryRunRepeat
  BY <1>1, <1>7 DEF DryRunRepeat, AtStep, Stage
<1>8. CASE DryRunDone
  BY <1>1, <1>8 DEF DryRunDone, AtStep, Stage
<1>9. CASE ExecuteShared
  BY <1>1, <1>9 DEF ExecuteShared, AtStep, Stage
<1>10. CASE ExecuteMain
  BY <1>1, <1>10 DEF ExecuteMain, AtStep, Stage
<1>11. CASE GiveUp \/ \E r \in PlatResults : Completed(r)
  <2>1. pc \in {"check", "run_shared", "run_main"} /\ pc' = "release"
    BY <1>11 DEF GiveUp, Completed, Leave, AtStep
  <2> QED BY <1>1, <2>1 DEF Stage
<1>12. CASE CallReturns
  BY <1>1, <1>12 DEF CallReturns, AtStep, Stage
<1> QED BY <1>2, <1>3, <1>4, <1>5, <1>6, <1>7, <1>8, <1>9, <1>10, <1>11, <1>12

(***************************************************************************)
(* Every step of a call of the processor gets further, so the call ends if *)
(* it is carried on: the stages are finitely many, and so are the places   *)
(* on a stack of bounded depth and the components of a manifest.           *)
(***************************************************************************)
THEOREM CallsMoveForward == Spec => MovesForward
<1>1. ASSUME PInv, Next, pc # "idle"
      PROVE  Further
  <2>1. Step
    BY <1>1 DEF Next, Call, AtStep
  <2>2. CASE LoadStep
    BY <1>1, <2>2, LoadIsFurther
  <2>3. CASE ReleaseStep
    BY <1>1, <2>3, ReleaseStepIsFurther
  <2>4. CASE RunCommand
    BY <1>1, <2>4, CommandIsFurther
  <2>5. CASE DependencyStep
    BY <1>1, <2>5, DependencyIsFurther
  <2>6. CASE ~LoadStep /\ ~ReleaseStep /\ ~RunCommand /\ ~DependencyStep
    <3>1. \/ Loaded \/ ValidateNext \/ ValidationDone \/ DryRunNext \/ DryRunMain
          \/ DryRunRepeat \/ DryRunDone \/ ExecuteShared \/ ExecuteMain
          \/ \E r \in PlatResults : Completed(r)
          \/ GiveUp \/ CallReturns
      BY <2>1, <2>6 DEF Step, DependencyStep
    <3> QED BY <1>1, <3>1, DriverIsFurther DEF Further
  <2> QED BY <2>2, <2>3, <2>4, <2>5, <2>6
<1>2. PInv /\ [Next]_vars => [pc # "idle" => Further]_vars
  BY <1>1
<1> QED BY <1>2, ProcessorInvariant, PTL DEF Spec, MovesForward, Further
=============================================================================
