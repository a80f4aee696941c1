------------------------- MODULE SharedSequence_proofs -------------------------
(***************************************************************************)
(* The shared sequence of a dependency has no effect.                      *)
(*                                                                         *)
(* Its validation goes through the commands one after the other, into the  *)
(* sequences they start and those that these start in turn, and refuses    *)
(* what is forbidden in a shared sequence; the execution that follows may  *)
(* choose its way, and stop where the validation did not.  Sequences may   *)
(* start one another in a circle, so what has been validated is not        *)
(* described by recursion: a sequence is innocent when it lies in some set *)
(* of sequences that hold nothing forbidden and start only one another.    *)
(***************************************************************************)
EXTENDS DependencyCommands_proofs

-----------------------------------------------------------------------------
(***************************************************************************)
(* The shared sequence of a dependency.  A sequence is innocent when it    *)
(* holds nothing that is forbidden in a shared one, nor does any sequence  *)
(* that it starts, however deep and even when they start one another.      *)
(***************************************************************************)
\* No command of these sequences, nor of any they start, is forbidden in a shared one.
Closed(C) ==
    \A q \in C : \A j \in DOMAIN code[q] :
        code[q][j].op \notin ForbiddenInShared /\ NestedBy(code[q][j]) \subseteq C

\* What lies in a closed set may be started from a shared sequence.
Innocent == {q \in DOMAIN code : \E C \in SUBSET DOMAIN code : Closed(C) /\ q \in C}
Fine(c)  == c.op \notin ForbiddenInShared /\ NestedBy(c) \subseteq Innocent

\* A set-component-index comes before command j of sequence q.
SelectedBefore(q, j) == \E i \in DOMAIN code[q] : i < j /\ code[q][i].op = "set_component_index"

\* The manifest has components, and the frame has one selected.
Mapped(e)  == manifest_stack[e] # <<>>
Chosen(f)  == f.current_component_idx # NoIndex \/ f.current_components \cap Indexes(f) # {}

\* From where it is, the frame executes nothing that is forbidden in a shared sequence.
Harmless(f) ==
    \A j \in DOMAIN code[f.cmd_seq] :
        (/\ f.current_command < j
         /\ Mapped(f.manifest)
         /\ Chosen(f) \/ \E i \in DOMAIN code[f.cmd_seq] :
               /\ f.current_command < i /\ i < j
               /\ code[f.cmd_seq][i].op = "set_component_index")
          => Fine(code[f.cmd_seq][j])

\* The frame has started the one above it.
Starts(g, h) ==
    /\ g.current_command < Len(code[g.cmd_seq])
    /\ g.current_component_idx # NoIndex
    /\ g.cmd_exec_state \in DOMAIN Command(g).seqs
    /\ Command(g).op \in Nesting /\ (Command(g).op = "run_sequence" => g.cmd_exec_state = 1)
    /\ h.cmd_seq = Command(g).seqs[g.cmd_exec_state]
    /\ h.manifest = g.manifest
    /\ h.cmd_processor = g.cmd_processor

Linked == \A k \in Frames :
    (k < Len(seq_stack) /\ ~AtDependency(code, seq_stack[k])) => Starts(seq_stack[k], seq_stack[k + 1])

\* A component is selected when the sequence begins: it is nested, or it has only one.
Entered(k) ==
    \/ k > 1 /\ ~AtDependency(code, seq_stack[k - 1])
    \/ Len(manifest_stack[seq_stack[k].manifest]) = 1

\* A component is selected, in the loop and after it.
Selects(f) == /\ f.current_components \cap Indexes(f) # {}
              /\ f.current_component_idx # NoIndex => f.current_components_backup \cap Indexes(f) # {}

\* What the frame f has validated so far.  entered: it began with a component; top: it is
\* the frame on top.  Up to the current command nothing that is executed for a component
\* is forbidden, nor are the sequences the current command has been through.
Judged(f, entered, top) ==
    /\ f.retval \notin {"FAIL_CONDITION", "FAIL_SOFT_CONDITION"}
    /\ ~top => f.retval = "SUCCESS"
    /\ Chosen(f) => entered \/ SelectedBefore(f.cmd_seq, f.current_command + 1)
    /\ f.current_component_idx # NoIndex =>
          f.current_command < Len(code[f.cmd_seq]) /\ Command(f).op \in ComponentCommands
    /\ IF f.cmd_exec_state = 0 THEN f.retval = "SUCCESS"
       ELSE f.current_component_idx # NoIndex /\ Command(f).op \in Nesting
    /\ Mapped(f.manifest) =>
          /\ (f.retval = "SUCCESS" /\ (entered \/ SelectedBefore(f.cmd_seq, f.current_command + 1)))
                => Selects(f)
          /\ \A j \in DOMAIN code[f.cmd_seq] :
                (j <= f.current_command /\ (entered \/ SelectedBefore(f.cmd_seq, j)))
                   => Fine(code[f.cmd_seq][j])
          /\ f.cmd_exec_state # 0 => \A i \in DOMAIN Command(f).seqs :
                (i < f.cmd_exec_state \/ (i = f.cmd_exec_state /\ top /\ f.retval = "SUCCESS"))
                   => Command(f).seqs[i] \in Innocent

Judging == \A k \in Frames : seq_stack[k].cmd_processor = "validate_shared" =>
               Judged(seq_stack[k], Entered(k), k = Len(seq_stack))

\* The shared sequence of the manifest in entry e has passed.
SharedPassed(e) ==
    (Status(e, SHARED) = "SUCCESS" /\ Mapped(e)) =>
        LET q == Sequences(e)[SHARED] IN
        \A j \in DOMAIN code[q] :
            (Len(manifest_stack[e]) = 1 \/ SelectedBefore(q, j)) => Fine(code[q][j])

\* What a frame f at process-dependency relies on, e being its dependency: before the
\* shared sequence is executed it has passed, and its validation is what runs above.
ValidatedAt(f, k, e) ==
    (\/ f.cmd_exec_state \in SHARED + 2 .. SEQ_MAX + 1
     \/ f.cmd_exec_state = SHARED + 1 /\ k = Len(seq_stack) /\ f.retval = "SUCCESS")
        => SharedPassed(e)
ValidatingAt(f, k, e) ==
    (f.cmd_exec_state = SHARED + 1 /\ k < Len(seq_stack)) =>
        LET h == seq_stack[k + 1] IN
        /\ h.cmd_processor = "validate_shared" /\ h.manifest = e
        /\ Status(e, SHARED) = "SUCCESS" /\ h.cmd_seq = Sequences(e)[SHARED]

\* process-dependency validates the shared sequence before it executes it.
SharedFirst == \A k \in Frames :
    LET f == seq_stack[k] IN
    (IsOpen(code, f) /\ Command(f).op = "process_dependency") =>
        ValidatedAt(f, k, f.manifest + 1) /\ ValidatingAt(f, k, f.manifest + 1)

\* The frame waits for a sequence that must have no effect.
Guards(f) == /\ IsOpen(code, f)
             /\ Command(f).op = "process_dependency" => f.cmd_exec_state # SEQ_MAX + 2

\* Above such a frame only what is harmless is executed.
Sheltered == \A j, k \in Frames :
    (j < k /\ Guards(seq_stack[j]) /\ seq_stack[k].cmd_processor = "run") => Harmless(seq_stack[k])

-----------------------------------------------------------------------------
LEMMA InnocentMeans ==
    ASSUME IsProgram(code), NEW q \in DOMAIN code
    PROVE  q \in Innocent <=> \A j \in DOMAIN code[q] : Fine(code[q][j])
<1>1. ASSUME q \in Innocent PROVE \A j \in DOMAIN code[q] : Fine(code[q][j])
  <2>1. PICK C \in SUBSET DOMAIN code : Closed(C) /\ q \in C
    BY <1>1 DEF Innocent
  <2>2. C \subseteq Innocent
    BY <2>1 DEF Innocent
  <2> QED BY <2>1, <2>2 DEF Closed, Fine
<1>2. ASSUME \A j \in DOMAIN code[q] : Fine(code[q][j]) PROVE q \in Innocent
  <2> DEFINE C == Innocent \cup {q}
  <2>1. C \in SUBSET DOMAIN code /\ q \in C
    BY DEF Innocent
  <2>2. ASSUME NEW x \in C, NEW j \in DOMAIN code[x]
        PROVE  code[x][j].op \notin ForbiddenInShared /\ NestedBy(code[x][j]) \subseteq C
    <3>1. CASE x = q
      BY <1>2, <2>2, <3>1 DEF Fine
    <3>2. CASE x \in Innocent
      <4>1. PICK D \in SUBSET DOMAIN code : Closed(D) /\ x \in D
        BY <3>2 DEF Innocent
      <4>2. D \subseteq Innocent
        BY <4>1 DEF Innocent
      <4> QED BY <2>2, <4>1, <4>2 DEF Closed
    <3> QED BY <2>2, <3>1, <3>2
  <2>3. Closed(C)
    BY <2>2 DEF Closed
  <2> QED BY <2>1, <2>3 DEF Innocent
<1> QED BY <1>1, <1>2

\* The next command of the loop has a component only if the frame had one.
LEMMA LoopChosen ==
    ASSUME Typed, NEW f \in F, Chosen(component_idx_next(f))
    PROVE  Chosen(f)
<1> DEFINE rest == {i \in f.current_components \cap Indexes(f) : TRUE}
           g    == component_idx_next(f)
<1> SUFFICES ASSUME f.current_component_idx = NoIndex, f.current_components \cap Indexes(f) = {}
             PROVE  FALSE
  BY DEF Chosen
<1>1. g = [f EXCEPT !.current_components_backup = f.current_components,
                    !.current_components = f.current_components,
                    !.current_component_idx = NoIndex]
  BY DEF component_idx_next
<1>2. /\ g.current_component_idx = NoIndex
      /\ g.current_components = f.current_components
      /\ g.manifest = f.manifest
  BY <1>1 DEF F, FrameType
<1> QED BY <1>2 DEF Chosen, Indexes

-----------------------------------------------------------------------------
(***************************************************************************)
(* What a step does to the frame on top, in more detail than StepForm: how *)
(* far the frame advances, and which of them get a component to work on.   *)
(***************************************************************************)
\* The frame g has passed a set-component-index.
Passes(g) ==
    /\ Top.current_command < Len(code[Top.cmd_seq])
    /\ Command(Top).op = "set_component_index"
    /\ g.current_command = Top.current_command + 1

Onward(g) ==
    /\ SameOwner(g, Top)
    /\ g.current_command \in {Top.current_command, Top.current_command + 1}
    /\ Chosen(g) => Chosen(Top) \/ Passes(g)

Advances ==
    \E g \in F :
        /\ Onward(g)
        /\ IsOpen(code, g) => g.cmd_exec_state = SHARED
        /\ Continue(g)

Enters ==
    \E g \in F, h \in F :
        /\ SameOwner(g, Top) /\ g.current_command = Top.current_command
        /\ Top.current_command < Len(code[Top.cmd_seq]) /\ Command(Top).op \in Nesting
        /\ Chosen(Top)
        /\ Starts(g, h) /\ h.current_command = 0 /\ h.cmd_exec_state = 0
        /\ seq_stack' = Append([seq_stack EXCEPT ![Len(seq_stack)] = g], h)

\* A frame that stands for the one on top in a command.
Represents(f) ==
    /\ f \in F /\ SameOwner(f, Top)
    /\ f.current_command = Top.current_command
    /\ Chosen(f) => Chosen(Top)

LEMMA CurrentRepresents ==
    ASSUME StackReady
    PROVE  Represents(Current) /\ Represents(Top)
<1>1. Typed /\ Top \in F
  BY ReadyIsTyped
<1>2. /\ Current \in F /\ SameOwner(Current, Top)
      /\ Current.current_command = Top.current_command
  BY <1>1, CurrentOf DEF StackReady
<1>3. Chosen(Current) => Chosen(Top)
  BY <1>1, LoopChosen DEF Current, component_idx_get
<1> QED BY <1>1, <1>2, <1>3 DEF Represents, SameOwner

LEMMA StillRepresents ==
    ASSUME NEW f, Represents(f), NEW x \in Nat, NEW v \in Retvals, NEW s \in BOOLEAN
    PROVE  /\ Represents([f EXCEPT !.cmd_exec_state = x])
           /\ Represents([f EXCEPT !.retval = v])
           /\ Represents([f EXCEPT !.soft_failure = s])
           /\ Represents([f EXCEPT !.cmd_exec_state = x, !.retval = v])
           /\ Represents([f EXCEPT !.retval = v, !.cmd_exec_state = x])
BY DEF Represents, F, FrameType, SameOwner, Chosen, Indexes

LEMMA NextOnward ==
    ASSUME StackReady, AtCommand, NEW f, Represents(f)
    PROVE  /\ NextCommand(f) \in F /\ Onward(NextCommand(f))
           /\ NextCommand(f).cmd_exec_state = 0
<1>1. /\ NextCommand(f) \in F /\ SameOwner(NextCommand(f), f)
      /\ NextCommand(f).cmd_exec_state = 0
  BY NextCommandStands DEF Represents, StackReady, AtCommand, SameOwner
<1>2. /\ NextCommand(f).current_command = Top.current_command + 1
      /\ NextCommand(f).current_component_idx = f.current_component_idx
      /\ NextCommand(f).current_components = f.current_components
  BY DEF NextCommand, Represents, F, FrameType
<1>3. Chosen(NextCommand(f)) => Chosen(f)
  BY <1>1, <1>2 DEF Chosen, Indexes, SameOwner
<1> QED BY <1>1, <1>2, <1>3 DEF Onward, Represents, SameOwner

LEMMA ReturnAdvances ==
    ASSUME StackReady, AtCommand, NEW f, Represents(f), NEW r \in Retvals, Return(f, r)
    PROVE  /\ r = "SUCCESS" => Advances
           /\ r # "SUCCESS" => FinishesAs(r)
<1> DEFINE g == component_idx_next(f)
           h == [g EXCEPT !.cmd_exec_state = 0]
<1>1. Typed /\ f \in F
  BY ReadyIsTyped DEF Represents
<1>2. /\ g \in F /\ SameOwner(g, f) /\ g.current_command = f.current_command
      /\ Chosen(g) => Chosen(f)
  BY <1>1, LoopKeepsRest, LoopChosen
<1>3. IF r # "SUCCESS" THEN Finalize(g, r)
      ELSE IF g.current_component_idx # NoIndex THEN Continue(h) ELSE Continue(NextCommand(g))
  BY DEF Return
<1> HIDE DEF g
<1>4. Represents(g)
  BY <1>2 DEF Represents, SameOwner
<1>5. Represents(h) /\ h.cmd_exec_state = 0
  <2>1. "SUCCESS" \in Retvals
    BY DEF Retvals, Endings
  <2>2. Represents(h)
    BY <1>4, <2>1, StillRepresents
  <2> QED BY <1>2, <2>2 DEF F, FrameType
<1>6. CASE r # "SUCCESS"
  BY <1>3, <1>4, <1>6 DEF FinishesAs, Represents
<1>7. CASE r = "SUCCESS" /\ g.current_component_idx # NoIndex
  <2>1. Continue(h)
    BY <1>3, <1>7
  <2> HIDE DEF h
  <2>2. h \in F /\ Onward(h)
    BY <1>5 DEF Represents, Onward
  <2>3. IsOpen(code, h) => h.cmd_exec_state = SHARED
    BY <1>5 DEF IsOpen, SHARED, SEQ_MAX
  <2> QED BY <1>7, <2>1, <2>2, <2>3 DEF Advances
<1>8. CASE r = "SUCCESS" /\ g.current_component_idx = NoIndex
  <2> DEFINE c == NextCommand(g)
  <2>1. Continue(c)
    BY <1>3, <1>8
  <2>2. c \in F /\ Onward(c) /\ c.cmd_exec_state = 0
    BY <1>4, NextOnward
  <2> HIDE DEF c
  <2>3. IsOpen(code, c) => c.cmd_exec_state = SHARED
    BY <2>2 DEF IsOpen, SHARED, SEQ_MAX
  <2> QED BY <1>8, <2>1, <2>2, <2>3 DEF Advances
<1> QED BY <1>6, <1>7, <1>8

LEMMA NextAdvances ==
    ASSUME StackReady, AtCommand, NEW f, Represents(f), Continue(NextCommand(f))
    PROVE  Advances
<1> DEFINE c == NextCommand(f)
<1>1. c \in F /\ Onward(c) /\ c.cmd_exec_state = 0
  BY NextOnward
<1>2. Continue(c)
  OBVIOUS
<1> HIDE DEF c
<1>3. IsOpen(code, c) => c.cmd_exec_state = SHARED
  BY <1>1 DEF IsOpen, SHARED, SEQ_MAX
<1> QED BY <1>1, <1>2, <1>3 DEF Advances

LEMMA OnIsChosen ==
    ASSUME StackReady, NEW ops, NEW processors, On(ops, processors)
    PROVE  /\ AtCommand /\ Command(Top).op \in ops /\ Top.cmd_processor \in processors
           /\ Current.current_component_idx # NoIndex
           /\ Chosen(Top)
           /\ Mapped(Top.manifest)
<1>1. /\ AtCommand /\ Command(Top).op \in ops /\ Top.cmd_processor \in processors
      /\ Current.current_component_idx \in Indexes(Current)
  BY DEF On, At
<1>2. Represents(Current)
  BY CurrentRepresents
<1>3. /\ Current.manifest = Top.manifest /\ Top.manifest \in Entry
      /\ manifest_stack[Top.manifest] \in Seq(Slot)
      /\ Len(manifest_stack[Top.manifest]) <= MaxComponents
  BY <1>2 DEF Represents, SameOwner, F, FrameType, StackReady, Maps
<1>4. Current.current_component_idx # NoIndex /\ Len(manifest_stack[Top.manifest]) # 0
  BY <1>1, <1>3, LenProperties, SeqExecAssumption DEF Indexes, NoIndex
<1>5. Mapped(Top.manifest)
  BY <1>3, <1>4, EmptySeq DEF Mapped
<1> QED BY <1>1, <1>2, <1>4, <1>5 DEF Represents, Chosen

LEMMA ScheduleEnters ==
    ASSUME StackReady, AtCommand, Command(Top).op \in Nesting, Chosen(Top),
           NEW f, Represents(f), f.current_component_idx # NoIndex,
           f.cmd_exec_state \in DOMAIN Command(f).seqs,
           Command(Top).op = "run_sequence" => f.cmd_exec_state = 1,
           NEW soft \in BOOLEAN, Schedule(f, Command(f).seqs[f.cmd_exec_state], soft)
    PROVE  Enters \/ Finishes
<1> DEFINE name == Command(f).seqs[f.cmd_exec_state]
           h == NewFrame(name, f.manifest, soft, f.cmd_processor, f.current_components)
<1>1. Typed /\ f \in F /\ SameOwner(f, Top) /\ f.current_command = Top.current_command
  BY ReadyIsTyped DEF Represents
<1>2. f.current_command < Len(code[f.cmd_seq]) /\ Command(f) = Command(Top)
  BY <1>1 DEF AtCommand, SameOwner, Command
<1>3. name \in DOMAIN code
  <2>1. Command(f).seqs \in Seq(DOMAIN code)
    BY <1>1, <1>2, CommandOf DEF StackReady, CommandType
  <2> QED BY <2>1, ElementOfSeq, LenProperties
<1>4. CASE Len(seq_stack) < MaxSeqDepth
  <2>1. seq_stack' = Append([seq_stack EXCEPT ![Len(seq_stack)] = f], h)
    BY <1>4 DEF Schedule, Push
  <2>2. /\ h \in F /\ h.current_command = 0 /\ h.cmd_exec_state = 0 /\ h.cmd_seq = name
        /\ h.manifest = f.manifest /\ h.cmd_processor = f.cmd_processor
    <3>1. "SUCCESS" \in Retvals /\ NoIndex \in 0 .. MaxComponents
      BY SeqExecAssumption DEF Retvals, Endings, NoIndex
    <3> HIDE DEF name
    <3> QED BY <1>1, <1>3, <3>1 DEF F, FrameType, NewFrame
  <2>3. Starts(f, h)
    BY <1>2, <2>2 DEF Starts
  <2> HIDE DEF h
  <2> QED BY <1>1, <1>2, <2>1, <2>2, <2>3 DEF Enters, AtCommand
<1>5. CASE ~(Len(seq_stack) < MaxSeqDepth)
  <2>1. Return(f, "ERR_OVERFLOW") /\ "ERR_OVERFLOW" \in Retvals
    BY <1>5 DEF Schedule, Retvals, Endings
  <2> QED BY <2>1, ReturnAdvances DEF Finishes
<1> QED BY <1>4, <1>5

LEMMA TryEachForm ==
    ASSUME StackReady, TryEach
    PROVE  Advances \/ Enters \/ Finishes
<1> DEFINE f == Current
<1>1. /\ AtCommand /\ Command(Top).op \in Nesting /\ Chosen(Top)
      /\ Command(Top).op = "try_each" /\ f.current_component_idx # NoIndex
  BY OnIsChosen DEF TryEach, Nesting
<1>2. Represents(f) /\ f \in F /\ Command(f) = Command(Top)
  BY CurrentRepresents, ReadyIsTyped, CurrentOf DEF StackReady, Represents
<1>3. IF ~NextAlternative(f) THEN Return(f, f.retval)
      ELSE IF MoreSequences(f)
           THEN Schedule(Started(f), Command(f).seqs[f.cmd_exec_state + 1], TRUE)
           ELSE Return([f EXCEPT !.retval = "SUCCESS"],
                       IF Command(f).nil THEN "SUCCESS" ELSE "ERR_CRASH")
  BY DEF TryEach
<1> HIDE DEF f
<1>4. "SUCCESS" \in Retvals /\ "ERR_CRASH" \in Retvals /\ f.retval \in Retvals
      /\ f.cmd_exec_state \in Nat
  BY <1>2 DEF Retvals, Endings, F, FrameType
<1>5. CASE ~NextAlternative(f)
  BY <1>1, <1>2, <1>3, <1>4, <1>5, ReturnAdvances DEF Finishes
<1>6. CASE NextAlternative(f) /\ MoreSequences(f)
  <2> DEFINE x == f.cmd_exec_state + 1
             g == [f EXCEPT !.retval = "SUCCESS", !.cmd_exec_state = x]
  <2>1. Schedule(g, Command(f).seqs[x], TRUE) /\ x \in Nat
    <3>1. Schedule(Started(f), Command(f).seqs[x], TRUE)
      BY <1>3, <1>6
    <3>2. Started(f) = g
      BY DEF Started
    <3>3. x \in Nat
      BY <1>4
    <3> HIDE DEF g, x
    <3> QED BY <3>1, <3>2, <3>3
  <2>2. x \in DOMAIN Command(f).seqs
    <3>1. Command(f).seqs \in Seq(DOMAIN code)
      BY <1>1, <1>2, ReadyIsTyped, CommandOf DEF AtCommand, StackReady, CommandType
    <3> QED BY <1>4, <1>6, <3>1, LenProperties DEF MoreSequences
  <2> HIDE DEF x
  <2>3. /\ Represents(g) /\ g.cmd_exec_state = x /\ Command(g) = Command(f)
        /\ g.current_component_idx = f.current_component_idx
    BY <1>2, <1>4, <2>1, StillRepresents DEF F, FrameType, Command
  <2> HIDE DEF g
  <2> QED BY <1>1, <2>1, <2>2, <2>3, ScheduleEnters
<1>7. CASE NextAlternative(f) /\ ~MoreSequences(f)
  <2> DEFINE g == [f EXCEPT !.retval = "SUCCESS"]
             r == IF Command(f).nil THEN "SUCCESS" ELSE "ERR_CRASH"
  <2>1. Represents(g)
    <3>1. 0 \in Nat /\ TRUE \in BOOLEAN
      OBVIOUS
    <3> QED BY <1>2, <1>4, <3>1, StillRepresents
  <2>2. Return(g, r) /\ r \in Retvals
    BY <1>3, <1>4, <1>7
  <2> HIDE DEF g, r
  <2> QED BY <1>1, <2>1, <2>2, ReturnAdvances DEF Finishes
<1> QED BY <1>5, <1>6, <1>7

LEMMA RunSequenceForm ==
    ASSUME StackReady, RunSequence
    PROVE  Advances \/ Enters \/ Finishes
<1> DEFINE f == Current
           r == IF f.retval = "FAIL_SOFT_CONDITION" THEN "SUCCESS" ELSE f.retval
<1>1. /\ AtCommand /\ Command(Top).op = "run_sequence" /\ Command(Top).op \in Nesting
      /\ Chosen(Top) /\ f.current_component_idx # NoIndex
  BY OnIsChosen DEF RunSequence, Nesting
<1>2. Represents(f) /\ f \in F /\ Command(f) = Command(Top)
  BY CurrentRepresents, ReadyIsTyped, CurrentOf DEF StackReady, Represents
<1>3. IF f.cmd_exec_state = 0
      THEN Schedule([f EXCEPT !.cmd_exec_state = 1], Command(f).seqs[1], FALSE)
      ELSE Return([f EXCEPT !.retval = r], r)
  BY DEF RunSequence
<1>4. r \in Retvals
  BY <1>2 DEF Retvals, Endings, F, FrameType
<1> HIDE DEF f, r
<1>5. CASE f.cmd_exec_state = 0
  <2> DEFINE g == [f EXCEPT !.cmd_exec_state = 1]
  <2>1. Schedule(g, Command(f).seqs[1], FALSE)
    BY <1>3, <1>5
  <2>2. 1 \in DOMAIN Command(f).seqs
    <3>1. Command(f).seqs \in Seq(DOMAIN code) /\ Command(f).seqs # <<>>
      BY <1>1, <1>2, ReadyIsTyped, CommandOf DEF AtCommand, StackReady, CommandType
    <3> QED BY <3>1, EmptySeq, LenProperties
  <2>3. /\ Represents(g) /\ g.cmd_exec_state = 1 /\ Command(g) = Command(f)
        /\ g.current_component_idx = f.current_component_idx
    <3>1. 1 \in Nat /\ TRUE \in BOOLEAN
      OBVIOUS
    <3> QED BY <1>2, <1>4, <3>1, StillRepresents DEF F, FrameType, Command
  <2> HIDE DEF g
  <2> QED BY <1>1, <2>1, <2>2, <2>3, ScheduleEnters
<1>6. CASE f.cmd_exec_state # 0
  <2> DEFINE g == [f EXCEPT !.retval = r]
  <2>1. Represents(g)
    <3>1. 0 \in Nat /\ TRUE \in BOOLEAN
      OBVIOUS
    <3> QED BY <1>2, <1>4, <3>1, StillRepresents
  <2>2. Return(g, r)
    BY <1>3, <1>6
  <2> HIDE DEF g
  <2> QED BY <1>1, <1>4, <2>1, <2>2, ReturnAdvances DEF Finishes
<1> QED BY <1>5, <1>6

LEMMA SetComponentIndexForm ==
    ASSUME StackReady, SetComponentIndex
    PROVE  Advances \/ Finishes
<1> DEFINE select == Command(Top).select
           comps  == IF select = {} THEN Indexes(Top) ELSE select \cap Indexes(Top)
           f      == [Top EXCEPT !.current_components = comps]
           r      == IF Top.cmd_processor \in Run THEN "ERR_MISSING_COMPONENT"
                     ELSE "ERR_MANIFEST_VALIDATION"
           g      == NextCommand(f)
<1>1. /\ AtCommand /\ Command(Top).op = "set_component_index"
      /\ IF select \subseteq Indexes(Top) THEN Continue(g) ELSE Finalize(f, r)
  BY DEF SetComponentIndex, At
<1>2. Top \in F /\ comps \in SUBSET Nat
  BY ReadyIsTyped DEF Indexes
<1> HIDE DEF comps
<1>3. f \in F /\ SameOwner(f, Top) /\ f.current_command = Top.current_command
  BY <1>2 DEF F, FrameType, SameOwner
<1>4. r \in Retvals
  BY DEF Retvals, Endings
<1> HIDE DEF f, r
<1>5. /\ g \in F /\ SameOwner(g, f) /\ g.cmd_exec_state = 0
      /\ g.current_command = f.current_command + 1
  <2>1. f.current_command < Len(code[f.cmd_seq])
    BY <1>1, <1>3 DEF AtCommand, SameOwner
  <2>2. g.current_command = f.current_command + 1
    BY <1>3 DEF F, FrameType, NextCommand
  <2> QED BY <1>3, <2>1, <2>2, NextCommandStands DEF StackReady
<1> HIDE DEF g
<1>6. CASE select \subseteq Indexes(Top)
  <2>1. Onward(g)
    BY <1>1, <1>3, <1>5 DEF Onward, Passes, SameOwner, AtCommand
  <2>2. IsOpen(code, g) => g.cmd_exec_state = SHARED
    BY <1>5 DEF IsOpen, SHARED, SEQ_MAX
  <2> QED BY <1>1, <1>5, <1>6, <2>1, <2>2 DEF Advances
<1>7. CASE ~(select \subseteq Indexes(Top))
  BY <1>1, <1>3, <1>4, <1>7 DEF Finishes, FinishesAs
<1> QED BY <1>6, <1>7

LEMMA OverrideForm ==
    ASSUME StackReady, Override
    PROVE  Advances \/ Finishes
<1> DEFINE params == Command(Top).params
           stop   == Refused(params)
           n      == IF stop = {} THEN Len(params) ELSE First(stop) - 1
           soft   == SoftFailureAfter(params, n)
           f      == [Top EXCEPT !.soft_failure = soft]
<1>1. /\ AtCommand /\ Running
      /\ IF stop = {} THEN Continue(NextCommand(f)) ELSE Finalize(Top, "ERR_UNSUPPORTED_COMMAND")
  BY DEF Override, At, AtCommand
<1>2. /\ Top \in F /\ Command(Top) \in CommandType(DOMAIN code) /\ Typed
  BY <1>1, ReadyIsTyped, CommandOf DEF AtCommand, StackReady
<1>3. CASE stop # {}
  BY <1>1, <1>2, <1>3, TopFinishes DEF Endings
<1>4. CASE stop = {}
  <2>1. soft \in BOOLEAN
    BY <1>2, SoftFailureTyped DEF CommandType, F, FrameType
  <2>2. Continue(NextCommand(f))
    BY <1>1, <1>4
  <2> HIDE DEF soft
  <2>3. Represents(f)
    <3>1. "SUCCESS" \in Retvals /\ 0 \in Nat
      BY DEF Retvals, Endings
    <3> QED BY <2>1, <3>1, CurrentRepresents, StillRepresents
  <2> HIDE DEF f
  <2> QED BY <1>1, <2>2, <2>3, NextAdvances
<1> QED BY <1>3, <1>4

LEMMA OtherForms ==
    ASSUME StackReady,
           EndOfSequence \/ RejectCommand \/ SkipCommand \/ ComponentGone \/ ValidateOverride
    PROVE  Advances \/ Finishes
<1>1. Represents(Current) /\ Represents(Top)
  BY CurrentRepresents
<1>2. Typed /\ Running
  BY ReadyIsTyped DEF StackReady
<1>3. CASE EndOfSequence
  BY <1>2, <1>3, TopFinishes DEF EndOfSequence, Endings
<1>4. CASE RejectCommand
  <2>1. \E r \in Endings : Finalize(Top, r)
    BY <1>4 DEF RejectCommand, Endings
  <2> QED BY <1>2, <2>1, TopFinishes
<1>5. CASE ComponentGone
  <2>1. Finalize(Current, "ERR_MISSING_COMPONENT") /\ "ERR_MISSING_COMPONENT" \in Retvals
    BY <1>5 DEF ComponentGone, Retvals, Endings
  <2> QED BY <1>1, <2>1 DEF Finishes, FinishesAs, Represents
<1>6. CASE SkipCommand \/ ValidateOverride
  <2>1. AtCommand /\ (Continue(NextCommand(Current)) \/ Continue(NextCommand(Top)))
    BY <1>6 DEF SkipCommand, ValidateOverride, At
  <2> QED BY <1>1, <2>1, NextAdvances
<1> QED BY <1>3, <1>4, <1>5, <1>6

\* One iteration of the loop in suit_process_scheduled.
LEMMA SequenceForm ==
    ASSUME StackReady, SeqStep
    PROVE  Advances \/ Enters \/ Finishes
<1>1. CASE \E o \in SUBSET (ComponentCommands \ Nesting), p \in {Run, Validate} :
              On(o, p) /\ \E r \in Endings : Return(Current, r)
  <2>1. PICK r \in Endings : Return(Current, r)
    BY <1>1
  <2>2. AtCommand /\ r \in Retvals
    BY <1>1 DEF On, At, Retvals
  <2> QED BY <2>1, <2>2, CurrentRepresents, ReturnAdvances DEF Finishes
<1>2. CASE \E i \in 0 .. MaxComponents - 1, r \in PlatResults \ {"SUCCESS"} :
              OverrideSizeFails(i, r)
  BY <1>2, ReadyIsTyped, OverrideSizeFailsWay
<1> QED
  BY <1>1, <1>2, ReturningStep, TryEachForm, RunSequenceForm, OverrideForm,
     SetComponentIndexForm, OtherForms DEF SeqStep

LEMMA TurnAdvances ==
    ASSUME StackReady, NEW f, Represents(f), NEW x \in Nat,
           x = SHARED \/ x \notin SHARED .. SEQ_MAX + 2,
           \/ Continue([f EXCEPT !.cmd_exec_state = x])
           \/ \E v \in Retvals : Continue([f EXCEPT !.cmd_exec_state = x, !.retval = v])
    PROVE  Advances
<1>1. "SUCCESS" \in Retvals /\ TRUE \in BOOLEAN /\ f \in F
  BY DEF Retvals, Endings, Represents
<1>2. PICK g \in {[f EXCEPT !.cmd_exec_state = x]}
                 \cup {[f EXCEPT !.cmd_exec_state = x, !.retval = v] : v \in Retvals} :
         Continue(g)
  OBVIOUS
<1>3. Represents(g) /\ g.cmd_exec_state = x
  <2>1. CASE g = [f EXCEPT !.cmd_exec_state = x]
    BY <1>1, <2>1, StillRepresents DEF F, FrameType
  <2>2. CASE \E v \in Retvals : g = [f EXCEPT !.cmd_exec_state = x, !.retval = v]
    <3>1. PICK v \in Retvals : g = [f EXCEPT !.cmd_exec_state = x, !.retval = v]
      BY <2>2
    <3> QED BY <1>1, <3>1, StillRepresents DEF F, FrameType
  <2> QED BY <1>2, <2>1, <2>2
<1>4. IsOpen(code, g) => g.cmd_exec_state = SHARED
  BY <1>3 DEF IsOpen
<1>5. g \in F /\ Onward(g)
  BY <1>3 DEF Represents, Onward
<1> QED BY <1>2, <1>4, <1>5 DEF Advances

LEMMA LoadFailedAdvances ==
    ASSUME StackReady, AtCommand, NEW r \in Retvals, LoadFailed(r)
    PROVE  Advances \/ Finishes
<1>1. PICK q \in {"FAIL_CONDITION", r} : Return(Current, q)
  BY DEF LoadFailed
<1>2. q \in Retvals
  BY <1>1 DEF Retvals, Endings
<1> QED BY <1>1, <1>2, CurrentRepresents, ReturnAdvances DEF Finishes

LEMMA ReleaseAdvances ==
    ASSUME StackReady, NEW e, NEW v \in Retvals, ReleaseDependency(e, v)
    PROVE  Advances
<1>1. Continue([Top EXCEPT !.cmd_exec_state = Releasing, !.retval = v])
  BY DEF ReleaseDependency
<1>2. Releasing \in Nat /\ Releasing \notin SHARED .. SEQ_MAX + 2
  BY DEF Releasing, SHARED, SEQ_MAX
<1> QED BY <1>1, <1>2, CurrentRepresents, TurnAdvances

\* A sequence of the dependency is scheduled, or its error noted.
Proceeds == ValidateForIntegrity \/ ValidateForProcess \/ ExecuteDependency

LEMMA DependencyAdvances ==
    ASSUME PInv, DependencyStep
    PROVE  Advances \/ Finishes \/ Proceeds
<1>1. {"FAIL_CONDITION", "SUCCESS", "ERR_OVERFLOW"} \cup AuthResults \cup PlatResults
         \cup Registry!Results \subseteq Retvals
  BY DEF Retvals, Endings, Registry!Results
<1>2. ASSUME Running
      PROVE  /\ StackReady /\ Top.retval \in Retvals
             /\ Represents(Current) /\ Represents(Top)
  BY <1>2, InSequence, ReadyIsTyped, CurrentRepresents DEF F, FrameType
<1>3. /\ op_ret \in Retvals
      /\ Loading \in Nat /\ Loading \notin SHARED .. SEQ_MAX + 2
      /\ SHARED \in Nat
  BY <1>1, RegistryTyped DEF PInv, Loading, SHARED, SEQ_MAX
<1>4. CASE LoadDependency
  <2>1. AtCommand /\ StackReady /\ Represents(Current)
    BY <1>2, <1>4 DEF LoadDependency, ToLoad, On, At, AtCommand
  <2>2. LoadFailed("ERR_OVERFLOW") \/ Continue([Current EXCEPT !.cmd_exec_state = Loading])
    BY <1>4 DEF LoadDependency
  <2> QED BY <1>1, <1>3, <2>1, <2>2, LoadFailedAdvances, TurnAdvances
<1>5. CASE DependencyNotLoaded
  <2>1. AtCommand /\ StackReady /\ LoadFailed(op_ret)
    BY <1>2, <1>5 DEF DependencyNotLoaded, AwaitsRegistry, AtCommand
  <2> QED BY <1>3, <2>1, LoadFailedAdvances
<1>6. CASE LoadedForIntegrity \/ \E r \in AuthResults : AuthorizeDependency(r)
  <2>1. Running
    BY <1>6 DEF LoadedForIntegrity, AuthorizeDependency, AwaitsRegistry, AtCommand
  <2>2. \/ Continue([Top EXCEPT !.cmd_exec_state = SHARED])
        \/ \E r \in AuthResults : ReleaseDependency(Dependency - 1, r)
    BY <1>6 DEF LoadedForIntegrity, AuthorizeDependency
  <2> QED BY <1>1, <1>2, <1>3, <2>1, <2>2, TurnAdvances, ReleaseAdvances
<1>7. CASE IntegrityFails \/ IntegrityHolds \/ ProcessFails
            \/ \E r \in PlatResults : DependencyCompleted(r)
  <2>1. Running
    BY <1>7 DEF IntegrityFails, IntegrityHolds, ProcessFails, DependencyCompleted,
       ResumedProcess, Resumed, On, At, AtCommand
  <2>2. \E v \in {"FAIL_CONDITION", "SUCCESS", Top.retval} \cup PlatResults :
           ReleaseDependency(Dependency, v)
    BY <1>7 DEF IntegrityFails, IntegrityHolds, ProcessFails, DependencyCompleted
  <2> QED BY <1>1, <1>2, <2>1, <2>2, ReleaseAdvances
<1>8. CASE DependencyReleased
  <2> DEFINE r == IF Top.retval = "SUCCESS" THEN op_ret ELSE Top.retval
             f == [Top EXCEPT !.retval = r]
  <2>1. AtCommand /\ StackReady /\ Return(f, r) /\ Represents(Top) /\ Top.retval \in Retvals
    BY <1>2, <1>8 DEF DependencyReleased, AwaitsRegistry, AtCommand
  <2>2. r \in Retvals /\ 0 \in Nat /\ TRUE \in BOOLEAN
    BY <1>3, <2>1
  <2> HIDE DEF r
  <2>3. Represents(f)
    BY <2>1, <2>2, StillRepresents
  <2> HIDE DEF f
  <2> QED BY <2>1, <2>2, <2>3, ReturnAdvances DEF Finishes
<1> QED BY <1>4, <1>5, <1>6, <1>7, <1>8 DEF DependencyStep, Proceeds

LEMMA StepAdvances ==
    ASSUME PInv, [Next]_vars, Running
    PROVE  (Stays /\ UNCHANGED seq_stack) \/ Advances \/ Enters \/ Finishes \/ Proceeds
<1>1. CASE RunCommand
  BY <1>1, InSequence, SequenceForm DEF RunCommand
<1>2. CASE UNCHANGED vars \/ LoadStep \/ ReleaseStep
  BY <1>2 DEF Stays, vars, stacks, LoadStep, ReleaseStep
<1>3. CASE Loaded \/ ValidateNext \/ ValidationDone \/ DryRunNext \/ DryRunMain \/ DryRunRepeat
           \/ DryRunDone \/ ExecuteShared \/ ExecuteMain \/ (\E r \in PlatResults : Completed(r))
           \/ GiveUp \/ CallReturns \/ \E n \in Calls : Call(n)
  BY <1>3 DEF Loaded, ValidateNext, ValidationDone, DryRunNext, DryRunMain, DryRunRepeat,
     DryRunDone, ExecuteShared, ExecuteMain, Completed, GiveUp, CallReturns, Call, AtStep
<1> QED BY <1>1, <1>2, <1>3, DependencyAdvances DEF Next, Step, DependencyStep

-----------------------------------------------------------------------------
(***************************************************************************)
(* The manifests that the frames run in stay what they are.                *)
(***************************************************************************)
Holds(e) == manifest_stack'[e] = manifest_stack[e] /\ envelope'[e] = envelope[e]

LEMMA EntryStays ==
    ASSUME PInv, [Next]_vars, NEW e \in Entry, e < manifest_stack_height,
           op # "none" => e # entry
    PROVE  Holds(e)
<1>1. manifest_stack_height \in Nat /\ e \in Nat
  BY RegistryTyped DEF PInv, Entry
<1>2. /\ manifest_stack \in [Entry -> Seq(Slot)]
      /\ envelope \in [Entry -> DOMAIN envelopes \cup {NoEnvelope}]
      /\ e # manifest_stack_height
  <2>1. manifest_stack \in [Entry -> Seq(Slot)]
    BY DEF PInv, Proofs!RegistryInv, Proofs!TypeOK, Entry, Proofs!Entry, Slot, Proofs!Slot
  <2>2. e # manifest_stack_height
    BY <1>1
  <2> QED BY <2>1, <2>2 DEF PInv, WorldOK
<1>3. CASE LoadStep
  <2>1. op = "loading" /\ UNCHANGED envelope
    BY <1>3 DEF LoadStep
  <2>2. manifest_stack' = manifest_stack \/ \E s : manifest_stack' = [manifest_stack EXCEPT ![entry] = s]
    BY <1>3 DEF LoadStep, Registry!LoadRejected, Registry!AppendComponent, Registry!AppendUndecodable,
       Registry!LoadDone, Registry!AppendToFullMap, Registry!AppendExisting, Registry!AppendNew,
       Registry!AppendWithoutSlot, Registry!Unwind, Registry!Appended
  <2> QED BY <1>2, <2>1, <2>2 DEF Holds
<1>4. CASE ReleaseStep
  <2>1. op # "none" /\ (envelope' = envelope \/ \E s : envelope' = [envelope EXCEPT ![entry] = s])
    BY <1>4 DEF ReleaseStep, Registry!ReleaseStep, Registry!ReleaseMissing, Registry!ReleaseShared,
       Registry!ReleaseLast, Registry!ReleaseDone, Registry!Releasing
  <2>2. manifest_stack' = manifest_stack \/ \E s : manifest_stack' = [manifest_stack EXCEPT ![entry] = s]
    BY <1>4 DEF ReleaseStep, Registry!ReleaseStep, Registry!ReleaseMissing, Registry!ReleaseShared,
       Registry!ReleaseLast, Registry!ReleaseDone
  <2> QED BY <1>2, <2>1, <2>2 DEF Holds
<1>5. CASE LoadDependency \/ \E n \in Calls : Call(n)
  <2>1. \/ UNCHANGED <<manifest_stack, envelope>>
        \/ \E name : /\ manifest_stack' = [manifest_stack EXCEPT ![manifest_stack_height] = <<>>]
                     /\ envelope' = [envelope EXCEPT ![manifest_stack_height] = name]
    BY <1>5 DEF LoadDependency, Call, StartLoad, Registry!BeginLoad, Registry!LoadRefused
  <2> QED BY <1>2, <2>1 DEF Holds
<1>6. ASSUME UNCHANGED <<manifest_stack, envelope>> PROVE Holds(e)
  BY <1>6 DEF Holds
<1>7. CASE RunCommand
  BY <1>6, <1>7, StepAsks DEF RunCommand
<1>8. CASE UNCHANGED vars \/ Loaded \/ ValidateNext \/ ValidationDone \/ DryRunNext \/ DryRunMain
           \/ DryRunRepeat \/ DryRunDone \/ ExecuteShared \/ ExecuteMain \/ CallReturns
  BY <1>6, <1>8 DEF vars, registry_vars, Loaded, ValidateNext, ValidationDone, DryRunNext,
     DryRunMain, DryRunRepeat, DryRunDone, ExecuteShared, ExecuteMain, CallReturns
<1>9. CASE (\E r \in PlatResults : Completed(r)) \/ GiveUp
  <2>1. \E r : Leave(r)
    BY <1>9 DEF Completed, GiveUp
  <2> QED BY <1>6, <2>1 DEF Leave, Registry!BeginRelease
<1>10. ASSUME NEW x, NEW v, ReleaseDependency(x, v) PROVE Holds(e)
  BY <1>6, <1>10 DEF ReleaseDependency, Registry!BeginRelease
<1>11. CASE DependencyStep
  <2>1. CASE ValidateForIntegrity \/ ValidateForProcess \/ ExecuteDependency \/ DependencyNotLoaded
             \/ LoadedForIntegrity \/ DependencyReleased
    BY <1>6, <2>1 DEF ValidateForIntegrity, ValidateForProcess, ExecuteDependency,
       ScheduleDependency, DependencyNotLoaded, LoadedForIntegrity, DependencyReleased, registry_vars
  <2>2. CASE \E r \in AuthResults : AuthorizeDependency(r)
    <3>1. PICK r \in AuthResults : AuthorizeDependency(r)
      BY <2>2
    <3> QED BY <1>6, <1>10, <3>1 DEF AuthorizeDependency, registry_vars
  <2>3. CASE IntegrityFails \/ IntegrityHolds \/ ProcessFails
             \/ \E r \in PlatResults : DependencyCompleted(r)
    <3>1. \E x, v : ReleaseDependency(x, v)
      BY <2>3 DEF IntegrityFails, IntegrityHolds, ProcessFails, DependencyCompleted
    <3> QED BY <1>10, <3>1
  <2> QED BY <1>5, <1>11, <2>1, <2>2, <2>3 DEF DependencyStep
<1> QED BY <1>3, <1>4, <1>5, <1>7, <1>8, <1>9, <1>11 DEF Next, Step, DependencyStep

\* An open command waits for its dependency, in whose manifest the next frame runs.
LEMMA ManifestAbove ==
    ASSUME PInv, InStep, NEW k \in Frames, k < Len(seq_stack), IsOpen(code, seq_stack[k])
    PROVE  k + 1 \in Frames /\ seq_stack[k + 1].manifest = seq_stack[k].manifest + 1
<1>1. /\ seq_stack \in Seq(F) /\ Frames = 1 .. Len(seq_stack) /\ Len(seq_stack) \in Nat
      /\ k \in 1 .. Len(seq_stack) /\ k + 1 \in 1 .. Len(seq_stack)
  BY FramesNow, LenProperties DEF PInv, FramesOK, F
<1>2. Depth(code, seq_stack, k + 1) = Depth(code, seq_stack, k) + 1
  BY <1>1, DepthOfNext
<1>3. Depth(code, seq_stack, k) \in Nat
  BY <1>1, OpenFinite
<1>4. /\ seq_stack[k].manifest = 0 + Depth(code, seq_stack, k)
      /\ seq_stack[k + 1].manifest = 0 + Depth(code, seq_stack, k + 1)
  BY <1>1 DEF InStep
<1> QED BY <1>1, <1>2, <1>3, <1>4

LEMMA FrameHolds ==
    ASSUME Level, NEW k \in Frames
    PROVE  seq_stack[k].manifest \in Entry /\ Holds(seq_stack[k].manifest)
<1>1. FramesBelow
  BY FramesLieBelow DEF Level, RegistryKept
<1> QED BY <1>1, EntryStays DEF Level, FramesBelow

-----------------------------------------------------------------------------
(***************************************************************************)
(* The stack after a step.                                                 *)
(***************************************************************************)
\* The command on top, resumed, goes on with sequence x of its dependency.
ProceedsWith(x, p, v, g) ==
    LET e == Dependency IN
    /\ g = [Top EXCEPT !.cmd_exec_state = Top.cmd_exec_state + 1, !.retval = v]
    /\ Top.retval = "SUCCESS"
    /\ \/ /\ Command(Top).op = "dependency_integrity"
          /\ Top.cmd_exec_state < SEQ_MAX /\ p \in Validate
       \/ /\ Command(Top).op = "process_dependency"
          /\ \/ /\ Top.cmd_exec_state < SEQ_MAX /\ x = Top.cmd_exec_state
                /\ p = Validator(x) /\ v = Masked(ScheduledDependency(x), x)
             \/ Top.cmd_exec_state = SEQ_MAX /\ x = SHARED /\ p = "run"
             \/ Top.cmd_exec_state = SEQ_MAX + 1 /\ p = "run"
    /\ \/ ScheduledDependency(x) # "ERR_AGAIN" /\ Continue(g)
       \/ /\ Status(e, x) = "SUCCESS"
          /\ seq_stack' = Append([seq_stack EXCEPT ![Len(seq_stack)] = g],
                                 NewFrame(Sequences(e)[x], e, FALSE, p, InitSelected(e)))

LEMMA ProceedsForm ==
    ASSUME PInv, InStep, Placed, Proceeds
    PROVE  /\ StackReady /\ IsWaiting(code, Top) /\ Top.cmd_processor = "run"
           /\ Current = Top /\ Chosen(Top) /\ Mapped(Top.manifest)
           /\ Dependency \in Entry /\ Dependency = Top.manifest + 1
           /\ Top.cmd_exec_state \in SHARED .. SEQ_MAX + 1
           /\ UNCHANGED registry_vars /\ UNCHANGED envelope
           /\ \E x : \E p \in Run \cup Validate, v \in Retvals, g \in F :
                 ProceedsWith(x, p, v, g) /\ IsOpen(code, g) /\ SameOwner(g, Top)
<1>1. PICK name \in DependencyCommands : Resumed(name)
  BY DEF Proceeds, ValidateForIntegrity, ValidateForProcess, ExecuteDependency, ResumedProcess,
     DependencyCommands
<1>2. /\ Running /\ IsWaiting(code, Top) /\ Current = Top
      /\ Dependency = Top.manifest + 1
      /\ Top.cmd_processor = "run" /\ Dependency \in Entry /\ IsOpen(code, Top)
  BY <1>1, ResumedTop, ResumedOpen
<1>3. StackReady /\ Top \in F
  BY <1>2, InSequence, ReadyIsTyped
<1>4. Chosen(Top) /\ Mapped(Top.manifest)
  BY <1>1, <1>3, OnIsChosen DEF Resumed
<1>5. Top.cmd_exec_state \in SHARED .. SEQ_MAX + 1
  <2>1. Top.cmd_exec_state \in SHARED .. SEQ_MAX + 2 /\ Top.cmd_exec_state # SEQ_MAX + 2
    BY <1>1 DEF Resumed, Proceeds, ValidateForIntegrity, ValidateForProcess, ExecuteDependency, SEQ_MAX
  <2> QED BY <2>1 DEF SHARED, SEQ_MAX
<1>6. PICK x : \E p \in Run \cup Validate, v \in Retvals :
         /\ ScheduleDependency(x, p, v)
         /\ Top.retval = "SUCCESS"
         /\ \/ /\ Command(Top).op = "dependency_integrity"
               /\ Top.cmd_exec_state < SEQ_MAX /\ p \in Validate
            \/ /\ Command(Top).op = "process_dependency"
               /\ \/ /\ Top.cmd_exec_state < SEQ_MAX /\ x = Top.cmd_exec_state
                     /\ p = Validator(x) /\ v = Masked(ScheduledDependency(x), x)
                  \/ Top.cmd_exec_state = SEQ_MAX /\ x = SHARED /\ p = "run"
                  \/ Top.cmd_exec_state = SEQ_MAX + 1 /\ p = "run"
  <2>1. CASE ValidateForIntegrity \/ ValidateForProcess
    <3> DEFINE y == Top.cmd_exec_state
    <3>1. /\ ScheduleDependency(y, Validator(y), Masked(ScheduledDependency(y), y))
          /\ Top.retval = "SUCCESS" /\ y < SEQ_MAX
          /\ Command(Top).op \in {"dependency_integrity", "process_dependency"}
      BY <2>1 DEF ValidateForIntegrity, ValidateForProcess, ResumedProcess, Resumed, On, At
    <3>2. Validator(y) \in Validate /\ Masked(ScheduledDependency(y), y) \in Retvals
      BY MaskedResults DEF Validator, Validate
    <3> QED BY <3>1, <3>2
  <2>2. CASE ExecuteDependency
    <3>1. /\ Top.retval = "SUCCESS" /\ Command(Top).op = "process_dependency"
          /\ \E x, v : /\ v \in Retvals /\ ScheduleDependency(x, "run", v)
                       /\ \/ Top.cmd_exec_state = SEQ_MAX /\ x = SHARED
                          \/ Top.cmd_exec_state = SEQ_MAX + 1
      BY <2>2, MaskedResults DEF ExecuteDependency, ResumedProcess, Resumed, On, At
    <3>2. "run" \in Run \cup Validate
      BY DEF Run
    <3> QED BY <3>1, <3>2
  <2> QED BY <2>1, <2>2 DEF Proceeds
<1>15. PICK p \in Run \cup Validate, v \in Retvals :
         /\ ScheduleDependency(x, p, v)
         /\ Top.retval = "SUCCESS"
         /\ \/ /\ Command(Top).op = "dependency_integrity"
               /\ Top.cmd_exec_state < SEQ_MAX /\ p \in Validate
            \/ /\ Command(Top).op = "process_dependency"
               /\ \/ /\ Top.cmd_exec_state < SEQ_MAX /\ x = Top.cmd_exec_state
                     /\ p = Validator(x) /\ v = Masked(ScheduledDependency(x), x)
                  \/ Top.cmd_exec_state = SEQ_MAX /\ x = SHARED /\ p = "run"
                  \/ Top.cmd_exec_state = SEQ_MAX + 1 /\ p = "run"
  BY <1>6
<1> DEFINE y == Top.cmd_exec_state + 1
           g == [Top EXCEPT !.cmd_exec_state = y, !.retval = v]
           st == [seq_stack EXCEPT ![Len(seq_stack)] = g]
           e == Dependency
           h == NewFrame(Sequences(e)[x], e, FALSE, p, InitSelected(e))
<1>7. seq_stack' = Pushed(st, e, x, p) /\ seq_ret' = "ERR_AGAIN"
      /\ UNCHANGED registry_vars /\ UNCHANGED envelope
  BY <1>15 DEF ScheduleDependency
<1>8. Len(st) = Len(seq_stack)
  BY <1>3, ReadyIsTyped, ExceptSeq DEF F
<1>9. Scheduled(st, e, x) = ScheduledDependency(x)
  BY <1>8 DEF Scheduled, ScheduledDependency
<1>10. \/ ScheduledDependency(x) # "ERR_AGAIN" /\ Continue(g)
       \/ Status(e, x) = "SUCCESS" /\ seq_stack' = Append(st, h)
  <2>1. CASE ScheduledDependency(x) = "ERR_AGAIN"
    BY <1>7, <1>9, <2>1, ScheduledResult DEF Pushed
  <2>2. CASE ScheduledDependency(x) # "ERR_AGAIN"
    BY <1>7, <1>9, <2>2 DEF Pushed, Continue
  <2> QED BY <2>1, <2>2
<1>11. y \in SHARED .. SEQ_MAX + 2 /\ y \in Nat
  BY <1>5 DEF SHARED, SEQ_MAX
<1>12. g \in F /\ SameOwner(g, Top) /\ g.cmd_exec_state = y
       /\ g.current_command = Top.current_command
  <2> HIDE DEF y
  <2> QED BY <1>3, <1>15, <1>11 DEF F, FrameType, SameOwner
<1>13. IsOpen(code, g)
  BY <1>2, <1>11, <1>12 DEF IsOpen, AtDependency, SameOwner
<1>14. ProceedsWith(x, p, v, g)
  BY <1>15, <1>10 DEF ProceedsWith
<1> HIDE DEF g, st, h, e
<1> QED BY <1>2, <1>3, <1>4, <1>5, <1>7, <1>12, <1>15, <1>13, <1>14

-----------------------------------------------------------------------------
(***************************************************************************)
(* The frames after a step, by what the step does to the stack.            *)
(***************************************************************************)
\* The frames below the top ones are untouched.
Beneath(n) == \A k \in 1 .. n : seq_stack'[k] = seq_stack[k]

TurnsTo(g)   == /\ Len(seq_stack') = Len(seq_stack)
                /\ Beneath(Len(seq_stack) - 1)
                /\ seq_stack'[Len(seq_stack)] = g
Stacks(g, h) == /\ Len(seq_stack') = Len(seq_stack) + 1
                /\ Beneath(Len(seq_stack) - 1)
                /\ seq_stack'[Len(seq_stack)] = g
                /\ seq_stack'[Len(seq_stack) + 1] = h
PopsTo(v, selected) ==
    /\ Len(seq_stack') = Len(seq_stack) - 1
    /\ Beneath(Len(seq_stack) - 2)
    /\ Len(seq_stack) > 1 =>
          seq_stack'[Len(seq_stack) - 1] = [seq_stack[Len(seq_stack) - 1] EXCEPT
              !.retval = v, !.current_components = selected]

LEMMA ContinueTurns ==
    ASSUME StackReady, NEW g \in F, Continue(g)
    PROVE  TurnsTo(g)
<1>1. seq_stack \in Seq(F) /\ Len(seq_stack) \in Nat \ {0} /\ Running
  BY ReadyIsTyped DEF StackReady
<1>2. /\ Len(seq_stack') = Len(seq_stack)
      /\ \A k \in 1 .. Len(seq_stack) :
            seq_stack'[k] = IF k = Len(seq_stack) THEN g ELSE seq_stack[k]
  BY <1>1, ContinuedStack
<1> QED BY <1>1, <1>2 DEF TurnsTo, Beneath

LEMMA AppendStacks ==
    ASSUME StackReady, NEW g \in F, NEW h \in F,
           seq_stack' = Append([seq_stack EXCEPT ![Len(seq_stack)] = g], h)
    PROVE  Stacks(g, h)
<1>1. seq_stack \in Seq(F) /\ Len(seq_stack) \in Nat \ {0}
  BY ReadyIsTyped
<1> DEFINE st == [seq_stack EXCEPT ![Len(seq_stack)] = g]
<1>2. /\ st \in Seq(F) /\ Len(st) = Len(seq_stack)
      /\ \A k \in 1 .. Len(seq_stack) :
            st[k] = IF k = Len(seq_stack) THEN g ELSE seq_stack[k]
  BY <1>1, ExceptSeq, LenProperties
<1> HIDE DEF st
<1>3. seq_stack' = Append(st, h)
  BY DEF st
<1>4. /\ Len(seq_stack') = Len(st) + 1
      /\ \A k \in 1 .. Len(st) : seq_stack'[k] = st[k]
      /\ seq_stack'[Len(st) + 1] = h
  BY <1>2, <1>3, AppendProperties
<1> QED BY <1>1, <1>2, <1>4 DEF Stacks, Beneath

LEMMA FinalizePops ==
    ASSUME StackReady, NEW g \in F, NEW r \in Retvals, Finalize(g, r)
    PROVE  PopsTo(Result(g, r), g.current_components)
<1>1. seq_stack \in Seq(F) /\ Len(seq_stack) \in Nat \ {0} /\ Running
      /\ "FAIL_SOFT_CONDITION" \in Retvals
  BY ReadyIsTyped DEF StackReady, Retvals
<1>2. CASE Len(seq_stack) = 1
  <2>1. seq_stack' = <<>>
    BY <1>1, <1>2, PoppedStack DEF F
  <2> QED BY <1>2, <2>1, EmptySeq DEF PopsTo, Beneath
<1>3. CASE Len(seq_stack) # 1
  <2> DEFINE n == Len(seq_stack) - 1
  <2>1. /\ Len(seq_stack') = n
        /\ \A k \in 1 .. n - 1 : seq_stack'[k] = seq_stack[k]
        /\ seq_stack'[n] = [seq_stack[n] EXCEPT
               !.retval = Result(g, r), !.current_components = g.current_components]
    <3>1. Len(seq_stack) > 1
      BY <1>1, <1>3
    <3>2. /\ seq_stack \in Seq(FrameType(Retvals)) /\ g \in FrameType(Retvals) /\ Running
          /\ "FAIL_SOFT_CONDITION" \in Retvals /\ Finalize(g, r) /\ r \in Retvals
      BY <1>1 DEF F
    <3>3. Len(seq_stack) > 1 =>
                 LET m == Len(seq_stack) - 1 IN
                 /\ seq_stack' \in Seq(FrameType(Retvals)) /\ Len(seq_stack') = m
                 /\ \A k \in 1 .. m - 1 : seq_stack'[k] = seq_stack[k]
                 /\ seq_stack'[m] = [seq_stack[m] EXCEPT
                        !.retval = Result(g, r), !.current_components = g.current_components]
                 /\ seq_ret' = "ERR_AGAIN"
      BY <3>2, PoppedStack
    <3> QED BY <3>1, <3>3
  <2> QED BY <1>1, <2>1 DEF PopsTo, Beneath
<1> QED BY <1>2, <1>3

-----------------------------------------------------------------------------
(***************************************************************************)
(* What is said of one frame stays true of it while its manifest stays.    *)
(***************************************************************************)
\* Nothing changes the commands and the envelopes there are.
LEMMA WorldStays ==
    ASSUME [Next]_vars
    PROVE  code' = code /\ envelopes' = envelopes
<1> SUFFICES envelopes' = envelopes
  BY CodeStays
<1>1. CASE RunCommand
  BY <1>1 DEF RunCommand
<1>2. CASE UNCHANGED vars \/ LoadStep \/ ReleaseStep \/ Loaded \/ ValidateNext \/ ValidationDone
           \/ DryRunNext \/ DryRunMain \/ DryRunRepeat \/ DryRunDone \/ ExecuteShared \/ ExecuteMain
           \/ (\E r \in PlatResults : Completed(r)) \/ GiveUp \/ CallReturns
           \/ \E n \in Calls : Call(n)
  BY <1>2 DEF vars, world, LoadStep, ReleaseStep, Loaded, ValidateNext, ValidationDone, DryRunNext,
     DryRunMain, DryRunRepeat, DryRunDone, ExecuteShared, ExecuteMain, Completed, GiveUp, Leave,
     CallReturns, Call
<1>3. CASE DependencyStep
  BY <1>3 DEF DependencyStep, LoadDependency, DependencyNotLoaded, LoadedForIntegrity,
     AuthorizeDependency, ValidateForIntegrity, IntegrityFails, IntegrityHolds, ValidateForProcess,
     ExecuteDependency, ProcessFails, DependencyCompleted, DependencyReleased, ScheduleDependency,
     ReleaseDependency, world
<1> QED BY <1>1, <1>2, <1>3 DEF Next, Step, DependencyStep

LEMMA InnocentStays ==
    ASSUME code' = code
    PROVE  /\ Innocent' = Innocent
           /\ \A q, j : SelectedBefore(q, j)' <=> SelectedBefore(q, j)
           /\ \A c : Fine(c)' <=> Fine(c)
<1>1. Innocent' = Innocent
  BY DEF Innocent, Closed
<1>2. \A q, j : SelectedBefore(q, j)' <=> SelectedBefore(q, j)
  BY DEF SelectedBefore
<1>3. \A c : Fine(c)' <=> Fine(c)
  BY <1>1 DEF Fine
<1> QED BY <1>1, <1>2, <1>3

LEMMA GuardsStay ==
    ASSUME code' = code, NEW g, NEW h
    PROVE  /\ Guards(g)' <=> Guards(g)
           /\ Starts(g, h)' <=> Starts(g, h)
           /\ IsOpen(code, g)' <=> IsOpen(code, g)
BY DEF Guards, Starts, IsOpen, AtDependency, Command

LEMMA HarmlessStays ==
    ASSUME code' = code, NEW g, manifest_stack'[g.manifest] = manifest_stack[g.manifest]
    PROVE  Harmless(g)' <=> Harmless(g)
<1>1. Chosen(g)' <=> Chosen(g)
  BY DEF Chosen, Indexes
<1>2. Mapped(g.manifest)' <=> Mapped(g.manifest)
  BY DEF Mapped
<1>3. \A c : Fine(c)' <=> Fine(c)
  BY InnocentStays
<1> QED BY <1>1, <1>2, <1>3 DEF Harmless

LEMMA JudgedStays ==
    ASSUME code' = code, NEW g, manifest_stack'[g.manifest] = manifest_stack[g.manifest],
           NEW entered, NEW top
    PROVE  Judged(g, entered, top)' <=> Judged(g, entered, top)
<1>1. (Chosen(g)' <=> Chosen(g)) /\ (Selects(g)' <=> Selects(g))
  BY DEF Chosen, Selects, Indexes
<1>2. Mapped(g.manifest)' <=> Mapped(g.manifest)
  BY DEF Mapped
<1>3. /\ Innocent' = Innocent
      /\ \A q, j : SelectedBefore(q, j)' <=> SelectedBefore(q, j)
      /\ \A c : Fine(c)' <=> Fine(c)
  BY InnocentStays
<1>4. Command(g)' = Command(g)
  BY DEF Command
<1> QED BY <1>1, <1>2, <1>3, <1>4 DEF Judged

LEMMA SharedPassedStays ==
    ASSUME code' = code, envelopes' = envelopes, NEW e, Holds(e)
    PROVE  /\ SharedPassed(e)' <=> SharedPassed(e)
           /\ Status(e, SHARED)' = Status(e, SHARED) /\ Sequences(e)' = Sequences(e)
<1>1. Sequences(e)' = Sequences(e)
  BY DEF Sequences, Holds
<1>2. Status(e, SHARED)' = Status(e, SHARED)
  BY <1>1 DEF Status
<1>3. (Mapped(e)' <=> Mapped(e)) /\ manifest_stack'[e] = manifest_stack[e]
  BY DEF Mapped, Holds
<1>4. /\ \A q, j : SelectedBefore(q, j)' <=> SelectedBefore(q, j)
      /\ \A c : Fine(c)' <=> Fine(c)
  BY InnocentStays
<1> QED BY <1>1, <1>2, <1>3, <1>4 DEF SharedPassed

-----------------------------------------------------------------------------
(***************************************************************************)
(* The stack after any step, frame by frame.                               *)
(***************************************************************************)
FirstFrame(x, e, p) == NewFrame(Sequences(e)[x], e, FALSE, p, InitSelected(e))

Turned == \E g \in F : Onward(g) /\ (IsOpen(code, g) => g.cmd_exec_state = SHARED) /\ TurnsTo(g)
Nested ==
    \E g \in F, h \in F :
        /\ SameOwner(g, Top) /\ g.current_command = Top.current_command
        /\ Top.current_command < Len(code[Top.cmd_seq]) /\ Command(Top).op \in Nesting
        /\ Chosen(Top)
        /\ Starts(g, h) /\ h.current_command = 0 /\ h.cmd_exec_state = 0
        /\ Stacks(g, h)
Popped == \E v \in Retvals, selected \in SUBSET Nat : PopsTo(v, selected)
Deepened ==
    \E x : \E p \in Run \cup Validate, v \in Retvals, g \in F :
        /\ ProceedsWith(x, p, v, g) /\ IsOpen(code, g) /\ SameOwner(g, Top)
        /\ \/ ScheduledDependency(x) # "ERR_AGAIN" /\ TurnsTo(g)
           \/ /\ Status(Dependency, x) = "SUCCESS"
              /\ FirstFrame(x, Dependency, p) \in F
              /\ Stacks(g, FirstFrame(x, Dependency, p))

LEMMA StepShapes ==
    ASSUME PInv, InStep, Placed, [Next]_vars, Running
    PROVE  (Stays /\ UNCHANGED seq_stack) \/ Turned \/ Nested \/ Popped \/ (Proceeds /\ Deepened)
<1>1. StackReady
  BY InSequence
<1>2. ASSUME Advances PROVE Turned
  BY <1>1, <1>2, ContinueTurns DEF Advances, Turned
<1>3. ASSUME Enters PROVE Nested
  <2>1. PICK g \in F, h \in F :
        /\ SameOwner(g, Top) /\ g.current_command = Top.current_command
        /\ Top.current_command < Len(code[Top.cmd_seq]) /\ Command(Top).op \in Nesting
        /\ Chosen(Top)
        /\ Starts(g, h) /\ h.current_command = 0 /\ h.cmd_exec_state = 0
        /\ seq_stack' = Append([seq_stack EXCEPT ![Len(seq_stack)] = g], h)
    BY <1>3 DEF Enters
  <2>2. Stacks(g, h)
    BY <1>1, <2>1, AppendStacks
  <2> QED BY <2>1, <2>2 DEF Nested
<1>4. ASSUME Finishes PROVE Popped
  <2>1. PICK r \in Retvals, g \in F : Finalize(g, r)
    BY <1>4 DEF Finishes, FinishesAs
  <2>2. Result(g, r) \in Retvals /\ g.current_components \in SUBSET Nat
    BY DEF Result, Retvals, F, FrameType
  <2> QED BY <1>1, <2>1, <2>2, FinalizePops DEF Popped
<1>5. ASSUME Proceeds PROVE Deepened
  <2>1. /\ Dependency \in Entry
        /\ \E x : \E p \in Run \cup Validate, v \in Retvals, g \in F :
              ProceedsWith(x, p, v, g) /\ IsOpen(code, g) /\ SameOwner(g, Top)
    BY <1>5, ProceedsForm
  <2>2. PICK x : \E p \in Run \cup Validate, v \in Retvals, g \in F :
              ProceedsWith(x, p, v, g) /\ IsOpen(code, g) /\ SameOwner(g, Top)
    BY <2>1
  <2>3. PICK p \in Run \cup Validate, v \in Retvals, g \in F :
              ProceedsWith(x, p, v, g) /\ IsOpen(code, g) /\ SameOwner(g, Top)
    BY <2>2
  <2> DEFINE h == FirstFrame(x, Dependency, p)
  <2>4. \/ ScheduledDependency(x) # "ERR_AGAIN" /\ Continue(g)
        \/ /\ Status(Dependency, x) = "SUCCESS"
           /\ seq_stack' = Append([seq_stack EXCEPT ![Len(seq_stack)] = g], h)
    BY <2>3 DEF ProceedsWith, FirstFrame
  <2>5. Status(Dependency, x) = "SUCCESS" => h \in F
    BY <2>1, FirstFrameTyped DEF PInv, FirstFrame
  <2> HIDE DEF h
  <2>6. \/ ScheduledDependency(x) # "ERR_AGAIN" /\ TurnsTo(g)
        \/ Status(Dependency, x) = "SUCCESS" /\ h \in F /\ Stacks(g, h)
    BY <1>1, <2>4, <2>5, ContinueTurns, AppendStacks
  <2> QED BY <2>3, <2>6 DEF Deepened, h
<1> QED BY <1>2, <1>3, <1>4, <1>5, StepAdvances

LEMMA FirstShapes ==
    ASSUME PInv, [Next]_vars, ~Running
    PROVE  \/ Len(seq_stack') = 0
           \/ /\ UNCHANGED manifest_stack
              /\ \E x : \E e \in Entry, p \in Run \cup Validate :
                    /\ Status(e, x) = "SUCCESS"
                    /\ FirstFrame(x, e, p) \in F
                    /\ Len(seq_stack') = 1 /\ seq_stack'[1] = FirstFrame(x, e, p)
<1>1. seq_stack = <<>> /\ Len(seq_stack) = 0
  BY EmptySeq DEF Running
<1>2. CASE UNCHANGED seq_stack
  BY <1>1, <1>2
<1>3. CASE ValidateNext \/ DryRunNext \/ DryRunMain \/ ExecuteShared \/ ExecuteMain
  <2>1. UNCHANGED manifest_stack /\ root \in Entry
    BY <1>3 DEF ValidateNext, DryRunNext, DryRunMain, ExecuteShared, ExecuteMain, registry_vars,
       AtStep, PInv, ControlOK
  <2>2. \/ UNCHANGED seq_stack
        \/ \E x : \E p \in {Validator(seq), "run"} : seq_stack' = Pushed(seq_stack, root, x, p)
    <3>1. CASE DryRunNext
      <4>1. \/ seq_stack' = Pushed(seq_stack, root, SHARED, "run")
            \/ seq_stack' = seq_stack
        BY <3>1, Zenon DEF DryRunNext
      <4> QED BY <4>1
    <3> QED BY <1>3, <3>1 DEF ValidateNext, DryRunMain, ExecuteShared, ExecuteMain
  <2>3. CASE \E x : \E p \in {Validator(seq), "run"} : seq_stack' = Pushed(seq_stack, root, x, p)
    <3>1. PICK x : \E p \in {Validator(seq), "run"} : seq_stack' = Pushed(seq_stack, root, x, p)
      BY <2>3
    <3>2. PICK p \in {Validator(seq), "run"} : seq_stack' = Pushed(seq_stack, root, x, p)
      BY <3>1
    <3>3. p \in Run \cup Validate
      BY DEF Validator, Run, Validate
    <3> DEFINE h == FirstFrame(x, root, p)
    <3>4. CASE Scheduled(seq_stack, root, x) = "ERR_AGAIN"
      <4>1. Status(root, x) = "SUCCESS"
        BY <3>4, ScheduledResult
      <4>2. h \in F
        BY <2>1, <3>3, <4>1, FirstFrameTyped DEF PInv, FirstFrame
      <4>3. seq_stack' = Append(<<>>, h)
        BY <1>1, <3>2, <3>4 DEF Pushed, FirstFrame
      <4> HIDE DEF h
      <4>4. Len(seq_stack') = 1 /\ seq_stack'[1] = h
        BY <4>2, <4>3
      <4> QED BY <2>1, <3>3, <4>1, <4>2, <4>4 DEF h
    <3>5. CASE Scheduled(seq_stack, root, x) # "ERR_AGAIN"
      BY <1>2, <3>2, <3>5 DEF Pushed
    <3> QED BY <3>4, <3>5
  <2> QED BY <1>2, <2>2, <2>3
<1>4. CASE UNCHANGED vars \/ LoadStep \/ ReleaseStep \/ Loaded \/ ValidationDone \/ DryRunRepeat
           \/ DryRunDone \/ (\E r \in PlatResults : Completed(r)) \/ GiveUp \/ CallReturns
           \/ \E n \in Calls : Call(n)
  <2>1. UNCHANGED seq_stack
    BY <1>4 DEF vars, stacks, LoadStep, ReleaseStep, Loaded, ValidationDone, DryRunRepeat,
       DryRunDone, Completed, GiveUp, Leave, CallReturns, Call
  <2> QED BY <1>2, <2>1
<1>5. ~RunCommand
  BY StepRuns DEF RunCommand
<1>6. ~DependencyStep
  BY DEF DependencyStep, LoadDependency, ToLoad, DependencyNotLoaded, LoadedForIntegrity,
     AuthorizeDependency, ValidateForIntegrity, IntegrityFails, IntegrityHolds,
     ValidateForProcess, ExecuteDependency, ProcessFails, DependencyCompleted,
     DependencyReleased, ResumedProcess, Resumed, On, At, AtCommand, AwaitsRegistry
<1> QED BY <1>3, <1>4, <1>5, <1>6 DEF Next, Step, DependencyStep

\* The frame f has been handed a result and a selection.
GivenBack(g, f) == \E v \in Retvals, selected \in SUBSET Nat :
                     g = [f EXCEPT !.retval = v, !.current_components = selected]

LEMMA GivenBackFrame ==
    ASSUME NEW f \in F, NEW g, GivenBack(g, f)
    PROVE  /\ g \in F /\ SameOwner(g, f)
           /\ g.current_command = f.current_command /\ g.cmd_exec_state = f.cmd_exec_state
           /\ g.current_component_idx = f.current_component_idx
           /\ g.current_components_backup = f.current_components_backup
BY DEF GivenBack, F, FrameType, SameOwner

LEMMA StackRange ==
    ASSUME PInv
    PROVE  /\ seq_stack \in Seq(F) /\ Len(seq_stack) \in Nat /\ Frames = 1 .. Len(seq_stack)
           /\ \A k \in Frames : seq_stack[k] \in F
BY FramesNow, ElementOfSeq DEF PInv, FramesOK, F

LEMMA StackRangeNext ==
    (PInv => /\ seq_stack \in Seq(F) /\ Len(seq_stack) \in Nat /\ Frames = 1 .. Len(seq_stack)
             /\ \A k \in Frames : seq_stack[k] \in F)'
<1>1. PInv => /\ seq_stack \in Seq(F) /\ Len(seq_stack) \in Nat /\ Frames = 1 .. Len(seq_stack)
              /\ \A k \in Frames : seq_stack[k] \in F
  BY StackRange
<1> QED BY <1>1, PTL

LEMMA FramesCorrespond ==
    ASSUME Level, Placed, NEW k \in Frames, k \in Frames'
    PROVE  /\ SameOwner(seq_stack'[k], seq_stack[k])
           /\ (k < Len(seq_stack) /\ k < Len(seq_stack')) => seq_stack'[k] = seq_stack[k]
           /\ k < Len(seq_stack) => \/ seq_stack'[k] = seq_stack[k]
                                    \/ Popped /\ GivenBack(seq_stack'[k], seq_stack[k])
<1> DEFINE n == Len(seq_stack)
           m == Len(seq_stack')
<1>1. /\ n \in Nat /\ m \in Nat /\ k \in 1 .. n /\ k \in 1 .. m
      /\ seq_stack[k] \in F
  <2>1. n \in Nat /\ Frames = 1 .. n /\ seq_stack[k] \in F
    BY StackRange DEF Level
  <2>2. m \in Nat /\ Frames' = 1 .. m
    BY StackRangeNext DEF Level
  <2> QED BY <2>1, <2>2
<1>2. PInv /\ InStep /\ [Next]_vars /\ Running /\ Top = seq_stack[n]
  BY <1>1, EmptySeq DEF Level, Running, Top
<1>3. SameOwner(seq_stack[k], seq_stack[k])
  BY DEF SameOwner
<1>4. CASE UNCHANGED seq_stack
  BY <1>3, <1>4
<1>5. ASSUME NEW g \in F, SameOwner(g, Top), TurnsTo(g) \/ \E h : Stacks(g, h)
      PROVE  /\ SameOwner(seq_stack'[k], seq_stack[k])
             /\ k < n => seq_stack'[k] = seq_stack[k]
  <2>1. Beneath(n - 1) /\ seq_stack'[n] = g
    BY <1>5 DEF TurnsTo, Stacks
  <2>2. CASE k = n
    BY <1>1, <1>2, <1>5, <2>1, <2>2
  <2>3. CASE k # n
    <3>1. k \in 1 .. n - 1
      BY <1>1, <2>3
    <3> QED BY <1>3, <2>1, <3>1 DEF Beneath
  <2> QED BY <2>2, <2>3
<1>6. CASE Popped
  <2>1. PICK v \in Retvals, selected \in SUBSET Nat : PopsTo(v, selected)
    BY <1>6 DEF Popped
  <2>2. /\ m = n - 1 /\ Beneath(n - 2)
        /\ n > 1 => seq_stack'[n - 1] = [seq_stack[n - 1] EXCEPT
              !.retval = v, !.current_components = selected]
    BY <2>1 DEF PopsTo
  <2>3. CASE k = m
    <3>1. k = n - 1 /\ n > 1
      BY <1>1, <2>2, <2>3
    <3>2. GivenBack(seq_stack'[k], seq_stack[k])
      BY <2>2, <3>1 DEF GivenBack
    <3>3. SameOwner(seq_stack'[k], seq_stack[k])
      BY <1>1, <3>2, GivenBackFrame
    <3>4. ~(k < m)
      BY <1>1, <2>3
    <3> QED BY <1>6, <3>2, <3>3, <3>4
  <2>4. CASE k # m
    <3>1. k \in 1 .. n - 2
      BY <1>1, <2>2, <2>4
    <3> QED BY <1>3, <2>2, <3>1 DEF Beneath
  <2> QED BY <2>3, <2>4
<1>7. (\E g \in F : SameOwner(g, Top) /\ (TurnsTo(g) \/ \E h : Stacks(g, h)))
          \/ UNCHANGED seq_stack \/ Popped
  <2>1. UNCHANGED seq_stack \/ Turned \/ Nested \/ Popped \/ Deepened
    BY <1>2, StepShapes
  <2> QED BY <2>1 DEF Turned, Nested, Deepened, Onward
<1> QED BY <1>4, <1>5, <1>6, <1>7

-----------------------------------------------------------------------------
\* A command that has started a sequence is what the sequence above it comes from.
LEMMA LinkedStep ==
    ASSUME Level, Placed, Linked
    PROVE  Linked'
<1> DEFINE n == Len(seq_stack)
           m == Len(seq_stack')
<1> SUFFICES ASSUME NEW k \in Frames', k < m,
                    NEW g, g = seq_stack'[k], NEW h, h = seq_stack'[k + 1],
                    ~AtDependency(code', g)
             PROVE  Starts(g, h)'
  BY DEF Linked
<1>1. /\ n \in Nat /\ m \in Nat /\ Frames = 1 .. n /\ Frames' = 1 .. m
      /\ k \in 1 .. m /\ k + 1 \in 1 .. m
  BY StackRange, StackRangeNext DEF Level
<1>2. code' = code /\ PInv /\ InStep /\ [Next]_vars
  BY WorldStays DEF Level
<1>3. ~AtDependency(code, g)
  BY <1>2
<1> SUFFICES Starts(g, h)
  BY <1>2, GuardsStay
<1>4. Running
  <2>1. CASE ~Running
    BY <1>1, <1>2, <2>1, FirstShapes
  <2> QED BY <2>1
<1>5. CASE k + 1 <= n
  <2>1. k \in Frames /\ k + 1 \in Frames /\ k < n
    BY <1>1, <1>5
  <2>2. g = seq_stack[k] /\ SameOwner(h, seq_stack[k + 1])
    BY <1>1, <2>1, FramesCorrespond
  <2>3. Starts(seq_stack[k], seq_stack[k + 1])
    BY <1>3, <2>1, <2>2 DEF Linked
  <2> QED BY <2>2, <2>3 DEF Starts, SameOwner
<1>6. CASE ~(k + 1 <= n)
  <2>1. (k = n /\ m = n + 1) \/ m > n + 1
    BY <1>1, <1>6
  <2>2. CASE Nested
    <3>1. PICK a \in F, b \in F : Starts(a, b) /\ Stacks(a, b)
      BY <2>2 DEF Nested
    <3>2. m = n + 1 /\ seq_stack'[n] = a /\ seq_stack'[n + 1] = b
      BY <3>1 DEF Stacks
    <3>3. k = n
      BY <1>1, <2>1, <3>2
    <3> QED BY <3>1, <3>2, <3>3
  <2>3. CASE Deepened
    <3>1. PICK a \in F : IsOpen(code, a) /\ (TurnsTo(a) \/ \E b : Stacks(a, b))
      BY <2>3 DEF Deepened
    <3>2. m = n + 1 /\ seq_stack'[n] = a
      BY <1>1, <2>1, <3>1 DEF Stacks, TurnsTo
    <3>3. k = n
      BY <1>1, <2>1, <3>2
    <3> QED BY <1>3, <3>1, <3>2, <3>3 DEF IsOpen
  <2>4. CASE UNCHANGED seq_stack \/ Turned \/ Popped
    <3>1. m = n \/ m = n - 1
      BY <2>4 DEF Turned, Popped, TurnsTo, PopsTo
    <3>2. ~(m > n)
      BY <1>1, <3>1
    <3> QED BY <1>1, <2>1, <3>2
  <2>5. UNCHANGED seq_stack \/ Turned \/ Nested \/ Popped \/ Deepened
    BY <1>2, <1>4, StepShapes
  <2> QED BY <2>2, <2>3, <2>4, <2>5
<1> QED BY <1>5, <1>6

-----------------------------------------------------------------------------
(***************************************************************************)
(* Below a command that has not yet executed the sequence that is asked    *)
(* for, whatever runs is harmless.                                         *)
(***************************************************************************)
\* The next command of a frame that runs harmlessly is fine if it has a component.
LEMMA HarmlessCommand ==
    ASSUME IsProgram(code), NEW f \in F, Harmless(f), Chosen(f), Mapped(f.manifest),
           f.current_command < Len(code[f.cmd_seq])
    PROVE  Fine(Command(f))
<1> DEFINE j == f.current_command + 1
<1>1. j \in DOMAIN code[f.cmd_seq] /\ f.current_command < j
  <2>1. f.current_command \in Nat /\ f.cmd_seq \in DOMAIN code
    BY DEF F, FrameType
  <2>2. code[f.cmd_seq] \in Seq(CommandType(DOMAIN code))
    BY <2>1 DEF IsProgram
  <2> QED BY <2>1, <2>2, LenProperties
<1> QED BY <1>1 DEF Harmless, Command

LEMMA HarmlessOnward ==
    ASSUME NEW f \in F, Harmless(f), NEW g, SameOwner(g, f),
           g.current_command \in {f.current_command, f.current_command + 1},
           Chosen(g) => \/ Chosen(f)
                        \/ /\ f.current_command < Len(code[f.cmd_seq])
                           /\ Command(f).op = "set_component_index"
                           /\ g.current_command = f.current_command + 1,
           IsProgram(code)
    PROVE  Harmless(g)
<1> DEFINE q == f.cmd_seq
           a == f.current_command
           b == g.current_command
<1>1. /\ a \in Nat /\ b \in Nat /\ a <= b /\ q \in DOMAIN code
      /\ g.cmd_seq = q /\ g.manifest = f.manifest
  BY DEF F, FrameType, SameOwner
<1>2. code[q] \in Seq(CommandType(DOMAIN code)) /\ DOMAIN code[q] = 1 .. Len(code[q])
      /\ Len(code[q]) \in Nat
  <2>1. code[q] \in Seq(CommandType(DOMAIN code))
    BY <1>1 DEF IsProgram
  <2> QED BY <2>1, LenProperties
<1> SUFFICES ASSUME NEW j \in DOMAIN code[q], b < j, Mapped(f.manifest),
                    Chosen(g) \/ \E i \in DOMAIN code[q] :
                        b < i /\ i < j /\ code[q][i].op = "set_component_index"
             PROVE  Fine(code[q][j])
  BY <1>1 DEF Harmless
<1>3. a < j
  BY <1>1, <1>2
<1>4. CASE Chosen(f)
  BY <1>1, <1>3, <1>4 DEF Harmless
<1>5. CASE \E i \in DOMAIN code[q] : b < i /\ i < j /\ code[q][i].op = "set_component_index"
  <2>1. PICK i \in DOMAIN code[q] : b < i /\ i < j /\ code[q][i].op = "set_component_index"
    BY <1>5
  <2>2. a < i
    BY <1>1, <1>2, <2>1
  <2> QED BY <1>1, <1>3, <2>1, <2>2 DEF Harmless
<1>6. CASE a < Len(code[q]) /\ Command(f).op = "set_component_index" /\ b = a + 1
  <2>1. b \in DOMAIN code[q] /\ a < b /\ b < j
    BY <1>1, <1>2, <1>6
  <2>2. code[q][b].op = "set_component_index"
    BY <1>6 DEF Command
  <2> QED BY <1>1, <1>3, <2>1, <2>2 DEF Harmless
<1> QED BY <1>4, <1>5, <1>6

LEMMA NestedHarmless ==
    ASSUME IsProgram(code), NEW f \in F, Harmless(f), Chosen(f),
           f.current_command < Len(code[f.cmd_seq]),
           NEW g \in F, SameOwner(g, f), g.current_command = f.current_command,
           NEW h, Starts(g, h)
    PROVE  Harmless(h)
<1>1. /\ Command(g) = Command(f) /\ h.manifest = f.manifest
      /\ h.cmd_seq = Command(f).seqs[g.cmd_exec_state]
      /\ g.cmd_exec_state \in DOMAIN Command(f).seqs /\ Command(f).op \in Nesting
      /\ Command(f).op = "run_sequence" => g.cmd_exec_state = 1
  BY DEF Starts, SameOwner, Command
<1>2. CASE ~Mapped(f.manifest)
  BY <1>1, <1>2 DEF Harmless
<1>3. CASE Mapped(f.manifest)
  <2>1. Fine(Command(f))
    BY <1>3, HarmlessCommand
  <2>2. h.cmd_seq \in NestedBy(Command(f))
    BY <1>1 DEF NestedBy, Nesting
  <2>3. h.cmd_seq \in Innocent
    BY <2>1, <2>2 DEF Fine
  <2>4. h.cmd_seq \in DOMAIN code
    BY <2>3 DEF Innocent
  <2>5. \A j \in DOMAIN code[h.cmd_seq] : Fine(code[h.cmd_seq][j])
    BY <2>3, <2>4, InnocentMeans
  <2> QED BY <2>5 DEF Harmless
<1> QED BY <1>2, <1>3

\* The shared sequence that has passed executes nothing forbidden.
LEMMA SharedHarmless ==
    ASSUME NEW e \in Entry, NEW p, Status(e, SHARED) = "SUCCESS", SharedPassed(e),
           manifest_stack[e] \in Seq(Slot)
    PROVE  Harmless(FirstFrame(SHARED, e, p))
<1> DEFINE q == Sequences(e)[SHARED]
           h == FirstFrame(SHARED, e, p)
<1>1. /\ h.cmd_seq = q /\ h.manifest = e /\ h.current_command = 0
      /\ h.current_component_idx = NoIndex /\ h.current_components = InitSelected(e)
  BY DEF FirstFrame, NewFrame
<1>2. Chosen(h) => Len(manifest_stack[e]) = 1
  BY <1>1 DEF Chosen, InitSelected
<1> HIDE DEF h
<1> SUFFICES ASSUME NEW j \in DOMAIN code[q], Mapped(e),
                    Chosen(h) \/ \E i \in DOMAIN code[q] :
                        i < j /\ code[q][i].op = "set_component_index"
             PROVE  Fine(code[q][j])
  BY <1>1 DEF Harmless, h
<1> QED BY <1>2 DEF SharedPassed, SelectedBefore

\* A frame that is not on top is inside the component loop.
LEMMA SuspendedLoops ==
    ASSUME PInv, Linked, Placed, NEW k \in Frames, k < Len(seq_stack)
    PROVE  seq_stack[k].current_component_idx # NoIndex
<1> DEFINE f == seq_stack[k]
<1>1. CASE ~AtDependency(code, f)
  BY <1>1 DEF Linked, Starts
<1>2. CASE AtDependency(code, f)
  <2>1. IsOpen(code, f)
    BY <1>2 DEF PInv, FramesOK
  <2>2. f.cmd_exec_state # 0
    BY <2>1 DEF IsOpen, SHARED, SEQ_MAX
  <2>3. f.current_component_idx \in Indexes(f)
    BY <1>2, <2>2 DEF Placed, PlacedAt, IsWaiting
  <2>4. f.manifest \in Entry
    BY StackRange DEF F, FrameType
  <2>5. Len(manifest_stack[f.manifest]) \in Nat /\ Len(manifest_stack[f.manifest]) <= MaxComponents
    BY <2>4, Here, LenProperties DEF Maps
  <2> QED BY <2>3, <2>5, SeqExecAssumption DEF Indexes, NoIndex
<1> QED BY <1>1, <1>2

\* What waits below the top has been waiting.
LEMMA GuardWas ==
    ASSUME Level, Placed, NEW k \in Frames, k \in Frames', k < Len(seq_stack),
           NEW g, g = seq_stack'[k], Guards(g)
    PROVE  Guards(seq_stack[k])
<1>1. seq_stack[k] \in F
  BY StackRange DEF Level
<1>2. /\ SameOwner(g, seq_stack[k])
      /\ g = seq_stack[k] \/ GivenBack(g, seq_stack[k])
  BY FramesCorrespond
<1>3. CASE g = seq_stack[k]
  BY <1>3
<1>4. CASE GivenBack(g, seq_stack[k])
  <2>1. /\ g.current_command = seq_stack[k].current_command
        /\ g.cmd_exec_state = seq_stack[k].cmd_exec_state
    BY <1>1, <1>4, GivenBackFrame
  <2> QED BY <1>2, <2>1 DEF Guards, IsOpen, AtDependency, SameOwner, Command
<1> QED BY <1>2, <1>3, <1>4

\* A frame that is there before the step and after it stays harmless.
LEMMA StillHarmless ==
    ASSUME Level, Placed, Linked, NEW k \in Frames, k \in Frames', NEW g, g = seq_stack'[k],
           Harmless(seq_stack[k])
    PROVE  Harmless(g)
<1> DEFINE n == Len(seq_stack)
           f == seq_stack[k]
<1>1. /\ PInv /\ InStep /\ [Next]_vars /\ IsProgram(code)
      /\ f \in F /\ n \in Nat /\ Frames = 1 .. n /\ k \in 1 .. n
      /\ Len(seq_stack') \in Nat /\ k \in 1 .. Len(seq_stack')
  BY StackRange, StackRangeNext, Here DEF Level
<1>2. SameOwner(g, f)
  BY FramesCorrespond
<1>3. ASSUME g.current_command = f.current_command, Chosen(f) PROVE Harmless(g)
  BY <1>1, <1>2, <1>3, HarmlessOnward
<1>4. CASE k < n
  <2>1. g = f \/ GivenBack(g, f)
    BY <1>4, FramesCorrespond
  <2>2. CASE GivenBack(g, f)
    <3>1. g.current_command = f.current_command
      BY <1>1, <2>2, GivenBackFrame
    <3>2. Chosen(f)
      BY <1>1, <1>4, SuspendedLoops DEF Chosen
    <3> QED BY <1>3, <3>1, <3>2
  <2> QED BY <2>1, <2>2
<1>5. CASE k = n
  <2>1. Running /\ Top = f
    BY <1>1, <1>5, EmptySeq DEF Running, Top
  <2>2. UNCHANGED seq_stack \/ Turned \/ Nested \/ Popped \/ (Proceeds /\ Deepened)
    BY <1>1, <2>1, StepShapes
  <2>3. CASE UNCHANGED seq_stack
    BY <2>3
  <2>4. CASE Turned
    <3>1. Onward(g)
      BY <1>5, <2>4 DEF Turned, TurnsTo
    <3> QED BY <1>1, <2>1, <3>1, HarmlessOnward DEF Onward, Passes
  <2>5. CASE Nested
    <3>1. PICK a \in F, b \in F :
             a.current_command = Top.current_command /\ Chosen(Top) /\ Stacks(a, b)
      BY <2>5 DEF Nested
    <3>2. g = a
      BY <1>5, <3>1 DEF Stacks
    <3> QED BY <1>3, <2>1, <3>1, <3>2
  <2>6. CASE Popped
    <3>1. Len(seq_stack') = n - 1
      BY <2>6 DEF Popped, PopsTo
    <3> QED BY <1>1, <1>5, <3>1
  <2>7. CASE Proceeds /\ Deepened
    <3>1. Chosen(f)
      BY <1>1, <2>1, <2>7, ProceedsForm
    <3>2. PICK x : \E p \in Run \cup Validate, v \in Retvals, a \in F :
             ProceedsWith(x, p, v, a) /\ (TurnsTo(a) \/ \E b : Stacks(a, b))
      BY <2>7 DEF Deepened
    <3>3. PICK p \in Run \cup Validate, v \in Retvals, a \in F :
             ProceedsWith(x, p, v, a) /\ (TurnsTo(a) \/ \E b : Stacks(a, b))
      BY <3>2
    <3>4. a = g
      BY <1>5, <3>3 DEF TurnsTo, Stacks
    <3>5. g.current_command = f.current_command
      <4>1. g = [f EXCEPT !.cmd_exec_state = f.cmd_exec_state + 1, !.retval = v]
        BY <2>1, <3>3, <3>4 DEF ProceedsWith
      <4> HIDE DEF f
      <4> QED BY <1>1, <4>1 DEF F, FrameType
    <3> QED BY <1>3, <3>1, <3>5
  <2> QED BY <2>2, <2>3, <2>4, <2>5, <2>6, <2>7
<1> QED BY <1>1, <1>4, <1>5

-----------------------------------------------------------------------------
\* Whatever is executed above a command that waits to execute its dependency is harmless.
LEMMA ShelteredStep ==
    ASSUME Level, Placed, Linked, SharedFirst, Sheltered
    PROVE  Sheltered'
<1> DEFINE n == Len(seq_stack)
           m == Len(seq_stack')
<1> SUFFICES ASSUME NEW j \in Frames', NEW k \in Frames', j < k,
                    NEW b, b = seq_stack'[j], NEW g, g = seq_stack'[k],
                    Guards(b)', g.cmd_processor = "run"
             PROVE  Harmless(g)'
  BY DEF Sheltered
<1>1. /\ n \in Nat /\ m \in Nat /\ Frames = 1 .. n /\ Frames' = 1 .. m
      /\ j \in 1 .. m /\ k \in 1 .. m
  BY StackRange, StackRangeNext DEF Level
<1>2. /\ code' = code /\ PInv /\ InStep /\ [Next]_vars /\ IsProgram(code)
      /\ \A i \in Frames : seq_stack[i] \in F
  BY WorldStays, Here, StackRange DEF Level
<1>3. Guards(b)
  BY <1>2, GuardsStay
<1>4. ASSUME Harmless(g), manifest_stack'[g.manifest] = manifest_stack[g.manifest]
      PROVE  Harmless(g)'
  BY <1>2, <1>4, HarmlessStays
<1>5. Running
  <2>1. CASE ~Running
    <3>1. m = 0 \/ m = 1
      BY <1>2, <2>1, FirstShapes
    <3> QED BY <1>1, <3>1
  <2> QED BY <2>1
<1>6. Top = seq_stack[n] /\ n \in Frames /\ StackReady
  BY <1>1, <1>2, <1>5, InSequence, EmptySeq DEF Running, Top
<1>7. CASE k <= n
  <2>1. k \in Frames /\ j \in Frames /\ j < n
    BY <1>1, <1>7
  <2>2. SameOwner(g, seq_stack[k])
    BY <2>1, FramesCorrespond
  <2>3. Guards(seq_stack[j])
    BY <1>3, <2>1, GuardWas
  <2>4. Harmless(seq_stack[k])
    BY <2>1, <2>2, <2>3 DEF Sheltered, SameOwner
  <2>5. Harmless(g)
    BY <2>1, <2>4, StillHarmless
  <2>6. manifest_stack'[g.manifest] = manifest_stack[g.manifest]
    BY <2>1, <2>2, FrameHolds DEF SameOwner, Holds
  <2> QED BY <1>4, <2>5, <2>6
<1>8. CASE ~(k <= n)
  <2>1. k > n /\ m > n
    BY <1>1, <1>8
  <2>2. ASSUME j < n, Top.cmd_processor = "run"
        PROVE  Harmless(Top)
    <3>1. j \in Frames
      BY <1>1, <2>2
    <3>2. Guards(seq_stack[j])
      BY <1>3, <2>2, <3>1, GuardWas
    <3> QED BY <1>6, <2>2, <3>1, <3>2 DEF Sheltered
  <2>3. CASE Nested
    <3>1. PICK a \in F, h \in F :
             /\ SameOwner(a, Top) /\ a.current_command = Top.current_command
             /\ Top.current_command < Len(code[Top.cmd_seq]) /\ Command(Top).op \in Nesting
             /\ Chosen(Top) /\ Starts(a, h) /\ Stacks(a, h)
      BY <2>3 DEF Nested
    <3>2. m = n + 1 /\ seq_stack'[n] = a /\ seq_stack'[n + 1] = h
      BY <3>1 DEF Stacks
    <3>3. k = n + 1 /\ (j = n \/ j < n)
      BY <1>1, <2>1, <3>2
    <3>4. g = h
      BY <3>2, <3>3
    <3>5. j # n
      <4>1. ~AtDependency(code, a)
        BY <3>1 DEF AtDependency, Starts, Command, Nesting, DependencyCommands
      <4> QED BY <1>3, <3>2, <4>1 DEF Guards, IsOpen
    <3>6. Top.cmd_processor = "run" /\ g.manifest = Top.manifest
      BY <3>1, <3>4 DEF Starts, SameOwner
    <3>7. Harmless(Top)
      BY <2>2, <3>3, <3>5, <3>6
    <3>8. Harmless(g)
      BY <1>2, <1>6, <3>1, <3>4, <3>7, NestedHarmless
    <3>9. manifest_stack'[g.manifest] = manifest_stack[g.manifest]
      BY <1>6, <3>6, FrameHolds DEF Holds
    <3> QED BY <1>4, <3>8, <3>9
  <2>4. CASE Proceeds /\ Deepened
    <3>1. /\ IsWaiting(code, Top) /\ Top.cmd_processor = "run"
          /\ Chosen(Top) /\ Mapped(Top.manifest)
          /\ Dependency \in Entry /\ Dependency = Top.manifest + 1
          /\ UNCHANGED registry_vars
      BY <1>2, <2>4, ProceedsForm
    <3>2. PICK x : \E p \in Run \cup Validate, v \in Retvals, a \in F :
             /\ ProceedsWith(x, p, v, a) /\ IsOpen(code, a) /\ SameOwner(a, Top)
             /\ \/ TurnsTo(a)
                \/ /\ Status(Dependency, x) = "SUCCESS"
                   /\ Stacks(a, FirstFrame(x, Dependency, p))
      BY <2>4 DEF Deepened
    <3>3. PICK p \in Run \cup Validate, v \in Retvals, a \in F :
             /\ ProceedsWith(x, p, v, a) /\ IsOpen(code, a) /\ SameOwner(a, Top)
             /\ \/ TurnsTo(a)
                \/ /\ Status(Dependency, x) = "SUCCESS"
                   /\ Stacks(a, FirstFrame(x, Dependency, p))
      BY <3>2
    <3> DEFINE h == FirstFrame(x, Dependency, p)
    <3>4. /\ m = n + 1 /\ seq_stack'[n] = a /\ seq_stack'[n + 1] = h
          /\ Status(Dependency, x) = "SUCCESS"
      <4>1. ~TurnsTo(a)
        BY <1>1, <2>1 DEF TurnsTo
      <4> QED BY <3>3, <4>1 DEF Stacks
    <3>5. k = n + 1 /\ (j = n \/ j < n)
      BY <1>1, <2>1, <3>4
    <3>6. g = h
      BY <3>4, <3>5
    <3>7. p = "run" /\ g.manifest = Dependency
      BY <3>6 DEF FirstFrame, NewFrame
    <3>8. /\ Command(Top).op = "process_dependency" /\ "run" \notin Validate
          /\ \/ Top.cmd_exec_state = SEQ_MAX /\ x = SHARED
             \/ Top.cmd_exec_state = SEQ_MAX + 1
          /\ a.cmd_exec_state = Top.cmd_exec_state + 1
      <4>1. "run" \notin Validate /\ p # Validator(x)
        BY <3>7 DEF Validate, Validator
      <4>2. a = [Top EXCEPT !.cmd_exec_state = Top.cmd_exec_state + 1, !.retval = v]
        BY <3>3 DEF ProceedsWith
      <4>3. a.cmd_exec_state = Top.cmd_exec_state + 1
        BY <1>2, <1>6, <4>2 DEF F, FrameType
      <4> QED BY <3>3, <3>7, <4>1, <4>3 DEF ProceedsWith
    <3>9. manifest_stack' = manifest_stack
      BY <3>1 DEF registry_vars
    <3>10. CASE j = n
      <4>1. b = a
        BY <3>4, <3>10
      <4>2. a.cmd_exec_state # SEQ_MAX + 2
        <5>1. a.current_command = Top.current_command
          <6>1. a = [Top EXCEPT !.cmd_exec_state = Top.cmd_exec_state + 1, !.retval = v]
            BY <3>3 DEF ProceedsWith
          <6> QED BY <1>2, <1>6, <6>1 DEF F, FrameType
        <5>2. Command(a).op = "process_dependency"
          BY <3>3, <3>8, <5>1 DEF Command, SameOwner
        <5> QED BY <1>3, <4>1, <5>2 DEF Guards
      <4>3. Top.cmd_exec_state = SEQ_MAX /\ x = SHARED
        <5>1. Top.cmd_exec_state # SEQ_MAX + 1
          BY <3>8, <4>2 DEF SEQ_MAX
        <5> QED BY <3>8, <5>1
      <4>4. SharedPassed(Dependency)
        <5>1. IsOpen(code, Top)
          BY <3>1, <4>3 DEF IsOpen, IsWaiting, SHARED, SEQ_MAX
        <5>2. Top.cmd_exec_state \in SHARED + 2 .. SEQ_MAX + 1
          BY <4>3 DEF SHARED, SEQ_MAX
        <5> QED BY <1>6, <3>1, <3>8, <5>1, <5>2 DEF SharedFirst, ValidatedAt
      <4>5. manifest_stack[Dependency] \in Seq(Slot)
        BY <1>2, <3>1, Here DEF Maps
      <4>6. Harmless(g)
        BY <3>1, <3>4, <3>6, <4>3, <4>4, <4>5, SharedHarmless
      <4> QED BY <1>4, <3>9, <4>6
    <3>11. CASE j < n
      <4>1. Harmless(Top)
        BY <2>2, <3>1, <3>11
      <4>2. Fine(Command(Top))
        BY <1>2, <1>6, <3>1, <4>1, HarmlessCommand DEF IsWaiting, AtDependency
      <4> QED BY <3>8, <4>2 DEF Fine, ForbiddenInShared
    <3> QED BY <3>5, <3>10, <3>11
  <2>5. CASE UNCHANGED seq_stack \/ Turned \/ Popped
    <3>1. m = n \/ m = n - 1
      BY <2>5 DEF Turned, Popped, TurnsTo, PopsTo
    <3> QED BY <1>1, <2>1, <3>1
  <2>6. UNCHANGED seq_stack \/ Turned \/ Nested \/ Popped \/ (Proceeds /\ Deepened)
    BY <1>2, <1>5, StepShapes
  <2> QED BY <2>3, <2>4, <2>5, <2>6
<1> QED BY <1>1, <1>7, <1>8

-----------------------------------------------------------------------------
(***************************************************************************)
(* Validating a shared sequence, command by command: the frame that is on  *)
(* top stays judged, and when its sequence passes, nothing in it that has  *)
(* a component is forbidden.                                               *)
(***************************************************************************)
JudgedTurn(E) == \E g \in F : SameOwner(g, Top) /\ Judged(g, E, TRUE) /\ TurnsTo(g)

JudgedNest(E) ==
    \E g \in F, h \in F :
        /\ SameOwner(g, Top) /\ ~AtDependency(code, g)
        /\ Judged(g, E, FALSE) /\ Judged(h, TRUE, TRUE)
        /\ h.manifest = Top.manifest
        /\ Stacks(g, h)

\* Every command of the sequence that is ever given a component is fine.
Passed(q, entered) == \A j \in DOMAIN code[q] : (entered \/ SelectedBefore(q, j)) => Fine(code[q][j])

JudgedPop(E) ==
    \E v \in Retvals, selected \in SUBSET Nat :
        /\ v \notin {"FAIL_CONDITION", "FAIL_SOFT_CONDITION"}
        /\ (v = "SUCCESS" /\ Mapped(Top.manifest)) =>
              Passed(Top.cmd_seq, E) /\ (E => selected \cap Indexes(Top) # {})
        /\ PopsTo(v, selected)

JudgesOn(E) == JudgedTurn(E) \/ JudgedNest(E) \/ JudgedPop(E)

-----------------------------------------------------------------------------
\* Where the component loop goes next.
LEMMA LoopMoves ==
    ASSUME Typed, NEW f \in F,
           NEW sel, sel = IF f.current_component_idx = NoIndex THEN f.current_components
                          ELSE f.current_components_backup
    PROVE  LET g == component_idx_next(f) IN
           /\ g.current_components_backup = sel
           /\ \/ /\ g.current_component_idx = NoIndex /\ g.current_components = sel
                 /\ f.current_component_idx = NoIndex => sel \cap Indexes(f) = {}
              \/ /\ g.current_component_idx # NoIndex
                 /\ g.current_component_idx \in sel \cap Indexes(f)
                 /\ g.current_components = {g.current_component_idx}
<1> DEFINE first == f.current_component_idx = NoIndex
           rest  == {i \in sel \cap Indexes(f) : first \/ f.current_component_idx < i}
           comps == IF rest = {} THEN sel ELSE {First(rest)}
           idx   == IF rest = {} THEN NoIndex ELSE First(rest)
           g     == component_idx_next(f)
<1>1. Indexes(f) \subseteq 0 .. MaxComponents - 1
  <2>1. f.manifest \in Entry
    BY DEF F, FrameType
  <2>2. /\ manifest_stack[f.manifest] \in Seq(Slot)
        /\ Len(manifest_stack[f.manifest]) <= MaxComponents
    BY <2>1 DEF Typed, Maps
  <2> QED BY <2>2, LenProperties, SeqExecAssumption DEF Indexes
<1>2. sel \in SUBSET Nat /\ rest \in SUBSET Nat /\ rest \subseteq sel \cap Indexes(f)
  BY DEF F, FrameType
<1>3. rest # {} => First(rest) \in rest
  BY <1>2, FirstOfSet
<1>4. rest # {} => First(rest) # NoIndex
  BY <1>1, <1>2, <1>3, SeqExecAssumption DEF NoIndex
<1>5. g = [f EXCEPT !.current_components_backup = sel,
                    !.current_components = comps,
                    !.current_component_idx = idx]
  BY DEF component_idx_next
<1>6. first => rest = sel \cap Indexes(f)
  OBVIOUS
<1>9. /\ rest = {} => comps = sel /\ idx = NoIndex
      /\ rest # {} => comps = {idx} /\ idx = First(rest)
  OBVIOUS
<1> HIDE DEF rest, comps, idx, g
<1>7. /\ g.current_components_backup = sel /\ g.current_components = comps
      /\ g.current_component_idx = idx
  BY <1>5 DEF F, FrameType
<1>8. \/ idx = NoIndex /\ comps = sel /\ (first => sel \cap Indexes(f) = {})
      \/ idx # NoIndex /\ idx \in sel \cap Indexes(f) /\ comps = {idx}
  <2>1. CASE rest = {}
    BY <1>6, <1>9, <2>1
  <2>2. CASE rest # {}
    BY <1>2, <1>3, <1>4, <1>9, <2>2
  <2> QED BY <2>1, <2>2
<1> QED BY <1>7, <1>8 DEF g

LEMMA SelectedLater ==
    ASSUME IsProgram(code), NEW q \in DOMAIN code, NEW b \in DOMAIN code[q]
    PROVE  SelectedBefore(q, b + 1) <=>
              SelectedBefore(q, b) \/ code[q][b].op = "set_component_index"
<1>1. DOMAIN code[q] = 1 .. Len(code[q]) /\ Len(code[q]) \in Nat
  <2>1. code[q] \in Seq(CommandType(DOMAIN code))
    BY DEF IsProgram
  <2> QED BY <2>1, LenProperties
<1>2. \A i \in DOMAIN code[q] : i < b + 1 <=> (i < b \/ i = b)
  BY <1>1
<1>3. b < b + 1
  BY <1>1
<1> QED BY <1>2, <1>3 DEF SelectedBefore

\* The frame that goes on to its next command.
LEMMA NextJudged ==
    ASSUME IsProgram(code), NEW f \in F, f.current_command < Len(code[f.cmd_seq]),
           f.current_component_idx = NoIndex, f.retval = "SUCCESS", NEW E \in BOOLEAN,
           NEW sets, sets <=> Command(f).op = "set_component_index",
           NEW begun, begun <=> E \/ SelectedBefore(f.cmd_seq, f.current_command + 1),
           Chosen(f) => begun \/ sets,
           Mapped(f.manifest) =>
              /\ begun \/ sets => f.current_components \cap Indexes(f) # {}
              /\ \A j \in DOMAIN code[f.cmd_seq] :
                    (j <= f.current_command /\ (E \/ SelectedBefore(f.cmd_seq, j)))
                       => Fine(code[f.cmd_seq][j])
              /\ begun => Fine(Command(f))
    PROVE  /\ NextCommand(f) \in F /\ SameOwner(NextCommand(f), f)
           /\ Judged(NextCommand(f), E, TRUE)
<1> DEFINE g == NextCommand(f)
           q == f.cmd_seq
           b == f.current_command + 1
<1>1. g \in F /\ SameOwner(g, f) /\ g.cmd_exec_state = 0
  BY NextCommandStands
<1>2. /\ g.current_command = b
      /\ g.current_component_idx = NoIndex
      /\ g.current_components = f.current_components
      /\ g.retval = "SUCCESS"
  BY DEF NextCommand, F, FrameType
<1>3. /\ q \in DOMAIN code /\ b \in DOMAIN code[q] /\ Command(f) = code[q][b]
      /\ \A j \in DOMAIN code[q] : j <= b => j <= f.current_command \/ j = b
  <2>1. q \in DOMAIN code /\ f.current_command \in Nat
    BY DEF F, FrameType
  <2>2. DOMAIN code[q] = 1 .. Len(code[q]) /\ Len(code[q]) \in Nat
    <3>1. code[q] \in Seq(CommandType(DOMAIN code))
      BY <2>1 DEF IsProgram
    <3> QED BY <3>1, LenProperties
  <2> QED BY <2>1, <2>2 DEF Command
<1>4. SelectedBefore(q, b + 1) <=> SelectedBefore(q, b) \/ sets
  BY <1>3, SelectedLater
<1>5. E \/ SelectedBefore(q, b + 1) <=> begun \/ sets
  BY <1>4
<1>6. /\ g.cmd_seq = q /\ g.manifest = f.manifest /\ Indexes(g) = Indexes(f)
      /\ Chosen(g) <=> f.current_components \cap Indexes(f) # {}
      /\ Selects(g) <=> f.current_components \cap Indexes(f) # {}
  BY <1>1, <1>2 DEF SameOwner, Indexes, Chosen, Selects
<1>7. Chosen(g) => E \/ SelectedBefore(q, b + 1)
  BY <1>5, <1>6 DEF Chosen
<1> HIDE DEF g, b
<1>8. ASSUME Mapped(f.manifest)
      PROVE  /\ (E \/ SelectedBefore(q, b + 1)) => Selects(g)
             /\ \A j \in DOMAIN code[q] : (j <= b /\ (E \/ SelectedBefore(q, j))) => Fine(code[q][j])
  <2>1. (E \/ SelectedBefore(q, b + 1)) => Selects(g)
    BY <1>5, <1>6, <1>8
  <2>2. ASSUME NEW j \in DOMAIN code[q], j <= b, E \/ SelectedBefore(q, j)
        PROVE  Fine(code[q][j])
    <3>1. CASE j = b
      <4>1. begun
        BY <2>2, <3>1 DEF b
      <4> QED BY <1>3, <1>8, <3>1, <4>1
    <3>2. CASE j <= f.current_command
      BY <1>8, <2>2, <3>2
    <3> QED BY <1>3, <2>2, <3>1, <3>2
  <2> QED BY <2>1, <2>2
<1> QED BY <1>1, <1>2, <1>6, <1>7, <1>8 DEF Judged, g

-----------------------------------------------------------------------------
LEMMA FailureIsJudged ==
    ASSUME StackReady, NEW g \in F, NEW E \in BOOLEAN, NEW r \in Retvals,
           r \notin {"SUCCESS", "FAIL_CONDITION", "FAIL_SOFT_CONDITION"}, Finalize(g, r)
    PROVE  JudgesOn(E)
<1>1. Result(g, r) = r
  BY DEF Result
<1>2. PopsTo(r, g.current_components) /\ g.current_components \in SUBSET Nat
  BY <1>1, FinalizePops DEF F, FrameType
<1> QED BY <1>2 DEF JudgesOn, JudgedPop

\* A command has been judged on one component: on to the next one, or the next command.
LEMMA ReturnJudged ==
    ASSUME StackReady, NEW E \in BOOLEAN, NEW f \in F, SameOwner(f, Top),
           Judged(f, E, TRUE), f.current_component_idx # NoIndex,
           NEW r \in Retvals, r \notin {"FAIL_CONDITION", "FAIL_SOFT_CONDITION"}, Return(f, r),
           r = "SUCCESS" => f.retval = "SUCCESS" /\ (Mapped(f.manifest) => Fine(Command(f)))
    PROVE  JudgesOn(E)
<1> DEFINE g == component_idx_next(f)
           h == [g EXCEPT !.cmd_exec_state = 0]
           q == f.cmd_seq
           begun == E \/ SelectedBefore(q, f.current_command + 1)
<1>1. Typed /\ IsProgram(code)
  BY ReadyIsTyped DEF StackReady
<1>2. /\ g \in F /\ SameOwner(g, f) /\ g.current_command = f.current_command
      /\ g.retval = f.retval /\ Indexes(g) = Indexes(f) /\ Command(g) = Command(f)
  BY <1>1, LoopKeepsRest DEF SameOwner, Indexes, Command
<1>3. /\ g.current_components_backup = f.current_components_backup
      /\ \/ /\ g.current_component_idx = NoIndex
            /\ g.current_components = f.current_components_backup
         \/ /\ g.current_component_idx # NoIndex
            /\ g.current_component_idx \in f.current_components_backup \cap Indexes(f)
            /\ g.current_components = {g.current_component_idx}
  BY <1>1, LoopMoves
<1>4. IF r # "SUCCESS" THEN Finalize(g, r)
      ELSE IF g.current_component_idx # NoIndex THEN Continue(h) ELSE Continue(NextCommand(g))
  BY DEF Return
<1>5. /\ begun /\ f.current_command < Len(code[q]) /\ Command(f).op \in ComponentCommands
      /\ (Mapped(f.manifest) /\ f.retval = "SUCCESS") =>
            f.current_components_backup \cap Indexes(f) # {}
      /\ Mapped(f.manifest) =>
            \A j \in DOMAIN code[q] :
                (j <= f.current_command /\ (E \/ SelectedBefore(q, j))) => Fine(code[q][j])
  BY DEF Judged, Chosen, Selects
<1> HIDE DEF g
<1>6. CASE r # "SUCCESS"
  BY <1>2, <1>4, <1>6, FailureIsJudged
<1>7. CASE r = "SUCCESS" /\ g.current_component_idx # NoIndex
  <2>1. Continue(h)
    BY <1>4, <1>7
  <2>2. /\ h \in F /\ SameOwner(h, g) /\ h.cmd_exec_state = 0
        /\ h.current_command = g.current_command /\ h.retval = g.retval
        /\ h.current_component_idx = g.current_component_idx
        /\ h.current_components = g.current_components
        /\ h.current_components_backup = g.current_components_backup
    BY <1>2 DEF F, FrameType, SameOwner
  <2> HIDE DEF h
  <2>3. /\ SameOwner(h, f) /\ h.cmd_seq = q /\ h.manifest = f.manifest
        /\ Command(h) = Command(f) /\ Indexes(h) = Indexes(f)
        /\ h.current_command = f.current_command /\ h.retval = "SUCCESS"
    BY <1>2, <1>7, <2>2 DEF SameOwner, Command, Indexes
  <2>4. Selects(h)
    BY <1>3, <1>7, <2>2, <2>3 DEF Selects
  <2>5. Judged(h, E, TRUE)
    <3>1. begun
      BY <1>5
    <3> QED BY <1>5, <2>2, <2>3, <2>4, <3>1 DEF Judged
  <2>6. SameOwner(h, Top) /\ TurnsTo(h)
    BY <2>1, <2>2, <2>3, ContinueTurns DEF SameOwner
  <2> QED BY <2>2, <2>5, <2>6 DEF JudgesOn, JudgedTurn
<1>8. CASE r = "SUCCESS" /\ g.current_component_idx = NoIndex
  <2>1. Continue(NextCommand(g))
    BY <1>4, <1>8
  <2>2. Command(g).op # "set_component_index"
    BY <1>2, <1>5 DEF ComponentCommands, Checks, Effects, Nesting, DependencyCommands
  <2>3. /\ g.cmd_seq = q /\ g.manifest = f.manifest
        /\ g.current_components = f.current_components_backup
    BY <1>2, <1>3, <1>8 DEF SameOwner
  <2>4. /\ NextCommand(g) \in F /\ SameOwner(NextCommand(g), g)
        /\ Judged(NextCommand(g), E, TRUE)
    <3>1. begun <=> E \/ SelectedBefore(g.cmd_seq, g.current_command + 1)
      BY <1>2, <2>3
    <3>2. Mapped(g.manifest) =>
              /\ g.current_components \cap Indexes(g) # {}
              /\ \A j \in DOMAIN code[g.cmd_seq] :
                    (j <= g.current_command /\ (E \/ SelectedBefore(g.cmd_seq, j)))
                       => Fine(code[g.cmd_seq][j])
              /\ Fine(Command(g))
      BY <1>2, <1>5, <1>8, <2>3
    <3>3. begun /\ g.current_command < Len(code[g.cmd_seq]) /\ g.retval = "SUCCESS"
      BY <1>2, <1>5, <1>8, <2>3
    <3> HIDE DEF begun, q
    <3> QED BY <1>1, <1>2, <1>8, <2>2, <3>1, <3>2, <3>3, NextJudged
  <2> DEFINE c == NextCommand(g)
  <2> HIDE DEF c
  <2>5. c \in F /\ SameOwner(c, Top) /\ Judged(c, E, TRUE)
    BY <1>2, <2>4 DEF SameOwner, c
  <2>6. TurnsTo(c)
    BY <2>1, <2>5, ContinueTurns DEF c
  <2> QED BY <2>5, <2>6 DEF JudgesOn, JudgedTurn
<1> QED BY <1>6, <1>7, <1>8

\* The frame inside the component loop is judged as the one on top.
LEMMA CurrentJudged ==
    ASSUME StackReady, AtCommand, NEW E \in BOOLEAN, Judged(Top, E, TRUE),
           Command(Top).op \in ComponentCommands, Current.current_component_idx # NoIndex
    PROVE  /\ Current \in F /\ SameOwner(Current, Top) /\ Command(Current) = Command(Top)
           /\ Current.current_command = Top.current_command
           /\ Judged(Current, E, TRUE)
<1> DEFINE f == Current
<1>1. Typed /\ Running /\ Top \in F
  BY ReadyIsTyped DEF StackReady
<1>2. /\ f \in F /\ SameOwner(f, Top) /\ f.current_command = Top.current_command
      /\ f.cmd_exec_state = Top.cmd_exec_state /\ f.retval = Top.retval
      /\ Command(f) = Command(Top) /\ Indexes(f) = Indexes(Top)
      /\ f.cmd_seq = Top.cmd_seq /\ f.manifest = Top.manifest
  BY <1>1, CurrentOf DEF SameOwner, Indexes
<1>3. CASE Top.current_component_idx # NoIndex
  <2>1. f = Top
    BY <1>3 DEF Current, component_idx_get
  <2> QED BY <1>2, <2>1
<1>4. CASE Top.current_component_idx = NoIndex
  <2>1. f = component_idx_next(Top)
    BY <1>4 DEF Current, component_idx_get
  <2>2. /\ f.current_components_backup = Top.current_components
        /\ f.current_component_idx \in Top.current_components \cap Indexes(Top)
        /\ f.current_components = {f.current_component_idx}
    BY <1>1, <1>4, <2>1, LoopMoves
  <2>3. Selects(f) /\ Chosen(Top)
    BY <1>2, <2>2 DEF Selects, Chosen
  <2>4. Top.cmd_exec_state = 0 /\ Top.retval = "SUCCESS"
        /\ (E \/ SelectedBefore(Top.cmd_seq, Top.current_command + 1))
    BY <1>4, <2>3 DEF Judged
  <2>5. f.current_command < Len(code[f.cmd_seq]) /\ Command(f).op \in ComponentCommands
    BY <1>2 DEF AtCommand
  <2>6. Mapped(f.manifest) =>
           \A j \in DOMAIN code[f.cmd_seq] :
                (j <= f.current_command /\ (E \/ SelectedBefore(f.cmd_seq, j)))
                   => Fine(code[f.cmd_seq][j])
    BY <1>2 DEF Judged
  <2> HIDE DEF f
  <2>7. Judged(f, E, TRUE)
    BY <1>2, <2>3, <2>4, <2>5, <2>6 DEF Judged
  <2> QED BY <1>2, <2>7 DEF f
<1> QED BY <1>3, <1>4

\* The sequences up to s have been judged but the last, which is scheduled.
LEMMA ScheduleJudged ==
    ASSUME StackReady, NEW E \in BOOLEAN, NEW f \in F, SameOwner(f, Top),
           f.current_component_idx # NoIndex,
           Judged(f, E, TRUE), f.retval = "SUCCESS", Command(f).op \in Nesting,
           NEW s \in DOMAIN Command(f).seqs,
           Mapped(f.manifest) => \A i \in DOMAIN Command(f).seqs :
                                    i < s => Command(f).seqs[i] \in Innocent,
           NEW a \in F, SameOwner(a, f), a.current_command = f.current_command,
           a.retval = "SUCCESS", a.cmd_exec_state = s, s # 0,
           a.current_component_idx = f.current_component_idx,
           a.current_components = f.current_components,
           a.current_components_backup = f.current_components_backup,
           NEW soft \in BOOLEAN, Schedule(a, Command(f).seqs[s], soft)
    PROVE  JudgesOn(E)
<1> DEFINE name == Command(f).seqs[s]
           h == NewFrame(name, a.manifest, soft, a.cmd_processor, a.current_components)
<1>1. /\ f.current_command < Len(code[f.cmd_seq])
      /\ E \/ SelectedBefore(f.cmd_seq, f.current_command + 1)
      /\ Mapped(f.manifest) => Selects(f)
      /\ Command(f).op \in ComponentCommands
  BY DEF Judged, Chosen
<1>2. name \in DOMAIN code
  <2>1. Command(f).seqs \in Seq(DOMAIN code)
    BY <1>1, CommandOf DEF StackReady, CommandType
  <2> QED BY <2>1, ElementOfSeq, LenProperties
<1>3. /\ a.cmd_seq = f.cmd_seq /\ a.manifest = f.manifest
      /\ Command(a) = Command(f) /\ Indexes(a) = Indexes(f)
      /\ Selects(a) <=> Selects(f)
  BY DEF SameOwner, Command, Indexes, Selects
<1>4. CASE Len(seq_stack) < MaxSeqDepth
  <2>1. seq_stack' = Append([seq_stack EXCEPT ![Len(seq_stack)] = a], h)
    BY <1>4 DEF Schedule, Push
  <2>2. /\ h \in F /\ h.current_command = 0 /\ h.cmd_exec_state = 0 /\ h.retval = "SUCCESS"
        /\ h.manifest = a.manifest /\ h.current_components = a.current_components
        /\ h.current_component_idx = NoIndex /\ h.cmd_seq = name
    <3>1. "SUCCESS" \in Retvals /\ NoIndex \in 0 .. MaxComponents
      BY SeqExecAssumption DEF Retvals, Endings, NoIndex
    <3> HIDE DEF name
    <3> QED BY <1>2, <3>1 DEF F, FrameType, NewFrame
  <2> HIDE DEF h
  <2>3. Stacks(a, h)
    BY <2>1, <2>2, AppendStacks
  <2>4. Judged(a, E, FALSE)
    <3>1. /\ a.current_command < Len(code[a.cmd_seq])
          /\ Command(a).op \in ComponentCommands /\ Command(a).op \in Nesting
          /\ E \/ SelectedBefore(a.cmd_seq, a.current_command + 1)
      BY <1>1, <1>3
    <3>2. Mapped(a.manifest) =>
             /\ Selects(a)
             /\ \A j \in DOMAIN code[a.cmd_seq] :
                   (j <= a.current_command /\ (E \/ SelectedBefore(a.cmd_seq, j)))
                      => Fine(code[a.cmd_seq][j])
             /\ \A i \in DOMAIN Command(a).seqs : i < s => Command(a).seqs[i] \in Innocent
      BY <1>1, <1>3 DEF Judged
    <3> QED BY <3>1, <3>2 DEF Judged
  <2>5. Judged(h, TRUE, TRUE)
    <3>1. Indexes(h) = Indexes(f) /\ h.manifest = f.manifest
      BY <1>3, <2>2 DEF Indexes
    <3>2. Mapped(h.manifest) => Selects(h)
      BY <1>1, <2>2, <3>1 DEF Selects
    <3>3. \A j \in DOMAIN code[h.cmd_seq] : ~(j <= 0)
      <4>1. code[name] \in Seq(CommandType(DOMAIN code))
        BY <1>2 DEF StackReady, IsProgram
      <4>2. DOMAIN code[name] = 1 .. Len(code[name]) /\ Len(code[name]) \in Nat
        BY <4>1, LenProperties
      <4> HIDE DEF name
      <4> QED BY <2>2, <4>2
    <3> QED BY <2>2, <3>2, <3>3 DEF Judged
  <2>6. ~AtDependency(code, a)
    BY <1>3 DEF AtDependency, Command, Nesting, DependencyCommands
  <2>7. SameOwner(a, Top) /\ h.manifest = Top.manifest
    BY <1>3, <2>2 DEF SameOwner
  <2> QED BY <2>2, <2>3, <2>4, <2>5, <2>6, <2>7 DEF JudgesOn, JudgedNest
<1>5. CASE ~(Len(seq_stack) < MaxSeqDepth)
  <2>1. Return(a, "ERR_OVERFLOW") /\ "ERR_OVERFLOW" \in Retvals
    BY <1>5 DEF Schedule, Retvals, Endings
  <2>2. component_idx_next(a) \in F
    BY ReadyIsTyped, LoopKeepsRest
  <2> QED BY <2>1, <2>2, FailureIsJudged DEF Return
<1> QED BY <1>4, <1>5

-----------------------------------------------------------------------------
LEMMA TryEachJudged ==
    ASSUME StackReady, NEW E \in BOOLEAN, Judged(Top, E, TRUE), TryEach,
           Top.cmd_processor = "validate_shared"
    PROVE  JudgesOn(E)
<1> DEFINE f == Current
           x == f.cmd_exec_state + 1
<1>1. /\ AtCommand /\ Command(Top).op = "try_each" /\ f.current_component_idx # NoIndex
      /\ Command(Top).op \in Nesting /\ Command(Top).op \in ComponentCommands
  BY OnIsChosen DEF TryEach, Nesting, ComponentCommands
<1>2. /\ f \in F /\ SameOwner(f, Top) /\ Command(f) = Command(Top)
      /\ f.current_command = Top.current_command /\ Judged(f, E, TRUE)
  BY <1>1, CurrentJudged
<1>3. IF ~NextAlternative(f) THEN Return(f, f.retval)
      ELSE IF MoreSequences(f)
           THEN Schedule(Started(f), Command(f).seqs[x], TRUE)
           ELSE Return([f EXCEPT !.retval = "SUCCESS"],
                       IF Command(f).nil THEN "SUCCESS" ELSE "ERR_CRASH")
  BY DEF TryEach
<1> HIDE DEF f
<1>4. /\ "SUCCESS" \in Retvals /\ "ERR_CRASH" \in Retvals
      /\ f.retval \in Retvals /\ f.cmd_exec_state \in Nat
      /\ f.retval \notin {"FAIL_CONDITION", "FAIL_SOFT_CONDITION"}
      /\ f.cmd_exec_state = 0 => f.retval = "SUCCESS"
  BY <1>2 DEF Retvals, Endings, F, FrameType, Judged
<1>5. Command(f).seqs \in Seq(DOMAIN code) /\ Len(Command(f).seqs) \in Nat
      /\ DOMAIN Command(f).seqs = 1 .. Len(Command(f).seqs)
  <2>1. Command(f).seqs \in Seq(DOMAIN code)
    BY <1>1, <1>2, ReadyIsTyped, CommandOf DEF AtCommand, StackReady, CommandType
  <2> QED BY <2>1, LenProperties
<1>6. NestedBy(Command(f)) = {Command(f).seqs[i] : i \in DOMAIN Command(f).seqs}
      /\ Command(f).op \notin ForbiddenInShared
  BY <1>1, <1>2 DEF NestedBy, ForbiddenInShared, Effects
\* All alternatives have been judged.
<1>7. ASSUME f.cmd_exec_state >= Len(Command(f).seqs), f.retval = "SUCCESS", Mapped(f.manifest)
      PROVE  Fine(Command(f))
  <2>1. ASSUME NEW i \in DOMAIN Command(f).seqs
        PROVE  Command(f).seqs[i] \in Innocent
    <3>1. i <= f.cmd_exec_state /\ f.cmd_exec_state # 0
      BY <1>4, <1>5, <1>7
    <3>2. i < f.cmd_exec_state \/ i = f.cmd_exec_state
      BY <1>4, <1>5, <3>1
    <3> QED BY <1>2, <1>7, <3>1, <3>2 DEF Judged
  <2> QED BY <1>6, <2>1 DEF Fine
<1>8. CASE ~NextAlternative(f)
  <2>1. Return(f, f.retval) /\ f.cmd_exec_state # 0
    BY <1>3, <1>8 DEF NextAlternative
  <2>2. f.retval = "SUCCESS" => f.cmd_exec_state >= Len(Command(f).seqs)
    <3>1. f.cmd_processor \in Validate
      BY <1>2 DEF SameOwner, Validate
    <3>2. f.retval = "SUCCESS" => ~(f.cmd_exec_state < Len(Command(f).seqs))
      BY <1>8, <3>1 DEF NextAlternative, MoreSequences
    <3> QED BY <1>4, <1>5, <3>2
  <2>3. f.retval = "SUCCESS" => (Mapped(f.manifest) => Fine(Command(f)))
    BY <1>7, <2>2
  <2> QED BY <1>1, <1>2, <1>4, <2>1, <2>3, ReturnJudged DEF f
<1>9. CASE NextAlternative(f)
  <2>1. f.retval = "SUCCESS"
    BY <1>4, <1>9 DEF NextAlternative
  <2>2. CASE MoreSequences(f)
    <3> DEFINE a == Started(f)
    <3>1. x \in Nat /\ x # 0 /\ x \in DOMAIN Command(f).seqs
          /\ \A i \in DOMAIN Command(f).seqs : i < x => i <= f.cmd_exec_state
      BY <1>4, <1>5, <2>2 DEF MoreSequences
    <3>2. a = [f EXCEPT !.retval = "SUCCESS", !.cmd_exec_state = x]
      BY DEF Started
    <3>3. Schedule(a, Command(f).seqs[x], TRUE)
      BY <1>3, <1>9, <2>2
    <3> HIDE DEF a, x
    <3>4. /\ a \in F /\ SameOwner(a, f) /\ a.current_command = f.current_command
          /\ a.retval = "SUCCESS" /\ a.cmd_exec_state = x
          /\ a.current_component_idx = f.current_component_idx
          /\ a.current_components = f.current_components
          /\ a.current_components_backup = f.current_components_backup
      BY <1>2, <1>4, <3>1, <3>2 DEF F, FrameType, SameOwner
    <3>5. ASSUME Mapped(f.manifest), NEW i \in DOMAIN Command(f).seqs, i < x
          PROVE  Command(f).seqs[i] \in Innocent
      <4>1. i <= f.cmd_exec_state /\ i \in 1 .. Len(Command(f).seqs)
        BY <1>5, <3>1, <3>5
      <4>2. f.cmd_exec_state # 0 /\ (i < f.cmd_exec_state \/ i = f.cmd_exec_state)
        BY <1>4, <1>5, <4>1
      <4> QED BY <1>2, <2>1, <3>5, <4>2 DEF Judged
    <3>6. f.current_component_idx # NoIndex /\ Command(f).op \in Nesting
      BY <1>1, <1>2 DEF f
    <3> QED BY <1>2, <2>1, <3>1, <3>3, <3>4, <3>5, <3>6, ScheduleJudged
  <2>3. CASE ~MoreSequences(f)
    <3> DEFINE r == IF Command(f).nil THEN "SUCCESS" ELSE "ERR_CRASH"
    <3>1. Return([f EXCEPT !.retval = "SUCCESS"], r)
      BY <1>3, <1>9, <2>3
    <3>2. [f EXCEPT !.retval = "SUCCESS"] = f
      BY <1>2, <2>1 DEF F, FrameType
    <3>3. f.cmd_exec_state >= Len(Command(f).seqs)
      BY <1>4, <1>5, <2>3 DEF MoreSequences
    <3>4. Mapped(f.manifest) => Fine(Command(f))
      BY <1>7, <2>1, <3>3
    <3>5. r \in Retvals /\ r \notin {"FAIL_CONDITION", "FAIL_SOFT_CONDITION"}
      BY <1>4
    <3>6. Return(f, r)
      BY <3>1, <3>2
    <3> HIDE DEF r
    <3> QED BY <1>1, <1>2, <2>1, <3>4, <3>5, <3>6, ReturnJudged DEF f
  <2> QED BY <2>2, <2>3
<1> QED BY <1>8, <1>9

LEMMA RunSequenceJudged ==
    ASSUME StackReady, NEW E \in BOOLEAN, Judged(Top, E, TRUE), RunSequence
    PROVE  JudgesOn(E)
<1> DEFINE f == Current
           r == IF f.retval = "FAIL_SOFT_CONDITION" THEN "SUCCESS" ELSE f.retval
<1>1. /\ AtCommand /\ Command(Top).op = "run_sequence" /\ f.current_component_idx # NoIndex
      /\ Command(Top).op \in Nesting /\ Command(Top).op \in ComponentCommands
  BY OnIsChosen DEF RunSequence, Nesting, ComponentCommands
<1>2. /\ f \in F /\ SameOwner(f, Top) /\ Command(f) = Command(Top)
      /\ f.current_command = Top.current_command /\ Judged(f, E, TRUE)
  BY <1>1, CurrentJudged
<1>3. IF f.cmd_exec_state = 0
      THEN Schedule([f EXCEPT !.cmd_exec_state = 1], Command(f).seqs[1], FALSE)
      ELSE Return([f EXCEPT !.retval = r], r)
  BY DEF RunSequence
<1>4. f.current_component_idx # NoIndex /\ Command(f).op \in Nesting
      /\ Command(f).op = "run_sequence"
  BY <1>1, <1>2
<1> HIDE DEF f
<1>5. /\ f.retval \in Retvals /\ f.cmd_exec_state \in Nat
      /\ f.retval \notin {"FAIL_CONDITION", "FAIL_SOFT_CONDITION"}
      /\ f.cmd_exec_state = 0 => f.retval = "SUCCESS"
      /\ r = f.retval
  BY <1>2 DEF Retvals, Endings, F, FrameType, Judged
<1> HIDE DEF r
<1>6. 1 \in DOMAIN Command(f).seqs /\ \A i \in DOMAIN Command(f).seqs : ~(i < 1)
  <2>1. Command(f).seqs \in Seq(DOMAIN code) /\ Command(f).seqs # <<>>
    BY <1>1, <1>2, ReadyIsTyped, CommandOf DEF AtCommand, StackReady, CommandType
  <2>2. Len(Command(f).seqs) \in Nat /\ Len(Command(f).seqs) # 0
        /\ DOMAIN Command(f).seqs = 1 .. Len(Command(f).seqs)
    BY <2>1, EmptySeq, LenProperties
  <2> QED BY <2>2
<1>7. CASE f.cmd_exec_state = 0
  <2> DEFINE a == [f EXCEPT !.cmd_exec_state = 1]
  <2>1. Schedule(a, Command(f).seqs[1], FALSE)
    BY <1>3, <1>7
  <2>2. /\ a \in F /\ SameOwner(a, f) /\ a.current_command = f.current_command
        /\ a.retval = "SUCCESS" /\ a.cmd_exec_state = 1
        /\ a.current_component_idx = f.current_component_idx
        /\ a.current_components = f.current_components
        /\ a.current_components_backup = f.current_components_backup
    BY <1>2, <1>5, <1>7 DEF F, FrameType, SameOwner
  <2> HIDE DEF a
  <2>3. f.retval = "SUCCESS" /\ 1 # 0
    BY <1>5, <1>7
  <2> QED BY <1>2, <1>4, <1>6, <2>1, <2>2, <2>3, ScheduleJudged
<1>8. CASE f.cmd_exec_state # 0
  <2>1. Return([f EXCEPT !.retval = r], r) /\ [f EXCEPT !.retval = r] = f
    BY <1>2, <1>3, <1>5, <1>8 DEF F, FrameType
  <2>2. Return(f, r)
    BY <2>1
  <2>3. ASSUME f.retval = "SUCCESS", Mapped(f.manifest) PROVE Fine(Command(f))
    <3>1. 1 < f.cmd_exec_state \/ 1 = f.cmd_exec_state
      BY <1>5, <1>8
    <3>2. Command(f).seqs[1] \in Innocent
      BY <1>2, <1>6, <1>8, <2>3, <3>1 DEF Judged
    <3>3. NestedBy(Command(f)) = {Command(f).seqs[1]} /\ Command(f).op \notin ForbiddenInShared
      BY <1>4 DEF NestedBy, ForbiddenInShared, Effects
    <3> QED BY <3>2, <3>3 DEF Fine
  <2>4. r = "SUCCESS" => f.retval = "SUCCESS" /\ (Mapped(f.manifest) => Fine(Command(f)))
    BY <1>5, <2>3
  <2> QED BY <1>2, <1>4, <1>5, <2>2, <2>4, ReturnJudged
<1> QED BY <1>7, <1>8

LEMMA CommandJudged ==
    ASSUME StackReady, NEW E \in BOOLEAN, Judged(Top, E, TRUE), ValidateCommand,
           Top.cmd_processor = "validate_shared"
    PROVE  JudgesOn(E)
<1> DEFINE f == Current
           r == IF Command(Top).op \in ForbiddenInShared
                THEN "ERR_MANIFEST_VALIDATION" ELSE "SUCCESS"
<1>1. /\ AtCommand /\ Command(Top).op \in ComponentCommands \ Nesting
      /\ f.current_component_idx # NoIndex
  BY OnIsChosen DEF ValidateCommand
<1>2. /\ f \in F /\ SameOwner(f, Top) /\ Command(f) = Command(Top)
      /\ Judged(f, E, TRUE)
  BY <1>1, CurrentJudged
<1>3. Return(f, r)
  BY DEF ValidateCommand
<1>4. f.current_component_idx # NoIndex
  BY <1>1
<1> HIDE DEF f
<1>5. f.retval = "SUCCESS"
  BY <1>1, <1>2 DEF Judged
<1>6. NestedBy(Command(f)) = {}
  BY <1>1, <1>2 DEF NestedBy, Nesting
<1>7. r = "SUCCESS" => Fine(Command(f))
  BY <1>2, <1>6 DEF Fine
<1>8. r \in Retvals /\ r \notin {"FAIL_CONDITION", "FAIL_SOFT_CONDITION"}
  BY DEF Retvals, Endings
<1> HIDE DEF r
<1> QED BY <1>2, <1>3, <1>4, <1>5, <1>7, <1>8, ReturnJudged

\* What is known of the frame on top at a command that is not inside a component loop.
LEMMA OutsideLoop ==
    ASSUME StackReady, NEW E \in BOOLEAN, Judged(Top, E, TRUE),
           Top.current_component_idx = NoIndex
    PROVE  /\ Top.retval = "SUCCESS" /\ Top.cmd_exec_state = 0
           /\ Top.current_components \cap Indexes(Top) # {} =>
                 E \/ SelectedBefore(Top.cmd_seq, Top.current_command + 1)
           /\ Mapped(Top.manifest) =>
                 /\ (E \/ SelectedBefore(Top.cmd_seq, Top.current_command + 1))
                       => Top.current_components \cap Indexes(Top) # {}
                 /\ \A j \in DOMAIN code[Top.cmd_seq] :
                       (j <= Top.current_command /\ (E \/ SelectedBefore(Top.cmd_seq, j)))
                          => Fine(code[Top.cmd_seq][j])
<1>1. Top.retval = "SUCCESS" /\ Top.cmd_exec_state = 0
  BY DEF Judged
<1>2. Top.current_components \cap Indexes(Top) # {} =>
         E \/ SelectedBefore(Top.cmd_seq, Top.current_command + 1)
  BY DEF Judged, Chosen
<1>3. ASSUME Mapped(Top.manifest)
      PROVE /\ (E \/ SelectedBefore(Top.cmd_seq, Top.current_command + 1))
                       => Top.current_components \cap Indexes(Top) # {}
            /\ \A j \in DOMAIN code[Top.cmd_seq] :
                  (j <= Top.current_command /\ (E \/ SelectedBefore(Top.cmd_seq, j)))
                     => Fine(code[Top.cmd_seq][j])
  BY <1>1, <1>3 DEF Judged, Selects
<1> QED BY <1>1, <1>2, <1>3

LEMMA OverrideJudged ==
    ASSUME StackReady, NEW E \in BOOLEAN, Judged(Top, E, TRUE), ValidateOverride
    PROVE  JudgesOn(E)
<1> DEFINE begun == E \/ SelectedBefore(Top.cmd_seq, Top.current_command + 1)
           g == NextCommand(Top)
<1>1. /\ AtCommand /\ Command(Top).op = "override_parameters"
      /\ Continue(g)
  BY DEF ValidateOverride, At
<1>2. Top.current_component_idx = NoIndex
  BY <1>1 DEF Judged, ComponentCommands, Checks, Effects, Nesting, DependencyCommands
<1>3. NestedBy(Command(Top)) = {} /\ Fine(Command(Top))
  BY <1>1 DEF NestedBy, Fine, ForbiddenInShared, Effects
<1>4. g \in F /\ SameOwner(g, Top) /\ Judged(g, E, TRUE)
  <2>1. Command(Top).op # "set_component_index"
    BY <1>1
  <2>2. /\ Top \in F /\ IsProgram(code) /\ Top.current_command < Len(code[Top.cmd_seq])
        /\ begun <=> E \/ SelectedBefore(Top.cmd_seq, Top.current_command + 1)
    BY <1>1, ReadyIsTyped DEF StackReady, AtCommand
  <2>3. /\ Top.retval = "SUCCESS"
        /\ Chosen(Top) => begun
        /\ Mapped(Top.manifest) =>
              /\ begun => Top.current_components \cap Indexes(Top) # {}
              /\ \A j \in DOMAIN code[Top.cmd_seq] :
                    (j <= Top.current_command /\ (E \/ SelectedBefore(Top.cmd_seq, j)))
                       => Fine(code[Top.cmd_seq][j])
    BY <1>2, OutsideLoop DEF Chosen
  <2> HIDE DEF begun
  <2> QED BY <1>2, <1>3, <2>1, <2>2, <2>3, NextJudged
<1> HIDE DEF g
<1>5. TurnsTo(g)
  BY <1>1, <1>4, ContinueTurns
<1> QED BY <1>4, <1>5 DEF JudgesOn, JudgedTurn

\* A command that is given no component.
LEMMA SkipJudged ==
    ASSUME StackReady, NEW E \in BOOLEAN, Judged(Top, E, TRUE), SkipCommand
    PROVE  JudgesOn(E)
<1> DEFINE begun == E \/ SelectedBefore(Top.cmd_seq, Top.current_command + 1)
           f == Current
           g == NextCommand(f)
<1>1. /\ AtCommand /\ Command(Top).op \in ComponentCommands
      /\ f.current_component_idx = NoIndex
      /\ Continue(g)
  BY DEF SkipCommand, At
<1>2. Typed /\ Running /\ Top \in F /\ IsProgram(code)
  BY ReadyIsTyped DEF StackReady
<1>3. Top.current_component_idx = NoIndex /\ f = component_idx_next(Top)
  BY <1>1 DEF Current, component_idx_get
<1>4. /\ Top.current_components \cap Indexes(Top) = {}
      /\ f.current_components = Top.current_components
  BY <1>1, <1>2, <1>3, LoopMoves
<1>5. /\ f \in F /\ SameOwner(f, Top) /\ f.current_command = Top.current_command
      /\ f.retval = Top.retval /\ Command(f) = Command(Top)
      /\ f.cmd_seq = Top.cmd_seq /\ f.manifest = Top.manifest /\ Indexes(f) = Indexes(Top)
  BY <1>2, CurrentOf DEF SameOwner, Indexes
<1>6. ~Chosen(f)
  BY <1>1, <1>4, <1>5 DEF Chosen
<1> HIDE DEF f
<1>7. g \in F /\ SameOwner(g, f) /\ Judged(g, E, TRUE)
  <2>1. Command(f).op # "set_component_index"
    BY <1>1, <1>5 DEF ComponentCommands, Checks, Effects, Nesting, DependencyCommands
  <2>2. /\ f.current_command < Len(code[f.cmd_seq])
        /\ begun <=> E \/ SelectedBefore(f.cmd_seq, f.current_command + 1)
    BY <1>1, <1>5 DEF AtCommand
  <2>3. /\ f.retval = "SUCCESS"
        /\ Mapped(f.manifest) =>
              /\ ~begun
              /\ \A j \in DOMAIN code[f.cmd_seq] :
                    (j <= f.current_command /\ (E \/ SelectedBefore(f.cmd_seq, j)))
                       => Fine(code[f.cmd_seq][j])
    BY <1>3, <1>4, <1>5, OutsideLoop
  <2> HIDE DEF begun
  <2> QED BY <1>1, <1>2, <1>5, <1>6, <2>1, <2>2, <2>3, NextJudged
<1> HIDE DEF g
<1>8. SameOwner(g, Top) /\ TurnsTo(g)
  BY <1>1, <1>5, <1>7, ContinueTurns DEF SameOwner
<1> QED BY <1>7, <1>8 DEF JudgesOn, JudgedTurn

LEMMA SelectionJudged ==
    ASSUME StackReady, NEW E \in BOOLEAN, Judged(Top, E, TRUE), SetComponentIndex,
           Top.cmd_processor = "validate_shared"
    PROVE  JudgesOn(E)
<1> DEFINE begun  == E \/ SelectedBefore(Top.cmd_seq, Top.current_command + 1)
           select == Command(Top).select
           comps  == IF select = {} THEN Indexes(Top) ELSE select \cap Indexes(Top)
           f      == [Top EXCEPT !.current_components = comps]
           g      == NextCommand(f)
<1>1. /\ AtCommand /\ Command(Top).op = "set_component_index"
      /\ IF select \subseteq Indexes(Top) THEN Continue(g)
         ELSE Finalize(f, "ERR_MANIFEST_VALIDATION")
  BY DEF SetComponentIndex, At, Run
<1>2. Top \in F /\ IsProgram(code) /\ comps \in SUBSET Nat
  BY ReadyIsTyped DEF StackReady, Indexes
<1>3. Mapped(Top.manifest) => Indexes(Top) # {}
  <2>1. manifest_stack[Top.manifest] \in Seq(Slot)
    BY <1>2 DEF F, FrameType, StackReady, Maps
  <2>2. Mapped(Top.manifest) => Len(manifest_stack[Top.manifest]) \in Nat \ {0}
    BY <2>1, EmptySeq, LenProperties DEF Mapped
  <2>3. ASSUME NEW n \in Nat \ {0} PROVE 0 \in 0 .. n - 1
    OBVIOUS
  <2> QED BY <2>2, <2>3 DEF Indexes
<1>4. (Mapped(Top.manifest) /\ select \subseteq Indexes(Top)) => comps \cap Indexes(Top) # {}
  BY <1>3
<1> HIDE DEF comps
<1>5. /\ f \in F /\ f.current_components = comps /\ f.current_command = Top.current_command
      /\ f.retval = Top.retval /\ f.current_component_idx = Top.current_component_idx
      /\ f.cmd_seq = Top.cmd_seq /\ f.manifest = Top.manifest
      /\ f.cmd_processor = Top.cmd_processor
  BY <1>2 DEF F, FrameType
<1> HIDE DEF f
<1>6. Indexes(f) = Indexes(Top) /\ Command(f) = Command(Top) /\ SameOwner(f, Top)
  BY <1>5 DEF Indexes, Command, SameOwner
<1>7. CASE select \subseteq Indexes(Top)
  <2>1. Top.current_component_idx = NoIndex
    BY <1>1 DEF Judged, ComponentCommands, Checks, Effects, Nesting, DependencyCommands
  <2>2. NestedBy(Command(f)) = {} /\ Fine(Command(f))
    BY <1>1, <1>6 DEF NestedBy, Fine, ForbiddenInShared, Effects
  <2>3. g \in F /\ SameOwner(g, f) /\ Judged(g, E, TRUE)
    <3>1. Command(f).op = "set_component_index"
      BY <1>1, <1>6
    <3>2. /\ f.current_command < Len(code[f.cmd_seq])
          /\ begun <=> E \/ SelectedBefore(f.cmd_seq, f.current_command + 1)
      BY <1>1, <1>5 DEF AtCommand
    <3>3. /\ f.retval = "SUCCESS" /\ f.current_component_idx = NoIndex
          /\ Mapped(f.manifest) =>
              /\ f.current_components \cap Indexes(f) # {}
              /\ \A j \in DOMAIN code[f.cmd_seq] :
                    (j <= f.current_command /\ (E \/ SelectedBefore(f.cmd_seq, j)))
                       => Fine(code[f.cmd_seq][j])
      BY <1>4, <1>5, <1>6, <1>7, <2>1, OutsideLoop
    <3> HIDE DEF begun
    <3> QED BY <1>2, <1>5, <2>2, <3>1, <3>2, <3>3, NextJudged
  <2>4. Continue(g)
    BY <1>1, <1>7
  <2> HIDE DEF g
  <2>5. SameOwner(g, Top) /\ TurnsTo(g)
    BY <1>6, <2>3, <2>4, ContinueTurns DEF SameOwner
  <2> QED BY <2>3, <2>5 DEF JudgesOn, JudgedTurn
<1>8. CASE ~(select \subseteq Indexes(Top))
  <2>1. Finalize(f, "ERR_MANIFEST_VALIDATION") /\ "ERR_MANIFEST_VALIDATION" \in Retvals
    BY <1>1, <1>8 DEF Retvals, Endings
  <2> QED BY <1>5, <2>1, FailureIsJudged
<1> QED BY <1>7, <1>8

\* The sequence ends: it has passed.
LEMMA EndJudged ==
    ASSUME StackReady, NEW E \in BOOLEAN, Judged(Top, E, TRUE), EndOfSequence
    PROVE  JudgesOn(E)
<1> DEFINE q == Top.cmd_seq
<1>1. /\ Top.current_command >= Len(code[q]) /\ Finalize(Top, "SUCCESS")
      /\ "SUCCESS" \in Retvals /\ Top \in F /\ Result(Top, "SUCCESS") = "SUCCESS"
  BY ReadyIsTyped DEF EndOfSequence, Retvals, Endings, Result
<1>2. /\ Top.current_command \in Nat /\ Len(code[q]) \in Nat
      /\ \A j \in DOMAIN code[q] : j <= Top.current_command
  <2>1. q \in DOMAIN code /\ Top.current_command \in Nat
    BY <1>1 DEF F, FrameType
  <2>2. DOMAIN code[q] = 1 .. Len(code[q]) /\ Len(code[q]) \in Nat
    <3>1. code[q] \in Seq(CommandType(DOMAIN code))
      BY <2>1 DEF StackReady, IsProgram
    <3> QED BY <3>1, LenProperties
  <2> QED BY <1>1, <2>1, <2>2
<1>3. Top.current_component_idx = NoIndex
  <2>1. ~(Top.current_command < Len(code[q]))
    BY <1>1, <1>2
  <2> QED BY <2>1 DEF Judged
<1>4. Mapped(Top.manifest) =>
         Passed(q, E) /\ (E => Top.current_components \cap Indexes(Top) # {})
  BY <1>2, <1>3, OutsideLoop DEF Passed
<1>5. PopsTo("SUCCESS", Top.current_components) /\ Top.current_components \in SUBSET Nat
  BY <1>1, FinalizePops DEF F, FrameType
<1> QED BY <1>1, <1>4, <1>5 DEF JudgesOn, JudgedPop

\* One iteration of the loop in suit_process_scheduled for a shared sequence that is validated.
LEMMA JudgesStep ==
    ASSUME StackReady, NEW E \in BOOLEAN, Judged(Top, E, TRUE), SeqStep,
           Top.cmd_processor = "validate_shared"
    PROVE  JudgesOn(E)
<1>1. Top.cmd_processor \notin Run
  BY DEF Run
<1>2. CASE RejectCommand
  <2>1. PICK r \in {"ERR_MANIFEST_VALIDATION", "ERR_DECODING"} : Finalize(Top, r)
    BY <1>2 DEF RejectCommand
  <2>2. r \in Retvals /\ r \notin {"SUCCESS", "FAIL_CONDITION", "FAIL_SOFT_CONDITION"}
    BY <2>1 DEF Retvals, Endings
  <2> QED BY <2>1, <2>2, ReadyIsTyped, FailureIsJudged
<1>3. ~ComponentGone /\ ~Override /\ ~ParameterMissing /\ ~ParameterMalformed
  BY <1>1 DEF ComponentGone, Override, ParameterMissing, ParameterMalformed, Ready, On, At
<1>4. /\ \A r : ~CheckCondition(r) /\ ~Perform(r) /\ ~SetParameters(r) /\ ~RetrieveFails(r)
      /\ \A i, r : ~OverrideSizeFails(i, r)
  BY <1>1 DEF CheckCondition, Perform, SetParameters, RetrieveFails, ToLoad, OverrideSizeFails,
     Ready, On, At
<1>5. /\ ~AssumeCondition /\ ~Abort /\ ~ConditionIsDependency
      /\ ~DependencyIntegrityRefused /\ ~ProcessDependencyRefused
  BY <1>1 DEF AssumeCondition, Abort, ConditionIsDependency, DependencyIntegrityRefused,
     ProcessDependencyRefused, Ready, On, At
<1> QED
  BY <1>2, <1>3, <1>4, <1>5, EndJudged, SkipJudged, SelectionJudged, TryEachJudged,
     RunSequenceJudged, CommandJudged, OverrideJudged DEF SeqStep

\* While a sequence is validated nothing else happens to the stack.
LEMMA ValidatorSteps ==
    ASSUME PInv, [Next]_vars, Running, Top.cmd_processor \in Validate
    PROVE  UNCHANGED seq_stack \/ (StackReady /\ SeqStep)
<1>0. Top.cmd_processor \notin Run
  BY DEF Run, Validate
<1>1. ~AwaitsRegistry
  <2>1. ASSUME AwaitsRegistry PROVE FALSE
    BY <1>0, <2>1, Awaiting DEF Run
  <2> QED BY <2>1
<1>2. ~DependencyStep
  BY <1>0, <1>1 DEF DependencyStep, LoadDependency, ToLoad, DependencyNotLoaded, LoadedForIntegrity,
     AuthorizeDependency, ValidateForIntegrity, IntegrityFails, IntegrityHolds,
     ValidateForProcess, ExecuteDependency, ProcessFails, DependencyCompleted,
     DependencyReleased, ResumedProcess, Resumed, On, At
<1>3. CASE RunCommand
  BY <1>3, InSequence DEF RunCommand
<1>4. CASE UNCHANGED vars \/ LoadStep \/ ReleaseStep
  BY <1>4 DEF vars, stacks, LoadStep, ReleaseStep
<1>5. CASE Loaded \/ ValidateNext \/ ValidationDone \/ DryRunNext \/ DryRunMain \/ DryRunRepeat
           \/ DryRunDone \/ ExecuteShared \/ ExecuteMain \/ (\E r \in PlatResults : Completed(r))
           \/ GiveUp \/ CallReturns \/ \E n \in Calls : Call(n)
  BY <1>5 DEF Loaded, ValidateNext, ValidationDone, DryRunNext, DryRunMain, DryRunRepeat,
     DryRunDone, ExecuteShared, ExecuteMain, Completed, GiveUp, CallReturns, Call, AtStep
<1> QED BY <1>2, <1>3, <1>4, <1>5 DEF Next, Step, DependencyStep

LEMMA SharedIsJudged ==
    ASSUME PInv, [Next]_vars, Running, Top.cmd_processor = "validate_shared",
           NEW E \in BOOLEAN, Judged(Top, E, TRUE)
    PROVE  UNCHANGED seq_stack \/ JudgesOn(E)
BY ValidatorSteps, JudgesStep DEF Validate

-----------------------------------------------------------------------------
(***************************************************************************)
(* The frames that validate shared sequences are judged after every step.  *)
(***************************************************************************)
\* Nothing has been judged in the first frame of a sequence yet.
LEMMA FirstJudged ==
    ASSUME PInv, NEW e \in Entry, NEW x, NEW p, Status(e, x) = "SUCCESS",
           NEW E \in BOOLEAN, E <=> Len(manifest_stack[e]) = 1
    PROVE  Judged(FirstFrame(x, e, p), E, TRUE)
<1> DEFINE h == FirstFrame(x, e, p)
           q == Sequences(e)[x]
<1>1. /\ h.cmd_seq = q /\ h.manifest = e /\ h.current_command = 0 /\ h.cmd_exec_state = 0
      /\ h.current_component_idx = NoIndex /\ h.current_components = InitSelected(e)
      /\ h.retval = "SUCCESS"
  BY DEF FirstFrame, NewFrame
<1> HIDE DEF h
<1>2. q \in DOMAIN code
  BY StatusSuccess DEF PInv
<1>3. /\ \A i \in DOMAIN code[q] : ~(i <= 0) /\ ~(i < 0 + 1)
      /\ 0 + 1 = 1
  <2>1. code[q] \in Seq(CommandType(DOMAIN code))
    BY <1>2, Here DEF IsProgram
  <2>2. DOMAIN code[q] = 1 .. Len(code[q]) /\ Len(code[q]) \in Nat
    BY <2>1, LenProperties
  <2> HIDE DEF q
  <2> QED BY <2>2
<1>4. ~SelectedBefore(q, 0 + 1)
  BY <1>3 DEF SelectedBefore
<1>5. Chosen(h) => E
  BY <1>1 DEF Chosen, InitSelected
<1>6. E => Selects(h)
  <2>1. E => 0 \in Indexes(h)
    <3>1. E => Indexes(h) = 0 .. 1 - 1
      BY <1>1 DEF Indexes
    <3>2. 0 \in 0 .. 1 - 1
      OBVIOUS
    <3> QED BY <3>1, <3>2
  <2> QED BY <1>1, <2>1 DEF Selects, InitSelected
<1>7. \A i \in DOMAIN code[h.cmd_seq] : ~(i <= h.current_command)
  BY <1>1, <1>3
<1>8. ~SelectedBefore(h.cmd_seq, h.current_command + 1)
  BY <1>1, <1>4
<1>9. Judged(h, E, TRUE)
  BY <1>1, <1>5, <1>6, <1>7, <1>8 DEF Judged
<1> QED BY <1>9 DEF h

\* g is frame f with the result v and the selection that the sequence above it left.
Resumes(g, f, v, selected) ==
    /\ SameOwner(g, f) /\ g.retval = v /\ g.current_components = selected
    /\ g.current_command = f.current_command /\ g.cmd_exec_state = f.cmd_exec_state
    /\ g.current_component_idx = f.current_component_idx
    /\ g.current_components_backup = f.current_components_backup

\* The frame that gets the result of the sequence it has started.
LEMMA PoppedJudged ==
    ASSUME IsProgram(code), NEW f \in F, NEW E \in BOOLEAN, Judged(f, E, FALSE),
           NEW h, Starts(f, h), h.cmd_seq \in DOMAIN code,
           NEW v \in Retvals, v \notin {"FAIL_CONDITION", "FAIL_SOFT_CONDITION"},
           NEW selected \in SUBSET Nat,
           (v = "SUCCESS" /\ Mapped(f.manifest)) =>
              Passed(h.cmd_seq, TRUE) /\ selected \cap Indexes(f) # {},
           NEW g, Resumes(g, f, v, selected)
    PROVE  Judged(g, E, TRUE)
<1>1. /\ SameOwner(g, f) /\ g.retval = v /\ g.current_components = selected
      /\ g.current_command = f.current_command /\ g.cmd_exec_state = f.cmd_exec_state
      /\ g.current_component_idx = f.current_component_idx
      /\ g.current_components_backup = f.current_components_backup
  BY DEF Resumes
<1>2. /\ g.cmd_seq = f.cmd_seq /\ g.manifest = f.manifest
      /\ Indexes(g) = Indexes(f) /\ Command(g) = Command(f)
  BY <1>1 DEF SameOwner, Indexes, Command
<1>3. /\ f.current_component_idx # NoIndex /\ f.retval = "SUCCESS"
      /\ f.current_command < Len(code[f.cmd_seq]) /\ Command(f).op \in ComponentCommands
      /\ E \/ SelectedBefore(f.cmd_seq, f.current_command + 1)
      /\ Command(f).op \in Nesting
      /\ f.cmd_exec_state \in DOMAIN Command(f).seqs
      /\ h.cmd_seq = Command(f).seqs[f.cmd_exec_state]
  BY DEF Judged, Starts, Chosen
<1>4. f.cmd_exec_state # 0
  <2>1. Command(f).seqs \in Seq(DOMAIN code)
    BY <1>3, CommandOf DEF CommandType
  <2>2. DOMAIN Command(f).seqs = 1 .. Len(Command(f).seqs) /\ Len(Command(f).seqs) \in Nat
    BY <2>1, LenProperties
  <2> QED BY <1>3, <2>2
<1>5. ASSUME Mapped(f.manifest)
      PROVE  /\ v = "SUCCESS" => Selects(g)
             /\ \A j \in DOMAIN code[f.cmd_seq] :
                   (j <= f.current_command /\ (E \/ SelectedBefore(f.cmd_seq, j)))
                      => Fine(code[f.cmd_seq][j])
             /\ \A i \in DOMAIN Command(f).seqs :
                   (i < f.cmd_exec_state \/ (i = f.cmd_exec_state /\ v = "SUCCESS"))
                      => Command(f).seqs[i] \in Innocent
  <2>1. v = "SUCCESS" => Selects(g)
    <3>1. Selects(f)
      BY <1>3, <1>5 DEF Judged
    <3> QED BY <1>1, <1>2, <1>3, <1>5, <3>1 DEF Selects
  <2>2. v = "SUCCESS" => h.cmd_seq \in Innocent
    <3>1. v = "SUCCESS" => \A j \in DOMAIN code[h.cmd_seq] : Fine(code[h.cmd_seq][j])
      BY <1>5 DEF Passed
    <3> QED BY <3>1, InnocentMeans
  <2>3. \A j \in DOMAIN code[f.cmd_seq] :
                   (j <= f.current_command /\ (E \/ SelectedBefore(f.cmd_seq, j)))
                      => Fine(code[f.cmd_seq][j])
    BY <1>5 DEF Judged
  <2>4. ASSUME NEW i \in DOMAIN Command(f).seqs,
               i < f.cmd_exec_state \/ (i = f.cmd_exec_state /\ v = "SUCCESS")
        PROVE  Command(f).seqs[i] \in Innocent
    <3>1. CASE i < f.cmd_exec_state
      BY <1>4, <1>5, <3>1 DEF Judged
    <3>2. CASE i = f.cmd_exec_state /\ v = "SUCCESS"
      BY <1>3, <2>2, <3>2
    <3> QED BY <2>4, <3>1, <3>2
  <2> QED BY <2>1, <2>2, <2>3, <2>4
<1> QED BY <1>1, <1>2, <1>3, <1>4, <1>5 DEF Judged

\* What a frame begins with does not change while the frame is there.
LEMMA EnteredStays ==
    ASSUME Level, Placed, NEW k \in Frames, k \in Frames'
    PROVE  Entered(k)' <=> Entered(k)
<1> DEFINE n == Len(seq_stack)
           m == Len(seq_stack')
<1>1. /\ n \in Nat /\ m \in Nat /\ k \in 1 .. n /\ k \in 1 .. m
      /\ Frames = 1 .. n /\ Frames' = 1 .. m /\ code' = code
      /\ \A i \in Frames : seq_stack[i] \in F
  BY StackRange, StackRangeNext, WorldStays DEF Level
<1>2. SameOwner(seq_stack'[k], seq_stack[k]) /\ Holds(seq_stack[k].manifest)
  BY FramesCorrespond, FrameHolds
<1>3. manifest_stack'[seq_stack'[k].manifest] = manifest_stack[seq_stack[k].manifest]
  BY <1>2 DEF SameOwner, Holds
<1>4. k > 1 => (AtDependency(code', seq_stack'[k - 1]) <=> AtDependency(code, seq_stack[k - 1]))
  <2> SUFFICES ASSUME k > 1
               PROVE  AtDependency(code', seq_stack'[k - 1]) <=> AtDependency(code, seq_stack[k - 1])
    OBVIOUS
  <2> DEFINE i == k - 1
  <2>1. i \in Frames /\ i \in Frames' /\ i < n
    BY <1>1
  <2> HIDE DEF i
  <2>2. seq_stack'[i] = seq_stack[i] \/ GivenBack(seq_stack'[i], seq_stack[i])
    BY <2>1, FramesCorrespond
  <2>3. AtDependency(code, seq_stack'[i]) <=> AtDependency(code, seq_stack[i])
    <3>1. CASE seq_stack'[i] = seq_stack[i]
      BY <3>1
    <3>2. CASE GivenBack(seq_stack'[i], seq_stack[i])
      <4>1. SameOwner(seq_stack'[i], seq_stack[i])
            /\ seq_stack'[i].current_command = seq_stack[i].current_command
        BY <1>1, <2>1, <3>2, GivenBackFrame
      <4> QED BY <4>1 DEF AtDependency, SameOwner
    <3> QED BY <2>2, <3>1, <3>2
  <2> QED BY <1>1, <2>3 DEF i
<1> QED BY <1>3, <1>4 DEF Entered

LEMMA JudgingStep ==
    ASSUME Level, Placed, Linked, Judging
    PROVE  Judging'
<1> DEFINE n == Len(seq_stack)
           m == Len(seq_stack')
<1> SUFFICES ASSUME NEW k \in Frames', (seq_stack[k].cmd_processor = "validate_shared")'
             PROVE  Judged(seq_stack[k], Entered(k), k = Len(seq_stack))'
  BY DEF Judging
<1> SUFFICES ASSUME NEW g, g = seq_stack'[k],
                    g.cmd_processor = "validate_shared",
                    NEW E \in BOOLEAN, E <=> Entered(k)', NEW T \in BOOLEAN, T <=> k = m
             PROVE  Judged(g, E, T)'
  <2>1. PICK g : g = seq_stack'[k]
    OBVIOUS
  <2>2. PICK E \in BOOLEAN : E <=> Entered(k)'
    OBVIOUS
  <2>3. PICK T \in BOOLEAN : T <=> k = m
    OBVIOUS
  <2>4. Judged(g, E, T)'
    BY <2>1, <2>2, <2>3
  <2> QED BY <2>1, <2>2, <2>3, <2>4 DEF Judged
<1>1. /\ n \in Nat /\ m \in Nat /\ Frames = 1 .. n /\ Frames' = 1 .. m /\ k \in 1 .. m
      /\ \A i \in Frames : seq_stack[i] \in F
  BY StackRange, StackRangeNext DEF Level
<1>2. code' = code /\ PInv /\ InStep /\ [Next]_vars /\ IsProgram(code)
  BY WorldStays, Here DEF Level
<1>3. ASSUME Judged(g, E, T), manifest_stack'[g.manifest] = manifest_stack[g.manifest]
      PROVE  Judged(g, E, T)'
  BY <1>2, <1>3, JudgedStays
\* The first frame of all.
<1>4. CASE ~Running
  <2>1. UNCHANGED manifest_stack /\ m = 1
    BY <1>1, <1>2, <1>4, FirstShapes
  <2>2. PICK x : \E e \in Entry, p \in Run \cup Validate :
                    Status(e, x) = "SUCCESS" /\ seq_stack'[1] = FirstFrame(x, e, p)
    BY <1>1, <1>2, <1>4, FirstShapes
  <2>3. PICK e \in Entry, p \in Run \cup Validate :
                    Status(e, x) = "SUCCESS" /\ seq_stack'[1] = FirstFrame(x, e, p)
    BY <2>2
  <2>4. k = 1 /\ T = TRUE /\ g = FirstFrame(x, e, p) /\ g.manifest = e
    <3>1. k = 1
      BY <1>1, <2>1
    <3>2. T
      BY <2>1, <3>1
    <3>3. FirstFrame(x, e, p).manifest = e
      BY DEF FirstFrame, NewFrame
    <3> QED BY <2>3, <3>1, <3>2, <3>3
  <2>5. E <=> Len(manifest_stack[e]) = 1
    <3>1. ~(1 > 1)
      OBVIOUS
    <3>2. Entered(k)' <=> Len(manifest_stack'[seq_stack'[k].manifest]) = 1
      BY <2>4, <3>1 DEF Entered
    <3> QED BY <2>1, <2>4, <3>2
  <2>6. Judged(g, E, TRUE)
    <3>1. PInv /\ Status(e, x) = "SUCCESS"
      BY <1>2, <2>3
    <3>2. Judged(FirstFrame(x, e, p), E, TRUE)
      BY <2>5, <3>1, FirstJudged
    <3> QED BY <2>4, <3>2
  <2> QED BY <1>3, <2>1, <2>4, <2>6
<1>5. CASE Running
  <2>0. Top = seq_stack[n] /\ n \in Frames /\ StackReady
    BY <1>1, <1>2, <1>5, InSequence, EmptySeq DEF Running, Top
  <2>1. ASSUME k \in Frames
        PROVE  /\ SameOwner(g, seq_stack[k]) /\ seq_stack[k].cmd_processor = "validate_shared"
               /\ E <=> Entered(k)
               /\ manifest_stack'[g.manifest] = manifest_stack[g.manifest]
    <3>1. SameOwner(g, seq_stack[k]) /\ Holds(seq_stack[k].manifest)
      BY <2>1, FramesCorrespond, FrameHolds
    <3>2. Entered(k)' <=> Entered(k)
      BY <2>1, EnteredStays
    <3> QED BY <3>1, <3>2 DEF SameOwner, Holds
  <2>2. ASSUME NEW U \in BOOLEAN, Top.cmd_processor = "validate_shared", Judged(Top, U, TRUE)
        PROVE  UNCHANGED seq_stack \/ JudgesOn(U)
    BY <1>2, <1>5, <2>2, SharedIsJudged
  <2>3. CASE k < n /\ k < m
    <3>1. k \in Frames /\ g = seq_stack[k]
      BY <1>1, <2>3, FramesCorrespond
    <3>2. Judged(seq_stack[k], Entered(k), k = n) /\ ~(k = n) /\ ~T
      BY <1>1, <2>1, <2>3, <3>1 DEF Judging
    <3>3. Judged(g, E, T)
      BY <2>1, <3>1, <3>2 DEF Judged
    <3> QED BY <1>3, <2>1, <3>1, <3>3
  <2>4. CASE k < n /\ ~(k < m)
    <3>1. k \in Frames /\ k = m /\ T
      BY <1>1, <2>4
    <3> DEFINE f == seq_stack[k]
    <3>2. /\ f \in F /\ f.cmd_processor = "validate_shared" /\ (E <=> Entered(k))
          /\ manifest_stack'[g.manifest] = manifest_stack[g.manifest] /\ SameOwner(g, f)
      BY <1>1, <2>1, <3>1
    <3>3. ~AtDependency(code, f)
      <4>1. "run" # "validate_shared"
        OBVIOUS
      <4> QED BY <1>2, <2>4, <3>1, <3>2, <4>1 DEF PInv, FramesOK, IsOpen
    <3>4. k = n - 1 /\ n > 1
      <4>1. CASE Popped
        <5>1. m = n - 1
          BY <4>1 DEF Popped, PopsTo
        <5> QED BY <1>1, <3>1, <5>1
      <4>2. CASE ~Popped
        <5>1. m = n \/ m = n + 1
          <6>1. UNCHANGED seq_stack \/ Turned \/ Nested \/ Deepened
            BY <1>2, <1>5, <4>2, StepShapes
          <6> QED BY <6>1 DEF Turned, Nested, Deepened, TurnsTo, Stacks
        <5> QED BY <1>1, <2>4, <5>1
      <4> QED BY <4>1, <4>2
    <3>5. Starts(f, Top)
      <4>1. k + 1 = n
        BY <1>1, <3>4
      <4> QED BY <2>0, <2>4, <3>1, <3>3, <4>1 DEF Linked
    <3>6. Top.cmd_processor = "validate_shared" /\ Top.manifest = f.manifest
      BY <3>2, <3>5 DEF Starts
    <3>7. Judged(Top, TRUE, TRUE)
      <4>1. Entered(n)
        BY <3>3, <3>4 DEF Entered
      <4>2. Judged(seq_stack[n], Entered(n), n = n)
        BY <2>0, <3>6 DEF Judging
      <4> QED BY <2>0, <4>1, <4>2 DEF Judged
    <3>8. UNCHANGED seq_stack \/ JudgesOn(TRUE)
      BY <2>2, <3>6, <3>7
    <3>9. JudgedPop(TRUE)
      <4>1. ~(m = n \/ m = n + 1)
        BY <1>1, <3>1, <3>4
      <4> QED BY <3>8, <4>1 DEF JudgesOn, JudgedTurn, JudgedNest, TurnsTo, Stacks
    <3>10. PICK v \in Retvals, selected \in SUBSET Nat :
        /\ v \notin {"FAIL_CONDITION", "FAIL_SOFT_CONDITION"}
        /\ (v = "SUCCESS" /\ Mapped(Top.manifest)) =>
              Passed(Top.cmd_seq, TRUE) /\ selected \cap Indexes(Top) # {}
        /\ PopsTo(v, selected)
      BY <3>9 DEF JudgedPop
    <3>11. g = [f EXCEPT !.retval = v, !.current_components = selected]
      BY <3>4, <3>10 DEF PopsTo
    <3>12. Judged(f, E, FALSE)
      <4>1. Judged(f, Entered(k), k = n) /\ ~(k = n)
        BY <1>1, <2>4, <3>1, <3>2 DEF Judging
      <4> QED BY <3>2, <4>1 DEF Judged
    <3>13. Top.cmd_seq \in DOMAIN code /\ Indexes(Top) = Indexes(f)
      BY <1>1, <2>0, <3>6 DEF F, FrameType, Indexes
    <3>14. Judged(g, E, TRUE)
      <4>1. (v = "SUCCESS" /\ Mapped(f.manifest)) =>
              Passed(Top.cmd_seq, TRUE) /\ selected \cap Indexes(f) # {}
        BY <3>6, <3>10, <3>13
      <4>2. /\ IsProgram(code) /\ f \in F /\ Judged(f, E, FALSE) /\ Starts(f, Top)
            /\ Top.cmd_seq \in DOMAIN code
            /\ v \notin {"FAIL_CONDITION", "FAIL_SOFT_CONDITION"}
        BY <1>2, <3>2, <3>5, <3>10, <3>12, <3>13
      <4>3. Resumes(g, f, v, selected)
        BY <3>2, <3>11 DEF Resumes, SameOwner, F, FrameType
      <4>4. PICK h : h = Top
        OBVIOUS
      <4>5. /\ Starts(f, h) /\ h.cmd_seq \in DOMAIN code
            /\ (v = "SUCCESS" /\ Mapped(f.manifest)) =>
                 Passed(h.cmd_seq, TRUE) /\ selected \cap Indexes(f) # {}
        BY <4>1, <4>2, <4>4
      <4> HIDE DEF f
      <4> QED BY <4>2, <4>3, <4>5, PoppedJudged
    <3>15. T = TRUE
      BY <3>1
    <3> QED BY <1>3, <3>2, <3>14, <3>15
  <2>5. CASE k = n
    <3>1. k \in Frames /\ Top = seq_stack[k] /\ Top.cmd_processor = "validate_shared"
      BY <2>0, <2>1, <2>5
    <3>2. Judged(Top, E, TRUE)
      <4>1. Judged(seq_stack[k], Entered(k), k = n)
        BY <3>1 DEF Judging
      <4> QED BY <2>1, <2>5, <3>1, <4>1 DEF Judged
    <3>3. UNCHANGED seq_stack \/ JudgesOn(E)
      BY <2>2, <3>1, <3>2
    <3>4. CASE UNCHANGED seq_stack
      <4>1. g = Top /\ T = TRUE
        BY <2>5, <3>1, <3>4
      <4> QED BY <1>3, <2>1, <3>1, <3>2, <4>1
    <3>5. CASE JudgedTurn(E)
      <4>1. PICK a \in F : Judged(a, E, TRUE) /\ TurnsTo(a)
        BY <3>5 DEF JudgedTurn
      <4>2. g = a /\ T = TRUE
        BY <2>5, <4>1 DEF TurnsTo
      <4> QED BY <1>3, <2>1, <3>1, <4>1, <4>2
    <3>6. CASE JudgedNest(E)
      <4>1. PICK a \in F : Judged(a, E, FALSE) /\ \E h : Stacks(a, h)
        BY <3>6 DEF JudgedNest
      <4>2. g = a /\ m = n + 1
        BY <2>5, <4>1 DEF Stacks
      <4>3. T = FALSE
        BY <1>1, <2>5, <4>2
      <4> QED BY <1>3, <2>1, <3>1, <4>1, <4>2, <4>3
    <3>7. CASE JudgedPop(E)
      <4>1. m = n - 1
        BY <3>7 DEF JudgedPop, PopsTo
      <4> QED BY <1>1, <2>5, <4>1
    <3> QED BY <3>3, <3>4, <3>5, <3>6, <3>7 DEF JudgesOn
  <2>6. CASE k > n
    <3>0. m > n
      BY <1>1, <2>6
    <3>1. CASE Nested
      <4>1. PICK a \in F, h \in F : SameOwner(a, Top) /\ Starts(a, h) /\ Stacks(a, h)
        BY <3>1 DEF Nested
      <4>2. m = n + 1 /\ seq_stack'[n] = a /\ seq_stack'[n + 1] = h
        BY <4>1 DEF Stacks
      <4>3. k = n + 1 /\ g = h /\ T = TRUE
        BY <1>1, <2>6, <4>2
      <4>4. Top.cmd_processor = "validate_shared"
        BY <4>1, <4>3 DEF Starts, SameOwner
      <4>5. PICK U \in BOOLEAN : U <=> Entered(n)
        OBVIOUS
      <4>6. Judged(Top, U, TRUE)
        <5>1. Judged(seq_stack[n], Entered(n), n = n)
          BY <2>0, <4>4 DEF Judging
        <5> QED BY <2>0, <4>5, <5>1 DEF Judged
      <4>7. UNCHANGED seq_stack \/ JudgesOn(U)
        BY <2>2, <4>4, <4>6
      <4>8. JudgedNest(U)
        <5>1. ~(m = n \/ m = n - 1)
          BY <1>1, <4>2
        <5> QED BY <4>7, <5>1 DEF JudgesOn, JudgedTurn, JudgedPop, TurnsTo, PopsTo
      <4>9. PICK c \in F, d \in F :
               /\ ~AtDependency(code, c) /\ Judged(d, TRUE, TRUE)
               /\ d.manifest = Top.manifest /\ Stacks(c, d)
        BY <4>8 DEF JudgedNest
      <4>10. c = a /\ d = g
        BY <4>2, <4>3, <4>9 DEF Stacks
      <4>11. E = TRUE
        <5>1. n > 0
          BY <1>1, <2>0
        <5>2. k > 1 /\ k - 1 = n
          BY <1>1, <4>3, <5>1
        <5>3. ~AtDependency(code', seq_stack'[k - 1])
          BY <1>2, <4>2, <4>9, <4>10, <5>2
        <5>4. Entered(k)'
          BY <5>2, <5>3 DEF Entered
        <5> QED BY <5>4
      <4>12. manifest_stack'[g.manifest] = manifest_stack[g.manifest]
        BY <2>0, <4>9, <4>10, FrameHolds DEF Holds
      <4> QED BY <1>3, <4>3, <4>9, <4>10, <4>11, <4>12
    <3>2. CASE Proceeds /\ Deepened
      <4>1. Dependency \in Entry /\ UNCHANGED registry_vars
        BY <1>2, <3>2, ProceedsForm
      <4>2. PICK x : \E p \in Run \cup Validate, a \in F :
               /\ IsOpen(code, a)
               /\ \/ TurnsTo(a)
                  \/ /\ Status(Dependency, x) = "SUCCESS"
                     /\ Stacks(a, FirstFrame(x, Dependency, p))
        BY <3>2 DEF Deepened
      <4>3. PICK p \in Run \cup Validate, a \in F :
               /\ IsOpen(code, a)
               /\ \/ TurnsTo(a)
                  \/ /\ Status(Dependency, x) = "SUCCESS"
                     /\ Stacks(a, FirstFrame(x, Dependency, p))
        BY <4>2
      <4>4. /\ m = n + 1 /\ seq_stack'[n] = a
            /\ seq_stack'[n + 1] = FirstFrame(x, Dependency, p)
            /\ Status(Dependency, x) = "SUCCESS"
        <5>1. ~TurnsTo(a)
          BY <1>1, <3>0 DEF TurnsTo
        <5> QED BY <4>3, <5>1 DEF Stacks
      <4>5. k = n + 1 /\ k - 1 = n /\ g = FirstFrame(x, Dependency, p) /\ T = TRUE
        BY <1>1, <2>6, <4>4
      <4>6. g.manifest = Dependency /\ manifest_stack' = manifest_stack
        BY <4>1, <4>5 DEF FirstFrame, NewFrame, registry_vars
      <4>7. E <=> Len(manifest_stack[Dependency]) = 1
        <5>1. AtDependency(code', seq_stack'[k - 1])
          BY <1>2, <4>3, <4>4, <4>5 DEF IsOpen
        <5>2. Entered(k)' <=> Len(manifest_stack'[seq_stack'[k].manifest]) = 1
          BY <5>1 DEF Entered
        <5> QED BY <4>6, <5>2
      <4>8. Judged(g, E, TRUE)
        <5>1. PInv /\ Dependency \in Entry /\ Status(Dependency, x) = "SUCCESS"
          BY <1>2, <4>1, <4>4
        <5>2. Judged(FirstFrame(x, Dependency, p), E, TRUE)
          BY <4>7, <5>1, FirstJudged
        <5> QED BY <4>5, <5>2
      <4> QED BY <1>3, <4>5, <4>6, <4>8
    <3>3. CASE UNCHANGED seq_stack \/ Turned \/ Popped
      <4>1. m = n \/ m = n - 1
        BY <3>3 DEF Turned, Popped, TurnsTo, PopsTo
      <4> QED BY <1>1, <3>0, <4>1
    <3> QED BY <1>2, <1>5, <3>1, <3>2, <3>3, StepShapes
  <2> QED BY <1>1, <2>3, <2>4, <2>5, <2>6
<1> QED BY <1>4, <1>5

-----------------------------------------------------------------------------
(***************************************************************************)
(* process-dependency executes the shared sequence of its dependency after *)
(* that sequence has passed its validation.                                *)
(***************************************************************************)
\* The result of the validation of the shared sequence decides.
LEMMA SharedValidated ==
    ASSUME Level, Judging, Running, NEW k \in Frames, k \in Frames',
           k = Len(seq_stack) - 1, k = Len(seq_stack'),
           IsOpen(code, seq_stack[k]), seq_stack'[k].retval = "SUCCESS",
           NEW e, Top.cmd_processor = "validate_shared", Top.manifest = e,
           Status(e, SHARED) = "SUCCESS", Top.cmd_seq = Sequences(e)[SHARED]
    PROVE  SharedPassed(e)
<1> DEFINE n == Len(seq_stack)
<1>1. /\ n \in Nat /\ Frames = 1 .. n /\ \A i \in Frames : seq_stack[i] \in F
      /\ k \in 1 .. n
  BY StackRange DEF Level
<1>2. PInv /\ [Next]_vars /\ StackReady
  BY InSequence DEF Level
<1>3. Top = seq_stack[n] /\ n \in Frames /\ n > 1 /\ k = n - 1 /\ k # n /\ k # n + 1
  BY <1>1 DEF Top
<1>4. PICK E \in BOOLEAN : E <=> Entered(n)
  OBVIOUS
<1>5. E <=> Len(manifest_stack[e]) = 1
  <2>1. AtDependency(code, seq_stack[n - 1])
    BY <1>3 DEF IsOpen
  <2> QED BY <1>3, <1>4, <2>1 DEF Entered
<1>6. Judged(Top, E, TRUE)
  <2>1. Judged(seq_stack[n], Entered(n), n = n)
    BY <1>3 DEF Judging
  <2> QED BY <1>3, <1>4, <2>1 DEF Judged
<1>7. UNCHANGED seq_stack \/ JudgesOn(E)
  BY <1>2, <1>6, SharedIsJudged
<1>8. JudgedPop(E)
  BY <1>3, <1>7 DEF JudgesOn, JudgedTurn, JudgedNest, TurnsTo, Stacks
<1>9. PICK v \in Retvals, selected \in SUBSET Nat :
        /\ (v = "SUCCESS" /\ Mapped(Top.manifest)) => Passed(Top.cmd_seq, E)
        /\ PopsTo(v, selected)
  BY <1>8 DEF JudgedPop
<1>10. v = "SUCCESS"
  <2>1. seq_stack'[k] = [seq_stack[k] EXCEPT !.retval = v, !.current_components = selected]
    BY <1>3, <1>9 DEF PopsTo
  <2>2. seq_stack[k] \in F
    BY <1>1
  <2> QED BY <2>1, <2>2 DEF F, FrameType
<1>11. Mapped(e) => Passed(Sequences(e)[SHARED], E)
  BY <1>9, <1>10
<1> QED BY <1>5, <1>11 DEF SharedPassed, Passed

\* What the validation command schedules, and what it relies on when it goes on.
LEMMA ProceedsValidated ==
    ASSUME PInv, InStep, Placed, Proceeds, Deepened, SharedFirst,
           NEW k, k = Len(seq_stack), NEW g, g = seq_stack'[k],
           IsOpen(code, g), Command(g).op = "process_dependency",
           NEW e, e = g.manifest + 1
    PROVE  /\ (\/ g.cmd_exec_state \in SHARED + 2 .. SEQ_MAX + 1
               \/ g.cmd_exec_state = SHARED + 1 /\ k = Len(seq_stack') /\ g.retval = "SUCCESS")
                  => SharedPassed(e)
           /\ (g.cmd_exec_state = SHARED + 1 /\ k < Len(seq_stack')) =>
                  /\ seq_stack'[k + 1].cmd_processor = "validate_shared"
                  /\ seq_stack'[k + 1].manifest = e
                  /\ Status(e, SHARED) = "SUCCESS"
                  /\ seq_stack'[k + 1].cmd_seq = Sequences(e)[SHARED]
<1> DEFINE n == Len(seq_stack)
           m == Len(seq_stack')
<1>1. /\ StackReady /\ IsWaiting(code, Top) /\ Top.cmd_processor = "run"
      /\ Dependency = Top.manifest + 1
      /\ Top.cmd_exec_state \in SHARED .. SEQ_MAX + 1
  BY ProceedsForm
<1>2. /\ n \in Nat \ {0} /\ Top = seq_stack[n] /\ Top \in F /\ n \in Frames
  BY <1>1, ReadyIsTyped DEF Frames
<1>3. PICK x : \E p \in Run \cup Validate, v \in Retvals, a \in F :
         /\ ProceedsWith(x, p, v, a) /\ SameOwner(a, Top)
         /\ \/ ScheduledDependency(x) # "ERR_AGAIN" /\ TurnsTo(a)
            \/ /\ Status(Dependency, x) = "SUCCESS"
               /\ Stacks(a, FirstFrame(x, Dependency, p))
  BY DEF Deepened
<1>4. PICK p \in Run \cup Validate, v \in Retvals, a \in F :
         /\ ProceedsWith(x, p, v, a) /\ SameOwner(a, Top)
         /\ \/ ScheduledDependency(x) # "ERR_AGAIN" /\ TurnsTo(a)
            \/ /\ Status(Dependency, x) = "SUCCESS"
               /\ Stacks(a, FirstFrame(x, Dependency, p))
  BY <1>3
<1>5. g = a
  BY <1>4 DEF TurnsTo, Stacks
<1>6. a = [Top EXCEPT !.cmd_exec_state = Top.cmd_exec_state + 1, !.retval = v]
  BY <1>4 DEF ProceedsWith
<1>7. /\ g.cmd_exec_state = Top.cmd_exec_state + 1 /\ g.retval = v
      /\ g.current_command = Top.current_command /\ SameOwner(g, Top)
  BY <1>2, <1>4, <1>5, <1>6 DEF F, FrameType
<1>8. Command(Top).op = "process_dependency" /\ e = Dependency
  BY <1>1, <1>7 DEF Command, SameOwner
<1>9. IsOpen(code, Top)
  <2>1. SHARED .. SEQ_MAX + 1 \subseteq SHARED .. SEQ_MAX + 2
    BY DEF SHARED, SEQ_MAX
  <2> QED BY <1>1, <2>1 DEF IsWaiting, IsOpen
<1>10. ValidatedAt(Top, n, e)
  BY <1>1, <1>2, <1>8, <1>9 DEF SharedFirst
<1>11. Top.retval = "SUCCESS"
  BY <1>4 DEF ProceedsWith
<1>12. CASE Top.cmd_exec_state = SHARED
  <2>1. x = SHARED /\ p = "validate_shared" /\ v = Masked(ScheduledDependency(SHARED), SHARED)
    <3>1. ~(Top.cmd_exec_state = SEQ_MAX) /\ ~(Top.cmd_exec_state = SEQ_MAX + 1)
      BY <1>12 DEF SHARED, SEQ_MAX
    <3>2. x = Top.cmd_exec_state /\ p = Validator(x) /\ v = Masked(ScheduledDependency(x), x)
      BY <1>4, <1>8, <3>1 DEF ProceedsWith
    <3> QED BY <1>12, <3>2 DEF Validator
  <2>2. g.cmd_exec_state = SHARED + 1 /\ g.cmd_exec_state \notin SHARED + 2 .. SEQ_MAX + 1
    BY <1>7, <1>12 DEF SHARED
  <2>3. CASE ScheduledDependency(x) # "ERR_AGAIN" /\ TurnsTo(a)
    <3>1. m = n
      BY <2>3 DEF TurnsTo
    <3>2. ASSUME g.retval = "SUCCESS" PROVE SharedPassed(e)
      <4>1. Masked(ScheduledDependency(SHARED), SHARED) = "SUCCESS"
        BY <1>7, <2>1, <3>2
      <4>2. CASE Status(e, SHARED) = "SUCCESS"
        <5>1. ScheduledDependency(SHARED) = "ERR_OVERFLOW"
          BY <1>8, <2>1, <2>3, <4>2 DEF ScheduledDependency, Scheduled
        <5> QED BY <4>1, <5>1 DEF Masked
      <4>3. CASE Status(e, SHARED) # "SUCCESS"
        BY <4>3 DEF SharedPassed
      <4> QED BY <4>2, <4>3
    <3> QED BY <1>2, <2>2, <3>1, <3>2
  <2>4. CASE Status(Dependency, x) = "SUCCESS" /\ Stacks(a, FirstFrame(x, Dependency, p))
    <3>1. m = n + 1 /\ seq_stack'[n + 1] = FirstFrame(SHARED, e, "validate_shared")
          /\ Status(e, SHARED) = "SUCCESS"
      BY <1>8, <2>1, <2>4 DEF Stacks
    <3>2. k # m
      BY <1>2, <3>1
    <3> QED BY <2>2, <3>1, <3>2 DEF FirstFrame, NewFrame
  <2> QED BY <1>4, <2>3, <2>4
<1>13. CASE Top.cmd_exec_state # SHARED
  <2>1. \/ Top.cmd_exec_state \in SHARED + 2 .. SEQ_MAX + 1
        \/ Top.cmd_exec_state = SHARED + 1
    BY <1>1, <1>13 DEF SHARED, SEQ_MAX
  <2>2. SharedPassed(e)
    BY <1>10, <1>11, <2>1 DEF ValidatedAt
  <2>3. g.cmd_exec_state # SHARED + 1
    BY <1>1, <1>7, <1>13 DEF SHARED, SEQ_MAX
  <2> QED BY <2>2, <2>3
<1> QED BY <1>12, <1>13
\* Nothing is loaded or released while the command on top waits for a sequence.
LEMMA WaitsQuietly ==
    ASSUME PInv, Running, IsOpen(code, Top), Stays
    PROVE  UNCHANGED vars
<1>1. op = "none"
  <2>1. pc \notin {"load", "release"}
    BY InSequence DEF Executing
  <2>2. ~AwaitsRegistry
    BY DEF AwaitsRegistry, IsOpen, Loading, Releasing, SHARED, SEQ_MAX
  <2> QED BY <2>1, <2>2 DEF PInv, ControlOK
<1>2. ~LoadStep /\ ~ReleaseStep
  BY <1>1 DEF LoadStep, ReleaseStep, Registry!ReleaseStep, Registry!ReleaseMissing,
     Registry!ReleaseShared, Registry!ReleaseLast, Registry!ReleaseDone, Registry!Releasing
<1> QED BY <1>2 DEF Stays

LEMMA SharedFirstStep ==
    ASSUME Level, Placed, Linked, Judging, SharedFirst
    PROVE  SharedFirst'
<1> DEFINE n == Len(seq_stack)
           m == Len(seq_stack')
<1> SUFFICES ASSUME NEW k \in Frames', NEW g, g = seq_stack'[k],
                    IsOpen(code, g)', (Command(g).op = "process_dependency")',
                    NEW e, e = g.manifest + 1
             PROVE  /\ (\/ g.cmd_exec_state \in SHARED + 2 .. SEQ_MAX + 1
                        \/ g.cmd_exec_state = SHARED + 1 /\ k = m /\ g.retval = "SUCCESS")
                           => SharedPassed(e)'
                    /\ (g.cmd_exec_state = SHARED + 1 /\ k < m) =>
                           /\ seq_stack'[k + 1].cmd_processor = "validate_shared"
                           /\ seq_stack'[k + 1].manifest = e
                           /\ Status(e, SHARED)' = "SUCCESS"
                           /\ seq_stack'[k + 1].cmd_seq = Sequences(e)'[SHARED]
  BY DEF SharedFirst, ValidatedAt, ValidatingAt
<1>1. /\ n \in Nat /\ m \in Nat /\ Frames = 1 .. n /\ Frames' = 1 .. m /\ k \in 1 .. m
      /\ \A i \in Frames : seq_stack[i] \in F
  BY StackRange, StackRangeNext DEF Level
<1>2. code' = code /\ envelopes' = envelopes /\ PInv /\ InStep /\ [Next]_vars
  BY WorldStays DEF Level
<1>3. IsOpen(code, g) /\ Command(g).op = "process_dependency" /\ AtDependency(code, g)
      /\ g.cmd_exec_state # 0
  <2>1. IsOpen(code, g)
    BY <1>2, GuardsStay
  <2> QED BY <1>2, <2>1 DEF Command, IsOpen, SHARED, SEQ_MAX
<1>4. ASSUME Holds(e)
      PROVE  /\ SharedPassed(e)' <=> SharedPassed(e)
             /\ Status(e, SHARED)' = Status(e, SHARED) /\ Sequences(e)' = Sequences(e)
  BY <1>2, <1>4, SharedPassedStays
<1>5. Running
  <2> SUFFICES ASSUME ~Running PROVE FALSE
    OBVIOUS
  <2>1. PICK x : \E q \in Entry, p \in Run \cup Validate :
                    m = 1 /\ seq_stack'[1] = FirstFrame(x, q, p)
    BY <1>1, <1>2, FirstShapes
  <2>2. k = 1
    BY <1>1, <2>1
  <2>3. g.cmd_exec_state = 0
    BY <2>1, <2>2 DEF FirstFrame, NewFrame
  <2> QED BY <1>3, <2>3
<1>6. Top = seq_stack[n] /\ n \in Frames /\ StackReady
  BY <1>1, <1>2, <1>5, InSequence, EmptySeq DEF Running, Top
<1>7. CASE k < n
  <2> DEFINE f == seq_stack[k]
  <2>1. k \in Frames /\ f \in F /\ k + 1 \in Frames
    BY <1>1, <1>7
  <2>2. /\ SameOwner(g, f) /\ g.current_command = f.current_command
        /\ g.cmd_exec_state = f.cmd_exec_state
    <3>1. g = f \/ GivenBack(g, f)
      BY <1>7, <2>1, FramesCorrespond
    <3> HIDE DEF f
    <3> QED BY <2>1, <3>1, GivenBackFrame DEF SameOwner
  <2>3. IsOpen(code, f) /\ Command(f).op = "process_dependency" /\ e = f.manifest + 1
    BY <1>3, <2>2 DEF IsOpen, AtDependency, Command, SameOwner
  <2>4. Holds(e)
    <3>1. seq_stack[k + 1].manifest = e
      BY <1>2, <1>7, <2>1, <2>3, ManifestAbove
    <3> QED BY <2>1, <3>1, FrameHolds
  <2>5. ValidatedAt(f, k, e) /\ ValidatingAt(f, k, e)
    BY <2>1, <2>3 DEF SharedFirst
  <2>6. ASSUME g.cmd_exec_state \in SHARED + 2 .. SEQ_MAX + 1 PROVE SharedPassed(e)
    BY <2>2, <2>5, <2>6 DEF ValidatedAt
  <2>7. ASSUME g.cmd_exec_state = SHARED + 1, k = m, g.retval = "SUCCESS" PROVE SharedPassed(e)
    <3>1. k = n - 1
      <4>1. Popped
        <5>1. m < n
          BY <1>1, <1>7, <2>7
        <5>2. UNCHANGED seq_stack \/ Turned \/ Nested \/ Popped \/ Deepened
          BY <1>2, <1>5, StepShapes
        <5>3. ~Turned /\ ~Nested /\ ~Deepened
          BY <1>1, <5>1 DEF Turned, Nested, Deepened, TurnsTo, Stacks
        <5> QED BY <1>1, <5>1, <5>2, <5>3
      <4> QED BY <2>7, <4>1 DEF Popped, PopsTo
    <3>2. k + 1 = n
      BY <1>1, <3>1
    <3>3. /\ Top.cmd_processor = "validate_shared" /\ Top.manifest = e
          /\ Status(e, SHARED) = "SUCCESS" /\ Top.cmd_seq = Sequences(e)[SHARED]
      BY <1>6, <1>7, <2>2, <2>5, <2>7, <3>2 DEF ValidatingAt
    <3> QED BY <1>5, <2>1, <2>3, <2>7, <3>1, <3>3, SharedValidated
  <2>8. ASSUME g.cmd_exec_state = SHARED + 1, k < m
        PROVE  /\ seq_stack'[k + 1].cmd_processor = "validate_shared"
               /\ seq_stack'[k + 1].manifest = e
               /\ Status(e, SHARED) = "SUCCESS"
               /\ seq_stack'[k + 1].cmd_seq = Sequences(e)[SHARED]
    <3>1. k + 1 \in Frames'
      BY <1>1, <2>8
    <3>2. SameOwner(seq_stack'[k + 1], seq_stack[k + 1])
      BY <2>1, <3>1, FramesCorrespond
    <3>3. /\ seq_stack[k + 1].cmd_processor = "validate_shared" /\ seq_stack[k + 1].manifest = e
          /\ Status(e, SHARED) = "SUCCESS" /\ seq_stack[k + 1].cmd_seq = Sequences(e)[SHARED]
      BY <1>7, <2>2, <2>5, <2>8 DEF ValidatingAt
    <3> QED BY <3>2, <3>3 DEF SameOwner
  <2> QED BY <1>4, <2>4, <2>6, <2>7, <2>8
<1>8. CASE k = n
  <2>1. \/ Stays /\ UNCHANGED seq_stack
        \/ Turned \/ Nested \/ Popped \/ (Proceeds /\ Deepened)
    BY <1>2, <1>5, StepShapes
  <2>2. CASE Stays /\ UNCHANGED seq_stack
    <3>1. g = Top
      BY <1>6, <1>8, <2>2
    <3>2. UNCHANGED vars
      BY <1>2, <1>3, <1>5, <2>2, <3>1, WaitsQuietly
    <3>3. Holds(e)
      BY <3>2 DEF vars, registry_vars, Holds
    <3>4. ValidatedAt(g, k, e) /\ ValidatingAt(g, k, e)
      BY <1>3, <1>6, <1>8, <3>1 DEF SharedFirst
    <3> QED BY <1>4, <1>8, <2>2, <3>3, <3>4 DEF ValidatedAt, ValidatingAt
  <2>3. CASE Turned
    <3>1. g.cmd_exec_state = SHARED
      BY <1>3, <1>8, <2>3 DEF Turned, TurnsTo
    <3> QED BY <3>1 DEF SHARED, SEQ_MAX
  <2>4. CASE Nested
    <3>1. /\ SameOwner(g, Top) /\ g.current_command = Top.current_command
          /\ Command(Top).op \in Nesting
      BY <1>8, <2>4 DEF Nested, Stacks
    <3> QED BY <1>3, <3>1 DEF SameOwner, Command, Nesting
  <2>5. CASE Popped
    <3>1. m = n - 1
      BY <2>5 DEF Popped, PopsTo
    <3> QED BY <1>1, <1>8, <3>1
  <2>6. CASE Proceeds /\ Deepened
    <3>1. UNCHANGED registry_vars /\ UNCHANGED envelope
      BY <1>2, <2>6, ProceedsForm
    <3>2. Holds(e)
      BY <3>1 DEF registry_vars, Holds
    <3>3. /\ (\/ g.cmd_exec_state \in SHARED + 2 .. SEQ_MAX + 1
              \/ g.cmd_exec_state = SHARED + 1 /\ k = m /\ g.retval = "SUCCESS")
                  => SharedPassed(e)
          /\ (g.cmd_exec_state = SHARED + 1 /\ k < m) =>
                  /\ seq_stack'[k + 1].cmd_processor = "validate_shared"
                  /\ seq_stack'[k + 1].manifest = e
                  /\ Status(e, SHARED) = "SUCCESS"
                  /\ seq_stack'[k + 1].cmd_seq = Sequences(e)[SHARED]
      BY <1>2, <1>3, <1>8, <2>6, ProceedsValidated
    <3> QED BY <1>4, <3>2, <3>3
  <2> QED BY <2>1, <2>2, <2>3, <2>4, <2>5, <2>6
<1>9. CASE k > n
  <2>1. m > n
    BY <1>1, <1>9
  <2>2. Nested \/ Deepened
    <3>1. UNCHANGED seq_stack \/ Turned \/ Nested \/ Popped \/ Deepened
      BY <1>2, <1>5, StepShapes
    <3>2. Turned \/ Popped => m = n \/ m = n - 1
      BY DEF Turned, Popped, TurnsTo, PopsTo
    <3>3. ~(m = n \/ m = n - 1)
      BY <1>1, <2>1
    <3> QED BY <3>1, <3>2, <3>3
  <2>3. CASE Nested
    <3>1. PICK a \in F, h \in F : h.cmd_exec_state = 0 /\ Stacks(a, h)
      BY <2>3 DEF Nested
    <3>2. m = n + 1 /\ seq_stack'[n + 1] = h
      BY <3>1 DEF Stacks
    <3>3. k = n + 1
      BY <1>1, <1>9, <3>2
    <3> QED BY <1>3, <3>1, <3>2, <3>3
  <2>4. CASE Deepened
    <3>1. PICK x : \E p \in Run \cup Validate, a \in F :
                TurnsTo(a) \/ Stacks(a, FirstFrame(x, Dependency, p))
      BY <2>4 DEF Deepened
    <3>2. PICK p \in Run \cup Validate, a \in F : Stacks(a, FirstFrame(x, Dependency, p))
      BY <1>1, <2>1, <3>1 DEF TurnsTo
    <3>3. m = n + 1 /\ seq_stack'[n + 1] = FirstFrame(x, Dependency, p)
      BY <3>2 DEF Stacks
    <3>4. k = n + 1
      BY <1>1, <1>9, <3>3
    <3>5. g.cmd_exec_state = 0
      BY <3>3, <3>4 DEF FirstFrame, NewFrame
    <3> QED BY <1>3, <3>5
  <2> QED BY <2>2, <2>3, <2>4
<1> QED BY <1>1, <1>7, <1>8, <1>9

-----------------------------------------------------------------------------
(***************************************************************************)
(* Who has an effect: a command of a sequence that is executed.            *)
(***************************************************************************)
LEMMA EffectIsPerformed ==
    ASSUME PInv, Next, call'.call \in Effects
    PROVE  /\ RunCommand /\ Running /\ StackReady
           /\ AtCommand /\ Command(Top).op \in Effects /\ Top.cmd_processor \in Run
           /\ Chosen(Top) /\ Mapped(Top.manifest)
<1>1. ASSUME call' = NoCall PROVE FALSE
  BY <1>1 DEF NoCall, Effects
<1>2. ASSUME NEW o, NEW r, Called(o, r) PROVE o \in Effects
  BY <1>2 DEF Called
<1>3. ~LoadDependency /\ \A r : ~AuthorizeDependency(r) /\ ~DependencyCompleted(r)
  <2>1. \A o \in {"retrieve_manifest", "authorize_process_dependency", "sequence_completed"} :
           o \notin Effects
    BY DEF Effects
  <2> QED BY <1>2, <2>1 DEF LoadDependency, AuthorizeDependency, DependencyCompleted
<1>4. \A r : ~Completed(r)
  BY DEF Completed, NoCall, Effects
<1>5. ~(\/ LoadStep \/ ReleaseStep \/ Loaded \/ ValidateNext \/ ValidationDone \/ DryRunNext
        \/ DryRunMain \/ DryRunRepeat \/ DryRunDone \/ ExecuteShared \/ ExecuteMain
        \/ GiveUp \/ CallReturns \/ \E n \in Calls : Call(n))
  BY <1>1 DEF LoadStep, ReleaseStep, Loaded, ValidateNext, ValidationDone, DryRunNext,
     DryRunMain, DryRunRepeat, DryRunDone, ExecuteShared, ExecuteMain, GiveUp, CallReturns, Call
<1>6. ~(\/ DependencyNotLoaded \/ LoadedForIntegrity \/ ValidateForIntegrity \/ IntegrityFails
        \/ IntegrityHolds \/ ValidateForProcess \/ ExecuteDependency \/ ProcessFails
        \/ DependencyReleased)
  BY <1>1 DEF DependencyNotLoaded, LoadedForIntegrity, ValidateForIntegrity, IntegrityFails,
     IntegrityHolds, ValidateForProcess, ExecuteDependency, ProcessFails, DependencyReleased,
     ScheduleDependency
<1>7. RunCommand
  BY <1>3, <1>4, <1>5, <1>6 DEF Next, Step
<1>8. SeqStep /\ Running /\ StackReady
  BY <1>7, StepRuns, InSequence DEF RunCommand
<1>9. \E r : Perform(r)
  <2>1. ASSUME NEW s, NEW r, SizeCall(s, r) PROVE FALSE
    BY <2>1 DEF SizeCall, Effects
  <2>2. ~(\/ EndOfSequence \/ RejectCommand \/ SkipCommand \/ ComponentGone
          \/ SetComponentIndex \/ TryEach \/ RunSequence \/ ValidateCommand
          \/ ValidateOverride \/ ParameterMissing \/ ParameterMalformed)
    BY <1>1 DEF EndOfSequence, RejectCommand, SkipCommand, ComponentGone, SetComponentIndex,
       TryEach, RunSequence, ValidateCommand, ValidateOverride, ParameterMissing, ParameterMalformed
  <2>3. ~(\/ AssumeCondition \/ Abort \/ ConditionIsDependency
          \/ DependencyIntegrityRefused \/ ProcessDependencyRefused)
    BY <1>1 DEF AssumeCondition, Abort, ConditionIsDependency, DependencyIntegrityRefused,
       ProcessDependencyRefused
  <2>4. \A r : ~CheckCondition(r)
    <3>1. ASSUME NEW r, CheckCondition(r) PROVE FALSE
      BY <1>2, <3>1 DEF CheckCondition, Ready, On, At, Checks, Effects
    <3> QED BY <3>1
  <2>5. \A r : ~SetParameters(r)
    <3>1. ASSUME NEW r, SetParameters(r) PROVE FALSE
      <4>1. call' = NoCall \/ Called("override_image_size", r)
        BY <3>1, Zenon DEF SetParameters
      <4>2. "override_image_size" \notin Effects
        BY DEF Effects
      <4> QED BY <1>1, <1>2, <4>1, <4>2
    <3> QED BY <3>1
  <2>6. ~Override
    <3>1. ASSUME Override PROVE FALSE
      <4>1. call' = NoCall \/ \E s, r : SizeCall(s, r)
        BY <3>1, Zenon DEF Override
      <4> QED BY <1>1, <2>1, <4>1
    <3> QED BY <3>1
  <2>7. \A i, r : ~OverrideSizeFails(i, r)
    <3>1. ASSUME NEW i, NEW r, OverrideSizeFails(i, r) PROVE FALSE
      <4>1. \E s : SizeCall(s, r)
        BY <3>1, Zenon DEF OverrideSizeFails
      <4> QED BY <2>1, <4>1
    <3> QED BY <3>1
  <2>8. \A r : ~RetrieveFails(r)
    <3>1. ASSUME NEW r, RetrieveFails(r) PROVE FALSE
      <4>1. "retrieve_manifest" \notin Effects
        BY DEF Effects
      <4> QED BY <1>2, <3>1, <4>1 DEF RetrieveFails
    <3> QED BY <3>1
  <2> QED BY <1>8, <2>2, <2>3, <2>4, <2>5, <2>6, <2>7, <2>8 DEF SeqStep
<1>10. On(Effects, Run)
  BY <1>9 DEF Perform, Ready
<1> QED BY <1>7, <1>8, <1>10, OnIsChosen

\* What has an effect stands in no shared sequence of a dependency, nor in its validation.
LEMMA EffectIsNotShared ==
    ASSUME PInv, ResumedInPlace, Sheltered, Next, call'.call \in Effects, NEW k \in Open
    PROVE  seq_stack[k].cmd_exec_state = SEQ_MAX + 2
<1> DEFINE n == Len(seq_stack)
           f == seq_stack[k]
<1>1. /\ RunCommand /\ Running /\ StackReady
      /\ AtCommand /\ Command(Top).op \in Effects /\ Top.cmd_processor = "run"
      /\ Chosen(Top) /\ Mapped(Top.manifest)
  BY EffectIsPerformed DEF Run
<1>2. /\ k \in Frames /\ Frames = 1 .. n /\ n \in Nat /\ n \in Frames
      /\ Top = seq_stack[n] /\ Top \in F /\ (k < n \/ k = n)
  <2>1. k \in Frames /\ Frames = 1 .. n /\ n \in Nat
    BY StackRange DEF Open
  <2>2. n \in Frames /\ (k < n \/ k = n)
    BY <2>1
  <2> QED BY <1>1, <2>1, <2>2, ReadyIsTyped
<1>3. IsOpen(code, f)
  BY DEF Open, IsOpen, AtDependency, Command
<1>4. k # n
  BY <1>1, <1>2, <1>3, InPlaceIsNoCommand
<1>5. ~Guards(f)
  <2> SUFFICES ASSUME Guards(f) PROVE FALSE
    OBVIOUS
  <2>1. Harmless(Top)
    BY <1>1, <1>2, <1>4 DEF Sheltered
  <2>2. IsProgram(code)
    BY <1>1 DEF StackReady
  <2>3. Fine(Command(Top))
    BY <1>1, <1>2, <2>1, <2>2, HarmlessCommand DEF AtCommand
  <2> QED BY <1>1, <2>3 DEF Fine, ForbiddenInShared
<1> QED BY <1>3, <1>5 DEF Guards

(***************************************************************************)
(* The shared sequence of a dependency has no effect, whichever sequences  *)
(* start one another in it and even if it starts itself: before it is      *)
(* executed its validation goes through every command that the execution   *)
(* can reach, or has gone through it, and the validation has none either.  *)
(* The commands that wait guard the frames above them, and what lies on    *)
(* top of a guard is harmless.                                             *)
(***************************************************************************)
THEOREM DependencySharedIsInert ==
    ASSUME ~DependencyDenied
    PROVE  Spec /\ []ResumedInPlace => DependencySharedHasNoEffect
<1> DEFINE Kept == InStep /\ RegistryKept /\ Placed /\ Linked /\ Judging /\ SharedFirst /\ Sheltered
           Harmlessly == call'.call \in Effects =>
                           \A k \in Open : seq_stack[k].cmd_exec_state = SEQ_MAX + 2
<1>1. Init => Kept
  <2> SUFFICES ASSUME Init PROVE Kept
    OBVIOUS
  <2>1. InStep /\ RegistryKept /\ Placed
    BY InitIsPlaced DEF AllPlaced
  <2>2. Frames = {}
    BY DEF Init, Frames
  <2> QED BY <2>1, <2>2 DEF Linked, Judging, SharedFirst, Sheltered
<1>2. PInv /\ PInv' /\ Kept /\ ResumedInPlace /\ [Next]_vars => Kept'
  <2> SUFFICES ASSUME PInv, PInv', Kept, ResumedInPlace, [Next]_vars PROVE Kept'
    OBVIOUS
  <2>1. InStep'
    BY InStepStep
  <2>2. RegistryKept' /\ (Proofs!Next \/ UNCHANGED Proofs!vars)
    BY RegistryStepKept
  <2>3. Level
    BY <2>1, <2>2 DEF Level
  <2>4. Placed' /\ Linked'
    BY <2>3, PlacedStep, LinkedStep
  <2>5. Judging' /\ SharedFirst'
    BY <2>3, JudgingStep, SharedFirstStep
  <2>6. Sheltered'
    BY <2>3, ShelteredStep
  <2> QED BY <2>1, <2>2, <2>4, <2>5, <2>6
<1>3. PInv /\ Kept /\ ResumedInPlace /\ [Next]_vars => [Harmlessly]_vars
  BY EffectIsNotShared
<1> HIDE DEF Kept
<1> QED BY <1>1, <1>2, <1>3, ProcessorInvariant, PTL DEF Spec, DependencySharedHasNoEffect

\* So it is when no dependency unchecks the component it is executed from.
THEOREM CheckedDependencySharedIsInert ==
    ASSUME ~DependencyDenied
    PROVE  Spec /\ []ResumedChecked => DependencySharedHasNoEffect
BY CommandsResumeInPlace, DependencySharedIsInert, PTL

-----------------------------------------------------------------------------
(***************************************************************************)
(* When the check of a dependency stands.                                  *)
(*                                                                         *)
(* A manifest without dependency components has none to uncheck.  What     *)
(* could take the flag of a waiting process-dependency back is a write of  *)
(* a dependency that has dependencies of its own.                          *)
(***************************************************************************)
LEMMA ReadOnlyCommand ==
    ASSUME NEW prog, NEW q \in ReadOnly(prog), NEW j \in DOMAIN prog[q]
    PROVE  ~Modifies(prog[q][j]) /\ NestedBy(prog[q][j]) \subseteq ReadOnly(prog)
<1>1. PICK C \in SUBSET DOMAIN prog : ReadOnlySet(prog, C) /\ q \in C
  BY DEF ReadOnly
<1>2. ~Modifies(prog[q][j]) /\ NestedBy(prog[q][j]) \subseteq C
  BY <1>1 DEF ReadOnlySet
<1>3. C \subseteq ReadOnly(prog)
  BY <1>1 DEF ReadOnly
<1> QED BY <1>2, <1>3

\* A parameter among the first ones of a list is a parameter of the list.
LEMMA UptoMember ==
    ASSUME NEW params \in Seq(STRING), NEW n \in Nat, n <= Len(params), NEW p \in Upto(params, n)
    PROVE  \E i \in DOMAIN params : params[i] = p
<1>1. DOMAIN params = 1 .. Len(params) /\ Len(params) \in Nat
  BY LenProperties
<1>2. PICK k \in 1 .. n : params[k] = p
  BY DEF Upto
<1> QED BY <1>1, <1>2

\* The parameters before the first of some positions.
LEMMA BeforeFirst ==
    ASSUME NEW params \in Seq(STRING), NEW stop \in SUBSET DOMAIN params,
           NEW n, n = IF stop = {} THEN Len(params) ELSE First(stop) - 1
    PROVE  n \in Nat /\ n <= Len(params)
<1>1. DOMAIN params = 1 .. Len(params) /\ Len(params) \in Nat
  BY LenProperties
<1>2. CASE stop = {}
  BY <1>1, <1>2
<1>3. CASE stop # {}
  <2>1. stop \in SUBSET Nat
    BY <1>1
  <2>2. First(stop) \in stop
    BY <1>3, <2>1, FirstOfSet
  <2>3. First(stop) \in 1 .. Len(params)
    BY <1>1, <2>2
  <2> HIDE DEF First
  <2> QED BY <1>1, <1>3, <2>3
<1> QED BY <1>2, <1>3

\* What storing parameters unchecks.
LEMMA StoreClears ==
    ASSUME integrity_checked \in [Slot -> BOOLEAN], NEW pairs, Store(pairs),
           NEW s \in Slot, integrity_checked[s], ~integrity_checked'[s]
    PROVE  IsDependency(s) /\ \E p \in pairs : p[1] = s /\ p[2] = "component_slot"
<1> DEFINE slots == {p[1] : p \in {q \in pairs : q[2] = "component_slot"}}
<1>1. component_modified(slots)
  BY DEF Store
<1>2. s \in slots /\ IsDependency(s)
  <2> HIDE DEF slots
  <2> QED BY <1>1 DEF component_modified
<1> QED BY <1>2

\* Override-parameters and set-parameters uncheck components of their manifest only.
LEMMA SelectedClears ==
    ASSUME integrity_checked \in [Slot -> BOOLEAN], NEW params \in Seq(STRING),
           NEW n \in Nat, n <= Len(params), NEW A, NEW B \in SUBSET Upto(params, n), NEW C,
           Store((A \X B) \cup (C \X {"image_size"})) \/ Store(A \X B),
           NEW s \in Slot, integrity_checked[s], ~integrity_checked'[s]
    PROVE  /\ IsDependency(s) /\ s \in A
           /\ \E i \in DOMAIN params : params[i] = "component_slot"
<1>1. PICK pairs : /\ Store(pairs)
                   /\ pairs \subseteq (A \X B) \cup (C \X {"image_size"})
  <2>1. CASE Store((A \X B) \cup (C \X {"image_size"}))
    BY <2>1
  <2>2. CASE Store(A \X B)
    <3>1. A \X B \subseteq (A \X B) \cup (C \X {"image_size"})
      OBVIOUS
    <3> QED BY <2>2, <3>1
  <2> QED BY <2>1, <2>2
<1>2. IsDependency(s) /\ \E p \in pairs : p[1] = s /\ p[2] = "component_slot"
  BY <1>1, StoreClears
<1>3. s \in A /\ "component_slot" \in B
  BY <1>1, <1>2
<1>4. "component_slot" \in Upto(params, n)
  BY <1>3
<1> QED BY <1>2, <1>3, <1>4, UptoMember

\* What a step of the machine unchecks: a dependency component of the manifest of its
\* command, and only if the command modifies it.
LEMMA StepClears ==
    ASSUME StackReady, SeqStep, integrity_checked \in [Slot -> BOOLEAN],
           NEW s \in Slot, integrity_checked[s], ~integrity_checked'[s]
    PROVE  /\ AtCommand /\ Modifies(Command(Top)) /\ IsDependency(s)
           /\ \E i \in Indexes(Top) : s = SlotOf(Top, i)
<1> DEFINE params == Command(Top).params
           Goal == /\ AtCommand /\ Modifies(Command(Top)) /\ IsDependency(s)
                   /\ \E i \in Indexes(Top) : s = SlotOf(Top, i)
<1>0. ~UNCHANGED integrity_checked
  OBVIOUS
<1>1. AtCommand => params \in Seq(STRING)
  <2>1. IsProgram(code) /\ Top \in F
    BY ReadyIsTyped DEF StackReady
  <2> QED BY <2>1, CommandOf DEF AtCommand, CommandType
<1>2. ASSUME NEW ops, NEW processors, On(ops, processors)
      PROVE  /\ AtCommand /\ Command(Top).op \in ops
             /\ \E i \in Indexes(Top) : CurrentSlot = SlotOf(Top, i)
  <2>1. SameOwner(Current, Top)
    BY ReadyIsTyped, CurrentOf DEF StackReady
  <2>2. Indexes(Current) = Indexes(Top)
    BY <2>1 DEF SameOwner, Indexes
  <2>3. CurrentSlot = SlotOf(Top, Current.current_component_idx)
    BY <2>1 DEF SameOwner, SlotOf, CurrentSlot
  <2> QED BY <1>2, <2>2, <2>3 DEF On, At
<1>3. \A i \in Selected : i \in Indexes(Top)
  BY DEF Selected
<1>4. ASSUME NEW r, Perform(r) PROVE Goal
  <2>1. On(Effects, Run)
    BY <1>4 DEF Perform, Ready
  <2>2. component_modified(IF dry_run \/ Command(Top).op = "invoke" THEN {} ELSE {CurrentSlot})
    BY <1>4 DEF Perform
  <2>3. s = CurrentSlot /\ IsDependency(s) /\ Command(Top).op # "invoke"
    <3> DEFINE slots == IF dry_run \/ Command(Top).op = "invoke" THEN {} ELSE {CurrentSlot}
    <3>1. s \in slots /\ IsDependency(s)
      <4>1. component_modified(slots)
        BY <2>2
      <4> HIDE DEF slots
      <4> QED BY <4>1 DEF component_modified
    <3> QED BY <3>1
  <2> QED BY <1>2, <2>1, <2>3 DEF Modifies
<1>5. ASSUME NEW r, SetParameters(r) PROVE Goal
  <2>1. On({"set_parameters"}, Run)
    BY <1>5 DEF SetParameters
  <2>2. AtCommand /\ params \in Seq(STRING)
    BY <1>1, <1>2, <2>1
  <2> DEFINE soft == SoftPositions(params)
             size == IF "image_size" \in parameters[CurrentSlot] THEN {}
                     ELSE {k \in Positions(params, "image_size") : \A j \in soft : k < j}
             stop == IF r = "SUCCESS" THEN soft ELSE size
             n    == IF stop = {} THEN Len(params) ELSE First(stop) - 1
             B    == Upto(params, n) \ parameters[CurrentSlot]
  <2>3. Store({CurrentSlot} \X B)
    BY <1>5 DEF SetParameters
  <2>4. stop \in SUBSET DOMAIN params
    BY DEF SoftPositions, Positions
  <2>5. n \in Nat /\ n <= Len(params) /\ B \in SUBSET Upto(params, n)
    <3> HIDE DEF stop
    <3>1. n \in Nat /\ n <= Len(params)
      BY <2>2, <2>4, BeforeFirst
    <3> QED BY <3>1
  <2> HIDE DEF B, n
  <2>6. /\ IsDependency(s) /\ s \in {CurrentSlot}
        /\ \E i \in DOMAIN params : params[i] = "component_slot"
    BY <2>2, <2>3, <2>5, SelectedClears
  <2> QED BY <1>2, <2>1, <2>6 DEF Modifies
<1>6. CASE Override
  <2>1. AtCommand /\ params \in Seq(STRING)
    BY <1>1, <1>6 DEF Override, At
  <2> DEFINE stop == Refused(params)
             n    == IF stop = {} THEN Len(params) ELSE First(stop) - 1
  <2>2. Store(SlotsOf(Selected) \X Upto(params, n))
    BY <1>6 DEF Override
  <2>3. stop \in SUBSET DOMAIN params
    BY DEF Refused, SoftPositions
  <2>4. n \in Nat /\ n <= Len(params)
    <3> HIDE DEF stop
    <3> QED BY <2>1, <2>3, BeforeFirst
  <2> HIDE DEF n
  <2>5. /\ IsDependency(s) /\ s \in SlotsOf(Selected)
        /\ \E i \in DOMAIN params : params[i] = "component_slot"
    BY <2>1, <2>2, <2>4, SelectedClears
  <2> QED BY <1>3, <2>1, <2>5 DEF Modifies, SlotsOf
<1>7. ASSUME NEW i, NEW r, OverrideSizeFails(i, r) PROVE Goal
  <2>1. AtCommand /\ params \in Seq(STRING) /\ SetsSize(params)
    BY <1>1, <1>7 DEF OverrideSizeFails, At
  <2> DEFINE at == Positions(params, "image_size")
             n  == First(at) - 1
             B  == Upto(params, n)
             before == {j \in Selected : j < i}
  <2>2. Store((SlotsOf(Selected) \X B) \cup (SlotsOf(before) \X {"image_size"}))
    BY <1>7 DEF OverrideSizeFails
  <2>3. at \in SUBSET DOMAIN params
    BY DEF Positions
  <2>4. at # {}
    <3>1. Len(params) \in Nat /\ DOMAIN params = 1 .. Len(params)
      BY <2>1, LenProperties
    <3> QED BY <2>1, <3>1 DEF SetsSize, Upto, Positions
  <2>5. n = IF at = {} THEN Len(params) ELSE First(at) - 1
    BY <2>4
  <2>6. n \in Nat /\ n <= Len(params) /\ B \in SUBSET Upto(params, n)
    <3> HIDE DEF at, n
    <3>1. n \in Nat /\ n <= Len(params)
      BY <2>1, <2>3, <2>5, BeforeFirst
    <3> QED BY <3>1
  <2> HIDE DEF n, B, before
  <2>7. /\ IsDependency(s) /\ s \in SlotsOf(Selected)
        /\ \E k \in DOMAIN params : params[k] = "component_slot"
    BY <2>1, <2>2, <2>6, SelectedClears
  <2> QED BY <1>3, <2>1, <2>7 DEF Modifies, SlotsOf
<1>8. ~(\/ EndOfSequence \/ RejectCommand \/ SkipCommand \/ ComponentGone
        \/ SetComponentIndex \/ TryEach \/ RunSequence \/ ValidateCommand
        \/ ValidateOverride \/ ParameterMissing \/ ParameterMalformed)
  BY <1>0 DEF EndOfSequence, RejectCommand, SkipCommand, ComponentGone, SetComponentIndex,
     TryEach, RunSequence, ValidateCommand, ValidateOverride, ParameterMissing, ParameterMalformed
<1>9. ~(\/ AssumeCondition \/ Abort \/ ConditionIsDependency \/ DependencyIntegrityRefused
        \/ ProcessDependencyRefused \/ (\E r : CheckCondition(r)) \/ \E r : RetrieveFails(r))
  BY <1>0 DEF AssumeCondition, Abort, ConditionIsDependency, DependencyIntegrityRefused,
     ProcessDependencyRefused, CheckCondition, RetrieveFails
<1> QED BY <1>4, <1>5, <1>6, <1>7, <1>8, <1>9 DEF SeqStep

\* The entries of the manifest stack that hold the manifest of a dependency, and the
\* one that is about to.
Occupied(e) == e > 0 /\ e < manifest_stack_height /\ (op # "none" => e # entry)
Incoming(e) == e > 0 /\ op = "loading" /\ e = entry

\* Where what an entry holds after a step comes from.
LEMMA EntryWas ==
    ASSUME Level, NEW e \in Entry, Occupied(e)' \/ Incoming(e)'
    PROVE  \/ Occupied(e) /\ Occupied(e)' /\ Holds(e)
           \/ Incoming(e) /\ (LoadStep \/ UNCHANGED vars)
           \/ LoadDependency /\ Registry!BeginLoad /\ e = entry' /\ Incoming(e)'
<1>0. e \in Nat /\ manifest_stack_height \in Nat /\ entry \in Nat
  BY RegistryTyped DEF Level, PInv, Entry
<1>1. Occupied(e) => Holds(e)
  BY EntryStays DEF Level, Occupied
<1>2. CASE UNCHANGED vars
  <2>1. (Occupied(e)' <=> Occupied(e)) /\ (Incoming(e)' <=> Incoming(e))
    BY <1>2 DEF vars, registry_vars, Occupied, Incoming
  <2> QED BY <1>1, <1>2, <2>1
<1>3. CASE LoadStep
  <2>1. op = "loading" /\ entry = manifest_stack_height
    BY <1>3, RegistryTyped DEF LoadStep, Level, PInv
  <2>2. entry' = entry /\ manifest_stack_height' \in {manifest_stack_height, manifest_stack_height + 1}
    BY <1>3, LoadStepMoves DEF Level, LoadMoves
  <2>3. CASE e < manifest_stack_height
    BY <1>0, <1>1, <2>1, <2>2, <2>3 DEF Occupied, Incoming
  <2>4. CASE ~(e < manifest_stack_height)
    BY <1>0, <1>3, <2>1, <2>2, <2>4 DEF Occupied, Incoming
  <2> QED BY <2>3, <2>4
<1>4. CASE ReleaseStep
  <2>1. ReleaseMoves
    BY <1>4, ReleaseStepMoves DEF Level, ReleaseStep
  <2>2. /\ op = "unwinding" => entry \in {manifest_stack_height, manifest_stack_height - 1}
        /\ op = "releasing" => entry = manifest_stack_height - 1
    BY RegistryTyped DEF Level, PInv, RegistryKept, Proofs!ReleasesTop
  <2>3. op' # "loading" /\ op # "none" /\ entry' = entry
    BY <2>1 DEF ReleaseMoves
  <2>4. Occupied(e)' /\ e < manifest_stack_height'
    BY <2>3 DEF Occupied, Incoming
  <2>5. e < manifest_stack_height /\ e # entry
    BY <1>0, <2>1, <2>2, <2>3, <2>4 DEF ReleaseMoves, Occupied
  <2> QED BY <1>1, <2>4, <2>5 DEF Occupied
<1>5. ASSUME op = "none", manifest_stack_height' = manifest_stack_height, op' # "loading"
      PROVE  Occupied(e) /\ Occupied(e)' /\ Holds(e)
  BY <1>1, <1>5 DEF Occupied, Incoming
<1>6. CASE LoadDependency
  <2>1. op = "none" /\ (Registry!LoadRefused \/ Registry!BeginLoad)
    BY <1>6 DEF LoadDependency, StartLoad
  <2>2. CASE Registry!LoadRefused
    BY <1>5, <2>1, <2>2 DEF Registry!LoadRefused
  <2>3. CASE Registry!BeginLoad
    BY <1>1, <1>6, <2>1, <2>3 DEF Registry!BeginLoad, Occupied, Incoming
  <2> QED BY <2>1, <2>2, <2>3
<1>7. CASE \E n \in Calls : Call(n)
  <2>1. op = "none" /\ (Registry!LoadRefused \/ (Registry!BeginLoad /\ root' = manifest_stack_height))
    BY <1>7 DEF Call, StartLoad, AtStep
  <2>2. CASE Registry!LoadRefused
    BY <1>5, <2>1, <2>2 DEF Registry!LoadRefused
  <2>3. CASE Registry!BeginLoad /\ root' = manifest_stack_height
    <3>1. root' = 0
      BY DEF Level, InStep
    <3> QED BY <1>0, <2>3, <3>1 DEF Registry!BeginLoad, Occupied, Incoming
  <2> QED BY <2>1, <2>2, <2>3
<1>8. CASE RunCommand
  BY <1>5, <1>8 DEF RunCommand
<1>9. CASE Loaded \/ ValidateNext \/ ValidationDone \/ DryRunNext \/ DryRunMain
           \/ DryRunRepeat \/ DryRunDone \/ ExecuteShared \/ ExecuteMain \/ CallReturns
  BY <1>5, <1>9 DEF registry_vars, Loaded, ValidateNext, ValidationDone, DryRunNext,
     DryRunMain, DryRunRepeat, DryRunDone, ExecuteShared, ExecuteMain, CallReturns, AtStep
<1>10. CASE (\E r \in PlatResults : Completed(r)) \/ GiveUp
  <2>1. \E r : Leave(r)
    BY <1>10 DEF Completed, GiveUp
  <2> QED BY <1>5, <2>1 DEF Leave, Registry!BeginRelease
<1>11. ASSUME NEW x, NEW v, ReleaseDependency(x, v), op = "none"
       PROVE  Occupied(e) /\ Occupied(e)' /\ Holds(e)
  BY <1>5, <1>11 DEF ReleaseDependency, Registry!BeginRelease
<1>12. CASE ValidateForIntegrity \/ ValidateForProcess \/ ExecuteDependency \/ DependencyNotLoaded
            \/ LoadedForIntegrity \/ DependencyReleased
  BY <1>5, <1>12 DEF ValidateForIntegrity, ValidateForProcess, ExecuteDependency, ResumedProcess,
     Resumed, ScheduleDependency, DependencyNotLoaded, LoadedForIntegrity, DependencyReleased,
     registry_vars
<1>13. CASE \E r \in AuthResults : AuthorizeDependency(r)
  <2>1. PICK r \in AuthResults : AuthorizeDependency(r)
    BY <1>13
  <2> QED BY <1>5, <1>11, <2>1 DEF AuthorizeDependency, registry_vars
<1>14. CASE IntegrityFails \/ IntegrityHolds \/ ProcessFails
            \/ \E r \in PlatResults : DependencyCompleted(r)
  <2>1. op = "none" /\ \E x, v : ReleaseDependency(x, v)
    BY <1>14 DEF IntegrityFails, IntegrityHolds, ProcessFails, DependencyCompleted, ResumedProcess,
       Resumed
  <2> QED BY <1>11, <2>1
<1> QED BY <1>2, <1>3, <1>4, <1>6, <1>7, <1>8, <1>9, <1>10, <1>12, <1>13, <1>14
        DEF Level, Next, Step

\* Above the root are manifests that components store.
StoredAbove == \A e \in Entry : Occupied(e) \/ Incoming(e) => envelope[e] \in Stored

LEMMA StoredStep ==
    ASSUME Level, StoredAbove
    PROVE  StoredAbove'
<1>0. Stored' = Stored
  BY WorldStays DEF Level, Stored
<1> SUFFICES ASSUME NEW e \in Entry, Occupied(e)' \/ Incoming(e)'
             PROVE  envelope'[e] \in Stored
  BY <1>0 DEF StoredAbove
<1>1. CASE Occupied(e) /\ Occupied(e)' /\ Holds(e)
  BY <1>1 DEF StoredAbove, Holds
<1>2. CASE Incoming(e) /\ (LoadStep \/ UNCHANGED vars)
  <2>1. envelope' = envelope
    BY <1>2 DEF LoadStep, vars
  <2> QED BY <1>2, <2>1 DEF StoredAbove
<1>3. CASE LoadDependency /\ Registry!BeginLoad /\ e = entry' /\ Incoming(e)'
  <2> DEFINE name == content[components[CurrentSlot].component_id]
  <2>1. /\ ToLoad /\ op' = "loading" /\ e = manifest_stack_height
        /\ op = "none"
    BY <1>3 DEF LoadDependency, Registry!BeginLoad
  <2>2. StartLoad(name)
    BY <1>3, <2>1 DEF LoadDependency, Registry!LoadRefused
  <2>3. Running /\ IsDependency(CurrentSlot) /\ Current.current_component_idx \in Indexes(Current)
    BY <2>1 DEF ToLoad, On, At, AtCommand
  <2>4. CurrentSlot \in Slot
    BY <2>3, SlotIsFilled DEF Level
  <2>5. components[CurrentSlot].component_id \in DOMAIN content
    BY <2>3, <2>4 DEF Level, PInv, WorldOK, IsDependency
  <2>6. name \in Stored
    BY <2>5 DEF Level, PInv, WorldOK
  <2> HIDE DEF name
  <2>7. envelope' = [envelope EXCEPT ![e] = name] /\ DOMAIN envelope = Entry
    BY <2>1, <2>2 DEF StartLoad, Level, PInv, WorldOK
  <2> QED BY <2>6, <2>7
<1> QED BY <1>1, <1>2, <1>3, EntryWas

\* Loading a leaf makes no slot one of a dependency.
FillsLeaf ==
    /\ \A s \in Slot : IsDependency(s)' => IsDependency(s)
    /\ \/ manifest_stack' = manifest_stack
       \/ \E s \in Slot : /\ manifest_stack' = [manifest_stack EXCEPT ![entry] = Append(@, s)]
                          /\ ~IsDependency(s)'

LEMMA LeafLoads ==
    ASSUME Level, LoadStep, Leaf(envelopes[envelope[entry]])
    PROVE  FillsLeaf
<1> DEFINE list == envelopes[envelope[entry]].components
           n    == Len(manifest_stack[entry])
           c    == list[n + 1]
<1>0. components \in [Slot -> [component_id  : ComponentId \cup {"none"},
                               ref_count     : Nat,
                               is_dependency : {"unset", "false", "true"}]]
  BY RegistryTyped DEF Level, PInv
<1>1. /\ op = "loading"
      /\ \/ \E r \in LoadResults \ {"SUCCESS"} : Registry!LoadRejected(r)
         \/ n < Len(list) /\ c.id \in ComponentId
              /\ Registry!AppendComponent(c.id, c.dependency)
         \/ n < Len(list) /\ c.id \notin ComponentId /\ Registry!AppendUndecodable
         \/ n = Len(list) /\ \E r \in LoadResults : Registry!LoadDone(r)
  BY DEF LoadStep
<1>2. ASSUME UNCHANGED <<components, manifest_stack>> PROVE FillsLeaf
  BY <1>2 DEF IsDependency, FillsLeaf
<1>3. ASSUME n < Len(list) PROVE c.dependency = FALSE
  <2>1. /\ list \in Seq([id : ComponentId \cup {"undecodable"}, dependency : BOOLEAN])
        /\ manifest_stack[entry] \in Seq(Slot)
    BY <1>1, RegistryTyped DEF Level, PInv, WorldOK, IsEnvelope, Maps
  <2>2. n \in Nat /\ Len(list) \in Nat /\ DOMAIN list = 1 .. Len(list)
    BY <2>1, LenProperties
  <2>3. n + 1 \in DOMAIN list
    BY <1>3, <2>2
  <2>4. c \in [id : ComponentId \cup {"undecodable"}, dependency : BOOLEAN]
    BY <2>1, <2>2, <2>3, ElementOfSeq
  <2>5. ~c.dependency
    BY <2>3 DEF Leaf
  <2> HIDE DEF c
  <2> QED BY <2>4, <2>5
<1> HIDE DEF list, c, n
<1>4. CASE \/ \E r \in LoadResults \ {"SUCCESS"} : Registry!LoadRejected(r)
           \/ Registry!AppendUndecodable
           \/ \E r \in LoadResults : Registry!LoadDone(r)
           \/ Registry!AppendToFullMap \/ Registry!AppendWithoutSlot(c.id)
  <2>1. UNCHANGED <<components, manifest_stack>>
    BY <1>4 DEF Registry!LoadRejected, Registry!AppendUndecodable, Registry!LoadDone,
       Registry!AppendToFullMap, Registry!AppendWithoutSlot, Registry!Unwind
  <2> QED BY <1>2, <2>1
<1>5. CASE Registry!AppendExisting(c.id, FALSE)
  <2> DEFINE first == Registry!First(Registry!Holding(c.id))
  <2>1. first \in Slot
    <3>1. Registry!Holding(c.id) # {}
      BY <1>5 DEF Registry!AppendExisting
    <3>2. first \in Registry!Holding(c.id)
      BY <3>1, HoldingFirst
    <3> QED BY <3>2 DEF Registry!Holding, Registry!Slot, Slot
  <2>2. \/ UNCHANGED <<components, manifest_stack>>
        \/ /\ components' = [components EXCEPT ![first].ref_count = @ + 1,
                                               ![first].is_dependency = "false"]
           /\ manifest_stack' = [manifest_stack EXCEPT ![entry] = Append(@, first)]
    BY <1>5 DEF Registry!AppendExisting, Registry!Referenced, Registry!Appended, Registry!Unwind,
       Registry!suit_bool
  <2> HIDE DEF first
  <2>3. ASSUME NEW t \in Slot,
               components' = [components EXCEPT ![t].ref_count = @ + 1,
                                                ![t].is_dependency = "false"],
               manifest_stack' = [manifest_stack EXCEPT ![entry] = Append(@, t)]
        PROVE  FillsLeaf
    <3>1. \A s \in Slot : components'[s].is_dependency = IF s = t THEN "false"
                                                         ELSE components[s].is_dependency
      BY <1>0, <2>3
    <3>2. (\A s \in Slot : IsDependency(s)' => IsDependency(s)) /\ ~IsDependency(t)'
      BY <3>1 DEF IsDependency
    <3> QED BY <2>3, <3>2 DEF FillsLeaf
  <2> QED BY <1>2, <2>1, <2>2, <2>3
<1>6. ASSUME NEW r \in CreateResults, Registry!AppendNew(c.id, FALSE, r) PROVE FillsLeaf
  <2> DEFINE first == Registry!First(Registry!Free)
  <2>1. first \in Slot
    <3>1. Registry!Free # {} /\ Registry!Free \subseteq Nat
      BY <1>6, SeqExecAssumption DEF Registry!AppendNew, Registry!Free, Registry!Slot
    <3>2. first \in Registry!Free
      BY <3>1, FirstOfSet DEF Registry!First, First
    <3> QED BY <3>2 DEF Registry!Free, Registry!Slot, Slot
  <2>2. \/ /\ components' = [components EXCEPT ![first] = [component_id |-> c.id, ref_count |-> 1,
                                                           is_dependency |-> "false"]]
           /\ manifest_stack' = [manifest_stack EXCEPT ![entry] = Append(@, first)]
        \/ /\ components' = [components EXCEPT ![first] =
                                [Registry!EmptySlot EXCEPT !.component_id = c.id]]
           /\ manifest_stack' = manifest_stack
    BY <1>6 DEF Registry!AppendNew, Registry!Appended, Registry!Unwind, Registry!suit_bool
  <2> HIDE DEF first
  <2>3. PICK t, x :
           /\ t \in Slot
           /\ components' = [components EXCEPT ![t] = x]
           /\ x.is_dependency \in {"false", "unset"}
           /\ manifest_stack' \in {manifest_stack, [manifest_stack EXCEPT ![entry] = Append(@, t)]}
    BY <2>1, <2>2 DEF Registry!EmptySlot
  <2>4. \A s \in Slot : components'[s].is_dependency = IF s = t THEN x.is_dependency
                                                       ELSE components[s].is_dependency
    BY <1>0, <2>3
  <2>5. (\A s \in Slot : IsDependency(s)' => IsDependency(s)) /\ ~IsDependency(t)'
    BY <2>3, <2>4 DEF IsDependency
  <2> QED BY <2>3, <2>5 DEF FillsLeaf
<1>7. CASE n < Len(list) /\ Registry!AppendComponent(c.id, c.dependency)
  <2>1. Registry!AppendComponent(c.id, FALSE)
    BY <1>3, <1>7
  <2> QED BY <1>4, <1>5, <1>6, <2>1 DEF Registry!AppendComponent
<1> QED BY <1>1, <1>4, <1>7

\* The manifest of a leaf lists no slot of a dependency.
LeavesAreLeaves ==
    \A e \in Entry : ((Occupied(e) \/ Incoming(e)) /\ Leaf(envelopes[envelope[e]])) =>
        \A i \in DOMAIN manifest_stack[e] : ~IsDependency(manifest_stack[e][i])

LEMMA LeavesStep ==
    ASSUME Level, LeavesAreLeaves
    PROVE  LeavesAreLeaves'
<1>0. /\ envelopes' = envelopes
      /\ manifest_stack \in [Entry -> Seq(Slot)]
  BY WorldStays DEF Level, PInv, Proofs!RegistryInv, Proofs!TypeOK, Entry, Proofs!Entry, Slot,
     Proofs!Slot
<1> SUFFICES ASSUME NEW e \in Entry, Occupied(e)' \/ Incoming(e)', Leaf(envelopes[envelope'[e]]),
                    NEW i \in DOMAIN manifest_stack'[e], NEW t, t = manifest_stack'[e][i]
             PROVE  ~IsDependency(t)'
  <2>1. \A x : Leaf(x)' <=> Leaf(x)
    BY DEF Leaf
  <2> QED BY <1>0, <2>1 DEF LeavesAreLeaves, IsDependency
<1>1. CASE Occupied(e) /\ Occupied(e)' /\ Holds(e)
  <2>1. /\ e < manifest_stack_height /\ e < manifest_stack_height'
        /\ (op # "none" => e # entry) /\ (op' # "none" => e # entry')
    BY <1>1 DEF Occupied
  <2>2. \A j \in 1 .. Len(manifest_stack[e]) :
              components'[manifest_stack[e][j]].is_dependency =
                  components[manifest_stack[e][j]].is_dependency
    BY <2>1, ManifestKept DEF Level
  <2>3. DOMAIN manifest_stack[e] = 1 .. Len(manifest_stack[e])
    BY <1>0, LenProperties
  <2>4. i \in DOMAIN manifest_stack[e] /\ t = manifest_stack[e][i]
        /\ ~IsDependency(manifest_stack[e][i])
    BY <1>1 DEF Holds, LeavesAreLeaves
  <2> QED BY <2>2, <2>3, <2>4 DEF IsDependency
<1>2. CASE Incoming(e) /\ UNCHANGED vars
  <2>1. UNCHANGED <<components, manifest_stack, envelope>>
    BY <1>2 DEF vars, registry_vars
  <2> QED BY <1>2, <2>1 DEF LeavesAreLeaves, IsDependency
<1>3. CASE Incoming(e) /\ LoadStep
  <2>1. e = entry /\ envelope' = envelope
    BY <1>3 DEF Incoming, LoadStep
  <2>2. FillsLeaf
    BY <1>3, <2>1, LeafLoads
  <2>3. manifest_stack[e] \in Seq(Slot)
    BY <1>0
  <2>4. \A j \in DOMAIN manifest_stack[e] :
           manifest_stack[e][j] \in Slot /\ ~IsDependency(manifest_stack[e][j])
    BY <1>3, <2>1, <2>3, ElementOfSeq, LenProperties DEF LeavesAreLeaves
  <2>5. CASE manifest_stack' = manifest_stack
    <3>1. t \in Slot /\ ~IsDependency(t)
      BY <2>4, <2>5
    <3> QED BY <2>2, <3>1 DEF FillsLeaf
  <2>6. CASE \E s \in Slot : /\ manifest_stack' = [manifest_stack EXCEPT ![entry] = Append(@, s)]
                             /\ ~IsDependency(s)'
    <3>1. PICK s \in Slot : /\ manifest_stack' = [manifest_stack EXCEPT ![entry] = Append(@, s)]
                            /\ ~IsDependency(s)'
      BY <2>6
    <3>2. manifest_stack'[e] = Append(manifest_stack[e], s)
      BY <1>0, <2>1, <3>1
    <3>3. (i \in DOMAIN manifest_stack[e] /\ t = manifest_stack[e][i]) \/ t = s
      BY <2>3, <3>2
    <3>4. (t \in Slot /\ ~IsDependency(t)) \/ t = s
      BY <2>4, <3>3
    <3> QED BY <2>2, <3>1, <3>4 DEF FillsLeaf
  <2> QED BY <2>2, <2>5, <2>6 DEF FillsLeaf
<1>4. CASE LoadDependency /\ Registry!BeginLoad /\ e = entry' /\ Incoming(e)'
  <2>1. manifest_stack'[e] = <<>>
    BY <1>0, <1>4 DEF Registry!BeginLoad
  <2> QED BY <2>1
<1> QED BY <1>1, <1>2, <1>3, <1>4, EntryWas

\* What runs above the root, but not in a leaf, modifies nothing.
TameHere == Tame([code |-> code, envelopes |-> envelopes])
ReadOnlyAbove ==
    \A k \in Frames :
        LET e == seq_stack[k].manifest IN
        (e > 0 /\ ~Leaf(envelopes[envelope[e]])) => seq_stack[k].cmd_seq \in ReadOnly(code)

LEMMA TameMeans ==
    TameHere <=> \A name \in Stored :
        \/ Leaf(envelopes[name])
        \/ /\ ReleaseResults \subseteq {"SUCCESS"}
           /\ \A n \in DOMAIN envelopes[name].seqs :
                 envelopes[name].seqs[n] \in ReadOnly(code) \cup {Severed}
BY DEF TameHere, Tame, Stored

LEMMA TameStays ==
    ASSUME Level, TameHere
    PROVE  TameHere'
BY WorldStays DEF Level, TameHere

LEMMA ReadOnlyStep ==
    ASSUME Level, Placed, TameHere, StoredAbove, ReadOnlyAbove
    PROVE  ReadOnlyAbove'
<1> DEFINE n == Len(seq_stack)
           m == Len(seq_stack')
<1>0. code' = code /\ envelopes' = envelopes /\ PInv /\ InStep /\ [Next]_vars
  BY WorldStays DEF Level
<1> SUFFICES ASSUME NEW k \in Frames', NEW h, h = seq_stack'[k], NEW e, e = h.manifest,
                    e > 0, ~Leaf(envelopes[envelope'[e]])
             PROVE  h.cmd_seq \in ReadOnly(code)
  <2>1. ReadOnly(code)' = ReadOnly(code) /\ \A x : Leaf(x)' <=> Leaf(x)
    BY <1>0 DEF ReadOnly, ReadOnlySet, Modifies, NestedBy, Leaf
  <2> QED BY <1>0, <2>1 DEF ReadOnlyAbove
<1>1. n \in Nat /\ m \in Nat /\ Frames = 1 .. n /\ Frames' = 1 .. m /\ k \in 1 .. m
  BY StackRange, StackRangeNext DEF Level
<1>2. CASE k <= n
  <2>1. k \in Frames
    BY <1>1, <1>2
  <2>2. SameOwner(h, seq_stack[k])
    BY <2>1, FramesCorrespond
  <2>3. Holds(seq_stack[k].manifest)
    BY <2>1, FrameHolds
  <2> QED BY <2>1, <2>2, <2>3 DEF ReadOnlyAbove, SameOwner, Holds
<1>3. CASE ~(k <= n)
  <2>1. Running
    <3>1. ASSUME ~Running PROVE FALSE
      <4>1. m = 0 \/ m = 1
        BY <1>0, <3>1, FirstShapes
      <4>2. k = 1
        BY <1>1, <4>1
      <4>3. e = root' + Depth(code', seq_stack', 1) /\ root' = 0
        BY <4>2 DEF Level, InStep
      <4>4. seq_stack' \in Seq(FrameType(Retvals)')
        BY DEF Level, PInv, FramesOK
      <4>5. Depth(code', seq_stack', 1) = 0
        BY <4>4, DepthOfFirst
      <4> QED BY <4>3, <4>5
    <3> QED BY <3>1
  <2>2. m > n
    BY <1>1, <1>3
  <2>3. CASE Nested
    <3>1. PICK a \in F, b \in F :
             /\ SameOwner(a, Top) /\ a.current_command = Top.current_command
             /\ Top.current_command < Len(code[Top.cmd_seq])
             /\ Starts(a, b) /\ Stacks(a, b)
      BY <2>3 DEF Nested
    <3>2. m = n + 1 /\ seq_stack'[n + 1] = b
      BY <3>1 DEF Stacks
    <3>3. h = b
      BY <1>1, <1>3, <3>2
    <3>4. /\ e = Top.manifest /\ Command(a) = Command(Top)
          /\ h.cmd_seq = Command(a).seqs[a.cmd_exec_state]
      BY <3>1, <3>3 DEF Starts, SameOwner, Command
    <3>5. /\ Top = seq_stack[n] /\ n \in Frames /\ Top \in F
          /\ Top.current_command + 1 \in DOMAIN code[Top.cmd_seq]
      <4>1. StackReady
        BY <2>1, InSequence DEF Level
      <4>2. IsProgram(code) /\ Top \in F /\ Top = seq_stack[n] /\ n \in Frames
        BY <4>1, ReadyIsTyped DEF StackReady, Frames
      <4>3. Top.current_command \in Nat /\ Top.current_command + 1 <= Len(code[Top.cmd_seq])
            /\ Len(code[Top.cmd_seq]) \in Nat
        BY <3>1, <4>2, CommandOf
      <4>4. Top.cmd_seq \in DOMAIN code
        BY <4>2 DEF F, FrameType
      <4>5. DOMAIN code[Top.cmd_seq] = 1 .. Len(code[Top.cmd_seq])
        BY <4>2, <4>4, LenProperties DEF IsProgram
      <4> QED BY <4>2, <4>3, <4>5
    <3>6. Holds(e)
      BY <3>4, <3>5, FrameHolds
    <3>7. Top.cmd_seq \in ReadOnly(code)
      BY <3>4, <3>5, <3>6 DEF ReadOnlyAbove, Holds
    <3>8. NestedBy(Command(Top)) \subseteq ReadOnly(code)
      BY <3>5, <3>7, ReadOnlyCommand DEF Command
    <3>9. h.cmd_seq \in NestedBy(Command(Top))
      BY <3>1, <3>4 DEF Starts, NestedBy, Nesting
    <3> QED BY <3>8, <3>9
  <2>4. CASE Proceeds /\ Deepened
    <3>1. PICK x : \E p \in Run \cup Validate, v \in Retvals, a \in F :
             \/ TurnsTo(a)
             \/ Status(Dependency, x) = "SUCCESS" /\ Stacks(a, FirstFrame(x, Dependency, p))
      BY <2>4 DEF Deepened
    <3>2. PICK p \in Run \cup Validate, a \in F :
             \/ TurnsTo(a)
             \/ Status(Dependency, x) = "SUCCESS" /\ Stacks(a, FirstFrame(x, Dependency, p))
      BY <3>1
    <3>3. Status(Dependency, x) = "SUCCESS" /\ m = n + 1
          /\ seq_stack'[n + 1] = FirstFrame(x, Dependency, p)
      BY <1>1, <2>2, <3>2 DEF TurnsTo, Stacks
    <3>4. h = FirstFrame(x, Dependency, p)
      BY <1>1, <1>3, <3>3
    <3>5. h.cmd_seq = Sequences(e)[x] /\ e = Dependency
      BY <3>4 DEF FirstFrame, NewFrame
    <3>6. /\ Dependency \in Entry /\ envelope' = envelope
          /\ op = "none" /\ manifest_stack_height \in Nat
      BY <2>4, ProceedsForm, Here DEF Level, Proceeds, ValidateForIntegrity, ValidateForProcess,
         ExecuteDependency, ResumedProcess, Resumed
    <3>7. Occupied(e)
      BY <3>5, <3>6 DEF Occupied, Dependency
    <3>8. envelope[e] \in Stored /\ e \in Entry
      BY <3>5, <3>6, <3>7 DEF StoredAbove
    <3>9. x \in DOMAIN Sequences(e) /\ Sequences(e)[x] # Severed
      BY <3>3, <3>5 DEF Status
    <3>10. Sequences(e) = envelopes[envelope[e]].seqs
      <4>1. CASE envelope[e] = NoEnvelope
        BY <3>9, <4>1 DEF Sequences
      <4> QED BY <4>1 DEF Sequences
    <3>11. \A y \in DOMAIN envelopes[envelope[e]].seqs :
              envelopes[envelope[e]].seqs[y] \in ReadOnly(code) \cup {Severed}
      BY <3>6, <3>8, TameMeans
    <3> QED BY <3>5, <3>9, <3>10, <3>11
  <2>5. CASE UNCHANGED seq_stack \/ Turned \/ Popped
    <3>1. m = n \/ m = n - 1
      BY <2>5 DEF Turned, Popped, TurnsTo, PopsTo
    <3> QED BY <1>1, <2>2, <3>1
  <2> QED BY <1>0, <2>1, <2>3, <2>4, <2>5, StepShapes
<1> QED BY <1>2, <1>3

-----------------------------------------------------------------------------
(***************************************************************************)
(* A process-dependency that waits finds the check of its component.       *)
(***************************************************************************)
ProcessWaits(f) ==
    /\ IsWaiting(code, f) /\ Command(f).op = "process_dependency"
    /\ f.cmd_exec_state # Releasing
SlotAt(f) == SlotOf(f, f.current_component_idx)
ChecksStand ==
    /\ integrity_checked \in [Slot -> BOOLEAN]
    /\ \A k \in Frames : ProcessWaits(seq_stack[k]) => integrity_checked[SlotAt(seq_stack[k])]

\* What runs above a dependency command that waits runs in a dependency.
LEMMA AboveWaiter ==
    ASSUME PInv, InStep, RegistryKept, NEW k \in Frames, k < Len(seq_stack),
           IsWaiting(code, seq_stack[k]), NEW e, e = Top.manifest
    PROVE  e \in Entry /\ Occupied(e)
<1> DEFINE n == Len(seq_stack)
           B == OpenBelow(code, seq_stack, n)
<1>1. /\ seq_stack \in Seq(F) /\ n \in Nat /\ n \in Frames /\ Top = seq_stack[n]
  <2>1. seq_stack \in Seq(F) /\ n \in Nat /\ Frames = 1 .. n
    BY StackRange
  <2> QED BY <2>1 DEF Top
<1>2. k \in B
  <2>1. IsOpen(code, seq_stack[k])
    BY WaitingState
  <2> QED BY <1>1, <2>1 DEF OpenBelow, Frames
<1>3. IsFiniteSet(B) /\ Depth(code, seq_stack, n) \in Nat
  BY <1>1, OpenFinite
<1>4. Depth(code, seq_stack, n) # 0
  BY <1>2, <1>3, FS_EmptySet DEF Depth
<1>5. e = 0 + Depth(code, seq_stack, n)
  BY <1>1 DEF InStep
<1>6. FramesBelow
  BY FramesLieBelow DEF RegistryKept
<1> HIDE DEF n
<1> QED BY <1>1, <1>3, <1>4, <1>5, <1>6 DEF FramesBelow, Occupied

\* The slot of a command that waits.
LEMMA WaiterSlot ==
    ASSUME PInv, InStep, RegistryKept, Placed, NEW k \in Frames, IsWaiting(code, seq_stack[k]),
           NEW s, s = SlotAt(seq_stack[k])
    PROVE  s \in Slot /\ components[s].ref_count # 0 /\ IsDependency(s)
<1> DEFINE f == seq_stack[k]
           e == f.manifest
           i == f.current_component_idx
<1>1. i \in 0 .. Len(manifest_stack[e]) - 1 /\ s = manifest_stack[e][i + 1] /\ IsDependency(s)
  BY DEF Placed, PlacedAt, Indexes, SlotOf, SlotAt
<1>2. e \in Entry /\ e < manifest_stack_height /\ (op # "none" => e # entry)
  BY FramesLieBelow DEF RegistryKept, FramesBelow
<1>3. manifest_stack[e] \in Seq(Slot) /\ Len(manifest_stack[e]) \in Nat
  BY <1>2, Here, LenProperties DEF Maps
<1> HIDE DEF e, i
<1>4. i + 1 \in 1 .. Len(manifest_stack[e])
  BY <1>1, <1>3
<1>5. s \in Slot
  BY <1>1, <1>3, <1>4, ElementOfSeq
<1>6. e \in Proofs!Entry /\ Proofs!RegistryInv /\ Proofs!NoDanglingReference
      /\ DependencyDenied \in BOOLEAN
  BY <1>2, ProcessorAssumption DEF PInv, RegistryKept, Entry, Proofs!Entry
<1>7. LET t == manifest_stack[e][i + 1] IN Proofs!InUse(t)
  BY <1>2, <1>4, <1>6, Proofs!MappedIsFilled, SeqExecAssumption DEF Proofs!MappedIsFilled
<1> QED BY <1>1, <1>5, <1>7 DEF Proofs!InUse

\* It is still there after a step.
LEMMA WaiterSlotStays ==
    ASSUME Level, NEW k \in Frames, NEW g, SamePlace(g, seq_stack[k])
    PROVE  SlotAt(g)' = SlotAt(seq_stack[k])
<1>1. Holds(seq_stack[k].manifest)
  BY FrameHolds
<1> QED BY <1>1 DEF SamePlace, SlotAt, SlotOf, Holds

\* A process-dependency that waits has waited before, unless it begins to.
LEMMA WaiterProcesses ==
    ASSUME Level, ResumedInPlace, LoadDependency => Registry!LoadRefused,
           NEW k \in Frames', NEW g, g = seq_stack'[k], ProcessWaits(g)'
    PROVE  /\ k \in Frames /\ ProcessWaits(seq_stack[k])
           /\ SamePlace(g, seq_stack[k])
<1> DEFINE n == Len(seq_stack)
<1>0. code' = code
  BY CodeStays DEF Level
<1>1. n \in Nat /\ Frames = 1 .. n /\ Frames' = 1 .. Len(seq_stack') /\ Len(seq_stack') \in Nat
  BY FramesNow, FramesNext DEF Level
<1>2. IsWaiting(code, g) /\ Command(g).op = "process_dependency" /\ g.cmd_exec_state # Releasing
  BY <1>0 DEF ProcessWaits, IsWaiting, AtDependency, Command
<1>3. k \in Frames /\ IsWaiting(code, seq_stack[k]) /\ SamePlace(g, seq_stack[k])
  <2>1. WaitersStay
    BY OtherStepsWait DEF Level
  <2> QED BY <1>1, <1>2, <2>1 DEF WaitersStay
<1>4. Command(seq_stack[k]).op = "process_dependency"
  BY <1>2, <1>3 DEF SamePlace, Command
<1>5. ASSUME seq_stack[k].cmd_exec_state = Releasing PROVE FALSE
  <2>1. k = n
    <3>1. ASSUME k < n PROVE FALSE
      BY <1>3, <1>5, <3>1, WaitingState DEF Level, IsOpen, Releasing, SEQ_MAX
    <3> QED BY <1>1, <1>3, <3>1
  <2>2. StackReady /\ Top = seq_stack[k] /\ Top \in F /\ pc # "load" /\ Running
    <3>1. Running
      BY <1>1, <1>3 DEF Running
    <3> QED BY <2>1, <3>1, InSequence, ReadyIsTyped DEF Level, Executing
  <2>3. /\ AwaitsRegistry /\ AtCommand /\ AtDependency(code, Top)
        /\ Top.cmd_exec_state = Releasing
    BY <1>3, <1>5, <2>2 DEF IsWaiting, AtDependency, AwaitsRegistry, AtCommand, Command
  <2>4. CASE LoadStep \/ ReleaseStep \/ UNCHANGED vars
    <3>1. seq_stack' = seq_stack
      BY <2>4 DEF LoadStep, ReleaseStep, vars, stacks
    <3> QED BY <1>2, <1>5, <3>1
  <2>5. CASE DependencyReleased
    <3> DEFINE r == IF Top.retval = "SUCCESS" THEN op_ret ELSE Top.retval
               f == [Top EXCEPT !.retval = r]
    <3>1. Return(f, r) /\ op_ret \in Registry!Results
      BY <2>5, RegistryTyped DEF DependencyReleased, Level, PInv
    <3>2. r \in Retvals
      BY <2>2, <3>1 DEF Retvals, F, FrameType
    <3> HIDE DEF r
    <3>3. f \in F /\ SameOwner(f, Top) /\ f.current_command = Top.current_command
      BY <2>2, <3>2 DEF F, FrameType, SameOwner
    <3> HIDE DEF f
    <3> QED BY <1>1, <1>2, <2>1, <2>2, <2>3, <3>1, <3>2, <3>3, ReturnLeaves
  <2>6. ~RunCommand
    BY <2>3 DEF RunCommand
  <2>7. ~(LoadDependency \/ DependencyNotLoaded \/ LoadedForIntegrity
          \/ \E r \in AuthResults : AuthorizeDependency(r))
    BY <2>3 DEF LoadDependency, ToLoad, DependencyNotLoaded, LoadedForIntegrity, AuthorizeDependency,
       Loading, Releasing, SEQ_MAX
  <2>8. ~(ValidateForIntegrity \/ IntegrityFails \/ IntegrityHolds \/ ValidateForProcess
          \/ ExecuteDependency \/ ProcessFails \/ \E r \in PlatResults : DependencyCompleted(r))
    <3>1. \A name : ~Resumed(name)
      BY <2>3 DEF Resumed, Releasing, SHARED, SEQ_MAX
    <3> QED BY <3>1 DEF ValidateForIntegrity, IntegrityFails, IntegrityHolds, ValidateForProcess,
               ExecuteDependency, ProcessFails, DependencyCompleted, ResumedProcess
  <2>9. ~(Loaded \/ ValidateNext \/ ValidationDone \/ DryRunNext \/ DryRunMain \/ DryRunRepeat
          \/ DryRunDone \/ ExecuteShared \/ ExecuteMain \/ (\E r \in PlatResults : Completed(r))
          \/ GiveUp \/ CallReturns \/ \E m \in Calls : Call(m))
    BY <2>2 DEF Loaded, ValidateNext, ValidationDone, DryRunNext, DryRunMain, DryRunRepeat,
       DryRunDone, ExecuteShared, ExecuteMain, Completed, GiveUp, CallReturns, Call, AtStep
  <2> QED BY <2>4, <2>5, <2>6, <2>7, <2>8, <2>9 DEF Level, Next, Step
<1> QED BY <1>3, <1>4, <1>5 DEF ProcessWaits

\* A load wipes no slot that is in use.
LEMMA LoadSpares ==
    ASSUME Level, LoadStep, integrity_checked \in [Slot -> BOOLEAN],
           NEW s \in Slot, components[s].ref_count # 0, integrity_checked[s]
    PROVE  integrity_checked'[s]
<1> DEFINE list == envelopes[envelope[entry]].components
           n    == Len(manifest_stack[entry])
           new  == /\ op = "loading" /\ n < Len(list) /\ n < MaxComponents
                   /\ list[n + 1].id \in ComponentId
                   /\ Registry!Holding(list[n + 1].id) = {} /\ Registry!Free # {}
           free == Registry!First(Registry!Free)
           set  == IF new THEN {free} ELSE {}
<1>1. Wiped(set)
  BY DEF LoadStep, First, Registry!First
<1>2. Registry!Free # {} => components[free].ref_count = 0
  <2> SUFFICES ASSUME Registry!Free # {} PROVE components[free].ref_count = 0
    OBVIOUS
  <2>1. Registry!Free \subseteq Nat
    BY SeqExecAssumption DEF Registry!Free, Registry!Slot
  <2>2. free \in Registry!Free
    BY <2>1, FirstOfSet DEF Registry!First, First
  <2>3. free \in Slot
    BY <2>2 DEF Registry!Free, Registry!Slot, Slot
  <2>4. components[free].ref_count \in Nat
    BY <2>3, RegistryTyped DEF Level, PInv
  <2> HIDE DEF free
  <2> QED BY <2>2, <2>4 DEF Registry!Free, Registry!InUse
<1>3. s \notin set
  <2>1. new => Registry!Free # {}
    OBVIOUS
  <2> HIDE DEF new, free
  <2> QED BY <1>2, <2>1
<1> HIDE DEF set
<1> QED BY <1>1, <1>3 DEF Wiped

\* No command unchecks the component of a process-dependency that waits.
LEMMA CommandSpares ==
    ASSUME Level, ResumedInPlace, RunCommand, Placed, TameHere, StoredAbove, LeavesAreLeaves,
           ReadOnlyAbove, integrity_checked \in [Slot -> BOOLEAN],
           NEW k \in Frames, IsWaiting(code, seq_stack[k]),
           NEW s \in Slot, IsDependency(s), integrity_checked[s]
    PROVE  integrity_checked'[s]
<1> SUFFICES ASSUME ~integrity_checked'[s] PROVE FALSE
  OBVIOUS
<1>1. /\ SeqStep /\ op = "none" /\ Running /\ ~AwaitsRegistry /\ ~IsOpen(code, Top)
  BY StepRuns, InPlaceIsNoCommand DEF RunCommand, Level
<1>2. StackReady
  BY <1>1, InSequence DEF Level
<1>3. /\ AtCommand /\ Modifies(Command(Top))
      /\ \E i \in Indexes(Top) : s = SlotOf(Top, i)
  BY <1>1, <1>2, StepClears
<1>4. /\ Top \in F /\ Top = seq_stack[Len(seq_stack)] /\ Len(seq_stack) \in Frames
      /\ IsProgram(code) /\ Frames = 1 .. Len(seq_stack) /\ Len(seq_stack) \in Nat
  BY <1>2, ReadyIsTyped, FramesNow DEF StackReady, Frames, Level
<1>5. k < Len(seq_stack)
  <2> SUFFICES ASSUME k = Len(seq_stack) PROVE FALSE
    BY <1>4
  <2>1. IsWaiting(code, Top) /\ Top = seq_stack[k]
    BY <1>4
  <2>2. Top.cmd_exec_state \in {Loading, Releasing} \cup (SHARED .. SEQ_MAX + 2)
        /\ Top.cmd_processor = "run"
    BY <2>1, WaitingState DEF Level
  <2>3. AtDependency(code, Top) /\ Command(Top).op \in DependencyCommands
    BY <2>1 DEF IsWaiting, AtDependency, Command
  <2>4. Top.cmd_exec_state \notin {Loading, Releasing}
    BY <1>1, <1>3, <2>3 DEF AwaitsRegistry
  <2> QED BY <1>1, <2>2, <2>3, <2>4 DEF IsOpen
<1>6. PICK e : e = Top.manifest
  OBVIOUS
<1>7. e \in Entry /\ Occupied(e)
  BY <1>5, <1>6, AboveWaiter DEF Level
<1>8. CASE Leaf(envelopes[envelope[e]])
  <2>1. manifest_stack[e] \in Seq(Slot)
    BY <1>7 DEF Level, PInv, Proofs!RegistryInv, Proofs!TypeOK, Entry, Proofs!Entry, Slot,
       Proofs!Slot
  <2>2. PICK i \in 0 .. Len(manifest_stack[e]) - 1 : s = manifest_stack[e][i + 1]
    BY <1>3, <1>6 DEF Indexes, SlotOf
  <2>3. Len(manifest_stack[e]) \in Nat /\ DOMAIN manifest_stack[e] = 1 .. Len(manifest_stack[e])
    BY <2>1, LenProperties
  <2>4. i + 1 \in DOMAIN manifest_stack[e]
    BY <2>3
  <2> QED BY <1>7, <1>8, <2>2, <2>4 DEF LeavesAreLeaves
<1>9. CASE ~Leaf(envelopes[envelope[e]])
  <2>1. Top.cmd_seq \in ReadOnly(code)
    BY <1>4, <1>6, <1>7, <1>9 DEF ReadOnlyAbove, Occupied
  <2>2. Top.current_command + 1 \in DOMAIN code[Top.cmd_seq]
    <3>1. Top.current_command < Len(code[Top.cmd_seq])
      BY <1>3 DEF AtCommand
    <3>2. Top.current_command \in Nat /\ Top.current_command + 1 <= Len(code[Top.cmd_seq])
          /\ Len(code[Top.cmd_seq]) \in Nat
      BY <1>4, <3>1, CommandOf
    <3>3. Top.cmd_seq \in DOMAIN code
      BY <1>4 DEF F, FrameType
    <3>4. DOMAIN code[Top.cmd_seq] = 1 .. Len(code[Top.cmd_seq])
      BY <1>4, <3>3, LenProperties DEF IsProgram
    <3> QED BY <3>2, <3>4
  <2> QED BY <1>3, <2>1, <2>2, ReadOnlyCommand DEF Command
<1> QED BY <1>8, <1>9

\* A dependency command that waits is about the component of its frame.
LEMMA WaiterIsCurrent ==
    ASSUME PInv, InStep, RegistryKept, Placed, Running, IsWaiting(code, Top)
    PROVE  /\ Len(seq_stack) \in Frames /\ Top = seq_stack[Len(seq_stack)]
           /\ Current = Top /\ Current.current_component_idx \in Indexes(Current)
           /\ CurrentSlot = SlotAt(Top)
<1>1. StackReady /\ Top \in F /\ Len(seq_stack) \in Frames /\ Top = seq_stack[Len(seq_stack)]
  BY InSequence, ReadyIsTyped DEF Frames
<1>2. Top.current_component_idx \in Indexes(Top)
  BY <1>1 DEF Placed, PlacedAt
<1>3. Current = Top
  <2>1. /\ manifest_stack[Top.manifest] \in Seq(Slot)
        /\ Len(manifest_stack[Top.manifest]) <= MaxComponents
    BY <1>1 DEF StackReady, Maps, F, FrameType
  <2>2. Indexes(Top) \subseteq 0 .. MaxComponents - 1
    BY <2>1, LenProperties, SeqExecAssumption DEF Indexes
  <2>3. Top.current_component_idx # NoIndex
    BY <1>2, <2>2, SeqExecAssumption DEF NoIndex
  <2> QED BY <2>3 DEF Current, component_idx_get
<1> QED BY <1>1, <1>2, <1>3 DEF CurrentSlot, SlotAt

\* Nor does the end of a dependency-integrity.
LEMMA ReleaseSpares ==
    ASSUME Level, DependencyReleased, Placed, TameHere, StoredAbove, LeavesAreLeaves,
           ReleaseResults \subseteq {"SUCCESS"} => VerdictKept,
           integrity_checked \in [Slot -> BOOLEAN],
           NEW k \in Frames, ProcessWaits(seq_stack[k]),
           NEW s \in Slot, IsDependency(s), integrity_checked[s]
    PROVE  integrity_checked'[s]
<1>1. /\ op = "none" /\ AwaitsRegistry /\ Top.cmd_exec_state = Releasing /\ Running
  BY DEF DependencyReleased, AwaitsRegistry, AtCommand
<1>2. \/ integrity_checked' = integrity_checked
      \/ /\ Command(Top).op = "dependency_integrity" /\ Top.retval = "SUCCESS"
         /\ integrity_checked' = [integrity_checked EXCEPT ![CurrentSlot] = @ /\ op_ret = "SUCCESS"]
  BY DEF DependencyReleased
<1>3. CASE integrity_checked' = integrity_checked
  BY <1>3
<1>4. CASE /\ Command(Top).op = "dependency_integrity" /\ Top.retval = "SUCCESS"
           /\ integrity_checked' = [integrity_checked EXCEPT ![CurrentSlot] = @ /\ op_ret = "SUCCESS"]
  <2> DEFINE t == CurrentSlot
             b == op_ret = "SUCCESS"
  <2>1. b \in BOOLEAN /\ integrity_checked' = [integrity_checked EXCEPT ![t] = @ /\ b]
    BY <1>4
  <2>2. CASE b
    <3> HIDE DEF t
    <3> QED BY <2>1, <2>2
  <2>3. CASE s # t
    <3> HIDE DEF t, b
    <3> QED BY <2>1, <2>3
  <2>4. CASE s = t /\ ~b
    <3>1. /\ Top \in F /\ Top = seq_stack[Len(seq_stack)] /\ Len(seq_stack) \in Frames
          /\ Frames = 1 .. Len(seq_stack) /\ Len(seq_stack) \in Nat /\ StackReady
      BY <1>1, InSequence, ReadyIsTyped, FramesNow DEF Frames, Level
    <3>2. IsWaiting(code, Top) /\ Top.cmd_exec_state = Releasing
      BY <1>1 DEF AwaitsRegistry, AtCommand, IsWaiting, AtDependency, Command, Releasing, SEQ_MAX
    <3>3. k < Len(seq_stack)
      BY <1>1, <3>1 DEF ProcessWaits
    <3>4. PICK e : e = Top.manifest
      OBVIOUS
    <3>5. e \in Entry /\ Occupied(e)
      BY <3>3, <3>4, AboveWaiter DEF Level, ProcessWaits
    <3>6. envelope[e] \in Stored
      BY <3>5 DEF StoredAbove
    <3>7. AtVerdict
      BY <1>1, <1>4 DEF AtVerdict, AtRelease, AtRegistry
    <3>8. ~VerdictKept
      BY <1>1, <2>4, <3>7 DEF VerdictKept
    <3>9. Leaf(envelopes[envelope[e]])
      BY <3>6, <3>8, TameMeans
    <3>10. s = SlotAt(Top) /\ Top.current_component_idx \in Indexes(Top)
      BY <1>1, <2>4, <3>2, WaiterIsCurrent DEF Level
    <3> HIDE DEF t, b
    <3>11. manifest_stack[e] \in Seq(Slot)
      BY <3>5 DEF Level, PInv, Proofs!RegistryInv, Proofs!TypeOK, Entry, Proofs!Entry, Slot,
         Proofs!Slot
    <3>12. PICK i \in 0 .. Len(manifest_stack[e]) - 1 : s = manifest_stack[e][i + 1]
      BY <3>4, <3>10 DEF Indexes, SlotOf, SlotAt
    <3>13. Len(manifest_stack[e]) \in Nat /\ DOMAIN manifest_stack[e] = 1 .. Len(manifest_stack[e])
      BY <3>11, LenProperties
    <3>14. i + 1 \in DOMAIN manifest_stack[e]
      BY <3>13
    <3> QED BY <3>5, <3>9, <3>12, <3>14 DEF LeavesAreLeaves
  <2> QED BY <2>2, <2>3, <2>4
<1> QED BY <1>2, <1>3, <1>4

\* What changes the flags at all.
LEMMA FlagSteps ==
    ASSUME [Next]_vars
    PROVE  UNCHANGED integrity_checked \/ LoadStep \/ RunCommand \/ IntegrityHolds
           \/ DependencyReleased
<1>1. CASE UNCHANGED vars
  BY <1>1 DEF vars, store
<1>2. CASE ReleaseStep
  BY <1>2 DEF ReleaseStep, store
<1>3. CASE Loaded \/ ValidateNext \/ ValidationDone \/ DryRunNext \/ DryRunMain \/ DryRunRepeat
           \/ DryRunDone \/ ExecuteShared \/ ExecuteMain \/ (\E r \in PlatResults : Completed(r))
           \/ GiveUp \/ CallReturns \/ (\E n \in Calls : Call(n))
  BY <1>3 DEF Loaded, ValidateNext, ValidationDone, DryRunNext, DryRunMain, DryRunRepeat,
     DryRunDone, ExecuteShared, ExecuteMain, Completed, GiveUp, Leave, CallReturns, Call, store
<1>4. CASE LoadDependency \/ DependencyNotLoaded \/ LoadedForIntegrity
           \/ (\E r \in AuthResults : AuthorizeDependency(r))
           \/ ValidateForIntegrity \/ IntegrityFails \/ ValidateForProcess \/ ExecuteDependency
           \/ ProcessFails \/ \E r \in PlatResults : DependencyCompleted(r)
  BY <1>4 DEF LoadDependency, DependencyNotLoaded, LoadedForIntegrity, AuthorizeDependency,
     ValidateForIntegrity, IntegrityFails, ValidateForProcess, ExecuteDependency, ProcessFails,
     DependencyCompleted, ScheduleDependency, ReleaseDependency, store
<1> QED BY <1>1, <1>2, <1>3, <1>4 DEF Next, Step

LEMMA FlagsTyped ==
    ASSUME [Next]_vars, integrity_checked \in [Slot -> BOOLEAN]
    PROVE  integrity_checked' \in [Slot -> BOOLEAN]
<1>1. CASE LoadStep
  <2>1. \E slots : Wiped(slots)
    BY <1>1, Zenon DEF LoadStep
  <2> QED BY <2>1 DEF Wiped
<1>2. CASE RunCommand
  BY <1>2, StepFlags DEF RunCommand, SeqFlags
<1>3. CASE IntegrityHolds
  <2>1. \E t : integrity_checked' = [integrity_checked EXCEPT ![t] = TRUE]
    BY <1>3 DEF IntegrityHolds
  <2> QED BY <2>1
<1>4. CASE DependencyReleased
  <2>1. \/ integrity_checked' = integrity_checked
        \/ integrity_checked' = [integrity_checked EXCEPT ![CurrentSlot] = @ /\ op_ret = "SUCCESS"]
    BY <1>4 DEF DependencyReleased
  <2> DEFINE t == CurrentSlot
             b == op_ret = "SUCCESS"
  <2>2. b \in BOOLEAN /\ (\/ integrity_checked' = integrity_checked
                          \/ integrity_checked' = [integrity_checked EXCEPT ![t] = @ /\ b])
    BY <2>1
  <2> HIDE DEF t, b
  <2> QED BY <2>2
<1> QED BY <1>1, <1>2, <1>3, <1>4, FlagSteps

\* The flag that a process-dependency waits on stands.
TameInv ==
    /\ Placed /\ TameHere /\ StoredAbove /\ LeavesAreLeaves /\ ReadOnlyAbove
    /\ ReleaseResults \subseteq {"SUCCESS"} => VerdictKept

LEMMA FlagStands ==
    ASSUME Level, ResumedInPlace, TameInv, integrity_checked \in [Slot -> BOOLEAN],
           NEW k \in Frames, ProcessWaits(seq_stack[k]),
           NEW s, s = SlotAt(seq_stack[k]), integrity_checked[s]
    PROVE  integrity_checked'[s]
<1>1. /\ PInv /\ InStep /\ RegistryKept /\ [Next]_vars
      /\ Placed /\ TameHere /\ StoredAbove /\ LeavesAreLeaves /\ ReadOnlyAbove
      /\ (ReleaseResults \subseteq {"SUCCESS"} => VerdictKept)
      /\ IsWaiting(code, seq_stack[k])
  BY DEF Level, TameInv, ProcessWaits
<1>2. s \in Slot /\ components[s].ref_count # 0 /\ IsDependency(s)
  BY <1>1, WaiterSlot
<1>3. CASE LoadStep
  BY <1>2, <1>3, LoadSpares
<1>4. CASE RunCommand
  BY <1>1, <1>2, <1>4, CommandSpares
<1>5. CASE IntegrityHolds
  <2>1. \E t : integrity_checked' = [integrity_checked EXCEPT ![t] = TRUE]
    BY <1>5 DEF IntegrityHolds
  <2> QED BY <1>2, <2>1
<1>6. CASE DependencyReleased
  BY <1>1, <1>2, <1>6, ReleaseSpares
<1> QED BY <1>1, <1>3, <1>4, <1>5, <1>6, FlagSteps

LEMMA ChecksStep ==
    ASSUME Level, ResumedInPlace, TameInv, ChecksStand
    PROVE  ChecksStand'
<1>0. /\ integrity_checked \in [Slot -> BOOLEAN] /\ integrity_checked' \in [Slot -> BOOLEAN]
      /\ code' = code
  BY FlagsTyped, CodeStays DEF ChecksStand, Level
<1> SUFFICES ASSUME NEW k \in Frames', NEW g, g = seq_stack'[k], ProcessWaits(g)'
             PROVE  integrity_checked'[SlotAt(g)']
  BY <1>0 DEF ChecksStand, ProcessWaits, IsWaiting, AtDependency, Command, SlotAt, SlotOf, Slot
<1>1. ASSUME k \in Frames, ProcessWaits(seq_stack[k]), SamePlace(g, seq_stack[k])
      PROVE  integrity_checked'[SlotAt(g)']
  <2>1. integrity_checked[SlotAt(seq_stack[k])]
    BY <1>1 DEF ChecksStand
  <2>2. SlotAt(g)' = SlotAt(seq_stack[k])
    BY <1>1, WaiterSlotStays
  <2>3. PICK s : s = SlotAt(seq_stack[k])
    OBVIOUS
  <2>4. integrity_checked'[s]
    BY <1>0, <1>1, <2>1, <2>3, FlagStands
  <2> QED BY <2>2, <2>3, <2>4
<1>2. CASE LoadDependency => Registry!LoadRefused
  <2>1. k \in Frames /\ ProcessWaits(seq_stack[k]) /\ SamePlace(g, seq_stack[k])
    BY <1>2, WaiterProcesses
  <2> QED BY <1>1, <2>1
<1>3. CASE LoadDependency /\ ~Registry!LoadRefused
  <2> DEFINE f == [Current EXCEPT !.cmd_exec_state = Loading]
             n == Len(seq_stack)
  <2>1. Continue(f) /\ Running /\ op = "none" /\ ToLoad /\ On(DependencyCommands, Run)
    BY <1>3 DEF LoadDependency, ToLoad, On, At, AtCommand
  <2>2. StackReady /\ Current \in F /\ SameOwner(Current, Top)
        /\ Current.current_command = Top.current_command
    BY <2>1, InSequence, ReadyIsTyped, CurrentOf DEF Level, StackReady
  <2>3. f \in F
    BY <2>2 DEF F, FrameType, Loading
  <2>4. /\ f.manifest = Current.manifest /\ f.cmd_seq = Current.cmd_seq
        /\ f.current_command = Current.current_command
        /\ f.current_component_idx = Current.current_component_idx
    BY <2>2 DEF F, FrameType
  <2> HIDE DEF f
  <2>5. /\ Len(seq_stack') = n
        /\ \A i \in 1 .. n : seq_stack'[i] = IF i = n THEN f ELSE seq_stack[i]
    BY <2>1, <2>2, <2>3, ReadyIsTyped, ContinuedStack
  <2>6. /\ Frames = 1 .. n /\ n \in Nat /\ Frames' = 1 .. Len(seq_stack')
        /\ Top = seq_stack[n] /\ n \in Frames
    BY <2>2, FramesNow, FramesNext, ReadyIsTyped DEF Level
  <2>7. k \in 1 .. n
    BY <2>5, <2>6
  <2>8. CASE k = n
    <3>1. g = f
      BY <2>5, <2>6, <2>8
    <3>2. Command(Top).op = "process_dependency"
      <4>1. Command(g).op = "process_dependency"
        BY <1>0 DEF ProcessWaits, Command
      <4> QED BY <2>2, <2>4, <3>1, <4>1 DEF Command, SameOwner
    <3>3. integrity_checked[CurrentSlot]
      BY <2>1, <3>2 DEF ToLoad
    <3>4. SlotAt(g)' = CurrentSlot
      <4>1. Holds(Top.manifest)
        BY <2>6, FrameHolds
      <4> QED BY <2>2, <2>4, <3>1, <4>1 DEF SlotAt, SlotOf, Holds, CurrentSlot, SameOwner
    <3>5. integrity_checked' = integrity_checked
      BY <1>3 DEF LoadDependency, store
    <3> QED BY <3>3, <3>4, <3>5
  <2>9. CASE k # n
    <3>1. seq_stack'[k] = seq_stack[k] /\ k \in Frames
      BY <2>5, <2>6, <2>7, <2>9
    <3>2. ProcessWaits(seq_stack[k]) /\ SamePlace(g, seq_stack[k])
      BY <1>0, <3>1 DEF ProcessWaits, IsWaiting, AtDependency, Command, SamePlace
    <3> QED BY <1>1, <3>1, <3>2
  <2> QED BY <2>8, <2>9
<1> QED BY <1>2, <1>3

LEMMA StandingIsChecked ==
    ASSUME PInv, InStep, RegistryKept, Placed, ChecksStand
    PROVE  ResumedChecked /\ ResumedInPlace
<1>1. ResumedChecked
  <2> SUFFICES ASSUME op = "none", Running, Len(seq_stack) \in Open,
                      Command(Top).op = "process_dependency"
               PROVE  integrity_checked[CurrentSlot]
    BY DEF ResumedChecked
  <2>1. StackReady /\ Top \in F /\ Len(seq_stack) \in Frames /\ Top = seq_stack[Len(seq_stack)]
    BY InSequence, ReadyIsTyped DEF Open
  <2>2. /\ Top.current_command < Len(code[Top.cmd_seq])
        /\ Top.cmd_exec_state \in SHARED .. SEQ_MAX + 2
    BY <2>1 DEF Open
  <2>3. IsWaiting(code, Top) /\ Top.cmd_exec_state # Releasing
    BY <2>2 DEF IsWaiting, AtDependency, Command, DependencyCommands, SHARED, SEQ_MAX, Releasing
  <2>4. ProcessWaits(Top)
    BY <2>3 DEF ProcessWaits
  <2>5. CurrentSlot = SlotAt(Top)
    BY <2>3, WaiterIsCurrent
  <2> QED BY <2>1, <2>4, <2>5 DEF ChecksStand
<1> QED BY <1>1, PlacedIsInPlace

(***************************************************************************)
(* On a platform that denies no dependency, a dependency that has no       *)
(* dependencies itself, or modifies nothing and is always released, cannot *)
(* take back the check of the component it is executed from: the flag that *)
(* lets process-dependency load stands whenever the command is resumed     *)
(* (suit_directive.c line 465), whatever the root manifest does, however   *)
(* the commands nest and in whichever call it was set.                     *)
(*                                                                         *)
(* A command above one that waits runs in a dependency, and unchecks       *)
(* dependency components of that manifest only; a load wipes only slots    *)
(* that are free, and the slot of a command that waits is in use.          *)
(***************************************************************************)
THEOREM TameStaysChecked ==
    ASSUME ~DependencyDenied, \A w \in Worlds : Tame(w)
    PROVE  Spec => []ResumedChecked
<1> DEFINE Kept == InStep /\ RegistryKept /\ TameInv /\ ChecksStand
<1>1. Init => Kept
  <2> SUFFICES ASSUME Init PROVE Kept
    OBVIOUS
  <2>1. InStep /\ RegistryKept /\ Placed
    BY InitIsPlaced DEF AllPlaced
  <2>2. Frames = {} /\ manifest_stack_height = 0 /\ op = "none"
    BY DEF Init, Frames, Registry!Init
  <2>3. StoredAbove /\ LeavesAreLeaves /\ ReadOnlyAbove
    <3>1. \A e \in Entry : ~(Occupied(e) \/ Incoming(e))
      BY <2>2, SeqExecAssumption DEF Occupied, Incoming, Entry
    <3> QED BY <2>2, <3>1 DEF StoredAbove, LeavesAreLeaves, ReadOnlyAbove
  <2>4. TameHere
    <3>1. PICK w \in Worlds : envelopes = w.envelopes /\ code = w.code
      BY DEF Init
    <3> QED BY <3>1 DEF TameHere, Tame
  <2>5. ChecksStand
    BY <2>2 DEF Init, ChecksStand
  <2>6. VerdictKept
    BY DEF Init, VerdictKept, AtVerdict, AtRelease, AtRegistry, Running
  <2> QED BY <2>1, <2>3, <2>4, <2>5, <2>6 DEF TameInv
<1>2. PInv /\ Kept => ResumedChecked /\ ResumedInPlace
  BY StandingIsChecked DEF TameInv
<1>3. PInv /\ PInv' /\ Kept /\ [Next]_vars => Kept'
  <2> SUFFICES ASSUME PInv, PInv', Kept, [Next]_vars PROVE Kept'
    OBVIOUS
  <2>1. ResumedInPlace
    BY <1>2
  <2>2. InStep'
    BY <2>1, InStepStep
  <2>3. RegistryKept' /\ (Proofs!Next \/ UNCHANGED Proofs!vars)
    BY RegistryStepKept
  <2>4. Level
    BY <2>2, <2>3 DEF Level
  <2>5. /\ Placed /\ TameHere /\ StoredAbove /\ LeavesAreLeaves /\ ReadOnlyAbove
        /\ (ReleaseResults \subseteq {"SUCCESS"} => VerdictKept)
    BY DEF TameInv
  <2>6. Placed' /\ TameHere' /\ StoredAbove' /\ LeavesAreLeaves' /\ ReadOnlyAbove'
    BY <2>1, <2>4, <2>5, PlacedStep, TameStays, StoredStep, LeavesStep, ReadOnlyStep
  <2>7. (ReleaseResults \subseteq {"SUCCESS"} => VerdictKept)'
    BY <2>4, <2>5, VerdictStep
  <2>8. ChecksStand'
    BY <2>1, <2>4, ChecksStep
  <2> QED BY <2>2, <2>3, <2>6, <2>7, <2>8 DEF TameInv
<1> HIDE DEF Kept
<1> QED BY <1>1, <1>2, <1>3, ProcessorInvariant, PTL DEF Spec

(***************************************************************************)
(* So every dependency command is resumed where it waited, there is one    *)
(* manifest per command that waits, the processor implements the registry, *)
(* a dependency is processed with the manifest that was checked, and its   *)
(* shared sequence has no effect.                                          *)
(***************************************************************************)
THEOREM TameIsFaithful ==
    ASSUME ~DependencyDenied, \A w \in Worlds : Tame(w)
    PROVE  Spec => /\ []ResumedInPlace /\ []StacksAgree /\ UsesRegistry
                   /\ ProcessesWhatWasChecked /\ DependencySharedHasNoEffect
BY TameStaysChecked, CommandsResumeInPlace, CheckedStacksAgree, CheckedImplementsRegistry,
   CheckedProcessesTheChecked, CheckedDependencySharedIsInert, PTL

\* Calls leave nothing behind, and dependency-integrity never aborts one, if the
\* platform also releases what it is told to.
THEOREM TameLeavesNothing ==
    ASSUME ~DependencyDenied, ReleaseResults \subseteq {"SUCCESS"},
           \A w \in Worlds : Tame(w)
    PROVE  Spec => []IdleIsClean /\ IntegrityFailsSoftly
BY TameStaysChecked, CheckedCallsLeaveNothing, CheckedIntegrityNeverAborts, PTL
=============================================================================
