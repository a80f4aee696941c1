--------------------------- MODULE SeqExec_proofs ---------------------------
(***************************************************************************)
(* Proofs about the command sequence machine, for every pool size, every   *)
(* nesting depth and every program.  The many commands change the stack in *)
(* three ways only: the frame on top goes on (Continues), pushes a nested  *)
(* sequence (Nests) or ends (Ends).  Which way a step goes is settled here *)
(* once per command; what the modules that use the machine then prove is   *)
(* proved for the three ways and not for the commands again.               *)
(***************************************************************************)
EXTENDS SeqExec, FiniteSetTheorems, SequenceTheorems, TLAPS

\* What a command of this module may end with.  FAIL_SOFT_CONDITION is not in
\* it: only the end of a sequence makes it, out of FAIL_CONDITION.
Endings ==
    PlatResults \cup
    {"SUCCESS", "FAIL_CONDITION", "ERR_OVERFLOW", "ERR_MANIFEST_VALIDATION", "ERR_DECODING",
     "ERR_MISSING_COMPONENT", "ERR_CRASH", "ERR_TAMP", "ERR_ORDER", "ERR_UNSUPPORTED_ALG",
     "ERR_UNAVAILABLE_PAYLOAD", "ERR_UNAVAILABLE_PARAMETER", "ERR_UNSUPPORTED_PARAMETER",
     "ERR_UNSUPPORTED_COMMAND", "ERR_UNSUPPORTED_COMPONENT_ID"}

\* A frame whose retval is a member of R.
FrameType(R) ==
    [cmd_seq : DOMAIN code, current_command : Nat, cmd_exec_state : Nat, retval : R,
     soft_failure : BOOLEAN, current_component_idx : 0 .. MaxComponents,
     current_components : SUBSET Nat, current_components_backup : SUBSET Nat,
     manifest : Entry, cmd_processor : Run \cup Validate]

CallNames == Checks \cup Effects \cup {"override_image_size", "retrieve_manifest"}
CallType  == [call : CallNames, slot : Slot, dry_run : BOOLEAN, ret : PlatResults]

Maps == \A e \in Entry : /\ manifest_stack[e] \in Seq(Slot)
                         /\ Len(manifest_stack[e]) <= MaxComponents

AtEnd(f)  == f.current_command >= Len(code[f.cmd_seq])

\* The indexes in the frame are indexes of its manifest.
InMap(f) ==
    /\ f.current_component_idx \in Indexes(f) \cup {NoIndex}
    /\ f.current_components \subseteq Indexes(f)
    /\ f.current_components_backup \subseteq Indexes(f)

\* A frame inside the component loop stands at a command that is repeated for
\* every component, and has selected the one component it works on until the
\* command has scheduled something.
InLoop(f) ==
    f.current_component_idx # NoIndex =>
        /\ ~AtEnd(f)
        /\ Command(f).op \in ComponentCommands
        /\ f.cmd_exec_state = 0 => f.current_components = {f.current_component_idx}

\* A frame that waits for a nested sequence knows which one it has started, and
\* a frame that does not has no result to consume.
Waits(f) ==
    /\ f.cmd_exec_state = 0 => f.retval = "SUCCESS"
    /\ f.cmd_exec_state # 0 =>
          /\ f.current_component_idx # NoIndex
          /\ Command(f).op \in Nesting
          /\ f.cmd_exec_state \in DOMAIN Command(f).seqs

Sound(f) ==
    /\ f.current_command <= Len(code[f.cmd_seq])
    /\ InMap(f)
    /\ InLoop(f)
    /\ Waits(f)

-----------------------------------------------------------------------------
(***************************************************************************)
(* The three ways.                                                         *)
(***************************************************************************)
SameOwner(g, f) ==
    /\ g.cmd_seq = f.cmd_seq
    /\ g.manifest = f.manifest
    /\ g.cmd_processor = f.cmd_processor

\* A sequence that is alone on the stack keeps its soft-failure flag.
KeepsSoft(g) == Len(seq_stack) < 2 => g.soft_failure = Top.soft_failure

Continues(R) ==
    \E g \in FrameType(R) :
        /\ Sound(g) /\ SameOwner(g, Top) /\ KeepsSoft(g)
        /\ g.cmd_exec_state = 0
        /\ Continue(g)

Nests(R) ==
    \E g \in FrameType(R), soft \in BOOLEAN :
        /\ Sound(g) /\ SameOwner(g, Top) /\ KeepsSoft(g)
        /\ g.current_command = Top.current_command /\ ~MissingSetIndex
        /\ g.cmd_exec_state # 0
        /\ Len(seq_stack) < MaxSeqDepth
        /\ Push(g, Command(g).seqs[g.cmd_exec_state], soft, g.cmd_processor)

EndsWith(R, r) ==
    \E g \in FrameType(R) :
        /\ InMap(g) /\ SameOwner(g, Top) /\ KeepsSoft(g)
        /\ Finalize(g, r)

Ends(R) == \E r \in R \ {"FAIL_SOFT_CONDITION"} : EndsWith(R, r)

\* What the lemmas below assume of a state: R holds the results of the module
\* that uses the machine.
MachineOK(R) ==
    /\ Endings \cup {"FAIL_SOFT_CONDITION"} \subseteq R
    /\ IsProgram(code)
    /\ Maps
    /\ seq_stack \in Seq(FrameType(R))
    /\ Running => Sound(Top)

-----------------------------------------------------------------------------
(***************************************************************************)
(* The first and the last member of a set of indexes or of positions.      *)
(***************************************************************************)
LEMMA FirstOfSet ==
    ASSUME NEW S \in SUBSET Nat, S # {}
    PROVE  First(S) \in S /\ \A j \in S : First(S) <= j
<1> DEFINE T == {0 .. a : a \in S}
<1>1. IsWellFoundedOn(StrictSubsetOrdering(Nat), FiniteSubsetsOf(Nat))
  BY FS_StrictSubsetOrderingWellFounded
<1>2. T \subseteq FiniteSubsetsOf(Nat)
  <2>1. ASSUME NEW a \in S PROVE 0 .. a \in SUBSET Nat /\ IsFiniteSet(0 .. a)
    <3>1. a \in Int /\ 0 \in Int
      OBVIOUS
    <3> QED BY <3>1, FS_Interval
  <2> QED BY <2>1 DEF FiniteSubsetsOf
<1>3. T # {}
  OBVIOUS
<1>4. PICK x \in T : \A y \in T : ~(<<y, x>> \in StrictSubsetOrdering(Nat))
  BY <1>1, <1>2, <1>3, WFMin
<1>5. PICK m \in S : x = 0 .. m
  OBVIOUS
<1>6. ASSUME NEW t \in S PROVE m <= t
  <2>1. ~(<<0 .. t, 0 .. m>> \in StrictSubsetOrdering(Nat))
    BY <1>4, <1>5
  <2>2. t \in Nat /\ m \in Nat
    OBVIOUS
  <2>3. CASE t < m
    <3>1. m \in 0 .. m /\ m \notin 0 .. t
      BY <2>2, <2>3
    <3>2. 0 .. t \subseteq 0 .. m
      BY <2>2, <2>3
    <3>3. 0 .. t \in SUBSET Nat /\ 0 .. m \in SUBSET Nat
      BY <2>2
    <3> QED BY <2>1, <3>1, <3>2, <3>3 DEF StrictSubsetOrdering
  <2> QED BY <2>2, <2>3
<1> QED BY <1>6 DEF First

LEMMA LastOfSet ==
    ASSUME NEW n \in Nat, NEW S \in SUBSET (0 .. n), S # {}
    PROVE  Last(S) \in S
<1> DEFINE T == {n - j : j \in S}
<1>1. T \in SUBSET Nat /\ T # {}
  <2>1. \A j \in S : j \in 0 .. n
    OBVIOUS
  <2>2. \A j \in S : n - j \in Nat
    BY <2>1
  <2> QED BY <2>2
<1>2. First(T) \in T /\ \A t \in T : First(T) <= t
  BY <1>1, FirstOfSet
<1>3. PICK m \in S : First(T) = n - m
  BY <1>2
<1>4. \A j \in S : j <= m
  <2> TAKE j \in S
  <2>1. First(T) <= n - j
    BY <1>2
  <2> QED BY <1>3, <2>1
<1> QED BY <1>4 DEF Last

-----------------------------------------------------------------------------
(***************************************************************************)
(* The frame on top, its command and the component it is about.            *)
(***************************************************************************)
LEMMA TopTyped ==
    ASSUME NEW R, MachineOK(R), Running
    PROVE  /\ Top \in FrameType(R) /\ Sound(Top)
           /\ Len(seq_stack) \in Nat \ {0}
           /\ DOMAIN seq_stack = 1 .. Len(seq_stack)
<1>1. seq_stack \in Seq(FrameType(R)) /\ seq_stack # <<>> /\ Sound(Top)
  BY DEF MachineOK, Running
<1>2. Len(seq_stack) \in Nat \ {0} /\ DOMAIN seq_stack = 1 .. Len(seq_stack)
  BY <1>1, EmptySeq, LenProperties
<1>3. Top \in FrameType(R)
  BY <1>1, <1>2, ElementOfSeq DEF Top
<1> QED BY <1>1, <1>2, <1>3

LEMMA CommandTyped ==
    ASSUME NEW R, MachineOK(R), NEW f \in FrameType(R), ~AtEnd(f)
    PROVE  /\ Command(f) \in CommandType(DOMAIN code)
           /\ Len(code[f.cmd_seq]) \in Nat
           /\ f.current_command + 1 <= Len(code[f.cmd_seq])
           /\ Command(f).op = "run_sequence" => Command(f).seqs # <<>>
<1>1. f.cmd_seq \in DOMAIN code /\ f.current_command \in Nat
  BY DEF FrameType
<1>2. code[f.cmd_seq] \in Seq(CommandType(DOMAIN code))
  BY <1>1 DEF MachineOK, IsProgram
<1>3. Len(code[f.cmd_seq]) \in Nat /\ DOMAIN code[f.cmd_seq] = 1 .. Len(code[f.cmd_seq])
  BY <1>2, LenProperties
<1>4. f.current_command + 1 \in 1 .. Len(code[f.cmd_seq])
  BY <1>1, <1>3 DEF AtEnd
<1>5. Command(f) \in CommandType(DOMAIN code)
  BY <1>2, <1>4, ElementOfSeq DEF Command
<1>6. Command(f).op = "run_sequence" => Command(f).seqs # <<>>
  BY <1>1, <1>3, <1>4 DEF MachineOK, IsProgram, Command
<1> QED BY <1>3, <1>4, <1>5, <1>6

LEMMA IndexesTyped ==
    ASSUME NEW R, MachineOK(R), NEW f \in FrameType(R)
    PROVE  /\ Indexes(f) \subseteq 0 .. MaxComponents - 1
           /\ NoIndex \notin Indexes(f)
           /\ Indexes(f) = 0 .. Len(manifest_stack[f.manifest]) - 1
           /\ Len(manifest_stack[f.manifest]) \in Nat
           /\ \A i \in Indexes(f) : SlotOf(f, i) \in Slot
<1>1. f.manifest \in Entry
  BY DEF FrameType
<1>2. /\ manifest_stack[f.manifest] \in Seq(Slot)
      /\ Len(manifest_stack[f.manifest]) <= MaxComponents
  BY <1>1 DEF MachineOK, Maps
<1>3. Len(manifest_stack[f.manifest]) \in Nat
  BY <1>2, LenProperties
<1>4. \A i \in Indexes(f) : SlotOf(f, i) \in Slot
  <2> TAKE i \in Indexes(f)
  <2>1. i + 1 \in 1 .. Len(manifest_stack[f.manifest])
    BY <1>3 DEF Indexes
  <2> QED BY <1>2, <2>1, ElementOfSeq DEF SlotOf
<1> QED BY <1>2, <1>3, <1>4, SeqExecAssumption DEF Indexes, NoIndex

\* The component loop stays inside the selection and moves on to one component,
\* or restores the selection it has worked through.
LEMMA LoopMovesOn ==
    ASSUME NEW R, MachineOK(R), NEW f \in FrameType(R), InMap(f)
    PROVE  LET g == component_idx_next(f) IN
           /\ g \in FrameType(R) /\ InMap(g) /\ SameOwner(g, f)
           /\ g = [f EXCEPT !.current_components_backup = g.current_components_backup,
                            !.current_components = g.current_components,
                            !.current_component_idx = g.current_component_idx]
           /\ g.current_component_idx # NoIndex =>
                 g.current_components = {g.current_component_idx}
           /\ (f.current_component_idx = NoIndex /\ g.current_component_idx # NoIndex) =>
                 g.current_component_idx \in f.current_components
<1> DEFINE first    == f.current_component_idx = NoIndex
           selected == IF first THEN f.current_components ELSE f.current_components_backup
           rest     == {i \in selected \cap Indexes(f) : first \/ f.current_component_idx < i}
           comps    == IF rest = {} THEN selected ELSE {First(rest)}
           idx      == IF rest = {} THEN NoIndex ELSE First(rest)
           g        == component_idx_next(f)
<1>1. Indexes(f) \subseteq 0 .. MaxComponents - 1 /\ NoIndex \notin Indexes(f)
  BY IndexesTyped
<1>2. selected \subseteq Indexes(f) /\ rest \subseteq selected
  BY DEF InMap
<1>3. selected \in SUBSET Nat /\ rest \in SUBSET Nat
  BY <1>1, <1>2
<1>4. rest # {} => First(rest) \in rest
  BY <1>3, FirstOfSet
<1>5. comps \in SUBSET Nat /\ comps \subseteq Indexes(f)
  BY <1>2, <1>3, <1>4
<1>6. idx \in 0 .. MaxComponents /\ idx \in Indexes(f) \cup {NoIndex}
  BY <1>1, <1>2, <1>4, SeqExecAssumption DEF NoIndex
<1>7. g = [f EXCEPT !.current_components_backup = selected,
                    !.current_components = comps,
                    !.current_component_idx = idx]
  BY DEF component_idx_next
<1> HIDE DEF first, selected, rest, comps, idx, g
<1>8. /\ g \in FrameType(R) /\ SameOwner(g, f)
      /\ g.current_components_backup = selected
      /\ g.current_components = comps
      /\ g.current_component_idx = idx
      /\ g.manifest = f.manifest
  BY <1>3, <1>5, <1>6, <1>7 DEF FrameType, SameOwner
<1>9. InMap(g)
  BY <1>2, <1>5, <1>6, <1>8 DEF InMap, Indexes
<1>10. idx # NoIndex => comps = {idx}
  BY DEF idx, comps
<1>11. (f.current_component_idx = NoIndex /\ idx # NoIndex) => idx \in f.current_components
  BY <1>2, <1>4 DEF idx, first, selected
<1> QED BY <1>7, <1>8, <1>9, <1>10, <1>11 DEF g

-----------------------------------------------------------------------------
(***************************************************************************)
(* How a command ends determines the way.                                  *)
(***************************************************************************)
LEMMA CurrentTyped ==
    ASSUME NEW R, MachineOK(R), Running
    PROVE  /\ Current \in FrameType(R) /\ InMap(Current) /\ SameOwner(Current, Top)
           /\ Current.current_command = Top.current_command
           /\ Current.cmd_exec_state = Top.cmd_exec_state
           /\ Current.retval = Top.retval
           /\ Current.soft_failure = Top.soft_failure
           /\ Command(Current) = Command(Top)
           /\ Indexes(Current) = Indexes(Top)
           /\ Top.current_component_idx # NoIndex => Current = Top
           /\ (Top.current_component_idx = NoIndex /\ Current.current_component_idx # NoIndex) =>
                 /\ Current.current_component_idx \in Top.current_components
                 /\ Current.current_components = {Current.current_component_idx}
<1>1. Top \in FrameType(R) /\ InMap(Top)
  BY TopTyped DEF Sound
<1>2. CASE Top.current_component_idx # NoIndex
  <2>1. Current = Top
    BY <1>2 DEF Current, component_idx_get
  <2> QED BY <1>1, <1>2, <2>1 DEF SameOwner
<1>3. CASE Top.current_component_idx = NoIndex
  <2>1. Current = component_idx_next(Top)
    BY <1>3 DEF Current, component_idx_get
  <2>2. /\ Current \in FrameType(R) /\ InMap(Current) /\ SameOwner(Current, Top)
        /\ Current.current_component_idx # NoIndex =>
              /\ Current.current_components = {Current.current_component_idx}
              /\ Current.current_component_idx \in Top.current_components
        /\ Current = [Top EXCEPT !.current_components_backup = Current.current_components_backup,
                            !.current_components = Current.current_components,
                            !.current_component_idx = Current.current_component_idx]
    BY <1>1, <1>3, <2>1, LoopMovesOn
  <2> HIDE DEF Current
  <2>3. /\ Current.current_command = Top.current_command
        /\ Current.cmd_exec_state = Top.cmd_exec_state
        /\ Current.retval = Top.retval
        /\ Current.soft_failure = Top.soft_failure
    BY <1>1, <2>2 DEF FrameType
  <2>4. Command(Current) = Command(Top) /\ Indexes(Current) = Indexes(Top)
    BY <2>2, <2>3 DEF SameOwner, Command, Indexes
  <2> QED BY <1>3, <2>2, <2>3, <2>4
<1> QED BY <1>2, <1>3

\* A frame that has worked through its selection goes on with the next command.
LEMMA NextCommandSound ==
    ASSUME NEW R, MachineOK(R), NEW f \in FrameType(R), ~AtEnd(f), InMap(f),
           f.current_component_idx = NoIndex, f.retval = "SUCCESS"
    PROVE  /\ NextCommand(f) \in FrameType(R) /\ Sound(NextCommand(f))
           /\ SameOwner(NextCommand(f), f)
           /\ NextCommand(f).cmd_exec_state = 0
           /\ NextCommand(f).soft_failure = f.soft_failure
<1> DEFINE g == NextCommand(f)
<1>1. /\ g \in FrameType(R) /\ SameOwner(g, f)
      /\ g.current_command = f.current_command + 1
      /\ g.cmd_exec_state = 0 /\ g.retval = f.retval
      /\ g.soft_failure = f.soft_failure
      /\ g.current_component_idx = f.current_component_idx
      /\ g.current_components = f.current_components
      /\ g.current_components_backup = f.current_components_backup
  <2>1. g = [f EXCEPT !.current_command = f.current_command + 1, !.cmd_exec_state = 0]
    BY DEF NextCommand
  <2>2. f.current_command + 1 \in Nat
    BY DEF FrameType
  <2> HIDE DEF g
  <2> QED BY <2>1, <2>2 DEF FrameType, SameOwner
<1>2. f.current_command + 1 <= Len(code[f.cmd_seq])
  BY CommandTyped
<1> HIDE DEF g
<1>3. InMap(g)
  BY <1>1 DEF InMap, Indexes, SameOwner
<1>4. Sound(g)
  BY <1>1, <1>2, <1>3 DEF Sound, InLoop, Waits, SameOwner
<1> QED BY <1>1, <1>4 DEF g

LEMMA ReturnGoesOnOrEnds ==
    ASSUME NEW R, MachineOK(R), Running, ~AtEnd(Top), Command(Top).op \in ComponentCommands,
           NEW f \in FrameType(R), InMap(f), SameOwner(f, Top),
           f.current_command = Top.current_command, f.soft_failure = Top.soft_failure,
           NEW ret \in R, ret = "SUCCESS" => f.retval = "SUCCESS",
           Return(f, ret)
    PROVE  /\ ret = "SUCCESS" => Continues(R)
           /\ ret # "SUCCESS" => EndsWith(R, ret)
<1> DEFINE g == component_idx_next(f)
<1>1. /\ g \in FrameType(R) /\ InMap(g) /\ SameOwner(g, f)
      /\ g = [f EXCEPT !.current_components_backup = g.current_components_backup,
                       !.current_components = g.current_components,
                       !.current_component_idx = g.current_component_idx]
      /\ g.current_component_idx # NoIndex => g.current_components = {g.current_component_idx}
  BY LoopMovesOn
<1>2. Return(f, ret) <=> IF ret # "SUCCESS" THEN Finalize(g, ret)
                         ELSE IF g.current_component_idx # NoIndex
                              THEN Continue([g EXCEPT !.cmd_exec_state = 0])
                              ELSE Continue(NextCommand(g))
  BY DEF Return
<1> HIDE DEF g
<1>3. /\ g.current_command = f.current_command
      /\ g.retval = f.retval
      /\ g.soft_failure = f.soft_failure
  BY <1>1 DEF FrameType
<1>4. SameOwner(g, Top) /\ Command(g) = Command(Top) /\ ~AtEnd(g)
  BY <1>1, <1>3 DEF SameOwner, Command, AtEnd
<1>5. CASE ret # "SUCCESS"
  BY <1>1, <1>2, <1>3, <1>4, <1>5 DEF EndsWith, KeepsSoft
<1>6. CASE ret = "SUCCESS" /\ g.current_component_idx # NoIndex
  <2> DEFINE h == [g EXCEPT !.cmd_exec_state = 0]
  <2>1. /\ h \in FrameType(R) /\ SameOwner(h, g)
        /\ h.current_command = g.current_command
        /\ h.cmd_exec_state = 0 /\ h.retval = g.retval
        /\ h.soft_failure = g.soft_failure
        /\ h.current_component_idx = g.current_component_idx
        /\ h.current_components = g.current_components
        /\ h.current_components_backup = g.current_components_backup
    BY <1>1 DEF FrameType, SameOwner
  <2>2. Continue(h)
    BY <1>2, <1>6
  <2> HIDE DEF h
  <2>3. InMap(h)
    BY <1>1, <2>1 DEF InMap, Indexes, SameOwner
  <2>4. Command(h) = Command(Top) /\ ~AtEnd(h) /\ SameOwner(h, Top)
    BY <1>4, <2>1 DEF SameOwner, Command, AtEnd
  <2>5. h.current_command <= Len(code[h.cmd_seq])
    BY <2>1, <2>4, CommandTyped DEF FrameType
  <2>6. Sound(h)
    BY <1>1, <1>3, <1>6, <2>1, <2>3, <2>4, <2>5 DEF Sound, InLoop, Waits
  <2> QED BY <1>3, <1>6, <2>1, <2>2, <2>4, <2>6 DEF Continues, KeepsSoft
<1>7. CASE ret = "SUCCESS" /\ g.current_component_idx = NoIndex
  <2> DEFINE h == NextCommand(g)
  <2>1. /\ h \in FrameType(R) /\ Sound(h) /\ SameOwner(h, g)
        /\ h.cmd_exec_state = 0 /\ h.soft_failure = g.soft_failure
    BY <1>1, <1>3, <1>4, <1>7, NextCommandSound
  <2>2. Continue(h)
    BY <1>2, <1>7
  <2> HIDE DEF h
  <2>3. SameOwner(h, Top)
    BY <1>4, <2>1 DEF SameOwner
  <2> QED BY <1>3, <1>7, <2>1, <2>2, <2>3 DEF Continues, KeepsSoft
<1> QED BY <1>5, <1>6, <1>7

LEMMA OnComponent ==
    ASSUME NEW R, MachineOK(R), NEW ops \in SUBSET ComponentCommands, NEW processors,
           On(ops, processors)
    PROVE  /\ Running /\ ~AtEnd(Top) /\ ~MissingSetIndex
           /\ Command(Top).op \in ops
           /\ Top.cmd_processor \in processors
           /\ Current.current_component_idx \in Indexes(Current)
           /\ Current.current_component_idx # NoIndex
           /\ CurrentSlot \in Slot
           /\ Command(Top).op \notin Nesting =>
                 /\ Top.cmd_exec_state = 0
                 /\ Top.retval = "SUCCESS"
                 /\ CurrentSlot \in SlotsOf(Selected)
<1>1. /\ Running /\ Top.current_command < Len(code[Top.cmd_seq]) /\ ~MissingSetIndex
      /\ Command(Top).op \in ops
      /\ Top.cmd_processor \in processors
      /\ Current.current_component_idx \in Indexes(Current)
  BY DEF On, At, AtCommand
<1>2. Top \in FrameType(R) /\ Sound(Top) /\ Current \in FrameType(R)
  BY <1>1, TopTyped, CurrentTyped
<1>3. ~AtEnd(Top)
  <2>1. Top.cmd_seq \in DOMAIN code /\ Top.current_command \in Nat
    BY <1>2 DEF FrameType
  <2>2. Len(code[Top.cmd_seq]) \in Nat
    BY <2>1, LenProperties DEF MachineOK, IsProgram
  <2> QED BY <1>1, <2>1, <2>2 DEF AtEnd
<1>4. Current.current_component_idx # NoIndex /\ CurrentSlot \in Slot
  BY <1>1, <1>2, IndexesTyped DEF CurrentSlot
<1>5. ASSUME Command(Top).op \notin Nesting
      PROVE  /\ Top.cmd_exec_state = 0
             /\ Top.retval = "SUCCESS"
             /\ CurrentSlot \in SlotsOf(Selected)
  <2>1. Top.cmd_exec_state = 0 /\ Top.retval = "SUCCESS"
    BY <1>2, <1>5 DEF Sound, Waits
  <2>2. Current.current_component_idx \in Top.current_components
    <3>1. CASE Top.current_component_idx = NoIndex
      BY <1>1, <1>4, <3>1, CurrentTyped
    <3>2. CASE Top.current_component_idx # NoIndex
      BY <1>1, <1>2, <2>1, <3>2, CurrentTyped DEF Sound, InLoop
    <3> QED BY <3>1, <3>2
  <2>3. Current.current_component_idx \in Selected
    BY <1>1, <2>2, CurrentTyped DEF Selected
  <2>4. CurrentSlot = SlotOf(Top, Current.current_component_idx)
    BY <1>1, CurrentTyped DEF CurrentSlot, SlotOf, SameOwner
  <2> QED BY <2>1, <2>3, <2>4 DEF SlotsOf
<1> QED BY <1>1, <1>3, <1>4, <1>5

\* A command that is not a nesting one returns.
LEMMA ReturnOnComponent ==
    ASSUME NEW R, MachineOK(R), NEW ops \in SUBSET (ComponentCommands \ Nesting),
           NEW processors, On(ops, processors),
           NEW ret \in Endings, Return(Current, ret)
    PROVE  /\ Continues(R) \/ Ends(R)
           /\ ret # "SUCCESS" => EndsWith(R, ret)
<1>1. Running /\ ~AtEnd(Top) /\ Command(Top).op \in ComponentCommands /\ Top.retval = "SUCCESS"
  BY OnComponent
<1>2. ret \in R /\ ret # "FAIL_SOFT_CONDITION"
  BY SeqExecAssumption DEF MachineOK, Endings
<1>3. /\ ret = "SUCCESS" => Continues(R)
      /\ ret # "SUCCESS" => EndsWith(R, ret)
  BY <1>1, <1>2, CurrentTyped, ReturnGoesOnOrEnds
<1> QED BY <1>2, <1>3 DEF Ends

\* A nesting command schedules the sequence it has counted, if there is room.
LEMMA ScheduleNestsOrEnds ==
    ASSUME NEW R, MachineOK(R), Running, ~AtEnd(Top), ~MissingSetIndex,
           Command(Top).op \in Nesting,
           NEW f \in FrameType(R), InMap(f), SameOwner(f, Top),
           f.current_command = Top.current_command, f.soft_failure = Top.soft_failure,
           f.current_component_idx # NoIndex,
           f.cmd_exec_state # 0, f.cmd_exec_state \in DOMAIN Command(f).seqs,
           NEW soft \in BOOLEAN,
           Schedule(f, Command(f).seqs[f.cmd_exec_state], soft)
    PROVE  Nests(R) \/ Ends(R)
<1>1. Command(f) = Command(Top) /\ ~AtEnd(f)
  BY DEF SameOwner, Command, AtEnd
<1>2. CASE Len(seq_stack) < MaxSeqDepth
  <2>1. f.current_command <= Len(code[f.cmd_seq])
    BY <1>1, CommandTyped DEF FrameType
  <2>2. Sound(f)
    BY <1>1, <2>1 DEF Sound, InLoop, Waits, ComponentCommands
  <2>3. Push(f, Command(f).seqs[f.cmd_exec_state], soft, f.cmd_processor)
    BY <1>2 DEF Schedule
  <2> QED BY <1>2, <2>2, <2>3 DEF Nests, KeepsSoft
<1>3. CASE ~(Len(seq_stack) < MaxSeqDepth)
  <2>1. Return(f, "ERR_OVERFLOW")
    BY <1>3 DEF Schedule
  <2>2. "ERR_OVERFLOW" \in R /\ Command(Top).op \in ComponentCommands
    BY DEF MachineOK, Endings, ComponentCommands
  <2>3. EndsWith(R, "ERR_OVERFLOW")
    BY <2>1, <2>2, ReturnGoesOnOrEnds
  <2> QED BY <2>2, <2>3 DEF Ends
<1> QED BY <1>2, <1>3

LEMMA TryEachGoes ==
    ASSUME NEW R, MachineOK(R), TryEach
    PROVE  Continues(R) \/ Nests(R) \/ Ends(R)
<1> DEFINE f == Current
<1>1. /\ On({"try_each"}, Run \cup Validate)
      /\ IF ~NextAlternative(f) THEN Return(f, f.retval)
         ELSE IF MoreSequences(f)
              THEN Schedule(Started(f), Command(f).seqs[f.cmd_exec_state + 1], TRUE)
              ELSE Return([f EXCEPT !.retval = "SUCCESS"],
                          IF Command(f).nil THEN "SUCCESS" ELSE "ERR_CRASH")
  BY DEF TryEach
<1>2. {"try_each"} \in SUBSET ComponentCommands
  BY DEF ComponentCommands, Nesting
<1>3. /\ Running /\ ~AtEnd(Top) /\ ~MissingSetIndex
      /\ Command(Top).op = "try_each"
      /\ f.current_component_idx # NoIndex
  BY <1>1, <1>2, OnComponent
<1>4. Command(Top).op \in Nesting /\ Command(Top).op \in ComponentCommands
  BY <1>3 DEF ComponentCommands, Nesting
<1>5. /\ f \in FrameType(R) /\ InMap(f) /\ SameOwner(f, Top)
      /\ f.current_command = Top.current_command
      /\ f.soft_failure = Top.soft_failure
      /\ Command(f) = Command(Top)
  BY <1>3, CurrentTyped
<1> HIDE DEF f
<1>6. CASE ~NextAlternative(f)
  <2>1. f.retval \in R \ {"FAIL_SOFT_CONDITION"}
    BY <1>5, <1>6 DEF NextAlternative, FrameType
  <2> QED BY <1>1, <1>3, <1>4, <1>5, <1>6, <2>1, ReturnGoesOnOrEnds DEF Ends
<1>7. CASE NextAlternative(f) /\ MoreSequences(f)
  <2> DEFINE g == Started(f)
  <2>1. "SUCCESS" \in R /\ f.cmd_exec_state + 1 \in Nat
    BY <1>5 DEF MachineOK, Endings, FrameType
  <2>2. g = [f EXCEPT !.retval = "SUCCESS", !.cmd_exec_state = f.cmd_exec_state + 1]
    BY DEF Started
  <2> HIDE DEF g
  <2>3. /\ g \in FrameType(R) /\ SameOwner(g, f)
        /\ g.current_command = f.current_command
        /\ g.soft_failure = f.soft_failure
        /\ g.cmd_exec_state = f.cmd_exec_state + 1
        /\ g.current_component_idx = f.current_component_idx
        /\ g.current_components = f.current_components
        /\ g.current_components_backup = f.current_components_backup
    BY <1>5, <2>1, <2>2 DEF FrameType, SameOwner
  <2>4. InMap(g) /\ SameOwner(g, Top) /\ Command(g) = Command(Top)
    BY <1>5, <2>3 DEF InMap, Indexes, SameOwner, Command
  <2>5. g.cmd_exec_state # 0 /\ g.cmd_exec_state \in DOMAIN Command(g).seqs
    <3>1. f.cmd_exec_state < Len(Command(g).seqs)
      BY <1>5, <1>7, <2>4 DEF MoreSequences
    <3>2. Command(g).seqs \in Seq(DOMAIN code)
      BY <1>3, <2>4, CommandTyped, TopTyped DEF CommandType
    <3>3. f.cmd_exec_state \in Nat
      BY <1>5 DEF FrameType
    <3> QED BY <2>3, <3>1, <3>2, <3>3, LenProperties
  <2>6. Schedule(g, Command(g).seqs[g.cmd_exec_state], TRUE)
    BY <1>1, <1>5, <1>7, <2>3, <2>4 DEF g
  <2> QED BY <1>3, <1>4, <1>5, <2>3, <2>4, <2>5, <2>6, ScheduleNestsOrEnds
<1>8. CASE NextAlternative(f) /\ ~MoreSequences(f)
  <2> DEFINE g == [f EXCEPT !.retval = "SUCCESS"]
             r == IF Command(f).nil THEN "SUCCESS" ELSE "ERR_CRASH"
  <2>1. r \in R \ {"FAIL_SOFT_CONDITION"} /\ "SUCCESS" \in R
    BY DEF MachineOK, Endings
  <2>2. /\ g \in FrameType(R) /\ SameOwner(g, f)
        /\ g.retval = "SUCCESS"
        /\ g.current_command = f.current_command
        /\ g.soft_failure = f.soft_failure
        /\ g.current_component_idx = f.current_component_idx
        /\ g.current_components = f.current_components
        /\ g.current_components_backup = f.current_components_backup
    BY <1>5, <2>1 DEF FrameType, SameOwner
  <2>3. Return(g, r)
    BY <1>1, <1>8
  <2> HIDE DEF g, r
  <2>4. InMap(g) /\ SameOwner(g, Top)
    BY <1>5, <2>2 DEF InMap, Indexes, SameOwner
  <2> QED BY <1>3, <1>4, <1>5, <2>1, <2>2, <2>3, <2>4, ReturnGoesOnOrEnds DEF Ends
<1> QED BY <1>6, <1>7, <1>8

LEMMA RunSequenceGoes ==
    ASSUME NEW R, MachineOK(R), RunSequence
    PROVE  Continues(R) \/ Nests(R) \/ Ends(R)
<1> DEFINE f   == Current
           ret == IF f.retval = "FAIL_SOFT_CONDITION" THEN "SUCCESS" ELSE f.retval
<1>1. /\ On({"run_sequence"}, Run \cup Validate)
      /\ IF f.cmd_exec_state = 0
         THEN Schedule([f EXCEPT !.cmd_exec_state = 1], Command(f).seqs[1], FALSE)
         ELSE Return([f EXCEPT !.retval = ret], ret)
  BY DEF RunSequence
<1>2. {"run_sequence"} \in SUBSET ComponentCommands
  BY DEF ComponentCommands, Nesting
<1>3. /\ Running /\ ~AtEnd(Top) /\ ~MissingSetIndex
      /\ Command(Top).op = "run_sequence"
      /\ f.current_component_idx # NoIndex
  BY <1>1, <1>2, OnComponent
<1>4. Command(Top).op \in Nesting /\ Command(Top).op \in ComponentCommands
  BY <1>3 DEF ComponentCommands, Nesting
<1>5. /\ f \in FrameType(R) /\ InMap(f) /\ SameOwner(f, Top)
      /\ f.current_command = Top.current_command
      /\ f.soft_failure = Top.soft_failure
      /\ Command(f) = Command(Top)
  BY <1>3, CurrentTyped
<1>6. ret \in R \ {"FAIL_SOFT_CONDITION"}
  BY <1>5 DEF FrameType, MachineOK, Endings
<1> HIDE DEF f, ret
<1>7. CASE f.cmd_exec_state = 0
  <2> DEFINE g == [f EXCEPT !.cmd_exec_state = 1]
  <2>1. /\ g \in FrameType(R) /\ SameOwner(g, f)
        /\ g.current_command = f.current_command
        /\ g.soft_failure = f.soft_failure
        /\ g.cmd_exec_state = 1
        /\ g.current_component_idx = f.current_component_idx
        /\ g.current_components = f.current_components
        /\ g.current_components_backup = f.current_components_backup
    BY <1>5 DEF FrameType, SameOwner
  <2>2. Schedule(g, Command(f).seqs[1], FALSE)
    BY <1>1, <1>7
  <2> HIDE DEF g
  <2>3. InMap(g) /\ SameOwner(g, Top) /\ Command(g) = Command(Top)
    BY <1>5, <2>1 DEF InMap, Indexes, SameOwner, Command
  <2>4. 1 \in DOMAIN Command(g).seqs
    <3>1. Command(g).seqs \in Seq(DOMAIN code) /\ Command(g).seqs # <<>>
      BY <1>3, <2>3, CommandTyped, TopTyped DEF CommandType
    <3>2. Len(Command(g).seqs) \in Nat \ {0}
      BY <3>1, EmptySeq
    <3> QED BY <3>1, <3>2, LenProperties
  <2>5. Schedule(g, Command(g).seqs[g.cmd_exec_state], FALSE)
    BY <1>5, <2>1, <2>2, <2>3
  <2>6. g.cmd_exec_state # 0 /\ g.cmd_exec_state \in DOMAIN Command(g).seqs
    BY <2>1, <2>4
  <2> QED BY <1>3, <1>4, <1>5, <2>1, <2>3, <2>5, <2>6, ScheduleNestsOrEnds
<1>8. CASE f.cmd_exec_state # 0
  <2> DEFINE g == [f EXCEPT !.retval = ret]
  <2>1. /\ g \in FrameType(R) /\ SameOwner(g, f)
        /\ g.retval = ret
        /\ g.current_command = f.current_command
        /\ g.soft_failure = f.soft_failure
        /\ g.current_component_idx = f.current_component_idx
        /\ g.current_components = f.current_components
        /\ g.current_components_backup = f.current_components_backup
    BY <1>5, <1>6 DEF FrameType, SameOwner
  <2>2. Return(g, ret)
    BY <1>1, <1>8
  <2> HIDE DEF g
  <2>3. InMap(g) /\ SameOwner(g, Top)
    BY <1>5, <2>1 DEF InMap, Indexes, SameOwner
  <2> QED BY <1>3, <1>4, <1>5, <1>6, <2>1, <2>2, <2>3, ReturnGoesOnOrEnds DEF Ends
<1> QED BY <1>7, <1>8

-----------------------------------------------------------------------------
(***************************************************************************)
(* The commands that read or change the frame itself.                      *)
(***************************************************************************)
LEMMA AtFrame ==
    ASSUME NEW R, MachineOK(R), AtCommand
    PROVE  /\ Running /\ ~AtEnd(Top)
           /\ Top \in FrameType(R) /\ Sound(Top) /\ InMap(Top)
           /\ Top.current_component_idx # NoIndex => Command(Top).op \in ComponentCommands
           /\ Command(Top) \in CommandType(DOMAIN code)
<1>1. Running /\ Top.current_command < Len(code[Top.cmd_seq])
  BY DEF AtCommand
<1>2. Top \in FrameType(R) /\ Sound(Top)
  BY <1>1, TopTyped
<1>3. ~AtEnd(Top)
  <2>1. Top.cmd_seq \in DOMAIN code /\ Top.current_command \in Nat
    BY <1>2 DEF FrameType
  <2>2. Len(code[Top.cmd_seq]) \in Nat
    BY <2>1, LenProperties DEF MachineOK, IsProgram
  <2> QED BY <1>1, <2>1, <2>2 DEF AtEnd
<1> QED BY <1>1, <1>2, <1>3, CommandTyped DEF Sound, InLoop

\* The frame ends as it is.
LEMMA TopEnds ==
    ASSUME NEW R, MachineOK(R), Running, NEW ret \in Endings, Finalize(Top, ret)
    PROVE  Ends(R) /\ EndsWith(R, ret)
<1>1. Top \in FrameType(R) /\ InMap(Top)
  BY TopTyped DEF Sound
<1>2. ret \in R \ {"FAIL_SOFT_CONDITION"}
  BY SeqExecAssumption DEF MachineOK, Endings
<1> QED BY <1>1, <1>2 DEF Ends, EndsWith, SameOwner, KeepsSoft

LEMMA SetComponentIndexGoes ==
    ASSUME NEW R, MachineOK(R), SetComponentIndex
    PROVE  Continues(R) \/ Ends(R)
<1> DEFINE select == Command(Top).select
           comps  == IF select = {} THEN Indexes(Top) ELSE select \cap Indexes(Top)
           f      == [Top EXCEPT !.current_components = comps]
           r      == IF Top.cmd_processor \in Run THEN "ERR_MISSING_COMPONENT"
                     ELSE "ERR_MANIFEST_VALIDATION"
<1>1. /\ AtCommand /\ Command(Top).op = "set_component_index"
      /\ IF select \subseteq Indexes(Top) THEN Continue(NextCommand(f)) ELSE Finalize(f, r)
  BY DEF SetComponentIndex, At
<1>2. /\ Running /\ ~AtEnd(Top)
      /\ Top \in FrameType(R) /\ Sound(Top) /\ InMap(Top)
      /\ Top.current_component_idx # NoIndex => Command(Top).op \in ComponentCommands
  BY <1>1, AtFrame
<1>3. /\ Top.current_component_idx = NoIndex
      /\ Command(Top).op \notin Nesting
  BY <1>1, <1>2 DEF ComponentCommands, Nesting, Checks, Effects, DependencyCommands
<1>4. Top.retval = "SUCCESS"
  BY <1>2, <1>3 DEF Sound, Waits
<1>5. Indexes(Top) \subseteq 0 .. MaxComponents - 1
  BY <1>2, IndexesTyped
<1>6. comps \in SUBSET Nat /\ comps \subseteq Indexes(Top)
  BY <1>5
<1>7. r \in R \ {"FAIL_SOFT_CONDITION"}
  BY DEF MachineOK, Endings
<1> HIDE DEF comps, r
<1>8. /\ f \in FrameType(R) /\ SameOwner(f, Top)
      /\ f.current_command = Top.current_command
      /\ f.retval = Top.retval
      /\ f.soft_failure = Top.soft_failure
      /\ f.current_component_idx = Top.current_component_idx
      /\ f.current_components = comps
      /\ f.current_components_backup = Top.current_components_backup
  BY <1>2, <1>6 DEF FrameType, SameOwner
<1> HIDE DEF f
<1>9. InMap(f) /\ ~AtEnd(f)
  BY <1>2, <1>6, <1>8 DEF InMap, Indexes, SameOwner, AtEnd
<1>10. CASE select \subseteq Indexes(Top)
  <2>1. /\ NextCommand(f) \in FrameType(R) /\ Sound(NextCommand(f))
        /\ SameOwner(NextCommand(f), f) /\ NextCommand(f).cmd_exec_state = 0
        /\ NextCommand(f).soft_failure = f.soft_failure
    BY <1>3, <1>4, <1>8, <1>9, NextCommandSound
  <2>2. SameOwner(NextCommand(f), Top)
    BY <1>8, <2>1 DEF SameOwner
  <2> QED BY <1>1, <1>8, <1>10, <2>1, <2>2 DEF Continues, KeepsSoft
<1>11. CASE ~(select \subseteq Indexes(Top))
  BY <1>1, <1>7, <1>8, <1>9, <1>11 DEF Ends, EndsWith, KeepsSoft
<1> QED BY <1>10, <1>11

LEMMA SkipCommandGoes ==
    ASSUME NEW R, MachineOK(R), SkipCommand
    PROVE  Continues(R)
<1>1. /\ AtCommand
      /\ Current.current_component_idx = NoIndex
      /\ Continue(NextCommand(Current))
  BY DEF SkipCommand, At
<1>2. Running /\ ~AtEnd(Top) /\ Top \in FrameType(R) /\ Sound(Top)
  BY <1>1, AtFrame
<1>3. /\ Current \in FrameType(R) /\ InMap(Current) /\ SameOwner(Current, Top)
      /\ Current.current_command = Top.current_command
      /\ Current.retval = Top.retval
      /\ Current.soft_failure = Top.soft_failure
      /\ Top.current_component_idx # NoIndex => Current = Top
  BY <1>2, CurrentTyped
<1>4. ~AtEnd(Current)
  BY <1>2, <1>3 DEF AtEnd, SameOwner
<1>5. Current.retval = "SUCCESS"
  BY <1>1, <1>2, <1>3 DEF Sound, Waits
<1>6. /\ NextCommand(Current) \in FrameType(R) /\ Sound(NextCommand(Current))
      /\ SameOwner(NextCommand(Current), Current)
      /\ NextCommand(Current).cmd_exec_state = 0
      /\ NextCommand(Current).soft_failure = Current.soft_failure
  BY <1>1, <1>3, <1>4, <1>5, NextCommandSound
<1>7. SameOwner(NextCommand(Current), Top)
  BY <1>3, <1>6 DEF SameOwner
<1> QED BY <1>1, <1>3, <1>6, <1>7 DEF Continues, KeepsSoft

\* The soft-failure flag after the first n parameters of a list.
LEMMA SoftFailureTyped ==
    ASSUME NEW params \in Seq(STRING), NEW n, Top.soft_failure \in BOOLEAN
    PROVE  /\ SoftFailureAfter(params, n) \in BOOLEAN
           /\ {k \in SoftPositions(params) : k <= n} = {} =>
                 SoftFailureAfter(params, n) = Top.soft_failure
<1> DEFINE soft == {k \in SoftPositions(params) : k <= n}
<1>1. SoftFailureAfter(params, n) =
         IF soft = {} THEN Top.soft_failure ELSE SoftFailure[params[Last(soft)]]
  BY DEF SoftFailureAfter
<1>2. ASSUME soft # {} PROVE SoftFailure[params[Last(soft)]] \in BOOLEAN
  <2>1. Len(params) \in Nat /\ DOMAIN params = 1 .. Len(params)
    BY LenProperties
  <2>2. soft \in SUBSET (0 .. Len(params))
    BY <2>1 DEF SoftPositions
  <2>3. Last(soft) \in soft
    BY <1>2, <2>1, <2>2, LastOfSet
  <2>4. params[Last(soft)] \in DOMAIN SoftFailure
    BY <2>3 DEF SoftPositions
  <2>5. SoftFailure.soft_failure_true = TRUE /\ SoftFailure.soft_failure_false = FALSE
    BY DEF SoftFailure
  <2>6. DOMAIN SoftFailure = {"soft_failure_true", "soft_failure_false"}
    BY DEF SoftFailure
  <2> QED BY <2>4, <2>5, <2>6
<1> QED BY <1>1, <1>2

LEMMA OverrideGoes ==
    ASSUME NEW R, MachineOK(R), Override
    PROVE  Continues(R) \/ Ends(R)
<1> DEFINE params == Command(Top).params
           stop   == Refused(params)
           n      == IF stop = {} THEN Len(params) ELSE First(stop) - 1
           soft   == SoftFailureAfter(params, n)
           f      == [Top EXCEPT !.soft_failure = soft]
<1>1. /\ AtCommand /\ Command(Top).op = "override_parameters"
      /\ IF stop = {} THEN Continue(NextCommand(f)) ELSE Finalize(Top, "ERR_UNSUPPORTED_COMMAND")
  BY DEF Override, At
<1>2. /\ Running /\ ~AtEnd(Top)
      /\ Top \in FrameType(R) /\ Sound(Top) /\ InMap(Top)
      /\ Top.current_component_idx # NoIndex => Command(Top).op \in ComponentCommands
      /\ params \in Seq(STRING)
  BY <1>1, AtFrame DEF CommandType
<1>3. Top.current_component_idx = NoIndex /\ Command(Top).op \notin Nesting
  BY <1>1, <1>2 DEF ComponentCommands, Nesting, Checks, Effects, DependencyCommands
<1>4. Top.retval = "SUCCESS"
  BY <1>2, <1>3 DEF Sound, Waits
<1>5. CASE stop # {}
  <2>1. "ERR_UNSUPPORTED_COMMAND" \in Endings
    BY DEF Endings
  <2> QED BY <1>1, <1>2, <1>5, <2>1, TopEnds
<1>6. CASE stop = {}
  <2>1. soft \in BOOLEAN /\ (Len(seq_stack) < 2 => soft = Top.soft_failure)
    <3>1. Top.soft_failure \in BOOLEAN
      BY <1>2 DEF FrameType
    <3>2. Len(seq_stack) < 2 => SoftPositions(params) = {}
      BY <1>6 DEF Refused
    <3> QED BY <1>2, <3>1, <3>2, SoftFailureTyped
  <2>2. Continue(NextCommand(f))
    BY <1>1, <1>6
  <2> HIDE DEF soft
  <2>3. /\ f \in FrameType(R) /\ SameOwner(f, Top)
        /\ f.current_command = Top.current_command
        /\ f.retval = Top.retval
        /\ f.soft_failure = soft
        /\ f.current_component_idx = Top.current_component_idx
        /\ f.current_components = Top.current_components
        /\ f.current_components_backup = Top.current_components_backup
    BY <1>2, <2>1 DEF FrameType, SameOwner
  <2> HIDE DEF f
  <2>4. InMap(f) /\ ~AtEnd(f)
    BY <1>2, <2>3 DEF InMap, Indexes, SameOwner, AtEnd
  <2>5. /\ NextCommand(f) \in FrameType(R) /\ Sound(NextCommand(f))
        /\ SameOwner(NextCommand(f), f) /\ NextCommand(f).cmd_exec_state = 0
        /\ NextCommand(f).soft_failure = f.soft_failure
    BY <1>3, <1>4, <2>3, <2>4, NextCommandSound
  <2>6. SameOwner(NextCommand(f), Top)
    BY <2>3, <2>5 DEF SameOwner
  <2> QED BY <2>1, <2>2, <2>3, <2>5, <2>6 DEF Continues, KeepsSoft
<1> QED BY <1>5, <1>6

LEMMA OverrideSizeFailsEnds ==
    ASSUME NEW R, MachineOK(R), NEW i \in 0 .. MaxComponents - 1,
           NEW ret \in PlatResults, OverrideSizeFails(i, ret)
    PROVE  Ends(R) /\ EndsWith(R, ret)
<1> DEFINE params == Command(Top).params
           n      == First(Positions(params, "image_size"))
           soft   == SoftFailureAfter(params, n)
           f      == [Top EXCEPT !.soft_failure = soft,
                                 !.current_components_backup = Top.current_components,
                                 !.current_component_idx = i]
<1>1. /\ AtCommand /\ SetsSize(params) /\ i \in Selected
      /\ \A j \in Refused(params) : n < j
      /\ Finalize(component_idx_next(f), ret)
  BY DEF OverrideSizeFails, At
<1>2. /\ Top \in FrameType(R) /\ InMap(Top) /\ params \in Seq(STRING)
  BY <1>1, AtFrame DEF CommandType
<1>3. n \in Nat
  <2>1. Len(params) \in Nat /\ DOMAIN params = 1 .. Len(params)
    BY <1>2, LenProperties
  <2>2. Positions(params, "image_size") \in SUBSET Nat
    BY <2>1 DEF Positions
  <2>3. Positions(params, "image_size") # {}
    BY <1>1, <2>1 DEF SetsSize, Upto, Positions
  <2> QED BY <2>2, <2>3, FirstOfSet
<1>4. soft \in BOOLEAN /\ (Len(seq_stack) < 2 => soft = Top.soft_failure)
  <2>1. Top.soft_failure \in BOOLEAN
    BY <1>2 DEF FrameType
  <2>2. ASSUME Len(seq_stack) < 2 PROVE {k \in SoftPositions(params) : k <= n} = {}
    <3>1. \A j \in SoftPositions(params) : n < j /\ j \in Nat
      BY <1>1, <1>2, <2>2, LenProperties DEF Refused, SoftPositions
    <3> QED BY <1>3, <3>1
  <2> QED BY <1>2, <2>1, <2>2, SoftFailureTyped
<1>5. i \in Indexes(Top) /\ i \in 0 .. MaxComponents
  BY <1>1, SeqExecAssumption DEF Selected
<1>6. Finalize(component_idx_next(f), ret)
  BY <1>1
<1> HIDE DEF soft
<1>7. /\ f \in FrameType(R) /\ SameOwner(f, Top)
      /\ f.soft_failure = soft
      /\ f.current_component_idx = i
      /\ f.current_components = Top.current_components
      /\ f.current_components_backup = Top.current_components
  BY <1>2, <1>4, <1>5 DEF FrameType, SameOwner
<1> HIDE DEF f
<1>8. InMap(f)
  BY <1>2, <1>5, <1>7 DEF InMap, Indexes, SameOwner
<1> DEFINE g == component_idx_next(f)
<1>9. /\ g \in FrameType(R) /\ InMap(g) /\ SameOwner(g, f)
      /\ g = [f EXCEPT !.current_components_backup = g.current_components_backup,
                       !.current_components = g.current_components,
                       !.current_component_idx = g.current_component_idx]
  BY <1>7, <1>8, LoopMovesOn
<1>10. Finalize(g, ret)
  BY <1>6
<1> HIDE DEF g
<1>11. g.soft_failure = f.soft_failure /\ SameOwner(g, Top)
  BY <1>7, <1>9 DEF FrameType, SameOwner
<1>12. EndsWith(R, ret)
  BY <1>4, <1>7, <1>9, <1>10, <1>11 DEF EndsWith, KeepsSoft
<1>13. ret \in R \ {"FAIL_SOFT_CONDITION"}
  BY SeqExecAssumption DEF MachineOK, Endings
<1> QED BY <1>12, <1>13 DEF Ends

LEMMA ValidateOverrideGoes ==
    ASSUME NEW R, MachineOK(R), ValidateOverride
    PROVE  Continues(R)
<1>1. AtCommand /\ Command(Top).op = "override_parameters" /\ Continue(NextCommand(Top))
  BY DEF ValidateOverride, At
<1>2. /\ Running /\ ~AtEnd(Top)
      /\ Top \in FrameType(R) /\ Sound(Top) /\ InMap(Top)
      /\ Top.current_component_idx # NoIndex => Command(Top).op \in ComponentCommands
  BY <1>1, AtFrame
<1>3. Top.current_component_idx = NoIndex /\ Command(Top).op \notin Nesting
  BY <1>1, <1>2 DEF ComponentCommands, Nesting, Checks, Effects, DependencyCommands
<1>4. Top.retval = "SUCCESS"
  BY <1>2, <1>3 DEF Sound, Waits
<1> QED BY <1>1, <1>2, <1>3, <1>4, NextCommandSound DEF Continues, KeepsSoft

LEMMA RejectCommandEnds ==
    ASSUME NEW R, MachineOK(R), RejectCommand
    PROVE  Ends(R)
<1>1. AtCommand /\ (Finalize(Top, "ERR_MANIFEST_VALIDATION") \/ Finalize(Top, "ERR_DECODING"))
  BY DEF RejectCommand
<1>2. Running
  BY <1>1 DEF AtCommand
<1>3. "ERR_MANIFEST_VALIDATION" \in Endings /\ "ERR_DECODING" \in Endings
  BY DEF Endings
<1> QED BY <1>1, <1>2, <1>3, TopEnds

LEMMA EndOfSequenceEnds ==
    ASSUME NEW R, MachineOK(R), EndOfSequence
    PROVE  Ends(R)
<1>1. Running /\ Finalize(Top, "SUCCESS") /\ "SUCCESS" \in Endings
  BY DEF EndOfSequence, Endings
<1> QED BY <1>1, TopEnds

\* The manifest is there as long as the frames are in its map.
LEMMA ComponentStays ==
    ASSUME NEW R, MachineOK(R)
    PROVE  ~ComponentGone
<1> SUFFICES ASSUME ComponentGone PROVE FALSE
  OBVIOUS
<1>1. AtCommand /\ Current.current_component_idx \notin Indexes(Current) \cup {NoIndex}
  BY DEF ComponentGone, At
<1>2. Running
  BY <1>1 DEF AtCommand
<1>3. InMap(Current)
  BY <1>2, CurrentTyped
<1> QED BY <1>1, <1>3 DEF InMap

-----------------------------------------------------------------------------
(***************************************************************************)
(* Every step takes one of the three ways.                                 *)
(***************************************************************************)
LEMMA SetParametersReturns ==
    ASSUME NEW ret \in PlatResults, SetParameters(ret)
    PROVE  /\ On({"set_parameters"}, Run)
           /\ \E e \in Endings : Return(Current, e)
           /\ ret # "SUCCESS" => Return(Current, ret)
           /\ call' = NoCall \/ Called("override_image_size", ret)
<1> DEFINE s      == CurrentSlot
           params == Command(Top).params
           soft   == SoftPositions(params)
           size   == IF "image_size" \in parameters[s] THEN {}
                     ELSE {k \in Positions(params, "image_size") : \A j \in soft : k < j}
           stop   == IF ret = "SUCCESS" THEN soft ELSE size
           e      == IF stop = {} THEN "SUCCESS"
                     ELSE IF ret = "SUCCESS" THEN "ERR_UNSUPPORTED_PARAMETER" ELSE ret
<1>1. /\ On({"set_parameters"}, Run)
      /\ ret # "SUCCESS" => size # {}
      /\ Return(Current, e)
      /\ IF size = {} THEN call' = NoCall ELSE Called("override_image_size", ret)
  BY DEF SetParameters
<1> HIDE DEF size, soft
<1>2. e \in Endings /\ (ret # "SUCCESS" => e = ret)
  BY <1>1 DEF Endings
<1> HIDE DEF e
<1> QED BY <1>1, <1>2

LEMMA RefusedReturns ==
    ASSUME \/ DependencyIntegrityRefused \/ ProcessDependencyRefused
           \/ \E ret \in PlatResults \ {"SUCCESS"} : RetrieveFails(ret)
    PROVE  /\ On(DependencyCommands, Run)
           /\ \E e \in Endings : Return(Current, e)
<1>1. CASE DependencyIntegrityRefused
  <2> DEFINE e == CASE components[CurrentSlot].is_dependency = "false" -> "FAIL_CONDITION"
                    [] IsDependency(CurrentSlot) -> "SUCCESS"
                    [] OTHER -> "ERR_TAMP"
  <2>1. On({"dependency_integrity"}, Run) /\ Return(Current, e)
    BY <1>1 DEF DependencyIntegrityRefused
  <2>2. e \in Endings
    BY DEF Endings, IsDependency
  <2> QED BY <2>1, <2>2 DEF On, At, DependencyCommands
<1>2. CASE ProcessDependencyRefused
  <2> DEFINE e == CASE components[CurrentSlot].is_dependency = "false" ->
                         "ERR_UNSUPPORTED_COMPONENT_ID"
                    [] IsDependency(CurrentSlot) -> (IF dry_run THEN "SUCCESS" ELSE "ERR_ORDER")
                    [] OTHER -> "ERR_TAMP"
  <2>1. On({"process_dependency"}, Run) /\ Return(Current, e)
    BY <1>2 DEF ProcessDependencyRefused
  <2>2. e \in Endings
    BY DEF Endings, IsDependency
  <2> QED BY <2>1, <2>2 DEF On, At, DependencyCommands
<1>3. ASSUME NEW ret \in PlatResults \ {"SUCCESS"}, RetrieveFails(ret)
      PROVE  /\ On(DependencyCommands, Run)
             /\ \E e \in Endings : Return(Current, e)
  <2> DEFINE e == IF Command(Top).op = "dependency_integrity" THEN "FAIL_CONDITION" ELSE ret
  <2>1. On(DependencyCommands, Run) /\ Return(Current, e)
    BY <1>3 DEF RetrieveFails, ToLoad, LoadFailed
  <2>2. e \in Endings
    BY DEF Endings
  <2> QED BY <2>1, <2>2
<1> QED BY <1>1, <1>2, <1>3

LEMMA ConditionReturns ==
    ASSUME \/ ParameterMissing \/ ParameterMalformed \/ AssumeCondition
           \/ \E ret \in PlatResults : CheckCondition(ret) \/ Perform(ret)
    PROVE  \E o \in {DOMAIN Required, Checks, Effects} :
              On(o, Run) /\ \E e \in Endings : Return(Current, e)
<1>1. CASE ParameterMissing
  BY <1>1 DEF ParameterMissing, Endings
<1>2. CASE ParameterMalformed
  <2>1. PICK ret \in MalformedResults(Command(Top).op, parameters[CurrentSlot]) :
           On(DOMAIN Required, Run) /\ Return(Current, ret)
    BY <1>2 DEF ParameterMalformed, Ready
  <2>2. ret \in Endings
    <3> DEFINE o   == Command(Top).op
               set == parameters[CurrentSlot]
    <3>1. MalformedResults(o, set) \subseteq Endings
      BY DEF MalformedResults, Endings
    <3> QED BY <2>1, <3>1
  <2> QED BY <2>1, <2>2
<1>3. CASE AssumeCondition
  BY <1>3 DEF AssumeCondition, Ready, Endings
<1>4. ASSUME NEW ret \in PlatResults, CheckCondition(ret) \/ Perform(ret)
      PROVE  \E o \in {DOMAIN Required, Checks, Effects} :
                On(o, Run) /\ \E e \in Endings : Return(Current, e)
  BY <1>4 DEF CheckCondition, Perform, Ready, Endings
<1> QED BY <1>1, <1>2, <1>3, <1>4

LEMMA CommandSets ==
    /\ \A o \in {DOMAIN Required, Checks, Effects, DependencyCommands, {"abort"},
                 {"is_dependency"}, {"set_parameters"}, ComponentCommands \ Nesting} :
          o \in SUBSET (ComponentCommands \ Nesting)
    /\ ComponentCommands \ Nesting \subseteq ComponentCommands
<1>1. DOMAIN Required \subseteq Checks \cup Effects
  BY DEF Required, Checks, Effects
<1>2. /\ (Checks \cup Effects) \cap Nesting = {}
      /\ DependencyCommands \cap Nesting = {}
      /\ {"abort", "is_dependency", "set_parameters"} \cap Nesting = {}
  BY DEF Checks, Effects, Nesting, DependencyCommands
<1> QED BY <1>1, <1>2 DEF ComponentCommands

LEMMA ReturningStep ==
    ASSUME \/ ValidateCommand \/ ParameterMissing \/ ParameterMalformed
           \/ \E ret \in PlatResults : CheckCondition(ret) \/ Perform(ret) \/ SetParameters(ret)
           \/ AssumeCondition \/ Abort \/ ConditionIsDependency
           \/ DependencyIntegrityRefused \/ ProcessDependencyRefused
           \/ \E ret \in PlatResults \ {"SUCCESS"} : RetrieveFails(ret)
    PROVE  \E o \in SUBSET (ComponentCommands \ Nesting), p \in {Run, Validate} :
              On(o, p) /\ \E e \in Endings : Return(Current, e)
<1>1. CASE ValidateCommand
  <2> DEFINE e == IF /\ Top.cmd_processor = "validate_shared"
                     /\ Command(Top).op \in ForbiddenInShared
                  THEN "ERR_MANIFEST_VALIDATION" ELSE "SUCCESS"
  <2>1. On(ComponentCommands \ Nesting, Validate) /\ Return(Current, e) /\ e \in Endings
    BY <1>1 DEF ValidateCommand, Endings
  <2> QED BY <2>1
<1>2. CASE \/ ParameterMissing \/ ParameterMalformed \/ AssumeCondition
           \/ \E ret \in PlatResults : CheckCondition(ret) \/ Perform(ret)
  BY <1>2, ConditionReturns, CommandSets
<1>3. CASE \E ret \in PlatResults : SetParameters(ret)
  BY <1>3, SetParametersReturns, CommandSets
<1>4. CASE Abort
  <2>1. On({"abort"}, Run) /\ Return(Current, "FAIL_CONDITION") /\ "FAIL_CONDITION" \in Endings
    BY <1>4 DEF Abort, Endings
  <2> QED BY <2>1, CommandSets
<1>5. CASE ConditionIsDependency
  <2> DEFINE e == CASE components[CurrentSlot].is_dependency = "true"  -> "SUCCESS"
                    [] components[CurrentSlot].is_dependency = "false" -> "FAIL_CONDITION"
                    [] OTHER -> "ERR_TAMP"
  <2>1. On({"is_dependency"}, Run) /\ Return(Current, e)
    BY <1>5 DEF ConditionIsDependency
  <2>2. e \in Endings
    BY DEF Endings
  <2> QED BY <2>1, <2>2, CommandSets
<1>6. CASE \/ DependencyIntegrityRefused \/ ProcessDependencyRefused
           \/ \E ret \in PlatResults \ {"SUCCESS"} : RetrieveFails(ret)
  BY <1>6, RefusedReturns, CommandSets
<1> QED BY <1>1, <1>2, <1>3, <1>4, <1>5, <1>6

\* What one iteration of the loop in suit_process_scheduled does to the stack.
LEMMA StepGoes ==
    ASSUME NEW R, MachineOK(R), SeqStep
    PROVE  Continues(R) \/ Nests(R) \/ Ends(R)
<1>1. CASE \E o \in SUBSET (ComponentCommands \ Nesting), p \in {Run, Validate} :
              On(o, p) /\ \E e \in Endings : Return(Current, e)
  BY <1>1, ReturnOnComponent
<1>2. CASE \E i \in 0 .. MaxComponents - 1, ret \in PlatResults \ {"SUCCESS"} :
              OverrideSizeFails(i, ret)
  BY <1>2, OverrideSizeFailsEnds
<1>3. CASE \/ EndOfSequence \/ RejectCommand \/ SkipCommand \/ ComponentGone
           \/ SetComponentIndex \/ TryEach \/ RunSequence \/ ValidateOverride \/ Override
  BY <1>3, EndOfSequenceEnds, RejectCommandEnds, SkipCommandGoes, ComponentStays,
     SetComponentIndexGoes, TryEachGoes, RunSequenceGoes, ValidateOverrideGoes, OverrideGoes
<1> QED BY <1>1, <1>2, <1>3, ReturningStep DEF SeqStep

-----------------------------------------------------------------------------
(***************************************************************************)
(* What a step may touch.                                                  *)
(***************************************************************************)
LEMMA StoreTouches ==
    ASSUME NEW A, NEW pairs, \A q \in pairs : q[1] \in A, Store(pairs)
    PROVE  /\ \A s \in Slot \ A : parameters'[s] = parameters[s]
           /\ integrity_checked \in [Slot -> BOOLEAN] =>
                 integrity_checked' \in [Slot -> BOOLEAN]
<1>1. parameters' = [s \in Slot |->
          parameters[s] \cup {p[2] : p \in {q \in pairs : q[1] = s}}]
  BY DEF Store
<1>2. ASSUME NEW s \in Slot \ A PROVE parameters'[s] = parameters[s]
  <2>1. {q \in pairs : q[1] = s} = {}
    OBVIOUS
  <2>2. {p[2] : p \in {q \in pairs : q[1] = s}} = {}
    BY <2>1
  <2> QED BY <1>1, <2>2
<1>3. integrity_checked' \in [Slot -> BOOLEAN]
  BY DEF Store, component_modified
<1> QED BY <1>2, <1>3

Quiet == call' = NoCall /\ UNCHANGED <<parameters, integrity_checked>>

\* The platform is called for, and parameters are stored on, selected components.
Touches ==
    /\ \A s \in Slot \ SlotsOf(Selected) : parameters'[s] = parameters[s]
    /\ integrity_checked \in [Slot -> BOOLEAN] => integrity_checked' \in [Slot -> BOOLEAN]
    /\ call' = NoCall \/ (call' \in CallType /\ call'.slot \in SlotsOf(Selected))

\* What the platform reports other than success ends the sequence that asked,
\* except that the reason why an envelope is missing is masked.
Reports(R) ==
    (call' # NoCall /\ call'.call # "retrieve_manifest" /\ call'.ret # "SUCCESS") =>
        EndsWith(R, call'.ret)

LEMMA CallTyped ==
    ASSUME NEW name \in CallNames, NEW s \in Slot, dry_run \in BOOLEAN, NEW ret \in PlatResults,
           NEW c, c = [call |-> name, slot |-> s, dry_run |-> dry_run, ret |-> ret]
    PROVE  c \in CallType /\ c.call = name /\ c.slot = s /\ c.ret = ret
BY DEF CallType

LEMMA SizeCallTyped ==
    ASSUME NEW s \in Slot, dry_run \in BOOLEAN, NEW ret \in PlatResults, SizeCall(s, ret)
    PROVE  call' \in CallType /\ call'.slot = s /\ call'.ret = ret
<1>1. call' = [call |-> "override_image_size", slot |-> s, dry_run |-> dry_run, ret |-> ret]
  BY DEF SizeCall
<1>2. "override_image_size" \in CallNames
  BY DEF CallNames
<1> QED BY <1>1, <1>2, CallTyped

\* A call about the component the frame is at.
LEMMA CallAboutCurrent ==
    ASSUME NEW R, MachineOK(R), dry_run \in BOOLEAN,
           NEW ops \in SUBSET (ComponentCommands \ Nesting), On(ops, Run),
           NEW name \in CallNames, NEW ret \in PlatResults, Called(name, ret)
    PROVE  /\ call' \in CallType /\ call'.slot \in SlotsOf(Selected)
           /\ call'.call = name /\ call'.ret = ret
<1>1. CurrentSlot \in Slot /\ CurrentSlot \in SlotsOf(Selected)
  BY OnComponent
<1>2. call' = [call |-> name, slot |-> CurrentSlot, dry_run |-> dry_run, ret |-> ret]
  BY DEF Called
<1> QED BY <1>1, <1>2 DEF CallType

LEMMA CheckTouches ==
    ASSUME NEW R, MachineOK(R), dry_run \in BOOLEAN,
           NEW ret \in PlatResults, CheckCondition(ret)
    PROVE  Touches /\ Reports(R) /\ Top.cmd_processor \in Run
<1>1. /\ On(Checks, Run) /\ Return(Current, ret) /\ Called(Command(Top).op, ret)
      /\ UNCHANGED <<parameters, integrity_checked>>
  BY DEF CheckCondition, Ready
<1>2. Checks \in SUBSET (ComponentCommands \ Nesting)
  BY CommandSets
<1>3. Command(Top).op \in CallNames /\ Top.cmd_processor \in Run
  BY <1>1, <1>2, OnComponent DEF CallNames
<1>4. /\ call' \in CallType /\ call'.slot \in SlotsOf(Selected)
      /\ call'.ret = ret
  BY <1>1, <1>2, <1>3, CallAboutCurrent
<1>5. ret # "SUCCESS" => EndsWith(R, ret)
  <2>1. ret \in Endings
    BY DEF Endings
  <2> QED BY <1>1, <1>2, <2>1, ReturnOnComponent
<1> QED BY <1>1, <1>3, <1>4, <1>5 DEF Touches, Reports

LEMMA PerformTouches ==
    ASSUME NEW R, MachineOK(R), dry_run \in BOOLEAN,
           NEW ret \in PlatResults, Perform(ret)
    PROVE  Touches /\ Reports(R) /\ Top.cmd_processor \in Run
<1>1. /\ On(Effects, Run) /\ Return(Current, ret) /\ Called(Command(Top).op, ret)
      /\ integrity_checked' \in [Slot -> BOOLEAN]
      /\ parameters' = parameters
  BY DEF Perform, Ready, component_modified
<1>2. Effects \in SUBSET (ComponentCommands \ Nesting)
  BY CommandSets
<1>3. Command(Top).op \in CallNames /\ Top.cmd_processor \in Run
  BY <1>1, <1>2, OnComponent DEF CallNames
<1>4. /\ call' \in CallType /\ call'.slot \in SlotsOf(Selected)
      /\ call'.ret = ret
  BY <1>1, <1>2, <1>3, CallAboutCurrent
<1>5. ret # "SUCCESS" => EndsWith(R, ret)
  <2>1. ret \in Endings
    BY DEF Endings
  <2> QED BY <1>1, <1>2, <2>1, ReturnOnComponent
<1> QED BY <1>1, <1>3, <1>4, <1>5 DEF Touches, Reports

LEMMA SetParametersTouches ==
    ASSUME NEW R, MachineOK(R), dry_run \in BOOLEAN,
           NEW ret \in PlatResults, SetParameters(ret)
    PROVE  Touches /\ Reports(R) /\ Top.cmd_processor \in Run
<1>1. /\ On({"set_parameters"}, Run)
      /\ ret # "SUCCESS" => Return(Current, ret)
      /\ call' = NoCall \/ Called("override_image_size", ret)
  BY SetParametersReturns
<1>2. {"set_parameters"} \in SUBSET (ComponentCommands \ Nesting)
  BY CommandSets
<1>3. Top.cmd_processor \in Run /\ CurrentSlot \in SlotsOf(Selected)
  BY <1>1, <1>2, OnComponent DEF Nesting
<1>4. PICK X : Store({CurrentSlot} \X X)
  BY DEF SetParameters
<1>5. /\ \A s \in Slot \ SlotsOf(Selected) : parameters'[s] = parameters[s]
      /\ integrity_checked \in [Slot -> BOOLEAN] => integrity_checked' \in [Slot -> BOOLEAN]
  <2>1. \A q \in {CurrentSlot} \X X : q[1] \in SlotsOf(Selected)
    BY <1>3
  <2> QED BY <1>4, <2>1, StoreTouches
<1>6. CASE call' = NoCall
  BY <1>3, <1>5, <1>6 DEF Touches, Reports
<1>7. CASE Called("override_image_size", ret)
  <2>1. /\ call' \in CallType /\ call'.slot \in SlotsOf(Selected)
        /\ call'.ret = ret
    <3>1. "override_image_size" \in CallNames
      BY DEF CallNames
    <3> QED BY <1>1, <1>2, <1>7, <3>1, CallAboutCurrent
  <2>2. ret # "SUCCESS" => EndsWith(R, ret)
    <3>1. ret \in Endings
      BY DEF Endings
    <3> QED BY <1>1, <1>2, <3>1, ReturnOnComponent
  <2> QED BY <1>3, <1>5, <2>1, <2>2 DEF Touches, Reports
<1> QED BY <1>1, <1>6, <1>7

LEMMA SelectedSlots ==
    ASSUME NEW R, MachineOK(R), Running
    PROVE  /\ Selected \subseteq Indexes(Top)
           /\ \A i \in Selected : SlotOf(Top, i) \in Slot
           /\ Selected # {} => Last(Selected) \in Selected
<1>1. Top \in FrameType(R)
  BY TopTyped
<1>2. /\ Indexes(Top) \subseteq 0 .. MaxComponents - 1
      /\ \A i \in Indexes(Top) : SlotOf(Top, i) \in Slot
  BY <1>1, IndexesTyped
<1>3. MaxComponents - 1 \in Nat
  BY SeqExecAssumption
<1>4. Selected \in SUBSET (0 .. MaxComponents - 1) /\ Selected \subseteq Indexes(Top)
  BY <1>2 DEF Selected
<1> QED BY <1>2, <1>3, <1>4, LastOfSet

LEMMA OverrideTouches ==
    ASSUME NEW R, MachineOK(R), dry_run \in BOOLEAN, Override
    PROVE  Touches /\ Reports(R) /\ Top.cmd_processor \in Run
<1>1. Running /\ Top.cmd_processor \in Run
  BY DEF Override, At, AtCommand
<1>2. PICK X : Store(SlotsOf(Selected) \X X)
  BY DEF Override
<1>3. /\ \A s \in Slot \ SlotsOf(Selected) : parameters'[s] = parameters[s]
      /\ integrity_checked \in [Slot -> BOOLEAN] => integrity_checked' \in [Slot -> BOOLEAN]
  <2>1. \A q \in SlotsOf(Selected) \X X : q[1] \in SlotsOf(Selected)
    OBVIOUS
  <2> QED BY <1>2, <2>1, StoreTouches
<1>4. \/ call' = NoCall
      \/ Selected # {} /\ SizeCall(SlotOf(Top, Last(Selected)), "SUCCESS")
  BY DEF Override
<1>5. CASE call' = NoCall
  BY <1>1, <1>3, <1>5 DEF Touches, Reports
<1>6. CASE Selected # {} /\ SizeCall(SlotOf(Top, Last(Selected)), "SUCCESS")
  <2>1. /\ SlotOf(Top, Last(Selected)) \in Slot
        /\ SlotOf(Top, Last(Selected)) \in SlotsOf(Selected)
    BY <1>1, <1>6, SelectedSlots DEF SlotsOf
  <2>2. /\ call' \in CallType /\ call'.slot \in SlotsOf(Selected)
        /\ call'.ret = "SUCCESS"
    BY <1>6, <2>1, SizeCallTyped, SeqExecAssumption
  <2> QED BY <1>1, <1>3, <2>2 DEF Touches, Reports
<1> QED BY <1>4, <1>5, <1>6

LEMMA OverrideSizeTouches ==
    ASSUME NEW R, MachineOK(R), dry_run \in BOOLEAN, NEW i \in 0 .. MaxComponents - 1,
           NEW ret \in PlatResults, OverrideSizeFails(i, ret)
    PROVE  Touches /\ Reports(R) /\ Top.cmd_processor \in Run
<1>1. /\ Running /\ Top.cmd_processor \in Run /\ i \in Selected
      /\ SizeCall(SlotOf(Top, i), ret)
  BY DEF OverrideSizeFails, At, AtCommand
<1>2. PICK X : Store((SlotsOf(Selected) \X X)
                        \cup (SlotsOf({j \in Selected : j < i}) \X {"image_size"}))
  BY DEF OverrideSizeFails
<1>3. /\ \A s \in Slot \ SlotsOf(Selected) : parameters'[s] = parameters[s]
      /\ integrity_checked \in [Slot -> BOOLEAN] => integrity_checked' \in [Slot -> BOOLEAN]
  <2>1. SlotsOf({j \in Selected : j < i}) \subseteq SlotsOf(Selected)
    BY DEF SlotsOf
  <2>2. \A q \in (SlotsOf(Selected) \X X)
                     \cup (SlotsOf({j \in Selected : j < i}) \X {"image_size"}) :
           q[1] \in SlotsOf(Selected)
    BY <2>1
  <2> QED BY <1>2, <2>2, StoreTouches
<1>4. SlotOf(Top, i) \in Slot /\ SlotOf(Top, i) \in SlotsOf(Selected)
  BY <1>1, SelectedSlots DEF SlotsOf
<1>5. call' \in CallType /\ call'.slot \in SlotsOf(Selected) /\ call'.ret = ret
  BY <1>1, <1>4, SizeCallTyped
<1> QED BY <1>1, <1>3, <1>5, OverrideSizeFailsEnds DEF Touches, Reports

LEMMA RetrieveTouches ==
    ASSUME NEW R, MachineOK(R), dry_run \in BOOLEAN,
           NEW ret \in PlatResults, RetrieveFails(ret)
    PROVE  Touches /\ Reports(R) /\ Top.cmd_processor \in Run
<1>1. /\ On(DependencyCommands, Run) /\ Called("retrieve_manifest", ret)
      /\ UNCHANGED <<parameters, integrity_checked>>
  BY DEF RetrieveFails, ToLoad
<1>2. DependencyCommands \in SUBSET (ComponentCommands \ Nesting)
  BY CommandSets
<1>3. Top.cmd_processor \in Run
  BY <1>1, <1>2, OnComponent
<1>4. /\ call' \in CallType /\ call'.slot \in SlotsOf(Selected)
      /\ call'.call = "retrieve_manifest"
  <2>1. "retrieve_manifest" \in CallNames
    BY DEF CallNames
  <2> QED BY <1>1, <1>2, <2>1, CallAboutCurrent
<1> QED BY <1>1, <1>3, <1>4 DEF Touches, Reports

LEMMA StepTouches ==
    ASSUME NEW R, MachineOK(R), dry_run \in BOOLEAN, SeqStep
    PROVE  /\ Touches /\ Reports(R)
           /\ Top.cmd_processor \in Run \/ Quiet
           /\ UNCHANGED <<code, manifest_stack, components, dry_run>>
<1>1. UNCHANGED <<code, manifest_stack, components, dry_run>>
  BY DEF SeqStep, EndOfSequence, RejectCommand, SkipCommand, ComponentGone, SetComponentIndex,
     TryEach, RunSequence, ValidateCommand, ValidateOverride, ParameterMissing,
     ParameterMalformed, CheckCondition, Perform, SetParameters, AssumeCondition, Abort,
     ConditionIsDependency, Override, OverrideSizeFails, DependencyIntegrityRefused,
     ProcessDependencyRefused, RetrieveFails
<1>2. CASE Quiet
  BY <1>1, <1>2 DEF Quiet, Touches, Reports
<1>3. \/ Quiet
      \/ \E ret \in PlatResults : CheckCondition(ret) \/ Perform(ret) \/ SetParameters(ret)
      \/ Override
      \/ \E i \in 0 .. MaxComponents - 1, ret \in PlatResults \ {"SUCCESS"} :
            OverrideSizeFails(i, ret)
      \/ \E ret \in PlatResults \ {"SUCCESS"} : RetrieveFails(ret)
  BY DEF SeqStep, Quiet, EndOfSequence, RejectCommand, SkipCommand, ComponentGone,
     SetComponentIndex, TryEach, RunSequence, ValidateCommand, ValidateOverride,
     ParameterMissing, ParameterMalformed, AssumeCondition, Abort,
     ConditionIsDependency, DependencyIntegrityRefused, ProcessDependencyRefused
<1> QED BY <1>1, <1>2, <1>3, CheckTouches, PerformTouches, SetParametersTouches,
           OverrideTouches, OverrideSizeTouches, RetrieveTouches

-----------------------------------------------------------------------------
(***************************************************************************)
(* A frame that is resumed with a failure hands it on: only a soft failure *)
(* or success lets a nesting command go on.                                *)
(***************************************************************************)
LEMMA FailureHandedOn ==
    ASSUME NEW R, MachineOK(R), SeqStep, Running,
           Top.cmd_exec_state # 0, Top.retval \notin {"SUCCESS", "FAIL_SOFT_CONDITION"},
           ~MissingSetIndex
    PROVE  call' = NoCall /\ EndsWith(R, Top.retval)
<1>1. /\ Top \in FrameType(R) /\ Sound(Top)
      /\ Top.current_component_idx # NoIndex
      /\ Command(Top).op \in Nesting
  BY TopTyped DEF Sound, Waits
<1>2. ~AtEnd(Top)
  BY <1>1 DEF Sound, InLoop
<1>3. Current = Top /\ InMap(Top) /\ Top.retval \in R
  BY <1>1, CurrentTyped DEF Sound, FrameType
<1>4. Command(Top).op \in ComponentCommands
  BY <1>1 DEF ComponentCommands
<1>5. ASSUME NEW f \in FrameType(R), InMap(f), SameOwner(f, Top),
             f.current_command = Top.current_command, f.soft_failure = Top.soft_failure,
             Return(f, Top.retval)
      PROVE  EndsWith(R, Top.retval)
  BY <1>2, <1>3, <1>4, <1>5, ReturnGoesOnOrEnds
<1>6. CASE TryEach
  <2>1. call' = NoCall /\ Return(Top, Top.retval)
    BY <1>3, <1>6 DEF TryEach, NextAlternative
  <2> QED BY <1>1, <1>3, <1>5, <2>1 DEF SameOwner
<1>7. CASE RunSequence
  <2> DEFINE g == [Top EXCEPT !.retval = Top.retval]
  <2>1. call' = NoCall /\ Return(g, Top.retval)
    BY <1>3, <1>7 DEF RunSequence
  <2>2. g = Top
    BY <1>1 DEF FrameType
  <2> HIDE DEF g
  <2> QED BY <1>1, <1>3, <1>5, <2>1, <2>2 DEF SameOwner
<1>8. ~EndOfSequence
  BY <1>2 DEF EndOfSequence, AtEnd
<1>9. ~RejectCommand
  BY <1>1 DEF RejectCommand, Nesting
<1>10. ~SkipCommand
  BY <1>1, <1>3 DEF SkipCommand
<1>11. ~SetComponentIndex /\ ~ValidateOverride /\ ~Override
       /\ ~(\E i \in 0 .. MaxComponents - 1, ret \in PlatResults \ {"SUCCESS"} :
               OverrideSizeFails(i, ret))
  BY <1>1 DEF SetComponentIndex, ValidateOverride, Override, OverrideSizeFails, At, Nesting
<1>12. ~(\E o \in SUBSET (ComponentCommands \ Nesting), p \in {Run, Validate} : On(o, p))
  BY <1>1 DEF On, At
<1> QED BY <1>6, <1>7, <1>8, <1>9, <1>10, <1>11, <1>12, ComponentStays, ReturningStep
        DEF SeqStep

-----------------------------------------------------------------------------
(***************************************************************************)
(* The stack after each of the three ways.                                 *)
(***************************************************************************)
LEMMA ContinuedStack ==
    ASSUME NEW F, seq_stack \in Seq(F), Running, NEW g \in F, Continue(g)
    PROVE  /\ seq_stack' \in Seq(F) /\ Len(seq_stack') = Len(seq_stack)
           /\ \A k \in 1 .. Len(seq_stack) :
                 seq_stack'[k] = IF k = Len(seq_stack) THEN g ELSE seq_stack[k]
           /\ seq_ret' = "ERR_AGAIN"
<1>1. Len(seq_stack) \in 1 .. Len(seq_stack)
  BY EmptySeq DEF Running
<1> QED BY <1>1, ExceptSeq DEF Continue

LEMMA PushedStack ==
    ASSUME NEW F, seq_stack \in Seq(F), Running, NEW g \in F, NEW seq, NEW soft,
           NewFrame(seq, g.manifest, soft, g.cmd_processor, g.current_components) \in F,
           Push(g, seq, soft, g.cmd_processor)
    PROVE  /\ seq_stack' \in Seq(F) /\ Len(seq_stack') = Len(seq_stack) + 1
           /\ \A k \in 1 .. Len(seq_stack) - 1 : seq_stack'[k] = seq_stack[k]
           /\ seq_stack'[Len(seq_stack)] = g
           /\ seq_stack'[Len(seq_stack) + 1] =
                 NewFrame(seq, g.manifest, soft, g.cmd_processor, g.current_components)
           /\ seq_ret' = "ERR_AGAIN"
<1> DEFINE n == Len(seq_stack)
           s == [seq_stack EXCEPT ![n] = g]
           h == NewFrame(seq, g.manifest, soft, g.cmd_processor, g.current_components)
<1>1. n \in Nat \ {0}
  BY EmptySeq DEF Running
<1>2. /\ s \in Seq(F) /\ Len(s) = n
      /\ \A k \in 1 .. n : s[k] = IF k = n THEN g ELSE seq_stack[k]
  BY <1>1, ExceptSeq
<1>3. seq_stack' = Append(s, h) /\ seq_ret' = "ERR_AGAIN"
  BY DEF Push
<1> HIDE DEF s, h
<1>4. h \in F
  BY DEF h
<1>5. /\ Append(s, h) \in Seq(F) /\ Len(Append(s, h)) = n + 1
      /\ \A k \in 1 .. n : Append(s, h)[k] = s[k]
      /\ Append(s, h)[n + 1] = h
  BY <1>2, <1>4, AppendProperties
<1> HIDE DEF n
<1> QED BY <1>1, <1>2, <1>3, <1>5 DEF h, n

\* What the frame below, or the caller, gets of a frame that ends with r.
Result(f, r) == IF f.soft_failure /\ r = "FAIL_CONDITION" THEN "FAIL_SOFT_CONDITION" ELSE r

LEMMA PoppedStack ==
    ASSUME NEW R, seq_stack \in Seq(FrameType(R)), Running, NEW g \in FrameType(R),
           NEW r \in R, "FAIL_SOFT_CONDITION" \in R, Finalize(g, r)
    PROVE  /\ Len(seq_stack) = 1 => seq_stack' = <<>> /\ seq_ret' = Result(g, r)
           /\ Len(seq_stack) > 1 =>
                 LET n == Len(seq_stack) - 1 IN
                 /\ seq_stack' \in Seq(FrameType(R)) /\ Len(seq_stack') = n
                 /\ \A k \in 1 .. n - 1 : seq_stack'[k] = seq_stack[k]
                 /\ seq_stack'[n] = [seq_stack[n] EXCEPT
                        !.retval = Result(g, r), !.current_components = g.current_components]
                 /\ seq_ret' = "ERR_AGAIN"
<1> DEFINE n == Len(seq_stack) - 1
           p == SubSeq(seq_stack, 1, n)
           q == Result(g, r)
           f == [seq_stack[n] EXCEPT !.retval = q, !.current_components = g.current_components]
<1>1. Len(seq_stack) \in Nat \ {0}
  BY EmptySeq DEF Running
<1>2. IF n > 0
      THEN /\ seq_stack' = [p EXCEPT ![n].retval = q,
                                     ![n].current_components = g.current_components]
           /\ seq_ret' = "ERR_AGAIN"
      ELSE seq_stack' = <<>> /\ seq_ret' = q
  BY DEF Finalize, Result
<1>3. ASSUME n > 0
      PROVE  /\ seq_stack' \in Seq(FrameType(R)) /\ Len(seq_stack') = n
             /\ \A k \in 1 .. n - 1 : seq_stack'[k] = seq_stack[k]
             /\ seq_stack'[n] = f
             /\ seq_ret' = "ERR_AGAIN"
  <2>1. n \in 1 .. n /\ n \in Int /\ 1 \in Int
    BY <1>1, <1>3
  <2>2. \A i \in 1 .. n : seq_stack[i] \in FrameType(R)
    BY <1>1, ElementOfSeq
  <2>3. /\ p \in Seq(FrameType(R)) /\ Len(p) = n
        /\ \A i \in 1 .. n : p[i] = seq_stack[i]
    BY <2>1, <2>2, SubSeqProperties
  <2>4. q \in R
    BY DEF Result
  <2>5. f \in FrameType(R)
    BY <2>1, <2>2, <2>4 DEF FrameType
  <2> HIDE DEF q
  <2>6. seq_stack' = [p EXCEPT ![n] = f]
    <3>1. seq_stack' = [p EXCEPT ![n].retval = q,
                                 ![n].current_components = g.current_components]
      BY <1>2, <1>3
    <3>2. DOMAIN p = 1 .. n
      BY <2>3, LenProperties
    <3>3. p[n] = seq_stack[n] /\ p[n] \in FrameType(R)
      BY <2>1, <2>2, <2>3
    <3> HIDE DEF p, n
    <3> QED BY <2>1, <3>1, <3>2, <3>3 DEF FrameType
  <2> HIDE DEF f, p
  <2>7. /\ [p EXCEPT ![n] = f] \in Seq(FrameType(R))
        /\ Len([p EXCEPT ![n] = f]) = n
        /\ \A j \in 1 .. n : [p EXCEPT ![n] = f][j] = IF j = n THEN f ELSE p[j]
    BY <2>1, <2>3, <2>5, ExceptSeq
  <2>8. seq_ret' = "ERR_AGAIN"
    BY <1>2, <1>3
  <2> HIDE DEF n
  <2> QED BY <2>1, <2>3, <2>6, <2>7, <2>8
<1>4. Len(seq_stack) = 1 => seq_stack' = <<>> /\ seq_ret' = q
  BY <1>2
<1> QED BY <1>1, <1>3, <1>4

-----------------------------------------------------------------------------
(***************************************************************************)
(* Every step gets further.  Nothing is asked of the frames but their      *)
(* types, so this holds whatever became of their manifests.                *)
(***************************************************************************)
Forward == StackFurtherOn(seq_stack, seq_stack')

\* The frame on top has moved on, and there may be another one above it.
LEMMA TurnIsForward ==
    ASSUME NEW R, seq_stack \in Seq(FrameType(R)), Running,
           NEW g, FrameFurtherOn(Top, g),
           LET s == [seq_stack EXCEPT ![Len(seq_stack)] = g] IN
           seq_stack' = s \/ \E h : seq_stack' = Append(s, h)
    PROVE  Forward
<1> DEFINE n == Len(seq_stack)
           s == [seq_stack EXCEPT ![n] = g]
<1>1. n \in Nat \ {0} /\ n \in 1 .. n /\ DOMAIN seq_stack = 1 .. n
  BY EmptySeq, LenProperties DEF Running
<1>2. PICK h : seq_stack' = s \/ seq_stack' = Append(s, h)
  OBVIOUS
<1> DEFINE S == FrameType(R) \cup {g, h}
<1>3. /\ s \in Seq(S) /\ Len(s) = n
      /\ \A k \in 1 .. n : s[k] = IF k = n THEN g ELSE seq_stack[k]
  <2>1. seq_stack \in Seq(S)
    BY SeqMonotonic
  <2> QED BY <1>1, <2>1, ExceptSeq
<1> HIDE DEF s
<1>4. /\ Append(s, h) \in Seq(S) /\ Len(Append(s, h)) = n + 1
      /\ \A k \in 1 .. n : Append(s, h)[k] = s[k]
  BY <1>3, AppendProperties
<1>5. /\ Len(seq_stack') \in {n, n + 1}
      /\ \A k \in 1 .. n : seq_stack'[k] = s[k]
  BY <1>2, <1>3, <1>4
<1>6. ASSUME NEW j \in 1 .. n - 1
      PROVE  AtSamePlace(seq_stack[j], seq_stack'[j])
  <2>1. j \in 1 .. n /\ j # n
    <3> HIDE DEF n
    <3> QED BY <1>1
  <2>2. seq_stack'[j] = seq_stack[j]
    BY <2>1, <1>3, <1>5
  <2> QED BY <2>2 DEF AtSamePlace
<1>7. FrameFurtherOn(seq_stack[n], seq_stack'[n])
  BY <1>1, <1>3, <1>5 DEF Top
<1>8. n <= Len(seq_stack') + 1
  BY <1>1, <1>5
<1> HIDE DEF n
<1> QED BY <1>1, <1>6, <1>7, <1>8 DEF Forward, StackFurtherOn

\* The frame on top has ended: the frame below gets its result and stays where
\* it is.
LEMMA PopIsForward ==
    ASSUME NEW R, seq_stack \in Seq(FrameType(R)), Running,
           NEW g \in FrameType(R), NEW r, Finalize(g, r)
    PROVE  Forward
<1> DEFINE n == Len(seq_stack)
           Q == R \cup {r, "FAIL_SOFT_CONDITION"}
<1>1. n \in Nat \ {0} /\ n \in 1 .. n /\ DOMAIN seq_stack = 1 .. n
  BY EmptySeq, LenProperties DEF Running
<1>2. FrameType(R) \subseteq FrameType(Q)
  BY DEF FrameType
<1>3. /\ seq_stack \in Seq(FrameType(Q)) /\ g \in FrameType(Q)
      /\ r \in Q /\ "FAIL_SOFT_CONDITION" \in Q
  BY <1>2, SeqMonotonic
<1> HIDE DEF Q
<1> DEFINE m == n - 1
<1>4. /\ n = 1 => seq_stack' = <<>>
      /\ n > 1 =>
            /\ seq_stack' \in Seq(FrameType(Q)) /\ Len(seq_stack') = m
            /\ \A k \in 1 .. m - 1 : seq_stack'[k] = seq_stack[k]
            /\ seq_stack'[m] = [seq_stack[m] EXCEPT
                   !.retval = Result(g, r), !.current_components = g.current_components]
  <2>1. /\ Len(seq_stack) = 1 => seq_stack' = <<>> /\ seq_ret' = Result(g, r)
        /\ Len(seq_stack) > 1 =>
              LET k == Len(seq_stack) - 1 IN
              /\ seq_stack' \in Seq(FrameType(Q)) /\ Len(seq_stack') = k
              /\ \A i \in 1 .. k - 1 : seq_stack'[i] = seq_stack[i]
              /\ seq_stack'[k] = [seq_stack[k] EXCEPT
                     !.retval = Result(g, r), !.current_components = g.current_components]
              /\ seq_ret' = "ERR_AGAIN"
    BY <1>3, PoppedStack
  <2> QED BY <2>1
<1>5. CASE n = 1
  <2>1. Len(seq_stack') = 0
    BY <1>4, <1>5
  <2>2. ~(n <= Len(seq_stack')) /\ n <= Len(seq_stack') + 1 /\ 1 .. n - 1 = {}
    BY <1>5, <2>1
  <2> QED BY <1>1, <2>2 DEF Forward, StackFurtherOn
<1>6. CASE n > 1
  <2>1. m \in Nat \ {0} /\ m \in 1 .. n
    BY <1>1, <1>6
  <2>2. seq_stack[m] \in FrameType(R)
    BY <2>1, ElementOfSeq
  <2>3. AtSamePlace(seq_stack[m], seq_stack'[m])
    BY <1>4, <1>6, <2>2 DEF AtSamePlace, FrameType, LoopPlace
  <2>4. \A j \in 1 .. m - 1 : AtSamePlace(seq_stack[j], seq_stack'[j])
    BY <1>4, <1>6 DEF AtSamePlace
  <2>5. \A j \in 1 .. m : j = m \/ j \in 1 .. m - 1
    <3> HIDE DEF m
    <3> QED BY <2>1
  <2>6. \A j \in 1 .. n - 1 : AtSamePlace(seq_stack[j], seq_stack'[j])
    BY <2>3, <2>4, <2>5
  <2>7. ~(n <= Len(seq_stack')) /\ n <= Len(seq_stack') + 1
    BY <1>1, <1>4, <1>6
  <2> QED BY <1>1, <2>6, <2>7 DEF Forward, StackFurtherOn
<1>7. n = 1 \/ n > 1
  BY <1>1
<1> QED BY <1>5, <1>6, <1>7

\* The loop over the components visits them in increasing order.
LEMMA LoopGoesUp ==
    ASSUME NEW R, Maps, NEW f \in FrameType(R)
    PROVE  LET g == component_idx_next(f) IN
           /\ g \in FrameType(R)
           /\ g.cmd_seq = f.cmd_seq
           /\ g.current_command = f.current_command
           /\ g.cmd_exec_state = f.cmd_exec_state
           /\ g.current_component_idx \in 0 .. MaxComponents
           /\ g.current_component_idx # NoIndex => LoopPlace(g) > LoopPlace(f)
<1> DEFINE g == component_idx_next(f)
           first    == f.current_component_idx = NoIndex
           selected == IF first THEN f.current_components ELSE f.current_components_backup
           rest     == {i \in selected \cap Indexes(f) : first \/ f.current_component_idx < i}
<1>1. MaxComponents \in Nat \ {0}
    BY SeqExecAssumption
<1>2. Indexes(f) \subseteq 0 .. MaxComponents - 1
  <2>1. f.manifest \in Entry BY DEF FrameType
  <2>2. Len(manifest_stack[f.manifest]) \in Nat /\ Len(manifest_stack[f.manifest]) <= MaxComponents
    BY <2>1, LenProperties DEF Maps
  <2> QED BY <1>1, <2>2 DEF Indexes
<1>3. /\ g.cmd_seq = f.cmd_seq
      /\ g.current_command = f.current_command
      /\ g.cmd_exec_state = f.cmd_exec_state
      /\ g.current_component_idx = IF rest = {} THEN NoIndex ELSE First(rest)
    BY DEF component_idx_next, FrameType
<1>4. f.current_component_idx \in 0 .. MaxComponents
    BY DEF FrameType
<1>5. ASSUME rest # {}
      PROVE  First(rest) \in rest
  <2>1. rest \in SUBSET Nat BY <1>1, <1>2
  <2> QED BY <2>1, <1>5, FirstOfSet
<1>6. rest # {} => First(rest) \in 0 .. MaxComponents - 1
                   /\ (first \/ f.current_component_idx < First(rest))
    BY <1>5, <1>2
<1>9. g \in FrameType(R)
  <2>1. rest = {} \/ First(rest) \in 0 .. MaxComponents - 1
    BY <1>6
  <2>2. NoIndex \in 0 .. MaxComponents
    BY <1>1 DEF NoIndex
  <2>3. (IF rest = {} THEN NoIndex ELSE First(rest)) \in 0 .. MaxComponents
    <3> HIDE DEF rest
    <3> QED BY <1>1, <2>1, <2>2
  <2>4. selected \in SUBSET Nat
    BY DEF FrameType
  <2>5. (IF rest = {} THEN selected ELSE {First(rest)}) \in SUBSET Nat
    <3> HIDE DEF rest, selected
    <3> QED BY <1>1, <2>1, <2>4
  <2>6. g = [f EXCEPT !.current_components_backup = selected,
                      !.current_components = IF rest = {} THEN selected ELSE {First(rest)},
                      !.current_component_idx = IF rest = {} THEN NoIndex ELSE First(rest)]
    BY DEF component_idx_next
  <2> HIDE DEF g, rest, selected
  <2> QED BY <2>3, <2>4, <2>5, <2>6 DEF FrameType
<1> HIDE DEF g, rest
<1>7. g.current_component_idx \in 0 .. MaxComponents
    BY <1>1, <1>3, <1>6 DEF NoIndex
<1>8. ASSUME g.current_component_idx # NoIndex
      PROVE  LoopPlace(g) > LoopPlace(f)
  <2>1. rest # {} /\ g.current_component_idx = First(rest)
    BY <1>3, <1>8
  <2>2. LoopPlace(g) = First(rest) + 1 /\ First(rest) \in Nat
    BY <2>1, <1>8, <1>6, <1>1 DEF LoopPlace
  <2>3. CASE first
    BY <2>2, <2>3, <1>1 DEF LoopPlace
  <2>4. CASE ~first
    <3>1. LoopPlace(f) = f.current_component_idx + 1 BY <2>4 DEF LoopPlace
    <3>2. f.current_component_idx < First(rest) BY <2>1, <2>4, <1>6
    <3> QED BY <3>1, <3>2, <2>2, <1>4, <1>1
  <2> QED BY <2>3, <2>4
<1> QED BY <1>3, <1>7, <1>8, <1>9 DEF g

\* The frame a command works on is the one on top, in the loop.
LEMMA CurrentGoesUp ==
    ASSUME NEW R, Maps, seq_stack \in Seq(FrameType(R)), Running
    PROVE  /\ Top \in FrameType(R) /\ Current \in FrameType(R)
           /\ Current.cmd_seq = Top.cmd_seq
           /\ Current.current_command = Top.current_command
           /\ Current.cmd_exec_state = Top.cmd_exec_state
           /\ Current.current_component_idx \in 0 .. MaxComponents
           /\ Current.current_component_idx = NoIndex => Top.current_component_idx = NoIndex
           /\ LoopPlace(Current) >= LoopPlace(Top)
<1>1. Top \in FrameType(R)
  <2>1. Len(seq_stack) \in DOMAIN seq_stack
    BY DEF Running
  <2> QED BY <2>1, ElementOfSeq DEF Top
<1>2. LoopPlace(Top) \in Nat
    BY <1>1, SeqExecAssumption DEF LoopPlace, FrameType
<1>3. CASE Top.current_component_idx # NoIndex
  <2>1. Current = Top BY <1>3 DEF Current, component_idx_get
  <2> QED BY <2>1, <1>1, <1>2, <1>3 DEF FrameType
<1>4. CASE Top.current_component_idx = NoIndex
  <2>1. Current = component_idx_next(Top) BY <1>4 DEF Current, component_idx_get
  <2>2. LoopPlace(Top) = 0 BY <1>4 DEF LoopPlace
  <2>3. LoopPlace(Current) \in Nat
    BY <2>1, <1>1, LoopGoesUp, SeqExecAssumption DEF LoopPlace
  <2> QED BY <2>1, <2>2, <2>3, <1>1, <1>4, LoopGoesUp
<1> QED BY <1>1, <1>3, <1>4

\* A frame at the next command.
LEMMA NextIsFurther ==
    ASSUME NEW R, Top \in FrameType(R), NEW g,
           g.cmd_seq = Top.cmd_seq, g.current_command = Top.current_command + 1
    PROVE  FrameFurtherOn(Top, g)
BY DEF FrameFurtherOn, FrameType

\* The end of a command on one component: the next component, the next command
\* or the end of the sequence.
LEMMA ReturnIsForward ==
    ASSUME NEW R, Maps, seq_stack \in Seq(FrameType(R)), Running,
           NEW f \in FrameType(R), f.cmd_seq = Top.cmd_seq,
           f.current_command = Top.current_command, LoopPlace(f) >= LoopPlace(Top),
           NEW ret, Return(f, ret)
    PROVE  Forward
<1> DEFINE g == component_idx_next(f)
<1>1. Top \in FrameType(R)
    BY CurrentGoesUp
<1>2. /\ g.cmd_seq = Top.cmd_seq /\ g.current_command = Top.current_command
      /\ g.current_component_idx \in 0 .. MaxComponents
      /\ g.current_component_idx # NoIndex => LoopPlace(g) > LoopPlace(f)
    BY LoopGoesUp
<1>4. DOMAIN g = {"cmd_seq", "current_command", "cmd_exec_state", "retval", "soft_failure",
                  "current_component_idx", "current_components", "current_components_backup",
                  "manifest", "cmd_processor"}
    BY DEF component_idx_next, FrameType
<1>5. CASE ret # "SUCCESS"
  <2>1. g \in FrameType(R) /\ Finalize(g, ret)
    BY <1>5, LoopGoesUp DEF Return
  <2> HIDE DEF g
  <2> QED BY <2>1, PopIsForward
<1>6. CASE ret = "SUCCESS" /\ g.current_component_idx # NoIndex
  <2> DEFINE h == [g EXCEPT !.cmd_exec_state = 0]
  <2>1. Continue(h)
    BY <1>6 DEF Return
  <2>2. /\ h.cmd_seq = g.cmd_seq /\ h.current_command = g.current_command
        /\ h.current_component_idx = g.current_component_idx
    BY <1>4
  <2>3. LoopPlace(h) = LoopPlace(g)
    BY <2>2 DEF LoopPlace
  <2>4. LoopPlace(g) \in Nat /\ LoopPlace(f) \in Nat /\ LoopPlace(Top) \in Nat
    <3>1. MaxComponents \in Nat
      BY SeqExecAssumption
    <3>2. /\ f.current_component_idx \in 0 .. MaxComponents
          /\ Top.current_component_idx \in 0 .. MaxComponents
      BY <1>1 DEF FrameType
    <3> HIDE DEF g
    <3> QED BY <1>2, <3>1, <3>2 DEF LoopPlace
  <2>5. FrameFurtherOn(Top, h)
    <3> HIDE DEF h, g
    <3> QED BY <1>2, <1>6, <2>2, <2>3, <2>4 DEF FrameFurtherOn
  <2>6. seq_stack' = [seq_stack EXCEPT ![Len(seq_stack)] = h]
    BY <2>1 DEF Continue
  <2> HIDE DEF h
  <2> QED BY <2>5, <2>6, TurnIsForward
<1>7. CASE ret = "SUCCESS" /\ g.current_component_idx = NoIndex
  <2>1. Continue(NextCommand(g))
    BY <1>7 DEF Return
  <2>2. NextCommand(g).cmd_seq = g.cmd_seq
        /\ NextCommand(g).current_command = g.current_command + 1
    BY <1>4 DEF NextCommand
  <2>3. FrameFurtherOn(Top, NextCommand(g))
    BY <1>1, <1>2, <2>2, NextIsFurther
  <2> QED BY <2>1, <2>3, TurnIsForward DEF Continue
<1> QED BY <1>5, <1>6, <1>7

\* A frame in the middle of its command: at the next sequence, or at a later
\* component.
LEMMA LaterIsFurther ==
    ASSUME NEW R, Top \in FrameType(R), NEW g,
           g.cmd_seq = Top.cmd_seq, g.current_command = Top.current_command,
           g.current_component_idx \in 0 .. MaxComponents, LoopPlace(g) >= LoopPlace(Top),
           g.cmd_exec_state \in Nat, g.cmd_exec_state > Top.cmd_exec_state
    PROVE  FrameFurtherOn(Top, g)
<1>1. MaxComponents \in Nat
  BY SeqExecAssumption
<1>2. LoopPlace(g) \in Nat /\ LoopPlace(Top) \in Nat
  <2>1. Top.current_component_idx \in 0 .. MaxComponents
    BY DEF FrameType
  <2> QED BY <1>1, <2>1 DEF LoopPlace
<1>3. LoopPlace(g) > LoopPlace(Top) \/ LoopPlace(g) = LoopPlace(Top)
  BY <1>2
<1> QED BY <1>3 DEF FrameFurtherOn

\* What the lemmas about the steps ask for.
Framed(R) ==
    /\ IsProgram(code) /\ Maps
    /\ seq_stack \in Seq(FrameType(R)) /\ Running
    /\ "SUCCESS" \in R

LEMMA CurrentReturnIsForward ==
    ASSUME NEW R, Framed(R), NEW f \in FrameType(R), NEW v, f = [Current EXCEPT !.retval = v],
           NEW ret, Return(f, ret)
    PROVE  Forward
<1>1. /\ Current \in FrameType(R)
      /\ Current.cmd_seq = Top.cmd_seq
      /\ Current.current_command = Top.current_command
      /\ LoopPlace(Current) >= LoopPlace(Top)
  BY CurrentGoesUp DEF Framed
<1>2. f.cmd_seq = Current.cmd_seq /\ f.current_command = Current.current_command
      /\ LoopPlace(f) = LoopPlace(Current)
  BY <1>1 DEF FrameType, LoopPlace
<1> QED BY <1>1, <1>2, ReturnIsForward DEF Framed

LEMMA ReturningIsForward ==
    ASSUME NEW R, Framed(R), NEW ret, Return(Current, ret)
    PROVE  Forward
<1>1. /\ Current \in FrameType(R)
      /\ Current.cmd_seq = Top.cmd_seq
      /\ Current.current_command = Top.current_command
      /\ LoopPlace(Current) >= LoopPlace(Top)
  BY CurrentGoesUp DEF Framed
<1> QED BY <1>1, ReturnIsForward DEF Framed

LEMMA SchedulingIsForward ==
    ASSUME NEW R, Framed(R), NEW v \in R, NEW n \in Nat, n > Top.cmd_exec_state,
           NEW seq, NEW soft,
           Schedule([Current EXCEPT !.retval = v, !.cmd_exec_state = n], seq, soft)
    PROVE  Forward
<1> DEFINE g == [Current EXCEPT !.retval = v, !.cmd_exec_state = n]
<1>1. /\ Top \in FrameType(R) /\ Current \in FrameType(R)
      /\ Current.cmd_seq = Top.cmd_seq
      /\ Current.current_command = Top.current_command
      /\ LoopPlace(Current) >= LoopPlace(Top)
  BY CurrentGoesUp DEF Framed
<1>2. /\ g \in FrameType(R)
      /\ g.cmd_seq = Current.cmd_seq /\ g.current_command = Current.current_command
      /\ g.current_component_idx = Current.current_component_idx
      /\ g.cmd_exec_state = n
      /\ g.current_component_idx \in 0 .. MaxComponents
  BY <1>1 DEF FrameType
<1> HIDE DEF g
<1>3. LoopPlace(g) = LoopPlace(Current)
  BY <1>2 DEF LoopPlace
<1>4. FrameFurtherOn(Top, g)
  BY <1>1, <1>2, <1>3, LaterIsFurther
<1>5. CASE Len(seq_stack) < MaxSeqDepth
  <2>1. \E h : seq_stack' = Append([seq_stack EXCEPT ![Len(seq_stack)] = g], h)
    BY <1>5 DEF Schedule, Push, g
  <2> QED BY <1>4, <2>1, TurnIsForward DEF Framed
<1>6. CASE ~(Len(seq_stack) < MaxSeqDepth)
  <2>1. Return(g, "ERR_OVERFLOW")
    BY <1>6 DEF Schedule, g
  <2> QED BY <1>1, <1>2, <1>3, <2>1, ReturnIsForward DEF Framed
<1> QED BY <1>5, <1>6

LEMMA NextCommandIsForward ==
    ASSUME NEW R, Framed(R), NEW g, DOMAIN g = DOMAIN Top, g.cmd_seq = Top.cmd_seq,
           g.current_command = Top.current_command, Continue(NextCommand(g))
    PROVE  Forward
<1>1. Top \in FrameType(R)
  BY CurrentGoesUp DEF Framed
<1>2. /\ NextCommand(g).cmd_seq = Top.cmd_seq
      /\ NextCommand(g).current_command = Top.current_command + 1
  BY <1>1 DEF NextCommand, FrameType
<1>3. FrameFurtherOn(Top, NextCommand(g))
  BY <1>1, <1>2, NextIsFurther
<1> HIDE DEF NextCommand
<1> QED BY <1>3, TurnIsForward DEF Framed, Continue

LEMMA TryEachIsForward ==
    ASSUME NEW R, Framed(R), TryEach
    PROVE  Forward
<1> DEFINE f == Current
<1>1. /\ Top \in FrameType(R) /\ f \in FrameType(R)
      /\ f.cmd_exec_state = Top.cmd_exec_state
  BY CurrentGoesUp DEF Framed
<1>2. CASE ~NextAlternative(f)
  BY <1>2, ReturningIsForward DEF TryEach
<1>3. CASE NextAlternative(f) /\ MoreSequences(f)
  <2>1. Schedule([f EXCEPT !.retval = "SUCCESS", !.cmd_exec_state = f.cmd_exec_state + 1],
                 Command(f).seqs[f.cmd_exec_state + 1], TRUE)
    BY <1>3 DEF TryEach, Started
  <2>2. /\ f.cmd_exec_state + 1 \in Nat /\ f.cmd_exec_state + 1 > Top.cmd_exec_state
        /\ "SUCCESS" \in R
    BY <1>1 DEF FrameType, Framed
  <2> HIDE DEF f
  <2> QED BY <2>1, <2>2, SchedulingIsForward DEF f
<1>4. CASE NextAlternative(f) /\ ~MoreSequences(f)
  <2>1. PICK ret : Return([f EXCEPT !.retval = "SUCCESS"], ret)
    BY <1>4 DEF TryEach
  <2>2. [f EXCEPT !.retval = "SUCCESS"] \in FrameType(R)
    BY <1>1 DEF FrameType, Framed
  <2> QED BY <2>1, <2>2, CurrentReturnIsForward
<1> QED BY <1>2, <1>3, <1>4

LEMMA RunSequenceIsForward ==
    ASSUME NEW R, Framed(R), RunSequence
    PROVE  Forward
<1> DEFINE f == Current
<1>1. /\ Top \in FrameType(R) /\ f \in FrameType(R)
      /\ f.cmd_exec_state = Top.cmd_exec_state
  BY CurrentGoesUp DEF Framed
<1>2. CASE f.cmd_exec_state = 0
  <2>1. Schedule([f EXCEPT !.cmd_exec_state = 1], Command(f).seqs[1], FALSE)
    BY <1>2 DEF RunSequence
  <2>2. [f EXCEPT !.cmd_exec_state = 1] = [f EXCEPT !.retval = f.retval, !.cmd_exec_state = 1]
    BY <1>1 DEF FrameType
  <2>3. f.retval \in R /\ 1 > Top.cmd_exec_state
    BY <1>1, <1>2 DEF FrameType
  <2> HIDE DEF f
  <2> QED BY <2>1, <2>2, <2>3, SchedulingIsForward DEF f
<1>3. CASE f.cmd_exec_state # 0
  <2>1. PICK ret \in R : Return([f EXCEPT !.retval = ret], ret)
    <3>1. f.retval \in R
      BY <1>1 DEF FrameType
    <3> QED BY <1>3, <3>1 DEF RunSequence, Framed
  <2>2. [f EXCEPT !.retval = ret] \in FrameType(R)
    BY <1>1, <2>1 DEF FrameType
  <2> QED BY <2>1, <2>2, CurrentReturnIsForward
<1> QED BY <1>2, <1>3

LEMMA SetComponentIndexIsForward ==
    ASSUME NEW R, Framed(R), SetComponentIndex
    PROVE  Forward
<1>1. Top \in FrameType(R)
  BY CurrentGoesUp DEF Framed
<1> DEFINE select == Command(Top).select
           set    == IF select = {} THEN Indexes(Top) ELSE select \cap Indexes(Top)
           f      == [Top EXCEPT !.current_components = set]
<1>2. set \in SUBSET Nat
  <2>1. Indexes(Top) \in SUBSET Nat
    BY DEF Indexes
  <2> HIDE DEF select
  <2> QED BY <2>1
<1>3. /\ f \in FrameType(R) /\ DOMAIN f = DOMAIN Top
      /\ f.cmd_seq = Top.cmd_seq /\ f.current_command = Top.current_command
  <2> HIDE DEF set
  <2> QED BY <1>1, <1>2 DEF FrameType
<1>4. Continue(NextCommand(f)) \/ \E r : Finalize(f, r)
  BY DEF SetComponentIndex
<1> HIDE DEF f
<1>5. CASE Continue(NextCommand(f))
  BY <1>3, <1>5, NextCommandIsForward
<1>6. CASE \E r : Finalize(f, r)
  BY <1>3, <1>6, PopIsForward DEF Framed
<1> QED BY <1>4, <1>5, <1>6

LEMMA OverrideIsForward ==
    ASSUME NEW R, Framed(R), Override
    PROVE  Forward
<1>1. Top \in FrameType(R)
  BY CurrentGoesUp DEF Framed
<1>2. (\E b : Continue(NextCommand([Top EXCEPT !.soft_failure = b]))) \/ \E r : Finalize(Top, r)
  BY DEF Override
<1>3. CASE \E r : Finalize(Top, r)
  BY <1>1, <1>3, PopIsForward DEF Framed
<1>4. CASE \E b : Continue(NextCommand([Top EXCEPT !.soft_failure = b]))
  <2>1. PICK b : Continue(NextCommand([Top EXCEPT !.soft_failure = b]))
    BY <1>4
  <2> DEFINE f == [Top EXCEPT !.soft_failure = b]
  <2>2. /\ DOMAIN f = DOMAIN Top
        /\ f.cmd_seq = Top.cmd_seq /\ f.current_command = Top.current_command
    BY <1>1 DEF FrameType
  <2> HIDE DEF f
  <2> QED BY <2>1, <2>2, NextCommandIsForward DEF f
<1> QED BY <1>2, <1>3, <1>4

LEMMA OverrideSizeIsForward ==
    ASSUME NEW R, Framed(R), NEW i \in 0 .. MaxComponents - 1, NEW ret, OverrideSizeFails(i, ret)
    PROVE  Forward
<1>1. Top \in FrameType(R)
  BY CurrentGoesUp DEF Framed
<1> DEFINE params == Command(Top).params
           n      == First(Positions(params, "image_size"))
           soft   == SoftFailureAfter(params, n)
           f      == [Top EXCEPT !.soft_failure = soft,
                                 !.current_components_backup = Top.current_components,
                                 !.current_component_idx = i]
<1>2. params \in Seq(STRING)
  <2>1. code[Top.cmd_seq] \in Seq(CommandType(DOMAIN code))
    BY <1>1 DEF Framed, IsProgram, FrameType
  <2>2. Top.current_command + 1 \in 1 .. Len(code[Top.cmd_seq])
    BY <1>1, <2>1, LenProperties DEF OverrideSizeFails, At, AtCommand, FrameType
  <2>3. Command(Top) \in CommandType(DOMAIN code)
    BY <2>1, <2>2, ElementOfSeq DEF Command
  <2> QED BY <2>3 DEF CommandType
<1>3. soft \in BOOLEAN
  <2>1. Top.soft_failure \in BOOLEAN
    BY <1>1 DEF FrameType
  <2> HIDE DEF params, n
  <2> QED BY <1>2, <2>1, SoftFailureTyped
<1>4. f \in FrameType(R)
  <2>1. i \in 0 .. MaxComponents
    BY SeqExecAssumption
  <2> HIDE DEF soft
  <2> QED BY <1>1, <1>3, <2>1 DEF FrameType
<1>5. Finalize(component_idx_next(f), ret)
  BY DEF OverrideSizeFails
<1> HIDE DEF f
<1>6. component_idx_next(f) \in FrameType(R)
  BY <1>4, LoopGoesUp DEF Framed
<1> QED BY <1>5, <1>6, PopIsForward DEF Framed

\* Whatever the command is, whatever the platform answers.
LEMMA StepIsForward ==
    ASSUME NEW R, IsProgram(code), Maps, seq_stack \in Seq(FrameType(R)), "SUCCESS" \in R, SeqStep
    PROVE  Forward
<1>1. Framed(R)
  BY DEF Framed, SeqStep, EndOfSequence, RejectCommand, SkipCommand, ComponentGone,
         SetComponentIndex, TryEach, RunSequence, ValidateCommand, ValidateOverride,
         ParameterMissing, ParameterMalformed, CheckCondition, Perform, SetParameters,
         AssumeCondition, Abort, ConditionIsDependency, Override, OverrideSizeFails,
         DependencyIntegrityRefused, ProcessDependencyRefused, RetrieveFails, ToLoad,
         Ready, On, At, AtCommand
<1>2. Top \in FrameType(R) /\ Current \in FrameType(R)
      /\ Current.cmd_seq = Top.cmd_seq /\ Current.current_command = Top.current_command
  BY <1>1, CurrentGoesUp DEF Framed
<1>3. CASE EndOfSequence \/ RejectCommand \/ ComponentGone
  <2>1. \E g \in {Top, Current} : \E r : Finalize(g, r)
    BY <1>3 DEF EndOfSequence, RejectCommand, ComponentGone
  <2> QED BY <1>1, <1>2, <2>1, PopIsForward DEF Framed
<1>4. CASE SkipCommand \/ ValidateOverride
  <2>1. \E g \in {Top, Current} : Continue(NextCommand(g))
    BY <1>4 DEF SkipCommand, ValidateOverride
  <2>2. DOMAIN Current = DOMAIN Top
    BY <1>2 DEF FrameType
  <2> QED BY <1>1, <1>2, <2>1, <2>2, NextCommandIsForward
<1>5. CASE SetComponentIndex
  BY <1>1, <1>5, SetComponentIndexIsForward
<1>6. CASE TryEach
  BY <1>1, <1>6, TryEachIsForward
<1>7. CASE RunSequence
  BY <1>1, <1>7, RunSequenceIsForward
<1>8. CASE Override
  BY <1>1, <1>8, OverrideIsForward
<1>9. CASE \E i \in 0 .. MaxComponents - 1, ret \in PlatResults \ {"SUCCESS"} : OverrideSizeFails(i, ret)
  BY <1>1, <1>9, OverrideSizeIsForward
<1>10. CASE \/ ValidateCommand \/ ParameterMissing \/ ParameterMalformed
            \/ \E ret \in PlatResults : CheckCondition(ret) \/ Perform(ret) \/ SetParameters(ret)
            \/ AssumeCondition \/ Abort \/ ConditionIsDependency
            \/ DependencyIntegrityRefused \/ ProcessDependencyRefused
            \/ \E ret \in PlatResults \ {"SUCCESS"} : RetrieveFails(ret)
  <2>1. \E e : Return(Current, e)
    BY <1>10, ReturningStep
  <2> QED BY <1>1, <2>1, ReturningIsForward
<1> QED BY <1>3, <1>4, <1>5, <1>6, <1>7, <1>8, <1>9, <1>10 DEF SeqStep

-----------------------------------------------------------------------------
(***************************************************************************)
(* What it means to get further: no frame and no stack is further on than  *)
(* itself, and what is further on than a later state is further on than    *)
(* the earlier one.  So a machine that gets further in every step never is *)
(* where it was before; and as the places of a frame are finitely many and *)
(* stacks have at most MaxSeqDepth frames, it cannot go on for ever.       *)
(***************************************************************************)

LEMMA PlaceTyped ==
    ASSUME NEW R, NEW f \in FrameType(R)
    PROVE  /\ LoopPlace(f) \in 0 .. MaxComponents
           /\ f.current_command \in Nat /\ f.cmd_exec_state \in Nat
<1>1. MaxComponents \in Nat
  BY SeqExecAssumption
<1>2. f.current_component_idx \in 0 .. MaxComponents
  BY DEF FrameType
<1>3. LoopPlace(f) \in 0 .. MaxComponents
  BY <1>1, <1>2 DEF LoopPlace, NoIndex
<1> QED BY <1>3 DEF FrameType

LEMMA FramesInOrder ==
    ASSUME NEW R, NEW f \in FrameType(R), NEW g \in FrameType(R), NEW h \in FrameType(R)
    PROVE  /\ ~FrameFurtherOn(f, f)
           /\ FrameFurtherOn(f, g) /\ FrameFurtherOn(g, h) => FrameFurtherOn(f, h)
           /\ FrameFurtherOn(f, g) /\ AtSamePlace(g, h) => FrameFurtherOn(f, h)
           /\ AtSamePlace(f, g) /\ FrameFurtherOn(g, h) => FrameFurtherOn(f, h)
           /\ AtSamePlace(f, g) /\ AtSamePlace(g, h) => AtSamePlace(f, h)
<1>1. \A x \in {f, g, h} : /\ LoopPlace(x) \in 0 .. MaxComponents
                           /\ x.current_command \in Nat /\ x.cmd_exec_state \in Nat
  BY PlaceTyped
<1>2. MaxComponents \in Nat
  BY SeqExecAssumption
<1> QED BY <1>1, <1>2 DEF FrameFurtherOn, AtSamePlace

THEOREM FurtherOnIsAnOrder ==
    ASSUME NEW R, NEW s \in Seq(FrameType(R)), NEW t \in Seq(FrameType(R)),
           NEW u \in Seq(FrameType(R))
    PROVE  /\ ~StackFurtherOn(s, s)
           /\ StackFurtherOn(s, t) /\ StackFurtherOn(t, u) => StackFurtherOn(s, u)
<1>1. \A x \in {s, t, u} : /\ Len(x) \in Nat /\ DOMAIN x = 1 .. Len(x)
                           /\ \A i \in 1 .. Len(x) : x[i] \in FrameType(R)
  BY LenProperties, ElementOfSeq
<1>2. ~StackFurtherOn(s, s)
  <2> SUFFICES ASSUME NEW k \in DOMAIN s, k <= Len(s) => FrameFurtherOn(s[k], s[k])
               PROVE  FALSE
    BY DEF StackFurtherOn
  <2>1. k <= Len(s) /\ s[k] \in FrameType(R)
    BY <1>1
  <2> QED BY <2>1, FramesInOrder
<1>3. ASSUME StackFurtherOn(s, t), StackFurtherOn(t, u)
      PROVE  StackFurtherOn(s, u)
  <2>1. PICK i \in DOMAIN s : /\ i <= Len(t) + 1
                              /\ \A j \in 1 .. i - 1 : AtSamePlace(s[j], t[j])
                              /\ i <= Len(t) => FrameFurtherOn(s[i], t[i])
    BY <1>3 DEF StackFurtherOn
  <2>2. PICK k \in DOMAIN t : /\ k <= Len(u) + 1
                              /\ \A j \in 1 .. k - 1 : AtSamePlace(t[j], u[j])
                              /\ k <= Len(u) => FrameFurtherOn(t[k], u[k])
    BY <1>3 DEF StackFurtherOn
  <2>3. /\ i \in Nat /\ i >= 1 /\ i <= Len(s)
        /\ k \in Nat /\ k >= 1 /\ k <= Len(t)
        /\ Len(s) \in Nat /\ Len(t) \in Nat /\ Len(u) \in Nat
    BY <1>1
  <2>4. \A j \in Nat : /\ (1 <= j /\ j <= Len(s)) => s[j] \in FrameType(R)
                       /\ (1 <= j /\ j <= Len(t)) => t[j] \in FrameType(R)
                       /\ (1 <= j /\ j <= Len(u)) => u[j] \in FrameType(R)
    BY <1>1, <2>3
  \* The lower of the two frames that have moved or ended is the one for s and u.
  <2> DEFINE m == IF i <= k THEN i ELSE k
  <2>5. /\ m \in Nat /\ m >= 1 /\ m <= Len(s) /\ m <= Len(u) + 1
        /\ m <= i /\ m <= k /\ (m = i \/ m = k) /\ (m < i => m = k) /\ (m < k => m = i)
        /\ (i > Len(t) => m = k /\ m < i)
    BY <2>1, <2>2, <2>3
  <2> HIDE DEF m
  <2>6. ASSUME NEW j \in 1 .. m - 1
        PROVE  AtSamePlace(s[j], u[j])
    <3>1. /\ j \in Nat /\ 1 <= j /\ j \in 1 .. i - 1 /\ j \in 1 .. k - 1
          /\ j <= Len(s) /\ j <= Len(t) /\ j <= Len(u)
      BY <2>2, <2>3, <2>5
    <3>2. s[j] \in FrameType(R) /\ t[j] \in FrameType(R) /\ u[j] \in FrameType(R)
      BY <3>1, <2>4
    <3> QED BY <3>1, <3>2, <2>1, <2>2, FramesInOrder
  <2>7. ASSUME m <= Len(u)
        PROVE  FrameFurtherOn(s[m], u[m])
    <3>1. m <= Len(t)
      BY <2>3, <2>5
    <3>2. s[m] \in FrameType(R) /\ t[m] \in FrameType(R) /\ u[m] \in FrameType(R)
      BY <3>1, <2>4, <2>5, <2>7
    <3>3. CASE m < i
      <4>1. m = k /\ m \in 1 .. i - 1
        BY <2>3, <2>5, <3>3
      <4>2. AtSamePlace(s[m], t[m]) /\ FrameFurtherOn(t[m], u[m])
        BY <4>1, <2>1, <2>2, <2>7
      <4> QED BY <4>2, <3>2, FramesInOrder
    <3>4. CASE m < k
      <4>1. m = i /\ m \in 1 .. k - 1
        BY <2>3, <2>5, <3>4
      <4>2. FrameFurtherOn(s[m], t[m]) /\ AtSamePlace(t[m], u[m])
        BY <4>1, <2>1, <2>2, <3>1
      <4> QED BY <4>2, <3>2, FramesInOrder
    <3>5. CASE m = i /\ m = k
      <4>1. FrameFurtherOn(s[m], t[m]) /\ FrameFurtherOn(t[m], u[m])
        BY <3>5, <2>1, <2>2, <2>7, <3>1
      <4> QED BY <4>1, <3>2, FramesInOrder
    <3> QED BY <2>3, <2>5, <3>3, <3>4, <3>5
  <2>8. m \in DOMAIN s
    BY <1>1, <2>5
  <2> QED BY <2>5, <2>6, <2>7, <2>8 DEF StackFurtherOn
<1> QED BY <1>2, <1>3
=============================================================================
