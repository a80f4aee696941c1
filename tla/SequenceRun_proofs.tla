------------------------- MODULE SequenceRun_proofs -------------------------
(***************************************************************************)
(* Proofs about SequenceRun: the properties of the runs, for every set of  *)
(* manifests, every nesting depth and every set of platform results.       *)
(*                                                                         *)
(* The inductive invariant IInv says of every frame that it is Sound (see  *)
(* SeqExec_proofs), of two adjacent frames that the lower one waits for    *)
(* the upper one, of the entry frame that it cannot fail softly, and of    *)
(* the log that an error of the platform is still on its way out.          *)
(***************************************************************************)
EXTENDS SequenceRun, SeqExec_proofs

Res == Endings \cup {"FAIL_SOFT_CONDITION"}

\* What never changes, and the type of what the steps write.
Fixed ==
    /\ setup \in Setups
    /\ code = setup.code
    /\ dry_run = setup.dry_run
    /\ manifest_stack = [e \in Entry |-> IF e = 0 THEN setup.map ELSE <<>>]
    /\ integrity_checked \in [Slot -> BOOLEAN]

FrameOK(f) ==
    /\ Sound(f)
    /\ f.manifest = 0
    /\ f.cmd_processor = setup.processor

FramesOK ==
    /\ seq_stack \in Seq(FrameType(Res))
    /\ Len(seq_stack) <= MaxSeqDepth
    /\ \A k \in 1 .. Len(seq_stack) : FrameOK(seq_stack[k])

\* The entry frame has no soft-failure flag, and if it waits at its first
\* command the manifest has only one component: MissingSetIndex, which is
\* evaluated again when it is resumed, does not then discard the result.
EntryOK ==
    Running =>
        /\ ~seq_stack[1].soft_failure
        /\ (seq_stack[1].cmd_exec_state # 0 /\ seq_stack[1].current_command = 0) =>
              Len(setup.map) = 1

ResultOK ==
    /\ seq_ret \in Res \cup {"ERR_AGAIN"}
    /\ seq_ret # "ERR_AGAIN" <=> ~Running
    /\ SoftFailureStaysInside

StackInv == FramesOK /\ CallChain /\ EntryOK /\ ResultOK

Hard(c) == c.call # "retrieve_manifest" /\ c.ret \notin {"SUCCESS", "FAIL_CONDITION"}

\* The error ret is handed from frame to frame, or was returned.
OnItsWay(r) ==
    IF Running THEN Top.retval = r /\ Top.cmd_exec_state # 0 ELSE seq_ret = r

LogOK ==
    /\ log \in Seq(CallType)
    /\ \A k \in 1 .. Len(log) : Hard(log[k]) => k = Len(log) /\ OnItsWay(log[k].ret)

IInv == Fixed /\ StackInv /\ LogOK

-----------------------------------------------------------------------------
LEMMA SetupTyped ==
    ASSUME Fixed
    PROVE  /\ IsProgram(code) /\ Maps /\ Main \in DOMAIN code
           /\ setup.processor \in Run \cup Validate
           /\ dry_run \in BOOLEAN
           /\ manifest_stack[0] = setup.map /\ 0 \in Entry
           /\ Len(setup.map) \in Nat
<1>1. /\ IsProgram(code) /\ Main \in DOMAIN code
      /\ setup.map \in Seq(Slot) /\ Len(setup.map) <= MaxComponents
      /\ setup.processor \in Run \cup Validate /\ dry_run \in BOOLEAN
  BY SetupsAssumption DEF Fixed
<1>2. 0 \in Entry
  BY SeqExecAssumption DEF Entry
<1>3. manifest_stack[0] = setup.map
  BY <1>2 DEF Fixed
<1>4. Maps
  <2> SUFFICES ASSUME NEW e \in Entry
               PROVE  manifest_stack[e] \in Seq(Slot) /\ Len(manifest_stack[e]) <= MaxComponents
    BY DEF Maps
  <2>1. CASE e = 0
    BY <1>1, <1>3, <2>1
  <2>2. CASE e # 0
    <3>1. manifest_stack[e] = <<>>
      BY <2>2 DEF Fixed
    <3>2. <<>> \in Seq(Slot) /\ Len(<<>>) = 0
      BY EmptySeq
    <3> QED BY <3>1, <3>2, SeqExecAssumption
  <2> QED BY <2>1, <2>2
<1>5. Len(setup.map) \in Nat
  BY <1>1, LenProperties
<1> QED BY <1>1, <1>2, <1>3, <1>4, <1>5

LEMMA StackTyped ==
    ASSUME FramesOK
    PROVE  /\ Len(seq_stack) \in Nat
           /\ DOMAIN seq_stack = 1 .. Len(seq_stack)
           /\ Running <=> Len(seq_stack) > 0
           /\ \A k \in 1 .. Len(seq_stack) : seq_stack[k] \in FrameType(Res)
<1>1. seq_stack \in Seq(FrameType(Res))
  BY DEF FramesOK
<1>2. Len(seq_stack) \in Nat /\ DOMAIN seq_stack = 1 .. Len(seq_stack)
  BY <1>1, LenProperties
<1>3. Running <=> Len(seq_stack) > 0
  BY <1>1, <1>2, EmptySeq DEF Running
<1>4. \A k \in 1 .. Len(seq_stack) : seq_stack[k] \in FrameType(Res)
  BY <1>1, ElementOfSeq
<1> QED BY <1>2, <1>3, <1>4

LEMMA MachineIsOK ==
    ASSUME Fixed, FramesOK
    PROVE  MachineOK(Res)
<1>1. Running => Sound(Top)
  <2> SUFFICES ASSUME Running PROVE Sound(Top)
    OBVIOUS
  <2>1. Len(seq_stack) \in 1 .. Len(seq_stack)
    BY StackTyped
  <2> QED BY <2>1 DEF FramesOK, FrameOK, Top
<1> QED BY <1>1, SetupTyped DEF MachineOK, FramesOK, Res

\* A frame below the top waits, and what CallChain says of the two frames.
LinkedIn(c, f, g) ==
    LET command == c[f.cmd_seq][f.current_command + 1]
    IN /\ f.current_command < Len(c[f.cmd_seq])
       /\ command.op \in Nesting
       /\ f.cmd_exec_state \in DOMAIN command.seqs
       /\ command.seqs[f.cmd_exec_state] = g.cmd_seq
       /\ f.current_component_idx # NoIndex
       /\ f.cmd_processor = g.cmd_processor

Linked(f, g) == LinkedIn(code, f, g)

LEMMA ChainIsLinked ==
    ASSUME FramesOK
    PROVE  CallChain <=> \A k \in 1 .. Len(seq_stack) - 1 : Linked(seq_stack[k], seq_stack[k + 1])
<1>1. Frames \ {Len(seq_stack)} = 1 .. Len(seq_stack) - 1
  BY StackTyped DEF Frames
<1> QED BY <1>1 DEF CallChain, Linked, LinkedIn, Command

\* Linked looks at few fields of the frames only.
LEMMA LinkedFields ==
    ASSUME NEW f, NEW g, Linked(f, g), NEW f1, NEW g1,
           f1.cmd_seq = f.cmd_seq, f1.current_command = f.current_command,
           f1.cmd_exec_state = f.cmd_exec_state,
           f1.current_component_idx = f.current_component_idx,
           f1.cmd_processor = f.cmd_processor,
           g1.cmd_seq = g.cmd_seq, g1.cmd_processor = g.cmd_processor
    PROVE  Linked(f1, g1)
BY DEF Linked, LinkedIn

LEMMA LinkedWaits ==
    ASSUME Fixed, FramesOK, NEW f \in FrameType(Res), NEW g, Linked(f, g)
    PROVE  f.cmd_exec_state # 0 /\ f.cmd_exec_state \in Nat /\ ~AtEnd(f)
<1>1. f.current_command < Len(code[f.cmd_seq]) /\ f.cmd_exec_state \in DOMAIN Command(f).seqs
  BY DEF Linked, LinkedIn, Command
<1>2. f.cmd_seq \in DOMAIN code /\ f.current_command \in Nat
  BY DEF FrameType
<1>3. code[f.cmd_seq] \in Seq(CommandType(DOMAIN code))
  BY <1>2, SetupTyped DEF IsProgram
<1>4. ~AtEnd(f)
  BY <1>1, <1>2, <1>3, LenProperties DEF AtEnd
<1>5. Command(f).seqs \in Seq(DOMAIN code)
  BY <1>4, MachineIsOK, CommandTyped DEF CommandType
<1>6. DOMAIN Command(f).seqs = 1 .. Len(Command(f).seqs) /\ Len(Command(f).seqs) \in Nat
  BY <1>5, LenProperties
<1> QED BY <1>1, <1>4, <1>6

-----------------------------------------------------------------------------
(***************************************************************************)
(* The invariant of the stack survives each of the three ways.  Program,   *)
(* map and setup do not change, so what is said of a frame now holds of    *)
(* the same frame after the step.                                          *)
(***************************************************************************)
Same == UNCHANGED <<code, manifest_stack, setup>>

LEMMA SameFrame ==
    ASSUME Same, NEW f
    PROVE  /\ FrameOK(f) => FrameOK(f)'
           /\ FrameType(Res)' = FrameType(Res)
<1>1. code' = code /\ manifest_stack' = manifest_stack /\ setup' = setup
  BY DEF Same
<1>2. FrameType(Res)' = FrameType(Res)
  BY <1>1 DEF FrameType
<1>3. FrameOK(f)' <=> FrameOK(f)
  BY <1>1 DEF FrameOK, Sound, InMap, Indexes, InLoop, Waits, AtEnd, Command
<1> QED BY <1>2, <1>3

\* What is left to show of a step that leaves a stack of n > 0 frames.
LEMMA StackAfter ==
    ASSUME Same, NEW n \in Nat \ {0}, n <= MaxSeqDepth,
           seq_stack' \in Seq(FrameType(Res)), Len(seq_stack') = n,
           \A k \in 1 .. n : FrameOK(seq_stack'[k]),
           \A k \in 1 .. n - 1 : Linked(seq_stack'[k], seq_stack'[k + 1]),
           ~seq_stack'[1].soft_failure,
           (seq_stack'[1].cmd_exec_state # 0 /\ seq_stack'[1].current_command = 0) =>
               Len(setup.map) = 1,
           seq_ret' = "ERR_AGAIN"
    PROVE  StackInv' /\ Running'
<1>1. code' = code /\ manifest_stack' = manifest_stack /\ setup' = setup
  BY DEF Same
<1>2. FramesOK'
  BY SameFrame DEF FramesOK
<1>3. DOMAIN seq_stack' = 1 .. n /\ Running'
  BY LenProperties, EmptySeq DEF Running
<1>4. CallChain'
  <2>1. (Frames \ {Len(seq_stack)})' = 1 .. n - 1
    BY <1>3 DEF Frames
  <2>2. \A k \in 1 .. n - 1 : LinkedIn(code', seq_stack'[k], seq_stack'[k + 1])
    BY <1>1 DEF Linked
  <2>3. \A k \in (Frames \ {Len(seq_stack)})' :
           LinkedIn(code', seq_stack'[k], seq_stack'[k + 1])
    BY <2>1, <2>2
  <2> QED BY <2>3 DEF CallChain, LinkedIn, Command
<1>5. EntryOK'
  BY <1>1 DEF EntryOK
<1>6. ResultOK'
  BY <1>3 DEF ResultOK, SoftFailureStaysInside
<1> QED BY <1>2, <1>3, <1>4, <1>5, <1>6 DEF StackInv

LEMMA ContinuesKeeps ==
    ASSUME Fixed, StackInv, Running, Same, Continues(Res)
    PROVE  StackInv' /\ Running'
<1> DEFINE n == Len(seq_stack)
<1>1. PICK g \in FrameType(Res) : /\ Sound(g) /\ SameOwner(g, Top) /\ KeepsSoft(g)
                                  /\ g.cmd_exec_state = 0
                                  /\ Continue(g)
  BY DEF Continues
<1>2. /\ seq_stack' \in Seq(FrameType(Res)) /\ Len(seq_stack') = n
      /\ \A k \in 1 .. n : seq_stack'[k] = IF k = n THEN g ELSE seq_stack[k]
      /\ seq_ret' = "ERR_AGAIN"
  BY <1>1, ContinuedStack DEF StackInv, FramesOK
<1>3. n \in Nat \ {0} /\ n <= MaxSeqDepth
  BY StackTyped DEF StackInv, FramesOK
<1>4. /\ \A k \in 1 .. n : FrameOK(seq_stack[k])
      /\ \A k \in 1 .. n - 1 : Linked(seq_stack[k], seq_stack[k + 1])
      /\ EntryOK
  BY ChainIsLinked DEF StackInv, FramesOK
<1>5. Top = seq_stack[n]
  BY DEF Top
<1> HIDE DEF n
<1>6. FrameOK(g)
  BY <1>1, <1>3, <1>4, <1>5 DEF FrameOK, SameOwner
<1>7. \A k \in 1 .. n : FrameOK(seq_stack'[k])
  BY <1>2, <1>4, <1>6
<1>8. ASSUME NEW k \in 1 .. n - 1 PROVE Linked(seq_stack'[k], seq_stack'[k + 1])
  <2>1. Linked(seq_stack[k], seq_stack[k + 1]) /\ seq_stack'[k] = seq_stack[k]
    BY <1>2, <1>3, <1>4
  <2>2. /\ seq_stack'[k + 1].cmd_seq = seq_stack[k + 1].cmd_seq
        /\ seq_stack'[k + 1].cmd_processor = seq_stack[k + 1].cmd_processor
    BY <1>1, <1>2, <1>3, <1>5 DEF SameOwner
  <2> QED BY <2>1, <2>2, LinkedFields
<1>9. /\ ~seq_stack'[1].soft_failure
      /\ (seq_stack'[1].cmd_exec_state # 0 /\ seq_stack'[1].current_command = 0) =>
            Len(setup.map) = 1
  <2>1. CASE n = 1
    <3>1. seq_stack'[1] = g /\ g.soft_failure = seq_stack[1].soft_failure
      BY <1>1, <1>2, <1>5, <2>1 DEF KeepsSoft, n
    <3> QED BY <1>1, <1>4, <3>1 DEF EntryOK
  <2>2. CASE n # 1
    BY <1>2, <1>3, <1>4, <2>2 DEF EntryOK
  <2> QED BY <2>1, <2>2
<1> QED BY <1>2, <1>3, <1>7, <1>8, <1>9, StackAfter

LEMMA NestsKeeps ==
    ASSUME Fixed, StackInv, Running, Same, Nests(Res)
    PROVE  StackInv' /\ Running'
<1> DEFINE n == Len(seq_stack)
<1>1. PICK g \in FrameType(Res), soft \in BOOLEAN :
         /\ Sound(g) /\ SameOwner(g, Top) /\ KeepsSoft(g)
         /\ g.current_command = Top.current_command /\ ~MissingSetIndex
         /\ g.cmd_exec_state # 0
         /\ n < MaxSeqDepth
         /\ Push(g, Command(g).seqs[g.cmd_exec_state], soft, g.cmd_processor)
  BY DEF Nests
<1> DEFINE seq == Command(g).seqs[g.cmd_exec_state]
           h   == NewFrame(seq, g.manifest, soft, g.cmd_processor, g.current_components)
<1>2. n \in Nat \ {0} /\ Top = seq_stack[n]
  BY StackTyped DEF StackInv, Top
<1>3. /\ \A k \in 1 .. n : FrameOK(seq_stack[k])
      /\ \A k \in 1 .. n - 1 : Linked(seq_stack[k], seq_stack[k + 1])
      /\ EntryOK
  BY ChainIsLinked DEF StackInv, FramesOK
<1>4. /\ g.current_component_idx # NoIndex /\ Command(g).op \in Nesting
      /\ g.cmd_exec_state \in DOMAIN Command(g).seqs /\ ~AtEnd(g)
  BY <1>1 DEF Sound, Waits, InLoop
<1>5. FrameOK(g)
  BY <1>1, <1>2, <1>3 DEF FrameOK, SameOwner
<1>6. seq \in DOMAIN code
  <2>1. Command(g).seqs \in Seq(DOMAIN code)
    BY <1>4, MachineIsOK, CommandTyped DEF StackInv, CommandType
  <2> QED BY <1>4, <2>1, ElementOfSeq, LenProperties
<1>7. h \in FrameType(Res) /\ FrameOK(h) /\ Linked(g, h)
  <2>1. /\ h.cmd_seq = seq /\ h.current_command = 0 /\ h.cmd_exec_state = 0
        /\ h.retval = "SUCCESS" /\ h.soft_failure = soft
        /\ h.current_component_idx = NoIndex
        /\ h.current_components = g.current_components
        /\ h.current_components_backup = {}
        /\ h.manifest = g.manifest /\ h.cmd_processor = g.cmd_processor
    BY DEF NewFrame
  <2>2. h \in FrameType(Res)
    <3>1. /\ g.current_components \in SUBSET Nat /\ g.manifest \in Entry
          /\ g.cmd_processor \in Run \cup Validate
      BY DEF FrameType
    <3>2. "SUCCESS" \in Res /\ NoIndex \in 0 .. MaxComponents
      BY SeqExecAssumption DEF Res, Endings, NoIndex
    <3> HIDE DEF seq
    <3> QED BY <1>6, <3>1, <3>2 DEF FrameType, NewFrame
  <2> HIDE DEF h
  <2>3. InMap(h)
    BY <1>1, <2>1 DEF Sound, InMap, Indexes
  <2>4. h.current_command <= Len(code[h.cmd_seq])
    BY <1>6, <2>1, SetupTyped, LenProperties DEF IsProgram
  <2>5. FrameOK(h)
    BY <1>5, <2>1, <2>3, <2>4 DEF FrameOK, Sound, InLoop, Waits
  <2>6. g.current_command < Len(code[g.cmd_seq])
    <3>1. g.current_command \in Nat
      BY DEF FrameType
    <3> QED BY <1>4, <3>1, MachineIsOK, CommandTyped DEF StackInv
  <2>7. Linked(g, h)
    BY <1>4, <2>1, <2>6 DEF Linked, LinkedIn, Command
  <2> QED BY <2>2, <2>5, <2>7
<1>8. /\ seq_stack' \in Seq(FrameType(Res)) /\ Len(seq_stack') = n + 1
      /\ \A k \in 1 .. n - 1 : seq_stack'[k] = seq_stack[k]
      /\ seq_stack'[n] = g
      /\ seq_stack'[n + 1] = h
      /\ seq_ret' = "ERR_AGAIN"
  BY <1>1, <1>7, PushedStack DEF StackInv, FramesOK
<1> HIDE DEF n, h, seq
<1>9. ASSUME NEW k \in 1 .. n + 1 PROVE FrameOK(seq_stack'[k])
  <2>1. CASE k = n + 1
    BY <1>7, <1>8, <2>1
  <2>2. CASE k = n
    BY <1>5, <1>8, <2>2
  <2>3. CASE k \in 1 .. n - 1
    BY <1>2, <1>3, <1>8, <2>3
  <2> QED BY <1>2, <2>1, <2>2, <2>3
<1>10. ASSUME NEW k \in 1 .. n PROVE Linked(seq_stack'[k], seq_stack'[k + 1])
  <2>1. CASE k = n
    BY <1>7, <1>8, <2>1
  <2>2. CASE k = n - 1
    <3>1. Linked(seq_stack[n - 1], seq_stack[n])
      BY <1>2, <1>3, <2>2
    <3>2. seq_stack'[k] = seq_stack[n - 1] /\ seq_stack'[k + 1] = g
      BY <1>2, <1>8, <2>2
    <3> QED BY <1>1, <1>2, <3>1, <3>2, LinkedFields DEF SameOwner
  <2>3. CASE k \in 1 .. n - 2
    <3>1. k \in 1 .. n - 1 /\ k + 1 \in 1 .. n - 1
      BY <1>2, <2>3
    <3> QED BY <1>3, <1>8, <3>1
  <2> QED BY <1>2, <2>1, <2>2, <2>3
<1>11. /\ ~seq_stack'[1].soft_failure
       /\ (seq_stack'[1].cmd_exec_state # 0 /\ seq_stack'[1].current_command = 0) =>
             Len(setup.map) = 1
  <2>1. CASE n = 1
    <3>1. seq_stack'[1] = g /\ g.soft_failure = seq_stack[1].soft_failure
      BY <1>1, <1>2, <1>8, <2>1 DEF KeepsSoft, n
    <3>2. ASSUME g.current_command = 0 PROVE Len(setup.map) = 1
      <4>1. Command(Top) = Command(g) /\ Top.manifest = 0
        BY <1>1, <1>2, <1>3, <2>1 DEF SameOwner, Command, FrameOK
      <4>2. Top.current_command = 0 /\ Len(seq_stack) < 2
        BY <1>1, <2>1, <3>2 DEF n
      <4>3. Command(Top).op \notin {"set_component_index", "undecodable"}
        BY <1>4, <4>1 DEF Nesting
      <4> QED BY <1>1, <4>1, <4>2, <4>3, SetupTyped DEF MissingSetIndex
    <3> QED BY <1>2, <1>3, <3>1, <3>2 DEF EntryOK
  <2>2. CASE n # 1
    BY <1>2, <1>3, <1>8, <2>2 DEF EntryOK
  <2> QED BY <2>1, <2>2
<1>12. n + 1 \in Nat \ {0} /\ n + 1 <= MaxSeqDepth
  BY <1>1, <1>2, SeqExecAssumption
<1>13. (n + 1) - 1 = n
  BY <1>2
<1> QED BY <1>8, <1>9, <1>10, <1>11, <1>12, <1>13, StackAfter

\* A frame that ends hands its result and its selection to the frame below,
\* which waits for it; the entry frame hands its result to the caller.
LEMMA EndsKeeps ==
    ASSUME Fixed, StackInv, Running, Same,
           NEW r \in Res \ {"FAIL_SOFT_CONDITION"}, EndsWith(Res, r)
    PROVE  StackInv' /\ (r \notin {"SUCCESS", "FAIL_CONDITION"} => OnItsWay(r)')
<1>1. PICK g \in FrameType(Res) : /\ InMap(g) /\ SameOwner(g, Top) /\ KeepsSoft(g)
                                  /\ Finalize(g, r)
  BY DEF EndsWith
<1>2. /\ Len(seq_stack) \in Nat \ {0} /\ Len(seq_stack) <= MaxSeqDepth
      /\ Top = seq_stack[Len(seq_stack)]
      /\ \A k \in 1 .. Len(seq_stack) : seq_stack[k] \in FrameType(Res)
  BY StackTyped DEF StackInv, FramesOK, Top
<1>3. /\ \A k \in 1 .. Len(seq_stack) : FrameOK(seq_stack[k])
      /\ \A k \in 1 .. Len(seq_stack) - 1 : Linked(seq_stack[k], seq_stack[k + 1])
      /\ EntryOK
  BY ChainIsLinked DEF StackInv, FramesOK
<1>4. /\ Len(seq_stack) = 1 => seq_stack' = <<>> /\ seq_ret' = Result(g, r)
      /\ Len(seq_stack) > 1 =>
            LET n == Len(seq_stack) - 1 IN
            /\ seq_stack' \in Seq(FrameType(Res)) /\ Len(seq_stack') = n
            /\ \A k \in 1 .. n - 1 : seq_stack'[k] = seq_stack[k]
            /\ seq_stack'[n] = [seq_stack[n] EXCEPT
                   !.retval = Result(g, r), !.current_components = g.current_components]
            /\ seq_ret' = "ERR_AGAIN"
  BY <1>1, PoppedStack DEF StackInv, FramesOK, Res
<1>5. r \notin {"SUCCESS", "FAIL_CONDITION"} => Result(g, r) = r
  BY DEF Result
<1>6. CASE Len(seq_stack) = 1
  <2>1. seq_stack' = <<>> /\ seq_ret' = Result(g, r)
    BY <1>4, <1>6
  <2>2. ~g.soft_failure
    BY <1>1, <1>2, <1>3, <1>6 DEF KeepsSoft, EntryOK
  <2>3. seq_ret' = r
    BY <2>1, <2>2 DEF Result
  <2>4. r # "ERR_AGAIN" /\ r # "FAIL_SOFT_CONDITION"
    BY SeqExecAssumption DEF Res, Endings
  <2>5. Len(seq_stack') = 0 /\ ~Running'
    BY <2>1, EmptySeq DEF Running
  <2>6. FramesOK'
    <3>1. seq_stack' \in Seq(FrameType(Res)')
      BY <2>1, EmptySeq
    <3>2. 1 .. Len(seq_stack') = {} /\ Len(seq_stack') <= MaxSeqDepth
      BY <2>5, SeqExecAssumption
    <3> QED BY <3>1, <3>2 DEF FramesOK
  <2>7. CallChain'
    <3>1. Frames' = {}
      BY <2>1 DEF Frames
    <3> QED BY <3>1 DEF CallChain
  <2>8. EntryOK' /\ ResultOK'
    BY <2>3, <2>4, <2>5 DEF EntryOK, ResultOK, SoftFailureStaysInside, Res
  <2> QED BY <2>3, <2>5, <2>6, <2>7, <2>8 DEF StackInv, OnItsWay
<1>7. CASE Len(seq_stack) > 1
  <2> DEFINE n == Len(seq_stack) - 1
             f == seq_stack[n]
             h == [f EXCEPT !.retval = Result(g, r), !.current_components = g.current_components]
  <2>1. n \in Nat \ {0} /\ n <= MaxSeqDepth /\ n + 1 = Len(seq_stack)
    BY <1>2, <1>7, SeqExecAssumption
  <2>2. /\ seq_stack' \in Seq(FrameType(Res)) /\ Len(seq_stack') = n
        /\ \A k \in 1 .. n - 1 : seq_stack'[k] = seq_stack[k]
        /\ seq_stack'[n] = h
        /\ seq_ret' = "ERR_AGAIN"
    BY <1>4, <1>7
  <2>3. f \in FrameType(Res) /\ FrameOK(f) /\ Linked(f, Top)
    BY <1>2, <1>3, <2>1
  <2>4. FrameOK(Top)
    BY <1>2, <1>3
  <2> HIDE DEF n, f
  <2>5. /\ h.cmd_seq = f.cmd_seq /\ h.current_command = f.current_command
        /\ h.cmd_exec_state = f.cmd_exec_state /\ h.retval = Result(g, r)
        /\ h.soft_failure = f.soft_failure
        /\ h.current_component_idx = f.current_component_idx
        /\ h.current_components = g.current_components
        /\ h.current_components_backup = f.current_components_backup
        /\ h.manifest = f.manifest /\ h.cmd_processor = f.cmd_processor
    BY <2>3 DEF FrameType
  <2> HIDE DEF h
  <2>6. f.cmd_exec_state # 0
    BY <2>3, LinkedWaits DEF StackInv
  <2>7. FrameOK(h)
    <3>1. g.manifest = 0 /\ f.manifest = 0
      BY <1>1, <2>3, <2>4 DEF SameOwner, FrameOK
    <3>2. InMap(h)
      BY <1>1, <2>3, <2>5, <3>1 DEF FrameOK, Sound, InMap, Indexes
    <3>3. Command(h) = Command(f) /\ (AtEnd(h) <=> AtEnd(f))
      BY <2>5 DEF Command, AtEnd
    <3>4. InLoop(h) /\ Waits(h)
      BY <2>3, <2>5, <2>6, <3>3 DEF FrameOK, Sound, InLoop, Waits
    <3> QED BY <2>3, <2>5, <3>2, <3>4 DEF FrameOK, Sound
  <2>8. ASSUME NEW k \in 1 .. n PROVE FrameOK(seq_stack'[k])
    <3>1. CASE k = n
      BY <2>2, <2>7, <3>1
    <3>2. CASE k \in 1 .. n - 1
      BY <1>3, <2>1, <2>2, <3>2
    <3> QED BY <2>1, <3>1, <3>2
  <2>9. ASSUME NEW k \in 1 .. n - 1 PROVE Linked(seq_stack'[k], seq_stack'[k + 1])
    <3>1. Linked(seq_stack[k], seq_stack[k + 1]) /\ seq_stack'[k] = seq_stack[k]
      BY <1>3, <2>1, <2>2
    <3>2. CASE k + 1 = n
      <4>1. Linked(seq_stack[k], f) /\ seq_stack'[k + 1] = h
        BY <2>2, <3>1, <3>2 DEF f
      <4> QED BY <2>5, <3>1, <4>1, LinkedFields
    <3>3. CASE k + 1 # n
      <4>1. k + 1 \in 1 .. n - 1
        BY <2>1, <3>3
      <4> QED BY <2>2, <3>1, <4>1
    <3> QED BY <3>2, <3>3
  <2>10. /\ ~seq_stack'[1].soft_failure
         /\ (seq_stack'[1].cmd_exec_state # 0 /\ seq_stack'[1].current_command = 0) =>
               Len(setup.map) = 1
    <3>1. CASE n = 1
      BY <1>3, <2>2, <2>5, <3>1 DEF EntryOK, f
    <3>2. CASE n # 1
      BY <1>3, <2>1, <2>2, <3>2 DEF EntryOK
    <3> QED BY <3>1, <3>2
  <2>11. StackInv' /\ Running'
    BY <2>1, <2>2, <2>8, <2>9, <2>10, StackAfter
  <2>12. Top' = h
    BY <2>2 DEF Top
  <2> QED BY <1>5, <2>5, <2>6, <2>11, <2>12 DEF OnItsWay
<1>8. Len(seq_stack) = 1 \/ Len(seq_stack) > 1
  <2>1. Len(seq_stack) \in Nat \ {0}
    BY <1>2
  <2>2. \A n \in Nat \ {0} : n = 1 \/ n > 1
    OBVIOUS
  <2> QED BY <2>1, <2>2
<1> QED BY <1>6, <1>7, <1>8

-----------------------------------------------------------------------------
(***************************************************************************)
(* The inductive invariant.                                                *)
(***************************************************************************)
LEMMA InitFixed == Init => Fixed
BY DEF Init, Fixed

LEMMA InitOK ==
    ASSUME Init
    PROVE  IInv
<1> DEFINE f == NewFrame(Main, 0, FALSE, setup.processor, InitSelected(0))
<1>1. Fixed
  BY InitFixed
<1>2. /\ seq_stack = <<f>> /\ seq_ret = "ERR_AGAIN" /\ log = <<>>
  BY DEF Init
<1>3. /\ f.cmd_seq = Main /\ f.current_command = 0 /\ f.cmd_exec_state = 0
      /\ f.retval = "SUCCESS" /\ f.soft_failure = FALSE
      /\ f.current_component_idx = NoIndex
      /\ f.current_components = InitSelected(0)
      /\ f.current_components_backup = {}
      /\ f.manifest = 0 /\ f.cmd_processor = setup.processor
  BY DEF NewFrame
<1>4. InitSelected(0) \in SUBSET Nat /\ InitSelected(0) \subseteq Indexes(f)
  <2>1. Indexes(f) = 0 .. Len(manifest_stack[0]) - 1
    BY <1>3 DEF Indexes
  <2>2. 0 .. 1 - 1 = {0}
    OBVIOUS
  <2>3. CASE Len(manifest_stack[0]) = 1
    <3>1. Indexes(f) = {0} /\ InitSelected(0) = {0}
      BY <2>1, <2>2, <2>3 DEF InitSelected
    <3>2. {0} \in SUBSET Nat
      OBVIOUS
    <3> QED BY <3>1, <3>2
  <2>4. CASE Len(manifest_stack[0]) # 1
    BY <2>4 DEF InitSelected
  <2> QED BY <2>3, <2>4
<1>5. f \in FrameType(Res)
  <2>1. "SUCCESS" \in Res /\ NoIndex \in 0 .. MaxComponents
    BY SeqExecAssumption DEF Res, Endings, NoIndex
  <2> QED BY <1>1, <1>4, <2>1, SetupTyped DEF FrameType, NewFrame
<1> HIDE DEF f
<1>6. FrameOK(f)
  <2>1. InMap(f)
    BY <1>3, <1>4 DEF InMap
  <2>2. f.current_command <= Len(code[f.cmd_seq])
    BY <1>1, <1>3, SetupTyped, LenProperties DEF IsProgram
  <2> QED BY <1>3, <2>1, <2>2 DEF FrameOK, Sound, InLoop, Waits
<1>7. seq_stack \in Seq(FrameType(Res)) /\ Len(seq_stack) = 1 /\ seq_stack[1] = f
  BY <1>2, <1>5
<1>8. FramesOK
  <2>1. \A k \in 1 .. Len(seq_stack) : FrameOK(seq_stack[k])
    BY <1>6, <1>7
  <2> QED BY <1>7, <2>1, SeqExecAssumption DEF FramesOK
<1>9. CallChain
  BY <1>7, <1>8, ChainIsLinked
<1>10. Running
  BY <1>7, <1>8, StackTyped
<1>11. EntryOK /\ ResultOK
  BY <1>2, <1>3, <1>7, <1>10 DEF EntryOK, ResultOK, SoftFailureStaysInside
<1>12. LogOK
  BY <1>2, EmptySeq DEF LogOK
<1> QED BY <1>1, <1>8, <1>9, <1>11, <1>12 DEF IInv, StackInv

\* Every action of SeqStep needs a frame.
LEMMA StepRuns == ASSUME SeqStep PROVE Running
<1>1. (\E o \in SUBSET (ComponentCommands \ Nesting), p \in {Run, Validate} : On(o, p)) => Running
  BY DEF On, At, AtCommand
<1>2. /\ EndOfSequence => Running
      /\ RejectCommand => Running
      /\ SkipCommand => Running
      /\ ComponentGone => Running
      /\ SetComponentIndex => Running
      /\ ValidateOverride => Running
      /\ Override => Running
      /\ \A i, r : OverrideSizeFails(i, r) => Running
  BY DEF EndOfSequence, RejectCommand, SkipCommand, ComponentGone, SetComponentIndex,
     ValidateOverride, Override, OverrideSizeFails, At, AtCommand
<1>3. TryEach \/ RunSequence => Running
  BY DEF TryEach, RunSequence, On, At, AtCommand
<1> QED BY <1>1, <1>2, <1>3, ReturningStep DEF SeqStep

LEMMA StepStack ==
    ASSUME IInv, Step
    PROVE  /\ Fixed' /\ StackInv' /\ Same
           /\ Touches /\ Reports(Res) /\ (Top.cmd_processor \in Run \/ Quiet)
<1>1. SeqStep /\ setup' = setup /\ Fixed /\ StackInv
  BY DEF Step, IInv
<1>2. MachineOK(Res) /\ Running /\ dry_run \in BOOLEAN
  BY <1>1, MachineIsOK, StepRuns, SetupTyped DEF StackInv
<1>3. /\ Touches /\ Reports(Res) /\ (Top.cmd_processor \in Run \/ Quiet)
      /\ UNCHANGED <<code, manifest_stack, components, dry_run>>
  BY <1>1, <1>2, StepTouches
<1>4. Same
  BY <1>1, <1>3 DEF Same
<1>5. Fixed'
  BY <1>1, <1>3 DEF Fixed, Touches
<1>6. StackInv'
  BY <1>1, <1>2, <1>4, StepGoes, ContinuesKeeps, NestsKeeps, EndsKeeps DEF Ends
<1> QED BY <1>3, <1>4, <1>5, <1>6

\* An error that is on its way stays so, and nothing is called; a new one sets
\* out from the frame that has met it.
LEMMA StepLog ==
    ASSUME IInv, Step
    PROVE  LogOK'
<1>1. /\ SeqStep /\ log' = IF call' = NoCall THEN log ELSE Append(log, call')
      /\ Fixed /\ StackInv /\ LogOK
  BY DEF Step, IInv
<1>2. Same /\ Touches /\ Reports(Res)
  BY StepStack
<1>3. MachineOK(Res) /\ Running
  BY <1>1, MachineIsOK, StepRuns DEF StackInv
<1>4. log \in Seq(CallType) /\ Len(log) \in Nat
  BY <1>1, LenProperties DEF LogOK
<1>5. CASE \E k \in 1 .. Len(log) : Hard(log[k])
  <2>1. PICK k \in 1 .. Len(log) : Hard(log[k])
    BY <1>5
  <2>2. /\ Top.retval = log[k].ret /\ Top.cmd_exec_state # 0
        /\ \A j \in 1 .. Len(log) : Hard(log[j]) => j = Len(log)
        /\ k = Len(log)
    BY <1>1, <1>3, <2>1 DEF LogOK, OnItsWay
  <2>3. log[k].ret \in PlatResults
    <3>1. log[k] \in CallType
      BY <1>4, <2>1, ElementOfSeq
    <3> QED BY <3>1 DEF CallType
  <2>4. Top.retval \notin {"SUCCESS", "FAIL_SOFT_CONDITION", "FAIL_CONDITION"}
    BY <2>1, <2>2, <2>3, SeqExecAssumption DEF Hard
  <2>5. ~MissingSetIndex
    <3> SUFFICES ASSUME MissingSetIndex PROVE FALSE
      OBVIOUS
    <3>1. /\ Top.current_command = 0 /\ Len(manifest_stack[Top.manifest]) # 1
          /\ Len(seq_stack) < 2
      BY DEF MissingSetIndex
    <3>2. Len(seq_stack) = 1 /\ Top = seq_stack[1]
      BY <1>1, <1>3, <3>1, StackTyped DEF StackInv, Top
    <3>3. Top.manifest = 0
      BY <1>1, <3>2 DEF StackInv, FramesOK, FrameOK
    <3>4. Len(setup.map) = 1
      BY <1>1, <1>3, <2>2, <3>1, <3>2 DEF StackInv, EntryOK
    <3> QED BY <1>1, <3>1, <3>3, <3>4, SetupTyped
  <2>6. call' = NoCall /\ EndsWith(Res, Top.retval)
    BY <1>1, <1>3, <2>2, <2>4, <2>5, FailureHandedOn
  <2>7. Top.retval \in Res \ {"FAIL_SOFT_CONDITION"}
    BY <2>2, <2>3, <2>4 DEF Res, Endings
  <2>8. PICK r : r = Top.retval
    OBVIOUS
  <2>9. OnItsWay(r)'
    <3>1. /\ r \in Res \ {"FAIL_SOFT_CONDITION"} /\ EndsWith(Res, r)
          /\ r \notin {"SUCCESS", "FAIL_CONDITION"}
      BY <2>4, <2>6, <2>7, <2>8
    <3> QED BY <1>1, <1>2, <1>3, <3>1, EndsKeeps
  <2>10. log' = log /\ log'[k].ret = r
    BY <1>1, <2>2, <2>6, <2>8
  <2>11. ASSUME NEW j \in 1 .. Len(log'), Hard(log[j])'
         PROVE  j = Len(log') /\ OnItsWay(log[j].ret)'
    <3>1. j = k /\ j = Len(log') /\ (log[j].ret)' = r
      BY <2>2, <2>10, <2>11 DEF Hard
    <3> QED BY <2>9, <3>1 DEF OnItsWay
  <2> QED BY <1>4, <2>10, <2>11 DEF LogOK
<1>6. CASE ~(\E k \in 1 .. Len(log) : Hard(log[k])) /\ call' = NoCall
  BY <1>1, <1>4, <1>6 DEF LogOK, Hard
<1>7. CASE ~(\E k \in 1 .. Len(log) : Hard(log[k])) /\ call' # NoCall
  <2>1. /\ call' \in CallType /\ log' = Append(log, call')
        /\ \A k \in 1 .. Len(log) : ~Hard(log[k])
    BY <1>1, <1>2, <1>7 DEF Touches
  <2>2. /\ log' \in Seq(CallType) /\ Len(log') = Len(log) + 1
        /\ \A k \in 1 .. Len(log) : log'[k] = log[k]
        /\ log'[Len(log) + 1] = call'
    BY <1>4, <2>1, AppendProperties
  <2>3. ASSUME Hard(call') PROVE OnItsWay(call.ret)'
    <3>1. EndsWith(Res, call'.ret)
      BY <1>2, <1>7, <2>3 DEF Reports, Hard
    <3>2. call'.ret \in Res \ {"FAIL_SOFT_CONDITION"}
      BY <2>1, SeqExecAssumption DEF CallType, Res, Endings
    <3>3. call'.ret \notin {"SUCCESS", "FAIL_CONDITION"}
      BY <2>3 DEF Hard
    <3>4. PICK r : r = call'.ret
      OBVIOUS
    <3>5. OnItsWay(r)'
      BY <1>1, <1>2, <1>3, <3>1, <3>2, <3>3, <3>4, EndsKeeps
    <3> QED BY <3>4, <3>5 DEF OnItsWay
  <2>4. ASSUME NEW k \in 1 .. Len(log'), Hard(log'[k])
        PROVE  k = Len(log') /\ OnItsWay(log[k].ret)'
    <3>1. k = Len(log) + 1
      BY <1>4, <2>1, <2>2, <2>4
    <3> QED BY <2>2, <2>3, <2>4, <3>1 DEF OnItsWay
  <2> QED BY <2>2, <2>4 DEF LogOK, Hard, OnItsWay
<1> QED BY <1>5, <1>6, <1>7

LEMMA StutterKeeps == ASSUME IInv, UNCHANGED vars PROVE IInv'
<1>1. IInv <=> IInv'
  BY DEF vars, IInv, Fixed, StackInv, FramesOK, FrameOK, EntryOK, ResultOK, LogOK, OnItsWay,
     Running, Top, SoftFailureStaysInside, CallChain, Frames, Command, Sound, InMap, InLoop,
     Waits, AtEnd, Indexes, FrameType, Hard
<1> QED BY <1>1

LEMMA NextKeeps == ASSUME IInv, [Next]_vars PROVE IInv'
<1>1. CASE Step
  BY <1>1, StepStack, StepLog DEF IInv
<1>2. CASE UNCHANGED vars
  BY <1>2, StutterKeeps
<1> QED BY <1>1, <1>2 DEF Next, Terminated

\* The machine never leaves the invariant, whatever manifest is run or validated
\* and whatever the platform answers.
THEOREM Invariance == Spec => []IInv
<1>1. Init => IInv
  BY InitOK
<1>2. IInv /\ [Next]_vars => IInv'
  BY NextKeeps
<1> QED BY <1>1, <1>2, PTL DEF Spec

-----------------------------------------------------------------------------
(***************************************************************************)
(* What follows from the invariant.                                        *)
(***************************************************************************)
LEMMA InvImpliesTypeOK == ASSUME IInv PROVE TypeOK
<1>1. Fixed /\ FramesOK /\ ResultOK
  BY DEF IInv, StackInv
<1>2. Len(seq_stack) <= MaxSeqDepth /\ Frames = 1 .. Len(seq_stack)
  BY <1>1, StackTyped DEF FramesOK, Frames
<1>3. ASSUME NEW k \in Frames
      PROVE  LET f == seq_stack[k] IN
             /\ f.cmd_seq \in DOMAIN code
             /\ f.current_command \in 0 .. Len(code[f.cmd_seq])
             /\ f.cmd_exec_state \in Nat
             /\ f.soft_failure \in BOOLEAN
             /\ f.manifest \in Entry
             /\ f.current_component_idx \in Indexes(f) \cup {NoIndex}
             /\ f.current_components \subseteq Indexes(f)
             /\ f.current_components_backup \subseteq Indexes(f)
  <2> DEFINE f == seq_stack[k]
  <2>1. f \in FrameType(Res) /\ Sound(f)
    BY <1>1, <1>2, StackTyped DEF FramesOK, FrameOK
  <2> HIDE DEF f
  <2>2. /\ f.cmd_seq \in DOMAIN code /\ f.current_command \in Nat
        /\ f.cmd_exec_state \in Nat /\ f.soft_failure \in BOOLEAN /\ f.manifest \in Entry
    BY <2>1 DEF FrameType
  <2>3. Len(code[f.cmd_seq]) \in Nat
    BY <1>1, <2>2, SetupTyped, LenProperties DEF IsProgram
  <2>4. f.current_command \in 0 .. Len(code[f.cmd_seq])
    BY <2>1, <2>2, <2>3 DEF Sound
  <2> QED BY <2>1, <2>2, <2>4 DEF Sound, InMap, f
<1> QED BY <1>1, <1>2, <1>3 DEF TypeOK, Fixed, ResultOK

LEMMA InvImpliesNoStaleResult == ASSUME IInv PROVE NoStaleResult
<1>1. Running => Sound(Top)
  BY MachineIsOK DEF IInv, StackInv, MachineOK
<1> QED BY <1>1 DEF NoStaleResult, Sound, Waits

LEMMA InvImpliesHardErrorIsFinal == ASSUME IInv PROVE HardErrorIsFinal
<1>1. DOMAIN log = 1 .. Len(log)
  BY LenProperties DEF IInv, LogOK
<1> QED BY <1>1 DEF IInv, LogOK, Hard, OnItsWay, HardErrorIsFinal

\* Every frame stays inside its program, its manifest and its selection, and the
\* stack inside its depth, for every manifest.
THEOREM TypeCorrect == Spec => []TypeOK
<1>1. IInv => TypeOK
  BY InvImpliesTypeOK
<1> QED BY <1>1, Invariance, PTL

\* A frame below the top is suspended in exactly the command that pushed the
\* frame above it (suit_seq_exec_schedule and suit_seq_exec_finalize pair up).
THEOREM CallsAreChained == Spec => []CallChain
<1>1. IInv => CallChain
  BY DEF IInv, StackInv
<1> QED BY <1>1, Invariance, PTL

\* No command starts with the result of an earlier nested sequence.
THEOREM ResultsAreConsumed == Spec => []NoStaleResult
<1>1. IInv => NoStaleResult
  BY InvImpliesNoStaleResult
<1> QED BY <1>1, Invariance, PTL

\* suit_process_scheduled never returns the soft failure of a nested sequence.
THEOREM SoftFailureIsPrivate == Spec => []SoftFailureStaysInside
<1>1. IInv => SoftFailureStaysInside
  BY DEF IInv, StackInv, ResultOK
<1> QED BY <1>1, Invariance, PTL

\* An error of the platform is the last thing that happens and is what the
\* caller gets, through any nesting of try-each and run-sequence.
THEOREM ErrorsAreFinal == Spec => []HardErrorIsFinal
<1>1. IInv => HardErrorIsFinal
  BY InvImpliesHardErrorIsFinal
<1> QED BY <1>1, Invariance, PTL

\* A step of the machine touches only components that are selected.
THEOREM TouchesOnlySelected == Spec => OnlySelectedTouched
<1> DEFINE A == LET selected == SlotsOf(Selected) IN
                Running => /\ \A s \in Slot \ selected : parameters'[s] = parameters[s]
                           /\ call'.call # "none" => call'.slot \in selected
<1>1. IInv /\ [Next]_vars => [A]_vars
  <2> SUFFICES ASSUME IInv, [Next]_vars PROVE [A]_vars
    OBVIOUS
  <2>1. CASE Step
    <3>1. Touches
      BY <2>1, StepStack
    <3>2. call' = NoCall => call'.call = "none"
      BY DEF NoCall
    <3> QED BY <3>1, <3>2 DEF Touches
  <2>2. CASE UNCHANGED vars
    BY <2>2
  <2> QED BY <2>1, <2>2 DEF Next, Terminated
<1> QED BY <1>1, Invariance, PTL DEF Spec, OnlySelectedTouched

\* Validating a sequence calls nothing and stores nothing.
THEOREM ValidationHasNoEffect == Spec => ValidationIsPure
<1> DEFINE A == setup.processor \in Validate =>
                   UNCHANGED <<log, parameters, integrity_checked>>
<1>1. IInv /\ [Next]_vars => [A]_vars
  <2> SUFFICES ASSUME IInv, [Next]_vars PROVE [A]_vars
    OBVIOUS
  <2>1. CASE Step
    <3>1. Running /\ FramesOK
      BY <2>1, StepRuns DEF Step, IInv, StackInv
    <3>2. Top.cmd_processor = setup.processor
      <4>1. Len(seq_stack) \in 1 .. Len(seq_stack)
        BY <3>1, StackTyped
      <4> QED BY <3>1, <4>1 DEF FramesOK, FrameOK, Top
    <3>3. Top.cmd_processor \in Run \/ Quiet
      BY <2>1, StepStack
    <3>4. setup.processor \in Validate => Quiet
      BY <3>2, <3>3 DEF Run, Validate
    <3> QED BY <2>1, <3>4 DEF Quiet, Step
  <2>2. CASE UNCHANGED vars
    BY <2>2
  <2> QED BY <2>1, <2>2 DEF Next, Terminated
<1> QED BY <1>1, Invariance, PTL DEF Spec, ValidationIsPure

\* Every step gets further, for every program and every answer of the platform:
\* what Termination needs besides a machine that goes on while it can.  Getting
\* further is a strict order (FurtherOnIsAnOrder), and TypeCorrect and the
\* invariant bound every place: commands, components and alternatives are
\* finitely many, and the stack is not deeper than MaxSeqDepth.
THEOREM StepsMoveForward == Spec => MovesForward
<1>1. IInv /\ [Next]_vars => [Running => StackFurtherOn(seq_stack, seq_stack')]_vars
  <2> SUFFICES ASSUME IInv, [Next]_vars
               PROVE  [Running => StackFurtherOn(seq_stack, seq_stack')]_vars
    OBVIOUS
  <2>1. CASE Step
    <3>1. IsProgram(code) /\ Maps /\ seq_stack \in Seq(FrameType(Res)) /\ "SUCCESS" \in Res
      BY SetupTyped DEF IInv, StackInv, FramesOK, Res, Endings
    <3>2. SeqStep
      BY <2>1 DEF Step
    <3> QED BY <3>1, <3>2, StepIsForward DEF Forward
  <2>2. CASE UNCHANGED vars
    BY <2>2
  <2> QED BY <2>1, <2>2 DEF Next, Terminated
<1> QED BY <1>1, Invariance, PTL DEF Spec, MovesForward
=============================================================================
