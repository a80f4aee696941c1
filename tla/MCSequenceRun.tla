---------------------------- MODULE MCSequenceRun ----------------------------
(***************************************************************************)
(* TLC instances of SequenceRun: the manifests that are tried, and what    *)
(* their execution should amount to, written as an ordinary recursive      *)
(* interpreter without a stack of frames.                                  *)
(***************************************************************************)
EXTENDS SequenceRun

AllSet        == {Required[op] : op \in DOMAIN Required} \cup {"encryption_info"}

OneComponent  == {<<0>>}
TwoComponents == {<<0, 1>>}

Setup(programs, maps, presets, processors, dry_runs) ==
    [code : programs, map : maps, parameters : [Slot -> presets],
     processor : processors, dry_run : dry_runs]

(***************************************************************************)
(* Commands.                                                               *)
(***************************************************************************)
Cmd(op)           == [op |-> op, select |-> {}, params |-> <<>>, seqs |-> <<>>, nil |-> FALSE]
SetIndex(indexes) == [Cmd("set_component_index") EXCEPT !.select = indexes]
SetAll            == Cmd("set_component_index")
Params(op, list)  == [Cmd(op) EXCEPT !.params = list]
SoftTrue          == Params("override_parameters", <<"soft_failure_true">>)
SoftFalse         == Params("override_parameters", <<"soft_failure_false">>)
RunSeq(seq)       == [Cmd("run_sequence") EXCEPT !.seqs = <<seq>>]
Try(seqs, nil)    == [Cmd("try_each") EXCEPT !.seqs = seqs, !.nil = nil]

Program(main, a, b) == [main |-> main, a |-> a, b |-> b]
UpToTwo(S) == {<<c>> : c \in S} \cup {<<p[1], p[2]>> : p \in S \X S}

\* Parameters overridden and set at two levels, below try-each: the platform may
\* refuse an image size, and soft-failure is refused at the top.
Lists == {<<"content">>, <<"image_size", "content">>, <<"soft_failure_true">>,
          <<"content", "soft_failure_true", "image_size", "component_slot">>}
ParameterCommands ==
    {Params("override_parameters", list) : list \in Lists}
        \cup {Params("set_parameters", list) : list \in Lists}
        \cup {Cmd("write"), Cmd("component_slot")}
ParameterPrograms ==
    {Program(<<select, first, Try(<<"a", "b">>, FALSE)>>, a, <<b>>) :
        select \in {SetIndex({1}), SetAll},
        first  \in {Params("override_parameters", list) : list \in Lists},
        a      \in UpToTwo(ParameterCommands),
        b      \in {Cmd("write"), Cmd("vendor_identifier"),
                    Params("set_parameters", <<"image_size", "content">>)}}

\* Alternatives and nested sequences that change the selection, fail softly or
\* hard, or fall back on one another, below a command that loops over both
\* components.
Leaves == {SetIndex({0}), SetAll, Cmd("vendor_identifier"), Cmd("abort"), SoftTrue, SoftFalse}
Calling == {RunSeq("b"), Try(<<"b", "b">>, TRUE)}
AlternativePrograms ==
    {Program(<<SetAll, outer, last>>, a, b) :
        outer \in {Try(<<"a", "b">>, FALSE), RunSeq("a")},
        last  \in {Cmd("fetch")},
        a     \in {<<c>> : c \in Leaves \cup Calling}
                    \cup {<<c, d>> : c \in Leaves \ {Cmd("abort")}, d \in Leaves \cup Calling}
                    \cup {<<c, d>> : c \in Calling, d \in Leaves \cup {RunSeq("b")}},
        b     \in {<<c>> : c \in Leaves}
                    \cup {<<SetAll, Cmd("vendor_identifier")>>, <<SoftTrue, Cmd("abort")>>,
                          <<SetIndex({1}), Cmd("abort")>>}}

\* Every command, well formed or not, alone in an entry sequence or nested.
\* No dependency is stored anywhere: the two dependency commands fail early.
Everything ==
    {Cmd(op) : op \in Checks \cup Effects \cup {"abort", "is_dependency", "process_dependency",
                                              "dependency_integrity", "undecodable"}}
        \cup {SetIndex({0}), SetIndex({1}), SetAll, SoftTrue}
        \cup {Params("override_parameters", <<"content", "image_size">>),
              Params("set_parameters", <<"content", "image_size">>)}
ValidationPrograms ==
    {Program(<<SetIndex({0}), c>> \o <<outer>>, a, <<b>>) :
        c     \in {Cmd("abort"), SoftTrue, Cmd("write"), SetAll},
        outer \in {Try(<<"a", "b">>, FALSE), RunSeq("a")},
        a     \in {<<e>> : e \in Everything}
                    \cup {<<SetAll, e, RunSeq("b")>> : e \in Everything}
                    \cup {<<e, Try(<<"b", "b">>, TRUE)>> : e \in Everything},
        b     \in {Cmd("invoke"), RunSeq("b"), Cmd("undecodable")}}

SinglePrograms == {Program(<<e>>, <<Cmd("abort")>>, <<Cmd("abort")>>) : e \in Everything}
NestedPrograms ==
    {Program(main, a, <<b>>) :
        main \in {<<SetAll, Try(<<"a", "b">>, nil)>> : nil \in BOOLEAN}
                    \cup {<<SetAll, RunSeq("a")>>},
        a    \in {<<SoftTrue, e>> : e \in Everything}
                    \cup {<<RunSeq("b")>>, <<SetAll, Try(<<"b", "b">>, TRUE)>>},
        b    \in {Cmd("abort"), Cmd("invoke"), SetIndex({2}), RunSeq("b")}}

MCPrograms ==
    Setup(AlternativePrograms, TwoComponents, {{"vid", "uri"}}, {"run"}, {FALSE})
        \cup Setup(ParameterPrograms, TwoComponents, {{}}, {"run"}, BOOLEAN)
        \cup Setup(ValidationPrograms, OneComponent \cup TwoComponents, {{}}, Validate, {FALSE})
        \cup Setup(SinglePrograms, OneComponent \cup TwoComponents, {{}, AllSet},
                  {"run", "validate_common"}, BOOLEAN)
        \cup Setup(NestedPrograms, OneComponent \cup TwoComponents, {{}, AllSet}, {"run"}, BOOLEAN)

\* An alternative that ends in a directive, and another one to fall back on.
MCFallback ==
    Setup({Program(<<Try(<<"a", "b">>, FALSE)>>, <<Cmd("fetch")>>, <<Cmd("invoke")>>)},
          OneComponent, {{"uri"}}, {"run"}, {FALSE})

(***************************************************************************)
(* The reference.  Its state st is [k, sel, soft, depth, params, ret]: k   *)
(* is the next entry of the log, where the platform's answers are found.   *)
(***************************************************************************)
RECURSIVE RefRun(_, _, _), RefCommands(_, _), RefLoop(_, _, _, _), RefTry(_, _, _),
          RefSet(_, _, _), RefOverride(_, _)

Map        == manifest_stack[0]
Validating == setup.processor # "run"
Ends(st, ret) == [st EXCEPT !.ret = ret]

\* The platform is asked op about slot s.
Ask(op, s, st) ==
    IF st.k \in DOMAIN log /\ log[st.k].call = op /\ log[st.k].slot = s
    THEN [st EXCEPT !.k = @ + 1, !.ret = log[st.k].ret]
    ELSE Ends(st, "disagree")

\* set-parameters on slot s, one parameter after the other.
RefSet(params, s, st) ==
    IF params = <<>> THEN st
    ELSE LET p == Head(params)
             r == IF p = "image_size" /\ p \notin st.params[s]
                  THEN Ask("override_image_size", s, st) ELSE st
         IN IF p \in DOMAIN SoftFailure THEN Ends(st, "ERR_UNSUPPORTED_PARAMETER")
            ELSE IF r.ret = "SUCCESS"
                 THEN RefSet(Tail(params), s, [r EXCEPT !.params[s] = @ \cup {p}])
                 ELSE r

\* override-parameters on all selected components, one parameter after the
\* other.  The log holds one answer for the image size: the last one.
RefOverride(params, st) ==
    LET p    == Head(params)
        gets(indexes, t) == [t EXCEPT !.params = [s \in Slot |->
                @[s] \cup (IF \E i \in indexes : Map[i + 1] = s THEN {p} ELSE {})]]
        answered == st.k \in DOMAIN log /\ log[st.k].call = "override_image_size"
        last == CHOOSE i \in st.sel : Map[i + 1] = log[st.k].slot
        done == IF log[st.k].ret = "SUCCESS" THEN st.sel ELSE {i \in st.sel : i < last}
        rest == {i \in st.sel : i > last}
    IN IF params = <<>> THEN st
       ELSE IF p \in DOMAIN SoftFailure
            THEN IF st.depth = 1 THEN Ends(st, "ERR_UNSUPPORTED_COMMAND")
                 ELSE RefOverride(Tail(params), [st EXCEPT !.soft = SoftFailure[p]])
       ELSE IF p # "image_size" \/ st.sel = {}
            THEN RefOverride(Tail(params), gets(st.sel, st))
       ELSE IF ~answered THEN Ends(st, "disagree")
       ELSE IF log[st.k].ret = "SUCCESS"
            THEN RefOverride(Tail(params), gets(st.sel, [st EXCEPT !.k = @ + 1]))
       ELSE [gets(done, st) EXCEPT
                !.k = @ + 1, !.ret = log[st.k].ret,
                !.sel = IF rest = {} THEN @ ELSE {First(rest)}]

\* One command on the component with index i.  Whether a parameter is malformed
\* is the log's last word: no call follows, and the result is what it is.
RefOne(c, i, st) ==
    LET s == Map[i + 1]
        answered == st.k \in DOMAIN log
        r == RefRun(c.seqs[1], st, FALSE)
        dependency == s \in Dependencies
    IN CASE c.op = "run_sequence" -> (IF r.ret = "soft" THEN Ends(r, "SUCCESS") ELSE r)
         [] c.op = "try_each"     -> RefTry(c, 1, st)
         [] Validating -> (IF setup.processor = "validate_shared" /\ c.op \in ForbiddenInShared
                           THEN Ends(st, "ERR_MANIFEST_VALIDATION") ELSE st)
         [] c.op = "abort" -> Ends(st, "FAIL_CONDITION")
         [] c.op = "is_dependency" ->
              (IF dependency THEN st ELSE Ends(st, "FAIL_CONDITION"))
         [] c.op = "dependency_integrity" ->
              (IF dependency /\ dry_run THEN st
               ELSE Ends(IF dependency THEN Ask("retrieve_manifest", s, st) ELSE st,
                         "FAIL_CONDITION"))
         [] c.op = "process_dependency" ->
              (IF ~dependency THEN Ends(st, "ERR_UNSUPPORTED_COMPONENT_ID")
               ELSE IF dry_run THEN st ELSE Ends(st, "ERR_ORDER"))
         [] c.op = "set_parameters" -> RefSet(c.params, s, st)
         [] c.op \in DOMAIN Required /\ Required[c.op] \notin st.params[s] ->
              (IF c.op \in {"fetch", "write"} THEN Ends(st, "ERR_UNAVAILABLE_PAYLOAD")
               ELSE Ends(st, "ERR_UNAVAILABLE_PARAMETER"))
         [] ~answered /\ seq_ret \in MalformedResults(c.op, st.params[s]) -> Ends(st, seq_ret)
         [] c.op \in Checks /\ dry_run -> st
         [] OTHER -> Ask(c.op, s, st)

\* Alternative number n and the ones after it; all are looked at to validate.
RefTry(c, n, st) ==
    LET r == RefRun(c.seqs[n], st, TRUE) IN
    IF n > Len(c.seqs) THEN (IF c.nil THEN st ELSE Ends(st, "ERR_CRASH"))
    ELSE IF r.ret = "soft" \/ (r.ret = "SUCCESS" /\ Validating /\ n < Len(c.seqs))
         THEN RefTry(c, n + 1, Ends(r, "SUCCESS"))
         ELSE r

\* A command on the components `rest' that are left of the selection `all'.  A
\* failure leaves the component after the failed one selected.
RefLoop(c, rest, all, st) ==
    IF rest = {} THEN [st EXCEPT !.sel = all]
    ELSE LET i == First(rest)
             r == RefOne(c, i, [st EXCEPT !.sel = {i}])
         IN IF r.ret = "SUCCESS" THEN RefLoop(c, rest \ {i}, all, r)
            ELSE [r EXCEPT !.sel = IF rest = {i} THEN all ELSE {First(rest \ {i})}]

RefCommand(c, st) ==
    CASE c.op = "undecodable" -> Ends(st, "ERR_DECODING")
      [] c.op = "set_component_index" ->
           (IF c.select \subseteq 0 .. Len(Map) - 1
            THEN [st EXCEPT !.sel = IF c.select = {} THEN 0 .. Len(Map) - 1 ELSE c.select]
            ELSE Ends(st, IF Validating THEN "ERR_MANIFEST_VALIDATION"
                          ELSE "ERR_MISSING_COMPONENT"))
      [] c.op = "override_parameters" ->
           (IF Validating THEN st ELSE RefOverride(c.params, st))
      [] OTHER -> RefLoop(c, st.sel, st.sel, st)

RefCommands(commands, st) ==
    IF commands = <<>> THEN st
    ELSE LET r == RefCommand(Head(commands), st) IN
         IF r.ret = "SUCCESS" THEN RefCommands(Tail(commands), r) ELSE r

\* A sequence has a soft-failure flag of its own and shares the selection.
RefRun(seq, st, soft) ==
    LET r == RefCommands(code[seq], [st EXCEPT !.soft = soft, !.depth = @ + 1]) IN
    IF st.depth = MaxSeqDepth THEN Ends(st, "ERR_OVERFLOW")
    ELSE [r EXCEPT !.ret = IF r.soft /\ @ = "FAIL_CONDITION" THEN "soft" ELSE @,
                   !.soft = st.soft, !.depth = st.depth]

Reference ==
    LET st0 == [k |-> 1, sel |-> InitSelected(0), soft |-> FALSE, depth |-> 0,
                params |-> setup.parameters, ret |-> "SUCCESS"]
    IN IF /\ Len(Map) # 1 /\ code[Main] # <<>>
          /\ Head(code[Main]).op \notin {"set_component_index", "undecodable"}
       THEN Ends(st0, "ERR_MANIFEST_VALIDATION")
       ELSE RefRun(Main, st0, FALSE)

\* When the stack machine is done it has asked the platform the same questions
\* in the same order, stored the same parameters and returned the same code as
\* the recursive interpreter does on the same answers.
AgreesWithReference ==
    ~Running =>
        /\ Reference.ret = seq_ret
        /\ Reference.k = Len(log) + 1
        /\ Reference.params = parameters
=============================================================================
