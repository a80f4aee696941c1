----------------------------- MODULE MCProcessor -----------------------------
(***************************************************************************)
(* TLC instances of Processor: a library of command sequences and the      *)
(* envelopes made of them.                                                 *)
(***************************************************************************)
EXTENDS Processor

Cmd(o)            == [op |-> o, select |-> {}, params |-> <<>>, seqs |-> <<>>, nil |-> FALSE]
SetIndex(indexes) == [Cmd("set_component_index") EXCEPT !.select = indexes]
Override_(list)   == [Cmd("override_parameters") EXCEPT !.params = list]
Try(names)        == [Cmd("try_each") EXCEPT !.seqs = names, !.nil = FALSE]
RunSeq(name)      == [Cmd("run_sequence") EXCEPT !.seqs = <<name>>]
Check             == Cmd("dependency_integrity")
Process           == Cmd("process_dependency")

\* Sequences of one-component manifests, unless they select.
MCCode == [
    empty        |-> <<>>,
    set_uri      |-> <<Override_(<<"uri">>)>>,
    set_all_uri  |-> <<SetIndex({}), Override_(<<"uri">>)>>,
    fetch        |-> <<Override_(<<"uri">>), Cmd("fetch")>>,
    invoke       |-> <<Cmd("invoke")>>,
    check        |-> <<Check>>,
    process      |-> <<Process>>,
    both         |-> <<Check, Process>>,
    stale        |-> <<Override_(<<"uri">>), Check, Cmd("fetch"), Process>>,
    refresh      |-> <<Override_(<<"uri">>), Cmd("fetch"), Check, Process>>,
    nested_both  |-> <<RunSeq("both")>>,
    hidden       |-> <<RunSeq("fetch")>>,
    fallback     |-> <<Try(<<"both", "invoke">>)>>,
    fallback_all |-> <<SetIndex({}), Try(<<"both", "empty">>)>>,
    one_and_all  |-> <<SetIndex({1}), Check, SetIndex({}), Cmd("is_dependency"), Process>>,
    all          |-> <<SetIndex({}), Check, Process>>,
    unselected   |-> <<Check, Cmd("invoke")>>,
    abort        |-> <<Cmd("abort")>>,
    soft_abort   |-> <<Override_(<<"soft_failure_true">>), Cmd("abort")>>,
    broken       |-> <<Cmd("undecodable")>>]

Comp(id, dependency) == [id |-> id, dependency |-> dependency]
Env(list, seqs)      == [components |-> list, seqs |-> seqs]

\* Sequences of an envelope: the shared one and the two that are asked for.
Seqs(shared, install, invoke) ==
    [n \in {2, 6, 9} |-> CASE n = 2 -> shared [] n = 6 -> install [] OTHER -> invoke]
InstallOnly(shared, install) == [n \in {2, 6} |-> IF n = 2 THEN shared ELSE install]

World(ids, main, dep, inner) ==
    [code |-> MCCode,
     content |-> [id \in ids |-> "dep"],
     envelopes |-> [root |-> main, dep |-> dep, inner |-> inner]]

App == <<Comp("app", FALSE)>>
D1  == <<Comp("d1", TRUE)>>
D2  == <<Comp("d2", TRUE)>>

\* A root with one dependency that has none, in all orders of fetching, checking
\* and processing it; the dependency is sound, forbidden, broken or failing.
MCOneDependency ==
    {World({"d1"}, Env(D1, Seqs("set_uri", install, "both")),
           Env(App, seqs), Env(App, InstallOnly("empty", "invoke"))) :
        install \in {"both", "process", "stale", "refresh", "fallback", "nested_both", "severed"},
        seqs    \in {Seqs(shared, "fetch", "invoke") :
                        shared \in {"empty", "fetch", "hidden", "abort", "soft_abort"}}
                      \cup {Seqs("empty", "broken", "invoke"), Seqs("empty", "severed", "invoke"),
                            InstallOnly("empty", "soft_abort")}}

\* Dependencies that have dependencies: one that refers to itself, one that
\* shares its component with the root, two of them below one command, and
\* manifests with several components that do or do not select one.
MCNested ==
    {World({"d1", "d2"}, Env(list, InstallOnly("set_all_uri", install)),
           Env(deplist, InstallOnly("empty", depinstall)), Env(App, InstallOnly("empty", inner))) :
        list       \in {<<App[1], D1[1]>>, <<D1[1], D2[1]>>},
        install    \in {"all", "one_and_all", "fallback_all"},
        deplist    \in {D1, D2, <<D2[1], App[1]>>},
        depinstall \in {"both", "unselected", "fallback"},
        inner      \in {"invoke", "soft_abort"}}

One(main, dep) == {World({"d1"}, main, dep, Env(App, InstallOnly("empty", "invoke")))}

\* A root, its dependency and the dependency of that, checked and processed at
\* the top of a sequence, below run-sequence or below a try-each with a fallback.
MCChains ==
    {World({"d1", "d2"}, Env(D1, InstallOnly("empty", install)),
           Env(D2, InstallOnly("empty", depinstall)), Env(App, InstallOnly("empty", "invoke"))) :
        install \in {"both", "fallback", "nested_both"}, depinstall \in {"both", "fallback"}}

\* A directive with an effect in the shared sequence of the root.
MCForbidden == One(Env(App, InstallOnly("fetch", "empty")), Env(App, InstallOnly("empty", "empty")))

\* A dependency that updates the component it was itself loaded from, as one
\* processed through the candidate manifest component does.
MCCandidate == One(Env(D1, InstallOnly("empty", "both")), Env(D1, InstallOnly("empty", "refresh")))

\* A dependency that sets soft-failure at the entry of its shared sequence and
\* aborts there, processed from within run-sequence.
MCSoftEntry == One(Env(D1, InstallOnly("set_uri", "nested_both")),
                   Env(App, InstallOnly("soft_abort", "invoke")))

\* The worlds of the runs without a faulty platform are tame: these sequences
\* modify nothing, and dependencies with dependencies are made of them.
MCReadOnly == {"empty", "invoke", "check", "process", "both", "nested_both", "fallback",
               "set_uri", "set_all_uri", "unselected", "abort", "soft_abort"}
ASSUME RunsAreTame ==
    /\ ReadOnlySet(MCCode, MCReadOnly)
    /\ \A w \in MCOneDependency \cup MCNested :
          \A e \in {w.envelopes[name] : name \in DOMAIN w.envelopes \ {RootName}} :
              \/ Leaf(e)
              \/ \A n \in DOMAIN e.seqs : e.seqs[n] \in MCReadOnly \cup {Severed}

\* References that leak add up from call to call: the runs in which they do stop
\* at this many counted references to one slot.
MaxRefCount == 2
RefCountBound == \A s \in Slot : components[s].ref_count <= MaxRefCount
=============================================================================
