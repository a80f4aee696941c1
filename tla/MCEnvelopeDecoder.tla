-------------------------- MODULE MCEnvelopeDecoder --------------------------
(***************************************************************************)
(* TLC instance of EnvelopeDecoder: a set of manifests and the envelopes   *)
(* they may come in, sound ones and ones with a single fault each.         *)
(***************************************************************************)
EXTENDS EnvelopeDecoder, TLC

In(content)  == [kind |-> "content", of |-> content]
By(content)  == [kind |-> "digest", of |-> content]
Not          == [kind |-> "absent", of |-> NoBytes]

NoMembers == [n \in Severable |-> Absent]
NoChoice  == [n \in Severable |-> Not]

Base ==
    [decodes      |-> TRUE,
     component_id |-> "top",
     seq_num      |-> 1,
     version      |-> NoBytes,
     components   |-> <<"app">>,
     dependencies |-> {},
     seqs         |-> [n \in Unseverable |-> IF n \in {"shared", "invoke"} THEN n ELSE Absent],
     choice       |-> NoChoice]

MCManifest == [
    integrated |-> [Base EXCEPT !.choice["install"] = In("install"),
                                !.choice["dependency_resolution"] = In("resolution")],
    severed    |-> [Base EXCEPT !.seq_num = 2, !.version = "1.2.3",
                                !.components = <<"app", "dep">>, !.dependencies = {1},
                                !.choice["install"] = By("install"),
                                !.choice["candidate_verification"] = By("candidate"),
                                !.choice["text"] = By("text")],
    local      |-> [Base EXCEPT !.component_id = "local", !.version = Malformed],
    garbage    |-> [Base EXCEPT !.decodes = FALSE],
    nameless   |-> [Base EXCEPT !.component_id = Malformed],
    empty      |-> [Base EXCEPT !.components = <<>>],
    foreign    |-> [Base EXCEPT !.components = <<"app", "foreign">>],
    outside    |-> [Base EXCEPT !.dependencies = {1}],
    unshared   |-> [Base EXCEPT !.seqs["shared"] = Absent]]

MCAuthorized == {<<"top", "app">>, <<"top", "dep">>, <<"local", "app">>}

\* An envelope with one right signature and nothing outside of the manifest.
Signed(name) ==
    [decodes |-> TRUE, digest |-> name, signatures |-> <<name>>, manifest |-> name,
     members |-> NoMembers, payloads |-> NoBytes]

Carrying(e, n, content) == [e EXCEPT !.members[n] = content]

Full == Carrying(Carrying(Carrying(Signed("severed"), "install", "install"),
                          "candidate_verification", "candidate"), "text", "text")

\* What is in order.
Sound == [
    plain        |-> Signed("integrated"),
    full         |-> [Full EXCEPT !.signatures = <<"severed", "severed">>],
    minified     |-> [Signed("severed") EXCEPT !.payloads = "payload"],
    unsigned     |-> [Signed("local") EXCEPT !.signatures = <<>>],
    extra        |-> Carrying(Carrying(Signed("local"), "payload_fetch", "fetch"),
                              "dependency_resolution", "resolution")]

\* What is not, for one reason each.
Faulty == [
    broken       |-> [Signed("integrated") EXCEPT !.decodes = FALSE],
    blank        |-> Carrying(Full, "payload_fetch", Empty),
    undigested   |-> [Signed("integrated") EXCEPT !.digest = Malformed],
    replaced     |-> [Signed("integrated") EXCEPT !.manifest = "severed"],
    garbage      |-> Signed("garbage"),
    nameless     |-> Signed("nameless"),
    half_signed  |-> [Signed("integrated") EXCEPT !.signatures = <<"severed", "integrated">>],
    unauthentic  |-> [Signed("integrated") EXCEPT !.signatures = <<>>],
    no_component |-> Signed("empty"),
    foreign      |-> Signed("foreign"),
    outside      |-> Signed("outside"),
    unshared     |-> Signed("unshared"),
    twice        |-> Carrying(Signed("integrated"), "install", "install"),
    exchanged    |-> Carrying(Full, "candidate_verification", "install"),
    edited       |-> Carrying(Full, "text", "install"),
    loose_text   |-> Carrying(Signed("integrated"), "text", "text")]

MCEnvelope == Sound @@ Faulty

MCAsked  == {"full", "unsigned", "half_signed", "foreign", "blank"}
MCWanted == {{"digest", "alg", "version", "version_len"}, {}, {"digest"}, {"version_len"}}
MCParts  == "1.2.3" :> 3
=============================================================================
