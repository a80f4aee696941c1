--------------------------- MODULE EnvelopeDecoder ---------------------------
(***************************************************************************)
(* The envelope decoder (suit_decoder.c) and its two users in suit.c:      *)
(* suit_processor_load_envelope, which decodes an envelope step by step    *)
(* into the entry above the top of the manifest stack and raises the top   *)
(* when all of it is in order, and suit_processor_get_manifest_metadata,   *)
(* which borrows the same decoder and the same entry and which the         *)
(* platform may call whenever the processor calls the platform.            *)
(*                                                                         *)
(* The functions of the decoder are operators on [state, entry, ret]: the  *)
(* decoder state, the stack entry it fills (decoded_manifest), and the     *)
(* result so far.                                                          *)
(***************************************************************************)
EXTENDS EnvelopeData

CONSTANTS
    VersionParts,       \* how many integers a version consists of
    CreateResults,      \* what creating the components may return
    SequenceNumResults, \* what suit_plat_authorize_sequence_num may return
    ReleaseResults,     \* what suit_manifest_release may return
    Asked,              \* the envelopes metadata is asked of
    Wanted,             \* the outputs asked for, as sets of pointers given
    Rooms               \* the sizes of the array given for the version

\* What loading returns when a manifest is in order and does not get loaded.  The
\* loop over the components and the platform may return anything; their results
\* are named so that they are not taken for those of the decoder.
LateResults == {"ERR_OVERFLOW"} \cup ((CreateResults \cup SequenceNumResults) \ {"SUCCESS"})

DecoderResults == {"ERR_ORDER", "ERR_ZCBOR", "ERR_DECODING", "FAIL_CONDITION", "ERR_AUTHENTICATION",
                   "ERR_UNAUTHORIZED_COMPONENT", "ERR_MANIFEST_VALIDATION"}

ASSUME ResultsAssumption == LateResults \cap (DecoderResults \cup {"none"}) = {}
ASSUME AskedAssumption == Asked \subseteq DOMAIN Envelope

VARIABLES
    decoder_state,
    manifest_stack,
    manifest_stack_height,
    pc,                 \* where suit_processor_load_envelope is
    envelope,           \* its argument
    ret,                \* what the last load returned
    answer              \* what the last step gave out as metadata

vars == <<decoder_state, manifest_stack, manifest_stack_height, pc, envelope, ret, answer>>

Entry == 0 .. MaxManifests - 1

\* suit_manifest_state after a memset; bytes and status of every member.
EmptyManifest ==
    [component_id |-> NoBytes, seq_num |-> 0, version |-> NoBytes, payloads |-> NoBytes,
     bytes  |-> [n \in Member |-> NoBytes],
     status |-> [n \in Member |-> "UNAVAILABLE"]]

\* envelope and manifest share their memory: at most one of them is set.
InvalidState ==
    [step |-> "INVALID", digest |-> NoBytes, signatures |-> <<>>,
     envelope |-> NoBytes, manifest |-> NoBytes]

NoAnswer == [ret |-> "none"]

Init ==
    /\ decoder_state = InvalidState
    /\ manifest_stack = [e \in Entry |-> EmptyManifest]
    /\ manifest_stack_height = 0
    /\ pc = "idle"
    /\ envelope = None
    /\ ret = "none"
    /\ answer = NoAnswer

-----------------------------------------------------------------------------
(***************************************************************************)
(* The functions of the decoder.  Each one refuses to run out of turn      *)
(* without touching the state, and resets the state when it fails.         *)
(***************************************************************************)
Snapshot(s, e, r) == [state |-> s, entry |-> e, ret |-> r]

OutOfTurn(x)      == Snapshot(x.state, x.entry, "ERR_ORDER")
Fails(x, r)       == Snapshot(InvalidState, x.entry, r)
Reaches(x, step)  == Snapshot([x.state EXCEPT !.step = step], x.entry, "SUCCESS")

suit_decoder_init(x) ==
    Snapshot([InvalidState EXCEPT !.step = "INITIALIZED"], x.entry, "SUCCESS")

\* suit_processor_decode_envelope begins with a memset of the entry.
suit_processor_wipe(entry) == EmptyManifest

\* The members the envelope carries are stored before anything is verified.
suit_decoder_decode_envelope(x, name) ==
    LET e == Envelope[name]
        stored(n) == n \in Severable /\ e.members[n] \notin {Absent, Empty}
    IN IF x.state.step # "INITIALIZED" THEN OutOfTurn(x)
       ELSE IF ~e.decodes THEN Fails(x, "ERR_ZCBOR")
       ELSE LET filled == [x.entry EXCEPT
                    !.payloads = e.payloads,
                    !.bytes  = [n \in Member |-> IF stored(n) THEN e.members[n] ELSE @[n]],
                    !.status = [n \in Member |-> IF stored(n) THEN "SEVERED" ELSE @[n]]]
            IN IF \E n \in Severable : e.members[n] = Empty
               THEN Snapshot(InvalidState, [filled EXCEPT !.payloads = x.entry.payloads],
                             "ERR_DECODING")
               ELSE Snapshot([step |-> "ENVELOPE_DECODED", digest |-> e.digest,
                              signatures |-> e.signatures, envelope |-> name,
                              manifest |-> NoBytes], filled, "SUCCESS")

\* Platform: what checking a digest returns.
suit_plat_check_digest(digest, content) ==
    IF digest = content THEN "SUCCESS" ELSE "FAIL_CONDITION"

verify_suit_digest(digest, content) ==
    IF digest = Malformed THEN "ERR_DECODING" ELSE suit_plat_check_digest(digest, content)

suit_decoder_check_manifest_digest(x) ==
    LET r == verify_suit_digest(x.state.digest, Envelope[x.state.envelope].manifest) IN
    IF x.state.step # "ENVELOPE_DECODED" THEN OutOfTurn(x)
    ELSE IF r = "SUCCESS" THEN Reaches(x, "MANIFEST_DIGEST_VERIFIED")
    ELSE Fails(x, r)

suit_decoder_decode_manifest(x) ==
    LET name == Envelope[x.state.envelope].manifest
        m    == Manifest[name]
    IN IF x.state.step # "MANIFEST_DIGEST_VERIFIED" THEN OutOfTurn(x)
       ELSE IF ~m.decodes THEN Fails(x, "ERR_ZCBOR")
       ELSE IF m.component_id = Malformed
       THEN Snapshot(InvalidState, [x.entry EXCEPT !.version = m.version], "ERR_DECODING")
       ELSE Snapshot([x.state EXCEPT !.step = "MANIFEST_DECODED", !.envelope = NoBytes,
                                     !.manifest = name],
                     [x.entry EXCEPT !.component_id = m.component_id,
                                     !.version = m.version, !.seq_num = m.seq_num],
                     "SUCCESS")

\* Platform: a signature authenticates what it signs.
cose_sign1_authenticate_digest(signature, digest) ==
    IF signature = digest THEN "SUCCESS" ELSE "ERR_AUTHENTICATION"

\* Faulty variant: the result of the last signature decides.
suit_decoder_authenticate_by_last(x) ==
    LET signatures == x.state.signatures IN
    IF x.state.step # "MANIFEST_DECODED" THEN OutOfTurn(x)
    ELSE IF \/ signatures = <<>> /\ x.entry.component_id \in Unsigned
            \/ /\ signatures # <<>>
               /\ cose_sign1_authenticate_digest(signatures[Len(signatures)], x.state.digest)
                      = "SUCCESS"
    THEN Reaches(x, "MANIFEST_AUTHENTICATED")
    ELSE Fails(x, "ERR_AUTHENTICATION")

\* All signatures are tried, and all have to be right.
suit_decoder_authenticate_manifest(x) ==
    LET signatures == x.state.signatures IN
    IF x.state.step # "MANIFEST_DECODED" THEN OutOfTurn(x)
    ELSE IF \/ signatures = <<>> /\ x.entry.component_id \in Unsigned
            \/ /\ signatures # <<>>
               /\ \A i \in DOMAIN signatures :
                     cose_sign1_authenticate_digest(signatures[i], x.state.digest) = "SUCCESS"
    THEN Reaches(x, "MANIFEST_AUTHENTICATED")
    ELSE Fails(x, "ERR_AUTHENTICATION")

check_dependency_indexes(m) == \A d \in m.dependencies : d < Len(m.components)

\* Faulty variant: an unauthorized component leaves the decoder where it is.
suit_decoder_authorize_without_reset(x) ==
    LET m == Manifest[x.state.manifest] IN
    IF x.state.step # "MANIFEST_AUTHENTICATED" THEN OutOfTurn(x)
    ELSE IF m.components = <<>> THEN Snapshot(x.state, x.entry, "ERR_MANIFEST_VALIDATION")
    ELSE IF \E i \in DOMAIN m.components :
                <<x.entry.component_id, m.components[i]>> \notin Authorized
    THEN Fails(x, "ERR_UNAUTHORIZED_COMPONENT")
    ELSE IF ~check_dependency_indexes(m) THEN Fails(x, "ERR_MANIFEST_VALIDATION")
    ELSE Reaches(x, "MANIFEST_AUTHORIZED")

\* An identifier that does not decode is one that is not authorized.
suit_decoder_authorize_manifest(x) ==
    LET m == Manifest[x.state.manifest] IN
    IF x.state.step # "MANIFEST_AUTHENTICATED" THEN OutOfTurn(x)
    ELSE IF m.components = <<>> THEN Fails(x, "ERR_MANIFEST_VALIDATION")
    ELSE IF \E i \in DOMAIN m.components :
                <<x.entry.component_id, m.components[i]>> \notin Authorized
    THEN Fails(x, "ERR_UNAUTHORIZED_COMPONENT")
    ELSE IF ~check_dependency_indexes(m) THEN Fails(x, "ERR_MANIFEST_VALIDATION")
    ELSE Reaches(x, "MANIFEST_AUTHORIZED")

(***************************************************************************)
(* The macros of suit_decoder_decode_sequences, one member at a time: the  *)
(* bytes and the status it ends with, where "INVALID" is an error.         *)
(***************************************************************************)
MemberState(bytes, status) == [bytes |-> bytes, status |-> status]

UNSEVERABLE_SEQUENCE_DECODE(content, old) ==
    CASE content = Absent                                 -> [old EXCEPT !.status = "UNAVAILABLE"]
      [] content # Absent /\ old.status = "UNAVAILABLE"   -> MemberState(content, "AUTHENTICATED")
      [] content # Absent /\ old.status # "UNAVAILABLE"   -> [old EXCEPT !.status = "INVALID"]

\* A member that the manifest integrates or has the digest of.
SEVERABLE_SEQUENCE_DECODE(choice, old) ==
    CASE choice.kind = "content" /\ old.status = "UNAVAILABLE" ->
            MemberState(choice.of, "AUTHENTICATED")
      [] choice.kind = "digest" /\ old.status = "SEVERED" ->
            [old EXCEPT !.status = IF verify_suit_digest(choice.of, old.bytes) = "SUCCESS"
                                   THEN "AUTHENTICATED" ELSE "INVALID"]
      [] choice.kind = "digest" /\ old.status # "SEVERED" -> [old EXCEPT !.status = "SEVERED"]
      [] OTHER -> [old EXCEPT !.status = "INVALID"]

\* The text is severed as a rule: its digest alone makes it unavailable.
text_decode(choice, old) ==
    CASE choice.kind = "absent" ->
            [old EXCEPT !.status = IF @ = "UNAVAILABLE" THEN "UNAVAILABLE" ELSE "INVALID"]
      [] choice.kind # "absent" /\ old.status = "SEVERED" ->
            [old EXCEPT !.status = IF verify_suit_digest(choice.of, old.bytes) = "SUCCESS"
                                   THEN "AUTHENTICATED" ELSE "INVALID"]
      [] choice.kind # "absent" /\ old.status # "SEVERED" -> [old EXCEPT !.status = "UNAVAILABLE"]

\* Extensions that the manifest does not list keep the status they have, other
\* members are unavailable.
DecodedMember(m, n, old) ==
    CASE n \in Unseverable -> UNSEVERABLE_SEQUENCE_DECODE(m.seqs[n], old)
      [] n = "text" -> text_decode(m.choice[n], old)
      [] n \in Severable \ {"text"} /\ m.choice[n].kind # "absent" ->
            SEVERABLE_SEQUENCE_DECODE(m.choice[n], old)
      [] n \in Severable \ {"text"} /\ m.choice[n].kind = "absent" ->
            IF n \in Extensions THEN old ELSE [old EXCEPT !.status = "UNAVAILABLE"]

suit_decoder_decode_sequences(x) ==
    LET m == Manifest[x.state.manifest]
        decoded == [n \in Member |->
                       DecodedMember(m, n, MemberState(x.entry.bytes[n], x.entry.status[n]))]
        left(n) == IF decoded[n].status = "INVALID" THEN "UNAVAILABLE" ELSE decoded[n].status
        filled == Snapshot(x.state, [x.entry EXCEPT !.bytes  = [n \in Member |-> decoded[n].bytes],
                                                    !.status = [n \in Member |-> left(n)]], x.ret)
    IN IF x.state.step # "MANIFEST_AUTHORIZED" THEN OutOfTurn(x)
       ELSE IF m.seqs["shared"] # Absent /\ \A n \in Member : decoded[n].status # "INVALID"
       THEN Reaches(filled, "SEQUENCES_DECODED")
       ELSE Fails(filled, "ERR_MANIFEST_VALIDATION")

\* The components themselves belong to ComponentRegistry; r is the result of the
\* loop over them.  What a failed load created is released again.
suit_decoder_create_components(x, r) ==
    IF x.state.step # "SEQUENCES_DECODED" THEN OutOfTurn(x)
    ELSE IF r = "SUCCESS" THEN Reaches(x, "COMPONENTS_CREATED")
    ELSE Snapshot(InvalidState, EmptyManifest, r)

-----------------------------------------------------------------------------
(***************************************************************************)
(* suit_processor_load_envelope, one function of the decoder per step.     *)
(***************************************************************************)
Above == Snapshot(decoder_state, manifest_stack[manifest_stack_height], ret)

LoadRefused ==
    /\ pc = "idle"
    /\ manifest_stack_height = MaxManifests
    /\ ret' = "ERR_OVERFLOW"
    /\ answer' = NoAnswer
    /\ UNCHANGED <<decoder_state, manifest_stack, manifest_stack_height, pc, envelope>>

LoadEnvelope(name) ==
    /\ pc = "idle"
    /\ manifest_stack_height < MaxManifests
    /\ manifest_stack' = [manifest_stack EXCEPT ![manifest_stack_height] = suit_processor_wipe(@)]
    /\ decoder_state' = suit_decoder_init(Above).state
    /\ envelope' = name
    /\ ret' = "none"
    /\ pc' = "decode_envelope"
    /\ answer' = NoAnswer
    /\ UNCHANGED manifest_stack_height

\* One function was called: the load goes on to the next one or returns.
Continue(x, next) ==
    /\ decoder_state' = x.state
    /\ manifest_stack' = [manifest_stack EXCEPT ![manifest_stack_height] = x.entry]
    /\ ret' = IF x.ret = "SUCCESS" THEN "none" ELSE x.ret
    /\ pc' = IF x.ret = "SUCCESS" THEN next ELSE "idle"
    /\ envelope' = IF x.ret = "SUCCESS" THEN envelope ELSE None
    /\ answer' = NoAnswer

DecodeEnvelope ==
    /\ pc = "decode_envelope"
    /\ Continue(suit_decoder_decode_envelope(Above, envelope), "check_digest")
    /\ UNCHANGED manifest_stack_height

CheckDigest ==
    /\ pc = "check_digest"
    /\ Continue(suit_decoder_check_manifest_digest(Above), "decode_manifest")
    /\ UNCHANGED manifest_stack_height

DecodeManifest ==
    /\ pc = "decode_manifest"
    /\ Continue(suit_decoder_decode_manifest(Above), "authenticate")
    /\ UNCHANGED manifest_stack_height

Authenticate ==
    /\ pc = "authenticate"
    /\ Continue(suit_decoder_authenticate_manifest(Above), "authorize")
    /\ UNCHANGED manifest_stack_height

Authorize ==
    /\ pc = "authorize"
    /\ Continue(suit_decoder_authorize_manifest(Above), "decode_sequences")
    /\ UNCHANGED manifest_stack_height

DecodeSequences ==
    /\ pc = "decode_sequences"
    /\ Continue(suit_decoder_decode_sequences(Above), "create_components")
    /\ UNCHANGED manifest_stack_height

CreateComponents(r) ==
    /\ pc = "create_components"
    /\ LET x == suit_decoder_create_components(Above, r) IN
       /\ Continue(x, "sequence_num")
       /\ manifest_stack_height' = manifest_stack_height + (IF x.ret = "SUCCESS" THEN 1 ELSE 0)

Top == manifest_stack_height - 1

\* Faulty variant: the release lowers the height, and so does its caller.
PoppedTwice(r) ==
    /\ manifest_stack' = IF r = "SUCCESS" THEN [manifest_stack EXCEPT ![Top] = EmptyManifest]
                         ELSE manifest_stack
    /\ manifest_stack_height' = manifest_stack_height - 2

\* suit_manifest_release, which may fail half way, and the caller's pop.
Popped(r) ==
    /\ manifest_stack' = IF r = "SUCCESS" THEN [manifest_stack EXCEPT ![Top] = EmptyManifest]
                         ELSE manifest_stack
    /\ manifest_stack_height' = manifest_stack_height - 1

\* The manifest is on the stack already when its sequence number is checked.
AuthorizeSequenceNum(r, released) ==
    /\ pc = "sequence_num"
    /\ pc' = "idle"
    /\ envelope' = None
    /\ ret' = r
    /\ IF r = "SUCCESS" THEN UNCHANGED <<manifest_stack, manifest_stack_height>>
       ELSE Popped(released)
    /\ answer' = NoAnswer
    /\ UNCHANGED decoder_state

\* The manifest has been processed.
ReleaseManifest(r) ==
    /\ pc = "idle"
    /\ manifest_stack_height > 0
    /\ Popped(r)
    /\ answer' = NoAnswer
    /\ UNCHANGED <<decoder_state, pc, envelope, ret>>

-----------------------------------------------------------------------------
(***************************************************************************)
(* suit_processor_get_manifest_metadata.                                   *)
(***************************************************************************)
Decoded(name) ==
    LET x0 == suit_decoder_init(Snapshot(decoder_state, suit_processor_wipe(Above.entry), ret))
        x1 == suit_decoder_decode_envelope(x0, name)
        x2 == IF x1.ret = "SUCCESS" THEN suit_decoder_check_manifest_digest(x1) ELSE x1
    IN IF x2.ret = "SUCCESS" THEN suit_decoder_decode_manifest(x2) ELSE x2

\* Faulty variant: an authentic manifest may name any component.
VerifiedBySignature(x) ==
    IF x.ret = "SUCCESS" THEN suit_decoder_authenticate_manifest(x) ELSE x

Verified(x) ==
    LET x1 == IF x.ret = "SUCCESS" THEN suit_decoder_authenticate_manifest(x) ELSE x
    IN IF x1.ret = "SUCCESS" THEN suit_decoder_authorize_manifest(x1) ELSE x1

BothOrNone(want, p, q) == p \in want <=> q \in want

\* The version is written to an array with room for so many integers.
VersionRead(x, room) ==
    CASE x.entry.version = NoBytes   -> "SUCCESS"
      [] x.entry.version = Malformed -> "ERR_DECODING"
      [] OTHER -> IF VersionParts[x.entry.version] > room THEN "ERR_DECODING" ELSE "SUCCESS"

\* What is returned for a decoded manifest: of the digest and its algorithm, and
\* of the version and its length, both pointers are given or none.
Returned(x, want, room) ==
    IF x.ret # "SUCCESS" THEN x.ret
    ELSE IF ~BothOrNone(want, "digest", "alg") \/ ~BothOrNone(want, "version", "version_len")
    THEN "ERR_DECODING"
    ELSE IF "version" \in want THEN VersionRead(x, room) ELSE "SUCCESS"

Output(x, name, authenticate) ==
    [ret          |-> "SUCCESS",
     of           |-> name,
     authenticate |-> authenticate,
     component_id |-> x.entry.component_id,
     seq_num      |-> x.entry.seq_num,
     version      |-> x.entry.version,
     digest       |-> x.state.digest]

\* The platform may ask while the load waits for one of its calls: all steps
\* call the platform but the two that only parse.
PlatformRuns == pc \notin {"decode_envelope", "decode_manifest"}

\* Faulty variant: no look at what the decoder is doing.
DecoderAlwaysFree == TRUE

DecoderFree == decoder_state.step \in {"INVALID", "COMPONENTS_CREATED"}

MetadataBusy ==
    /\ PlatformRuns
    /\ ~DecoderFree
    /\ answer' = [ret |-> "ERR_WAIT"]
    /\ UNCHANGED <<decoder_state, manifest_stack, manifest_stack_height, pc, envelope, ret>>

MetadataOverflow ==
    /\ PlatformRuns
    /\ DecoderFree
    /\ manifest_stack_height = MaxManifests
    /\ answer' = [ret |-> "ERR_OVERFLOW"]
    /\ UNCHANGED <<decoder_state, manifest_stack, manifest_stack_height, pc, envelope, ret>>

GetMetadata(name, authenticate, want, room) ==
    /\ PlatformRuns
    /\ DecoderFree
    /\ manifest_stack_height < MaxManifests
    /\ LET x == IF authenticate THEN Verified(Decoded(name)) ELSE Decoded(name) IN
       /\ answer' = IF Returned(x, want, room) = "SUCCESS" THEN Output(x, name, authenticate)
                    ELSE [ret |-> Returned(x, want, room)]
       /\ decoder_state' = [x.state EXCEPT !.step = "INVALID"]
       /\ manifest_stack' = [manifest_stack EXCEPT ![manifest_stack_height] = x.entry]
    /\ UNCHANGED <<manifest_stack_height, pc, envelope, ret>>

-----------------------------------------------------------------------------
Load ==
    \/ DecodeEnvelope
    \/ CheckDigest
    \/ DecodeManifest
    \/ Authenticate
    \/ Authorize
    \/ DecodeSequences
    \/ \E r \in CreateResults : CreateComponents(r)
    \/ \E r \in SequenceNumResults, released \in ReleaseResults : AuthorizeSequenceNum(r, released)

Metadata ==
    \/ MetadataBusy
    \/ MetadataOverflow
    \/ \E name \in Asked, authenticate \in BOOLEAN, want \in Wanted, room \in Rooms :
          GetMetadata(name, authenticate, want, room)

Next ==
    \/ LoadRefused
    \/ \E name \in DOMAIN Envelope : LoadEnvelope(name)
    \/ Load
    \/ \E r \in ReleaseResults : ReleaseManifest(r)
    \/ Metadata

Spec == Init /\ [][Next]_vars

-----------------------------------------------------------------------------
(***************************************************************************)
(* Type invariant.                                                         *)
(***************************************************************************)
Steps == {"INVALID", "INITIALIZED", "ENVELOPE_DECODED", "MANIFEST_DIGEST_VERIFIED",
          "MANIFEST_DECODED", "MANIFEST_AUTHENTICATED", "MANIFEST_AUTHORIZED",
          "SEQUENCES_DECODED", "COMPONENTS_CREATED"}

TypeOK ==
    /\ decoder_state.step \in Steps
    /\ manifest_stack_height \in 0 .. MaxManifests
    /\ pc \in {"idle", "decode_envelope", "check_digest", "decode_manifest", "authenticate",
               "authorize", "decode_sequences", "create_components", "sequence_num"}
    /\ envelope \in DOMAIN Envelope \cup {None}
    /\ pc # "sequence_num" /\ pc # "idle" => manifest_stack_height < MaxManifests
    /\ \A e \in Entry, n \in Member :
          manifest_stack[e].status[n] \in {"UNAVAILABLE", "SEVERED", "AUTHENTICATED"}

(***************************************************************************)
(* The decoder implements EnvelopeAcceptance.  A manifest counts as loaded *)
(* once the load is over, and means what suit_manifest_get_command_seq     *)
(* returns for its sequences.                                              *)
(***************************************************************************)
suit_manifest_get_command_seq(entry, n) ==
    CASE entry.status[n] = "AUTHENTICATED" -> Available(entry.bytes[n])
      [] entry.status[n] = "UNAVAILABLE"   -> Unavailable
      [] OTHER                             -> Unauthorized

Given(entry) ==
    [component_id |-> entry.component_id,
     seq_num      |-> entry.seq_num,
     version      |-> entry.version,
     payloads     |-> entry.payloads,
     seqs         |-> [n \in Sequence |-> suit_manifest_get_command_seq(entry, n)]]

Loaded == IF pc = "sequence_num" THEN Top ELSE manifest_stack_height

AbstractResult ==
    CASE ret = "none"          -> "none"
      [] ret = "SUCCESS"       -> "accepted"
      [] ret \in LateResults   -> "refused"
      [] OTHER                 -> "invalid"

Acceptance == INSTANCE EnvelopeAcceptance
    WITH stack   <- [i \in 1 .. Loaded |-> Given(manifest_stack[i - 1])],
         pending <- envelope,
         result  <- AbstractResult

\* Only acceptable envelopes get onto the manifest stack, every acceptable one
\* does unless the platform refuses it, and what the stack gives out is what the
\* accepted envelope says: whatever was decoded before, and whatever metadata the
\* platform asks for while an envelope is being loaded.
ImplementsAcceptance == Acceptance!Spec

\* The platform is asked to create components only for an envelope that has
\* passed every check, also when it is refused after that.
CreatedOnlyIfAcceptable ==
    pc \in {"create_components", "sequence_num"} => Acceptable(envelope)

\* Metadata that is given out is the one of the manifest that the envelope's
\* digest was made of, and of an authentic and permitted one if that was asked.
MetadataIsTruthful ==
    answer.ret = "SUCCESS" =>
        /\ IF answer.authenticate THEN Permitted(answer.of) ELSE Intact(answer.of)
        /\ LET m == Contents(answer.of) IN
           /\ answer.component_id = m.component_id
           /\ answer.seq_num = m.seq_num
           /\ answer.version = m.version
           /\ answer.digest = Envelope[answer.of].manifest

\* Between two loads the decoder is free: no failed load, on whatever path, keeps
\* metadata from being read.
FreeWhenIdle == pc = "idle" => DecoderFree
=============================================================================
