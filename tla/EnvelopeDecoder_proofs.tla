------------------------ MODULE EnvelopeDecoder_proofs ------------------------
(***************************************************************************)
(* Proofs about EnvelopeDecoder, for all envelopes and manifests, every    *)
(* size of the manifest stack and all results of the platform.             *)
(***************************************************************************)
EXTENDS EnvelopeDecoder, SequenceTheorems, TLAPS

(***************************************************************************)
(* The decoder state and the entry after each function that succeeds, as   *)
(* functions of the envelope.                                              *)
(***************************************************************************)
Started == [InvalidState EXCEPT !.step = "INITIALIZED"]

\* Before and after decode_manifest.
WithEnvelope(step, name) ==
    [step |-> step, digest |-> Envelope[name].digest, signatures |-> Envelope[name].signatures,
     envelope |-> name, manifest |-> NoBytes]

WithManifest(step, name) ==
    [step |-> step, digest |-> Envelope[name].digest, signatures |-> Envelope[name].signatures,
     envelope |-> NoBytes, manifest |-> Envelope[name].manifest]

Outside(name, n) == n \in Severable /\ Carried(name, n)

StoredBytes(name)  == [n \in Member |-> IF Outside(name, n) THEN Envelope[name].members[n]
                                        ELSE NoBytes]
StoredStatus(name) == [n \in Member |-> IF Outside(name, n) THEN "SEVERED" ELSE "UNAVAILABLE"]

StoredEntry(name) ==
    [component_id |-> NoBytes, seq_num |-> 0, version |-> NoBytes,
     payloads |-> Envelope[name].payloads,
     bytes |-> StoredBytes(name), status |-> StoredStatus(name)]

ParsedEntry(name) ==
    [component_id |-> Contents(name).component_id, seq_num |-> Contents(name).seq_num,
     version |-> Contents(name).version, payloads |-> Envelope[name].payloads,
     bytes |-> StoredBytes(name), status |-> StoredStatus(name)]

StatusOK(entry) ==
    \A n \in Member : entry.status[n] \in {"UNAVAILABLE", "SEVERED", "AUTHENTICATED"}

\* A function that failed left the decoder free.
Failed(y) == y.state = InvalidState /\ y.ret \in DecoderResults /\ StatusOK(y.entry)

-----------------------------------------------------------------------------
(***************************************************************************)
(* Updates of the two records, spelled out for the provers.                *)
(***************************************************************************)
LEMMA EnvelopeStep ==
    ASSUME NEW name, NEW s, NEW t
    PROVE  [WithEnvelope(s, name) EXCEPT !.step = t]
               = WithEnvelope(t, name)
<1> DEFINE p == [WithEnvelope(s, name) EXCEPT !.step = t]
           q == WithEnvelope(t, name)
           R == [step : {s, t}, digest : {Envelope[name].digest},
                 signatures : {Envelope[name].signatures},
                 envelope : {name}, manifest : {NoBytes}]
           same(u, v) == u.step = v.step
<1>1. p \in R /\ q \in R /\ same(p, q)
  BY DEF WithEnvelope
<1>2. \A u, v \in R : same(u, v) => u = v
  OBVIOUS
<1> HIDE DEF p, q, R, same
<1>3. p = q
  BY <1>1, <1>2
<1> QED BY <1>3 DEF p, q

LEMMA ManifestStep ==
    ASSUME NEW name, NEW s, NEW t
    PROVE  [WithManifest(s, name) EXCEPT !.step = t]
               = WithManifest(t, name)
<1> DEFINE p == [WithManifest(s, name) EXCEPT !.step = t]
           q == WithManifest(t, name)
           R == [step : {s, t}, digest : {Envelope[name].digest},
                 signatures : {Envelope[name].signatures},
                 envelope : {NoBytes}, manifest : {Envelope[name].manifest}]
           same(u, v) == u.step = v.step
<1>1. p \in R /\ q \in R /\ same(p, q)
  BY DEF WithManifest
<1>2. \A u, v \in R : same(u, v) => u = v
  OBVIOUS
<1> HIDE DEF p, q, R, same
<1>3. p = q
  BY <1>1, <1>2
<1> QED BY <1>3 DEF p, q

LEMMA EnvelopeToManifest ==
    ASSUME NEW name, NEW s, NEW t
    PROVE  [WithEnvelope(s, name) EXCEPT !.step = t, !.envelope = NoBytes,
                                         !.manifest = Envelope[name].manifest]
               = WithManifest(t, name)
<1> DEFINE p == [WithEnvelope(s, name) EXCEPT !.step = t, !.envelope = NoBytes,
                                         !.manifest = Envelope[name].manifest]
           q == WithManifest(t, name)
           R == [step : {s, t}, digest : {Envelope[name].digest},
                 signatures : {Envelope[name].signatures},
                 envelope : {name, NoBytes}, manifest : {NoBytes, Envelope[name].manifest}]
           same(u, v) == /\ u.step = v.step
                            /\ u.envelope = v.envelope
                            /\ u.manifest = v.manifest
<1>1. p \in R /\ q \in R /\ same(p, q)
  BY DEF WithEnvelope, WithManifest
<1>2. \A u, v \in R : same(u, v) => u = v
  OBVIOUS
<1> HIDE DEF p, q, R, same
<1>3. p = q
  BY <1>1, <1>2
<1> QED BY <1>3 DEF p, q

LEMMA EntryStored ==
    ASSUME NEW name
    PROVE  [EmptyManifest EXCEPT !.payloads = Envelope[name].payloads,
                  !.bytes = StoredBytes(name), !.status = StoredStatus(name)]
               = StoredEntry(name)
<1> DEFINE p == [EmptyManifest EXCEPT !.payloads = Envelope[name].payloads,
                  !.bytes = StoredBytes(name), !.status = StoredStatus(name)]
           q == StoredEntry(name)
           R == [component_id : {NoBytes}, seq_num : {0}, version : {NoBytes},
                 payloads : {NoBytes, Envelope[name].payloads},
                 bytes : {EmptyManifest.bytes, StoredBytes(name)},
                 status : {EmptyManifest.status, StoredStatus(name)}]
           same(u, v) == /\ u.payloads = v.payloads
                            /\ u.bytes = v.bytes
                            /\ u.status = v.status
<1>1. p \in R /\ q \in R /\ same(p, q)
  BY DEF EmptyManifest, StoredEntry
<1>2. \A u, v \in R : same(u, v) => u = v
  OBVIOUS
<1> HIDE DEF p, q, R, same
<1>3. p = q
  BY <1>1, <1>2
<1> QED BY <1>3 DEF p, q

LEMMA EntryParsed ==
    ASSUME NEW name
    PROVE  [StoredEntry(name) EXCEPT !.component_id = Contents(name).component_id,
                  !.version = Contents(name).version, !.seq_num = Contents(name).seq_num]
               = ParsedEntry(name)
<1> DEFINE p == [StoredEntry(name) EXCEPT !.component_id = Contents(name).component_id,
                  !.version = Contents(name).version, !.seq_num = Contents(name).seq_num]
           q == ParsedEntry(name)
           R == [component_id : {NoBytes, Contents(name).component_id},
                 seq_num : {0, Contents(name).seq_num},
                 version : {NoBytes, Contents(name).version},
                 payloads : {Envelope[name].payloads},
                 bytes : {StoredBytes(name)}, status : {StoredStatus(name)}]
           same(u, v) == /\ u.component_id = v.component_id
                            /\ u.seq_num = v.seq_num
                            /\ u.version = v.version
<1>1. p \in R /\ q \in R /\ same(p, q)
  BY DEF StoredEntry, ParsedEntry
<1>2. \A u, v \in R : same(u, v) => u = v
  OBVIOUS
<1> HIDE DEF p, q, R, same
<1>3. p = q
  BY <1>1, <1>2
<1> QED BY <1>3 DEF p, q

-----------------------------------------------------------------------------
(***************************************************************************)
(* The functions of the decoder, one by one: each succeeds exactly on the  *)
(* envelopes that pass the checks so far.                                  *)
(***************************************************************************)
LEMMA EnvelopeDecoded ==
    ASSUME NEW name \in DOMAIN Envelope, NEW x, NEW r,
           x = Snapshot(Started, EmptyManifest, r)
    PROVE  LET y == suit_decoder_decode_envelope(x, name) IN
           IF WellFormed(name)
           THEN y = Snapshot(WithEnvelope("ENVELOPE_DECODED", name), StoredEntry(name), "SUCCESS")
           ELSE Failed(y)
<1> DEFINE e == Envelope[name]
           stored(n) == n \in Severable /\ e.members[n] \notin {Absent, Empty}
           filled == [EmptyManifest EXCEPT
                !.payloads = e.payloads,
                !.bytes  = [n \in Member |-> IF stored(n) THEN e.members[n] ELSE @[n]],
                !.status = [n \in Member |-> IF stored(n) THEN "SEVERED" ELSE @[n]]]
           y == suit_decoder_decode_envelope(x, name)
<1>1. x.state.step = "INITIALIZED" /\ x.entry = EmptyManifest
  BY DEF Started, InvalidState, Snapshot
<1>2. StatusOK(EmptyManifest) /\ StatusOK(filled)
  BY DEF StatusOK, EmptyManifest
<1>3. CASE ~e.decodes
  <2>1. y = Fails(x, "ERR_ZCBOR")
    BY <1>1, <1>3 DEF suit_decoder_decode_envelope
  <2>2. y.state = InvalidState /\ y.ret = "ERR_ZCBOR" /\ y.entry = EmptyManifest
    BY <2>1 DEF Fails, Snapshot
  <2> QED BY <1>2, <1>3, <2>2 DEF Failed, WellFormed, DecoderResults
<1>4. CASE e.decodes /\ \E n \in Severable : e.members[n] = Empty
  <2>1. y = Snapshot(InvalidState, [filled EXCEPT !.payloads = x.entry.payloads], "ERR_DECODING")
    BY <1>1, <1>4 DEF suit_decoder_decode_envelope
  <2>2. /\ y.state = InvalidState /\ y.ret = "ERR_DECODING"
        /\ y.entry = [filled EXCEPT !.payloads = x.entry.payloads]
    BY <2>1 DEF Snapshot
  <2>3. y.entry.status = filled.status
    BY <2>2 DEF EmptyManifest
  <2> QED BY <1>2, <1>4, <2>2, <2>3 DEF Failed, WellFormed, DecoderResults, StatusOK
<1>5. CASE WellFormed(name)
  <2>1. e.decodes /\ ~ \E n \in Severable : e.members[n] = Empty
    BY <1>5 DEF WellFormed
  <2>2. y = Snapshot(WithEnvelope("ENVELOPE_DECODED", name), filled, "SUCCESS")
    BY <1>1, <2>1 DEF suit_decoder_decode_envelope, WithEnvelope
  <2>3. \A n \in Member : stored(n) <=> Outside(name, n)
    BY <2>1 DEF Outside, Carried
  <2>4. /\ [n \in Member |-> IF stored(n) THEN e.members[n] ELSE EmptyManifest.bytes[n]]
               = StoredBytes(name)
        /\ [n \in Member |-> IF stored(n) THEN "SEVERED" ELSE EmptyManifest.status[n]]
               = StoredStatus(name)
    BY <2>3 DEF StoredBytes, StoredStatus, EmptyManifest
  <2>5. filled = [EmptyManifest EXCEPT !.payloads = e.payloads,
                      !.bytes = StoredBytes(name), !.status = StoredStatus(name)]
    BY <2>4
  <2>6. [EmptyManifest EXCEPT !.payloads = Envelope[name].payloads,
              !.bytes = StoredBytes(name), !.status = StoredStatus(name)] = StoredEntry(name)
    BY EntryStored
  <2> QED BY <1>5, <2>2, <2>5, <2>6
<1> QED BY <1>3, <1>4, <1>5 DEF WellFormed

LEMMA DigestChecked ==
    ASSUME NEW name \in DOMAIN Envelope, NEW x, NEW r, WellFormed(name),
           x = Snapshot(WithEnvelope("ENVELOPE_DECODED", name), StoredEntry(name), r)
    PROVE  LET y == suit_decoder_check_manifest_digest(x)
               correct == Envelope[name].digest = Envelope[name].manifest
           IN IF correct
              THEN y = Snapshot(WithEnvelope("MANIFEST_DIGEST_VERIFIED", name), StoredEntry(name), "SUCCESS")
              ELSE Failed(y)
<1> DEFINE y == suit_decoder_check_manifest_digest(x)
           e == Envelope[name]
           verified == verify_suit_digest(e.digest, e.manifest)
<1>1. /\ x.state.step = "ENVELOPE_DECODED" /\ x.state.digest = e.digest
      /\ x.state.envelope = name
  BY DEF WithEnvelope, Snapshot
<1>2. StatusOK(x.entry) /\ x.entry = StoredEntry(name)
  BY DEF StatusOK, StoredEntry, StoredStatus, Snapshot
<1>3. e.manifest # Malformed
  BY NamesAssumption, DataAssumption
<1>4. CASE e.digest = e.manifest
  <2>1. verified = "SUCCESS"
    BY <1>3, <1>4 DEF verify_suit_digest, suit_plat_check_digest
  <2>2. y = Reaches(x, "MANIFEST_DIGEST_VERIFIED")
    BY <1>1, <2>1 DEF suit_decoder_check_manifest_digest
  <2>3. Reaches(x, "MANIFEST_DIGEST_VERIFIED") =
            Snapshot(WithEnvelope("MANIFEST_DIGEST_VERIFIED", name), StoredEntry(name), "SUCCESS")
    BY EnvelopeStep DEF Reaches, Snapshot
  <2> QED BY <1>4, <2>2, <2>3
<1>5. CASE e.digest # e.manifest
  <2>1. verified \in {"ERR_DECODING", "FAIL_CONDITION"}
    BY <1>5 DEF verify_suit_digest, suit_plat_check_digest
  <2>2. y = Fails(x, verified)
    BY <1>1, <2>1 DEF suit_decoder_check_manifest_digest
  <2>3. y.state = InvalidState /\ y.ret = verified /\ y.entry = x.entry
    BY <2>2 DEF Fails, Snapshot
  <2>4. Failed(y)
    BY <1>2, <2>1, <2>3 DEF Failed, DecoderResults
  <2> QED BY <1>5, <2>4
<1> QED BY <1>4, <1>5

LEMMA ManifestDecoded ==
    ASSUME NEW name \in DOMAIN Envelope, NEW x, NEW r, WellFormed(name),
           Envelope[name].digest = Envelope[name].manifest,
           x = Snapshot(WithEnvelope("MANIFEST_DIGEST_VERIFIED", name), StoredEntry(name), r)
    PROVE  LET y == suit_decoder_decode_manifest(x) IN
           IF Intact(name)
           THEN y = Snapshot(WithManifest("MANIFEST_DECODED", name), ParsedEntry(name), "SUCCESS")
           ELSE Failed(y)
<1> DEFINE y == suit_decoder_decode_manifest(x)
           m == Contents(name)
<1>1. /\ x.state.step = "MANIFEST_DIGEST_VERIFIED" /\ x.state.envelope = name
      /\ Manifest[Envelope[x.state.envelope].manifest] = m
  BY DEF WithEnvelope, Contents, Snapshot
<1>2. StatusOK(x.entry)
  BY DEF StatusOK, StoredEntry, StoredStatus, Snapshot
<1>3. CASE ~m.decodes
  <2>1. y = Fails(x, "ERR_ZCBOR")
    BY <1>1, <1>3 DEF suit_decoder_decode_manifest
  <2>2. y.state = InvalidState /\ y.ret = "ERR_ZCBOR" /\ y.entry = x.entry
    BY <2>1 DEF Fails, Snapshot
  <2> QED BY <1>2, <1>3, <2>2 DEF Failed, Intact, DecoderResults
<1>4. CASE m.decodes /\ m.component_id = Malformed
  <2>1. y = Snapshot(InvalidState, [x.entry EXCEPT !.version = m.version], "ERR_DECODING")
    BY <1>1, <1>4 DEF suit_decoder_decode_manifest
  <2>2. /\ y.state = InvalidState /\ y.ret = "ERR_DECODING"
        /\ y.entry = [x.entry EXCEPT !.version = m.version]
    BY <2>1 DEF Snapshot
  <2>3. y.entry.status = x.entry.status
    BY <2>2 DEF StoredEntry, Snapshot
  <2> QED BY <1>2, <1>4, <2>2, <2>3 DEF Failed, Intact, DecoderResults, StatusOK
<1>5. CASE m.decodes /\ m.component_id # Malformed
  <2>1. Intact(name)
    BY <1>5 DEF Intact
  <2>2. /\ x.state = WithEnvelope("MANIFEST_DIGEST_VERIFIED", name)
        /\ x.entry = StoredEntry(name)
    BY DEF Snapshot
  <2>3. y = Snapshot([x.state EXCEPT !.step = "MANIFEST_DECODED", !.envelope = NoBytes,
                                     !.manifest = Envelope[name].manifest],
                     [x.entry EXCEPT !.component_id = m.component_id,
                                     !.version = m.version, !.seq_num = m.seq_num],
                     "SUCCESS")
    BY <1>1, <1>5 DEF suit_decoder_decode_manifest
  <2>4. [x.state EXCEPT !.step = "MANIFEST_DECODED", !.envelope = NoBytes,
                        !.manifest = Envelope[name].manifest]
            = WithManifest("MANIFEST_DECODED", name)
    <3>1. [WithEnvelope("MANIFEST_DIGEST_VERIFIED", name)
              EXCEPT !.step = "MANIFEST_DECODED", !.envelope = NoBytes,
                     !.manifest = Envelope[name].manifest]
              = WithManifest("MANIFEST_DECODED", name)
      BY EnvelopeToManifest
    <3> QED BY <2>2, <3>1
  <2>5. [x.entry EXCEPT !.component_id = m.component_id,
                        !.version = m.version, !.seq_num = m.seq_num]
            = ParsedEntry(name)
    BY <2>2, EntryParsed
  <2> QED BY <2>1, <2>3, <2>4, <2>5
<1> QED BY <1>3, <1>4, <1>5

LEMMA ManifestAuthenticated ==
    ASSUME NEW name \in DOMAIN Envelope, NEW x, NEW r, Intact(name),
           x = Snapshot(WithManifest("MANIFEST_DECODED", name), ParsedEntry(name), r)
    PROVE  LET y == suit_decoder_authenticate_manifest(x) IN
           IF Authentic(name)
           THEN y = Snapshot(WithManifest("MANIFEST_AUTHENTICATED", name), ParsedEntry(name), "SUCCESS")
           ELSE Failed(y)
<1> DEFINE y == suit_decoder_authenticate_manifest(x)
           signatures == Envelope[name].signatures
           accepted == \/ signatures = <<>> /\ Contents(name).component_id \in Unsigned
                       \/ /\ signatures # <<>>
                          /\ \A i \in DOMAIN signatures :
                                cose_sign1_authenticate_digest(signatures[i],
                                    Envelope[name].digest) = "SUCCESS"
<1>1. /\ x.state.step = "MANIFEST_DECODED" /\ x.state.signatures = signatures
      /\ x.state.digest = Envelope[name].digest
      /\ x.entry.component_id = Contents(name).component_id
      /\ StatusOK(x.entry)
  BY DEF WithManifest, ParsedEntry, StatusOK, StoredStatus, Snapshot
<1>2. accepted <=> Authentic(name)
  <2>1. \A i \in DOMAIN signatures :
           cose_sign1_authenticate_digest(signatures[i], Envelope[name].digest) = "SUCCESS"
               <=> signatures[i] = Envelope[name].digest
    BY DEF cose_sign1_authenticate_digest
  <2>2. signatures = <<>> => DOMAIN signatures = {}
    OBVIOUS
  <2> QED BY <2>1, <2>2 DEF Authentic
<1>3. y = IF accepted THEN Reaches(x, "MANIFEST_AUTHENTICATED") ELSE Fails(x, "ERR_AUTHENTICATION")
  BY <1>1 DEF suit_decoder_authenticate_manifest
<1>4. CASE Authentic(name)
  <2>1. Reaches(x, "MANIFEST_AUTHENTICATED") =
            Snapshot(WithManifest("MANIFEST_AUTHENTICATED", name), ParsedEntry(name), "SUCCESS")
    BY ManifestStep DEF Reaches, Snapshot
  <2> QED BY <1>2, <1>3, <1>4, <2>1
<1>5. CASE ~Authentic(name)
  <2>1. y = Fails(x, "ERR_AUTHENTICATION")
    BY <1>2, <1>3, <1>5
  <2>2. y.state = InvalidState /\ y.ret = "ERR_AUTHENTICATION" /\ y.entry = x.entry
    BY <2>1 DEF Fails, Snapshot
  <2> QED BY <1>1, <1>5, <2>2 DEF Failed, DecoderResults
<1> QED BY <1>4, <1>5

LEMMA ManifestAuthorized ==
    ASSUME NEW name \in DOMAIN Envelope, NEW x, NEW r, Authentic(name),
           x = Snapshot(WithManifest("MANIFEST_AUTHENTICATED", name), ParsedEntry(name), r)
    PROVE  LET y == suit_decoder_authorize_manifest(x) IN
           IF Permitted(name)
           THEN y = Snapshot(WithManifest("MANIFEST_AUTHORIZED", name), ParsedEntry(name), "SUCCESS")
           ELSE Failed(y)
<1> DEFINE y == suit_decoder_authorize_manifest(x)
           m == Contents(name)
           foreign == \E i \in DOMAIN m.components :
                         <<m.component_id, m.components[i]>> \notin Authorized
<1>1. /\ x.state.step = "MANIFEST_AUTHENTICATED" /\ Manifest[x.state.manifest] = m
      /\ x.entry.component_id = m.component_id
      /\ StatusOK(x.entry)
  BY DEF WithManifest, ParsedEntry, StatusOK, StoredStatus, Contents, Snapshot
<1>2. y = IF m.components = <<>> THEN Fails(x, "ERR_MANIFEST_VALIDATION")
          ELSE IF foreign THEN Fails(x, "ERR_UNAUTHORIZED_COMPONENT")
          ELSE IF ~check_dependency_indexes(m) THEN Fails(x, "ERR_MANIFEST_VALIDATION")
          ELSE Reaches(x, "MANIFEST_AUTHORIZED")
  BY <1>1 DEF suit_decoder_authorize_manifest
<1>3. Permitted(name) <=> m.components # <<>> /\ ~foreign /\ check_dependency_indexes(m)
  BY DEF Permitted, check_dependency_indexes
<1>4. CASE Permitted(name)
  <2>1. Reaches(x, "MANIFEST_AUTHORIZED") =
            Snapshot(WithManifest("MANIFEST_AUTHORIZED", name), ParsedEntry(name), "SUCCESS")
    BY ManifestStep DEF Reaches, Snapshot
  <2> QED BY <1>2, <1>3, <1>4, <2>1
<1>5. CASE ~Permitted(name)
  <2>1. \E result \in {"ERR_MANIFEST_VALIDATION", "ERR_UNAUTHORIZED_COMPONENT"} :
           y = Fails(x, result)
    BY <1>2, <1>3, <1>5
  <2>2. PICK result \in {"ERR_MANIFEST_VALIDATION", "ERR_UNAUTHORIZED_COMPONENT"} :
           y = Fails(x, result)
    BY <2>1
  <2>3. y.state = InvalidState /\ y.ret = result /\ y.entry = x.entry
    BY <2>2 DEF Fails, Snapshot
  <2> QED BY <1>1, <1>5, <2>2, <2>3 DEF Failed, DecoderResults
<1> QED BY <1>4, <1>5

-----------------------------------------------------------------------------
(***************************************************************************)
(* The sequences, member by member: what decoding makes of a member that   *)
(* the envelope stored, and when it refuses it.                            *)
(***************************************************************************)
StoredMember(name, n) == MemberState(StoredBytes(name)[n], StoredStatus(name)[n])

LEMMA UnseverableDecoded ==
    ASSUME NEW name \in DOMAIN Envelope, NEW n \in Unseverable
    PROVE  LET d == DecodedMember(Contents(name), n, StoredMember(name, n)) IN
           /\ d.status \in {"UNAVAILABLE", "AUTHENTICATED"}
           /\ IF d.status = "AUTHENTICATED" THEN UnseverableMeaning(name, n) = Available(d.bytes)
              ELSE UnseverableMeaning(name, n) = Unavailable
<1> DEFINE d == DecodedMember(Contents(name), n, StoredMember(name, n))
           old == StoredMember(name, n)
           content == Contents(name).seqs[n]
<1>1. n \in Member /\ n \notin Severable /\ n # "text"
  BY DEF Unseverable, Member, Sequence, Severable, Extensions
<1>2. old = [bytes |-> NoBytes, status |-> "UNAVAILABLE"]
  BY <1>1 DEF StoredMember, MemberState, StoredBytes, StoredStatus, Outside
<1>3. d = UNSEVERABLE_SEQUENCE_DECODE(content, old)
  BY <1>1 DEF DecodedMember
<1>4. CASE content = Absent
  <2>1. d = [old EXCEPT !.status = "UNAVAILABLE"]
    BY <1>3, <1>4 DEF UNSEVERABLE_SEQUENCE_DECODE
  <2>2. d.status = "UNAVAILABLE"
    BY <1>2, <2>1
  <2> QED BY <1>4, <2>2 DEF UnseverableMeaning
<1>5. CASE content # Absent
  <2>1. d = MemberState(content, "AUTHENTICATED")
    BY <1>2, <1>3, <1>5 DEF UNSEVERABLE_SEQUENCE_DECODE
  <2>2. d.status = "AUTHENTICATED" /\ d.bytes = content
    BY <2>1 DEF MemberState
  <2> QED BY <1>5, <2>2 DEF UnseverableMeaning
<1> QED BY <1>4, <1>5

LEMMA SeverableDecoded ==
    ASSUME NEW name \in DOMAIN Envelope, NEW n \in Severable, WellFormed(name)
    PROVE  LET d == DecodedMember(Contents(name), n, StoredMember(name, n)) IN
           /\ d.status \in {"UNAVAILABLE", "SEVERED", "AUTHENTICATED", "INVALID"}
           /\ d.status # "INVALID" <=> Consistent(name, n)
           /\ Consistent(name, n) /\ n # "text" =>
                 CASE d.status = "AUTHENTICATED" -> SeverableMeaning(name, n) = Available(d.bytes)
                   [] d.status = "UNAVAILABLE"   -> SeverableMeaning(name, n) = Unavailable
                   [] OTHER                      -> SeverableMeaning(name, n) = Unauthorized
<1> DEFINE d == DecodedMember(Contents(name), n, StoredMember(name, n))
           old == StoredMember(name, n)
           m == Contents(name).choice[n]
           carried == Envelope[name].members[n]
           matches == verify_suit_digest(m.of, old.bytes) = "SUCCESS"
<1>1. n \in Member /\ n \notin Unseverable
  BY DEF Unseverable, Member, Sequence, Severable, Extensions
<1>2. old = [bytes |-> IF Carried(name, n) THEN carried ELSE NoBytes,
             status |-> IF Carried(name, n) THEN "SEVERED" ELSE "UNAVAILABLE"]
  BY <1>1 DEF StoredMember, MemberState, StoredBytes, StoredStatus, Outside
<1>3. /\ m.kind \in {"content", "digest", "absent"}
      /\ n = "text" => m.kind # "content"
      /\ carried # Malformed
  BY DataAssumption DEF Contents
<1>4. Carried(name, n) => (matches <=> carried = m.of)
  <2>1. matches <=> m.of # Malformed /\ m.of = old.bytes
    BY DEF verify_suit_digest, suit_plat_check_digest
  <2> QED BY <1>2, <1>3, <2>1
<1>5. CASE n = "text"
  <2>1. d = text_decode(m, old)
    BY <1>1, <1>5 DEF DecodedMember
  <2>2. CASE m.kind = "absent"
    <3>1. d = [old EXCEPT !.status = IF @ = "UNAVAILABLE" THEN "UNAVAILABLE" ELSE "INVALID"]
      BY <2>1, <2>2 DEF text_decode
    <3>2. d.status = IF Carried(name, n) THEN "INVALID" ELSE "UNAVAILABLE"
      BY <1>2, <3>1
    <3> QED BY <1>5, <2>2, <3>2 DEF Consistent
  <2>3. CASE m.kind # "absent" /\ Carried(name, n)
    <3>1. d = [old EXCEPT !.status = IF matches THEN "AUTHENTICATED" ELSE "INVALID"]
      BY <1>2, <2>1, <2>3 DEF text_decode
    <3>2. d.status = IF matches THEN "AUTHENTICATED" ELSE "INVALID"
      BY <1>2, <3>1
    <3> QED BY <1>3, <1>4, <1>5, <2>3, <3>2 DEF Consistent
  <2>4. CASE m.kind # "absent" /\ ~Carried(name, n)
    <3>1. d = [old EXCEPT !.status = "UNAVAILABLE"]
      BY <1>2, <2>1, <2>4 DEF text_decode
    <3>2. d.status = "UNAVAILABLE"
      BY <1>2, <3>1
    <3> QED BY <1>3, <1>5, <2>4, <3>2 DEF Consistent
  <2> QED BY <2>2, <2>3, <2>4
<1>6. CASE n # "text" /\ m.kind = "absent"
  <2>1. d = IF n \in Extensions THEN old ELSE [old EXCEPT !.status = "UNAVAILABLE"]
    BY <1>1, <1>6 DEF DecodedMember
  <2>2. d.status = IF n \in Extensions /\ Carried(name, n) THEN "SEVERED" ELSE "UNAVAILABLE"
    BY <1>2, <2>1
  <2> QED BY <1>6, <2>2 DEF Consistent, SeverableMeaning
<1>7. CASE n # "text" /\ m.kind = "content"
  <2>1. d = SEVERABLE_SEQUENCE_DECODE(m, old)
    BY <1>1, <1>7 DEF DecodedMember
  <2>2. CASE Carried(name, n)
    <3>1. d = [old EXCEPT !.status = "INVALID"]
      BY <1>2, <1>7, <2>1, <2>2 DEF SEVERABLE_SEQUENCE_DECODE
    <3>2. d.status = "INVALID"
      BY <1>2, <3>1
    <3> QED BY <1>7, <2>2, <3>2 DEF Consistent
  <2>3. CASE ~Carried(name, n)
    <3>1. d = MemberState(m.of, "AUTHENTICATED")
      BY <1>2, <1>7, <2>1, <2>3 DEF SEVERABLE_SEQUENCE_DECODE
    <3>2. d.status = "AUTHENTICATED" /\ d.bytes = m.of
      BY <3>1 DEF MemberState
    <3> QED BY <1>7, <2>3, <3>2 DEF Consistent, SeverableMeaning
  <2> QED BY <2>2, <2>3
<1>8. CASE n # "text" /\ m.kind = "digest"
  <2>1. d = SEVERABLE_SEQUENCE_DECODE(m, old)
    BY <1>1, <1>8 DEF DecodedMember
  <2>2. CASE Carried(name, n)
    <3>1. d = [old EXCEPT !.status = IF matches THEN "AUTHENTICATED" ELSE "INVALID"]
      BY <1>2, <1>8, <2>1, <2>2 DEF SEVERABLE_SEQUENCE_DECODE
    <3>2. d.status = (IF matches THEN "AUTHENTICATED" ELSE "INVALID") /\ d.bytes = carried
      BY <1>2, <2>2, <3>1
    <3> QED BY <1>4, <1>8, <2>2, <3>2 DEF Consistent, SeverableMeaning
  <2>3. CASE ~Carried(name, n)
    <3>1. d = [old EXCEPT !.status = "SEVERED"]
      BY <1>2, <1>8, <2>1, <2>3 DEF SEVERABLE_SEQUENCE_DECODE
    <3>2. d.status = "SEVERED"
      BY <1>2, <3>1
    <3> QED BY <1>8, <2>3, <3>2 DEF Consistent, SeverableMeaning
  <2> QED BY <2>2, <2>3
<1> QED BY <1>3, <1>5, <1>6, <1>7, <1>8

LEMMA SequencesDecoded ==
    ASSUME NEW name \in DOMAIN Envelope, NEW x, NEW r, Permitted(name),
           x = Snapshot(WithManifest("MANIFEST_AUTHORIZED", name), ParsedEntry(name), r)
    PROVE  LET y == suit_decoder_decode_sequences(x) IN
           IF Acceptable(name)
           THEN /\ y.state = WithManifest("SEQUENCES_DECODED", name)
                /\ y.ret = "SUCCESS"
                /\ StatusOK(y.entry)
                /\ Given(y.entry) = Meaning(name)
           ELSE Failed(y)
<1> DEFINE y == suit_decoder_decode_sequences(x)
           m == Contents(name)
           decoded == [n \in Member |->
                          DecodedMember(m, n, MemberState(x.entry.bytes[n], x.entry.status[n]))]
           left(n) == IF decoded[n].status = "INVALID" THEN "UNAVAILABLE" ELSE decoded[n].status
           entry == [x.entry EXCEPT !.bytes  = [n \in Member |-> decoded[n].bytes],
                                    !.status = [n \in Member |-> left(n)]]
           fine == m.seqs["shared"] # Absent /\ \A n \in Member : decoded[n].status # "INVALID"
<1>1. /\ x.state = WithManifest("MANIFEST_AUTHORIZED", name) /\ x.entry = ParsedEntry(name)
      /\ x.state.step = "MANIFEST_AUTHORIZED" /\ Manifest[x.state.manifest] = m
  BY DEF Snapshot, WithManifest, Contents
<1>2. Member = Unseverable \cup Severable /\ Sequence = Member \ {"text"}
      /\ Unseverable \cap Severable = {} /\ "text" \in Severable
  BY DEF Member, Unseverable, Severable, Sequence, Extensions
<1>3. WellFormed(name)
  BY DEF Permitted, Authentic, Intact
<1>4. \A n \in Member : decoded[n] = DecodedMember(m, n, StoredMember(name, n))
  BY <1>1 DEF ParsedEntry, StoredMember
<1>5. \A n \in Member :
         decoded[n].status \in {"UNAVAILABLE", "SEVERED", "AUTHENTICATED", "INVALID"}
  <2>1. \A n \in Unseverable : decoded[n].status \in {"UNAVAILABLE", "AUTHENTICATED"}
    BY <1>2, <1>4, UnseverableDecoded
  <2>2. \A n \in Severable :
           decoded[n].status \in {"UNAVAILABLE", "SEVERED", "AUTHENTICATED", "INVALID"}
    BY <1>2, <1>3, <1>4, SeverableDecoded
  <2> QED BY <1>2, <2>1, <2>2
<1>6. fine <=> Acceptable(name)
  <2>1. \A n \in Unseverable : decoded[n].status # "INVALID"
    BY <1>2, <1>4, UnseverableDecoded
  <2>2. \A n \in Severable : decoded[n].status # "INVALID" <=> Consistent(name, n)
    BY <1>2, <1>3, <1>4, SeverableDecoded
  <2> QED BY <1>2, <2>1, <2>2 DEF Acceptable
<1>7. /\ entry.component_id = m.component_id /\ entry.seq_num = m.seq_num
      /\ entry.version = m.version /\ entry.payloads = Envelope[name].payloads
      /\ entry.bytes = [n \in Member |-> decoded[n].bytes]
      /\ entry.status = [n \in Member |-> left(n)]
  <2> HIDE DEF decoded, left
  <2> QED BY <1>1 DEF ParsedEntry
<1>8. StatusOK(entry)
  BY <1>5, <1>7 DEF StatusOK
<1>9. y = IF fine THEN Reaches(Snapshot(x.state, entry, x.ret), "SEQUENCES_DECODED")
          ELSE Fails(Snapshot(x.state, entry, x.ret), "ERR_MANIFEST_VALIDATION")
  BY <1>1 DEF suit_decoder_decode_sequences
<1> HIDE DEF entry, fine, left, decoded
<1>10. CASE Acceptable(name)
  <2>1. y = Snapshot([x.state EXCEPT !.step = "SEQUENCES_DECODED"], entry, "SUCCESS")
    BY <1>6, <1>9, <1>10 DEF Reaches, Snapshot
  <2>2. y.state = [x.state EXCEPT !.step = "SEQUENCES_DECODED"] /\ y.entry = entry
        /\ y.ret = "SUCCESS"
    BY <2>1 DEF Snapshot
  <2>3. y.state = WithManifest("SEQUENCES_DECODED", name)
    BY <1>1, <2>2, ManifestStep
  <2>4. ASSUME NEW n \in Sequence
        PROVE  suit_manifest_get_command_seq(entry, n) =
                   IF n \in Unseverable THEN UnseverableMeaning(name, n)
                   ELSE SeverableMeaning(name, n)
    <3>1. n \in Member /\ n # "text"
      BY <1>2
    <3>2. entry.bytes[n] = decoded[n].bytes /\ entry.status[n] = decoded[n].status
      BY <1>6, <1>7, <1>10, <3>1 DEF left, fine
    <3>3. CASE n \in Unseverable
      BY <1>4, <3>1, <3>2, <3>3, UnseverableDecoded DEF suit_manifest_get_command_seq
    <3>4. CASE n \in Severable
      <4>1. Consistent(name, n)
        BY <1>10, <3>4 DEF Acceptable
      <4>2. n \notin Unseverable
        BY <1>2, <3>4
      <4>3. decoded[n].status \in {"UNAVAILABLE", "SEVERED", "AUTHENTICATED"}
        BY <1>5, <1>6, <1>10, <3>1 DEF fine
      <4> QED BY <1>3, <1>4, <3>1, <3>2, <3>4, <4>1, <4>2, <4>3, SeverableDecoded
              DEF suit_manifest_get_command_seq
    <3> QED BY <1>2, <3>1, <3>3, <3>4
  <2>5. Given(entry) = Meaning(name)
    BY <1>7, <2>4 DEF Given, Meaning
  <2> QED BY <1>8, <1>10, <2>2, <2>3, <2>5
<1>11. CASE ~Acceptable(name)
  <2>1. y = Fails(Snapshot(x.state, entry, x.ret), "ERR_MANIFEST_VALIDATION")
    BY <1>6, <1>9, <1>11
  <2>2. y.state = InvalidState /\ y.ret = "ERR_MANIFEST_VALIDATION" /\ y.entry = entry
    BY <2>1 DEF Fails, Snapshot
  <2> QED BY <1>8, <1>11, <2>2 DEF Failed, DecoderResults
<1> QED BY <1>10, <1>11

LEMMA ComponentsCreated ==
    ASSUME NEW name \in DOMAIN Envelope, NEW x, NEW entry, NEW s, NEW r, StatusOK(entry),
           x = Snapshot(WithManifest("SEQUENCES_DECODED", name), entry, s)
    PROVE  LET y == suit_decoder_create_components(x, r) IN
           IF r = "SUCCESS"
           THEN y = Snapshot(WithManifest("COMPONENTS_CREATED", name), entry, "SUCCESS")
           ELSE y = Snapshot(InvalidState, EmptyManifest, r)
<1> DEFINE y == suit_decoder_create_components(x, r)
<1>1. x.state = WithManifest("SEQUENCES_DECODED", name) /\ x.entry = entry
      /\ x.state.step = "SEQUENCES_DECODED"
  BY DEF Snapshot, WithManifest
<1>2. CASE r = "SUCCESS"
  <2>1. y = Snapshot([x.state EXCEPT !.step = "COMPONENTS_CREATED"], entry, "SUCCESS")
    BY <1>1, <1>2 DEF suit_decoder_create_components, Reaches
  <2> QED BY <1>1, <1>2, <2>1, ManifestStep
<1>3. CASE r # "SUCCESS"
  BY <1>1, <1>3 DEF suit_decoder_create_components
<1> QED BY <1>2, <1>3

-----------------------------------------------------------------------------
(***************************************************************************)
(* The inductive invariant: at every step of a load the decoder and the    *)
(* entry it fills are a function of the envelope, which has passed the     *)
(* checks so far.  Metadata can be read only where that does not matter.   *)
(***************************************************************************)
Phases == {"idle", "decode_envelope", "check_digest", "decode_manifest", "authenticate",
           "authorize", "decode_sequences", "create_components", "sequence_num"}

StackOK ==
    /\ manifest_stack_height \in 0 .. MaxManifests
    /\ manifest_stack = [e \in Entry |-> manifest_stack[e]]
    /\ \A e \in Entry : StatusOK(manifest_stack[e])

PhaseOK ==
    /\ decoder_state.step \in Steps
    /\ pc \in Phases
    /\ pc = "idle" => envelope = None /\ DecoderFree
    /\ pc # "idle" => envelope \in DOMAIN Envelope /\ ret = "none"
    /\ pc # "idle" /\ pc # "sequence_num" => manifest_stack_height < MaxManifests

Progress ==
    /\ pc = "decode_envelope" =>
          Above = Snapshot(Started, EmptyManifest, "none")
    /\ pc = "check_digest" =>
          /\ WellFormed(envelope)
          /\ Above = Snapshot(WithEnvelope("ENVELOPE_DECODED", envelope),
                              StoredEntry(envelope), "none")
    /\ pc = "decode_manifest" =>
          /\ WellFormed(envelope)
          /\ Envelope[envelope].digest = Envelope[envelope].manifest
          /\ Above = Snapshot(WithEnvelope("MANIFEST_DIGEST_VERIFIED", envelope),
                              StoredEntry(envelope), "none")
    /\ pc = "authenticate" =>
          /\ Intact(envelope)
          /\ Above = Snapshot(WithManifest("MANIFEST_DECODED", envelope),
                              ParsedEntry(envelope), "none")
    /\ pc = "authorize" =>
          /\ Authentic(envelope)
          /\ Above = Snapshot(WithManifest("MANIFEST_AUTHENTICATED", envelope),
                              ParsedEntry(envelope), "none")
    /\ pc = "decode_sequences" =>
          /\ Permitted(envelope)
          /\ Above = Snapshot(WithManifest("MANIFEST_AUTHORIZED", envelope),
                              ParsedEntry(envelope), "none")
    /\ pc = "create_components" =>
          /\ Acceptable(envelope)
          /\ decoder_state = WithManifest("SEQUENCES_DECODED", envelope)
          /\ Given(manifest_stack[manifest_stack_height]) = Meaning(envelope)
    /\ pc = "sequence_num" =>
          /\ Acceptable(envelope)
          /\ DecoderFree
          /\ manifest_stack_height > 0
          /\ Given(manifest_stack[Top]) = Meaning(envelope)

DecoderInv == StackOK /\ PhaseOK /\ Progress

\* Metadata is read between two loads, or when a load is over but for the platform.
LEMMA FreeWhere ==
    ASSUME DecoderInv, DecoderFree
    PROVE  pc \in {"idle", "decode_envelope", "sequence_num"}
<1>1. pc \in Phases
  BY DEF DecoderInv, PhaseOK
<1>2. Above.state = decoder_state
  BY DEF Above, Snapshot
<1>3. ASSUME NEW s, NEW e, NEW r, Above = Snapshot(s, e, r)
      PROVE  decoder_state = s
  BY <1>2, <1>3 DEF Snapshot
<1>4. ASSUME NEW name PROVE /\ WithEnvelope("ENVELOPE_DECODED", name).step = "ENVELOPE_DECODED"
                            /\ WithEnvelope("MANIFEST_DIGEST_VERIFIED", name).step
                                   = "MANIFEST_DIGEST_VERIFIED"
  BY DEF WithEnvelope
<1>5. pc # "check_digest"
  BY <1>3, <1>4 DEF DecoderInv, Progress, DecoderFree
<1>6. pc # "decode_manifest"
  BY <1>3, <1>4 DEF DecoderInv, Progress, DecoderFree
<1>7. pc # "authenticate"
  <2> SUFFICES ASSUME pc = "authenticate" PROVE FALSE
    OBVIOUS
  <2>1. decoder_state = WithManifest("MANIFEST_DECODED", envelope)
    BY <1>3 DEF DecoderInv, Progress
  <2>2. decoder_state.step = "MANIFEST_DECODED"
    BY <2>1 DEF WithManifest
  <2> QED BY <2>2 DEF DecoderFree
<1>8. pc # "authorize"
  <2> SUFFICES ASSUME pc = "authorize" PROVE FALSE
    OBVIOUS
  <2>1. decoder_state = WithManifest("MANIFEST_AUTHENTICATED", envelope)
    BY <1>3 DEF DecoderInv, Progress
  <2>2. decoder_state.step = "MANIFEST_AUTHENTICATED"
    BY <2>1 DEF WithManifest
  <2> QED BY <2>2 DEF DecoderFree
<1>9. pc # "decode_sequences"
  <2> SUFFICES ASSUME pc = "decode_sequences" PROVE FALSE
    OBVIOUS
  <2>1. decoder_state = WithManifest("MANIFEST_AUTHORIZED", envelope)
    BY <1>3 DEF DecoderInv, Progress
  <2>2. decoder_state.step = "MANIFEST_AUTHORIZED"
    BY <2>1 DEF WithManifest
  <2> QED BY <2>2 DEF DecoderFree
<1>10. pc # "create_components"
  <2> SUFFICES ASSUME pc = "create_components" PROVE FALSE
    OBVIOUS
  <2>1. decoder_state = WithManifest("SEQUENCES_DECODED", envelope)
    BY DEF DecoderInv, Progress
  <2>2. decoder_state.step = "SEQUENCES_DECODED"
    BY <2>1 DEF WithManifest
  <2> QED BY <2>2 DEF DecoderFree
<1> QED BY <1>1, <1>5, <1>6, <1>7, <1>8, <1>9, <1>10 DEF Phases

LEMMA InitInv == Init => DecoderInv
<1> SUFFICES ASSUME Init PROVE DecoderInv
  OBVIOUS
<1>1. StatusOK(EmptyManifest)
  BY DEF StatusOK, EmptyManifest
<1>2. StackOK
  BY <1>1, StackAssumption DEF Init, StackOK
<1>3. decoder_state.step = "INVALID"
  BY DEF Init, InvalidState
<1>4. PhaseOK
  BY <1>3 DEF Init, PhaseOK, Phases, Steps, DecoderFree
<1>5. Progress
  BY DEF Init, Progress
<1> QED BY <1>2, <1>4, <1>5 DEF DecoderInv

(***************************************************************************)
(* One function of a load was called and failed: the load is over.         *)
(***************************************************************************)
LEMMA LoadFails ==
    ASSUME DecoderInv, pc # "idle", pc # "sequence_num", NEW x, NEW next, Continue(x, next),
           UNCHANGED manifest_stack_height,
           x.state = InvalidState, x.ret # "SUCCESS", StatusOK(x.entry)
    PROVE  /\ DecoderInv'
           /\ pc' = "idle" /\ envelope' = None /\ ret' = x.ret
<1>1. pc' = "idle" /\ envelope' = None /\ ret' = x.ret /\ decoder_state' = InvalidState
      /\ manifest_stack' = [manifest_stack EXCEPT ![manifest_stack_height] = x.entry]
  BY DEF Continue
<1>2. StackOK'
  BY <1>1 DEF StackOK, DecoderInv
<1>3. decoder_state'.step = "INVALID"
  BY <1>1 DEF InvalidState
<1>4. PhaseOK'
  BY <1>1, <1>3 DEF PhaseOK, Phases, Steps, DecoderFree
<1>5. Progress'
  BY <1>1 DEF Progress
<1> QED BY <1>1, <1>2, <1>4, <1>5 DEF DecoderInv

\* One function succeeded: the load goes on, and Progress is left to show.
LEMMA LoadContinues ==
    ASSUME DecoderInv, pc # "idle", pc # "sequence_num", NEW x, NEW next, Continue(x, next),
           UNCHANGED manifest_stack_height,
           next \in Phases \ {"idle", "sequence_num"},
           x.state.step \in Steps, x.ret = "SUCCESS", StatusOK(x.entry)
    PROVE  /\ StackOK' /\ PhaseOK'
           /\ pc' = next /\ envelope' = envelope /\ ret' = "none"
           /\ Above' = Snapshot(x.state, x.entry, "none")
<1>1. /\ pc' = next /\ envelope' = envelope /\ ret' = "none" /\ decoder_state' = x.state
      /\ manifest_stack' = [manifest_stack EXCEPT ![manifest_stack_height] = x.entry]
  BY DEF Continue
<1>2. StackOK'
  BY <1>1 DEF StackOK, DecoderInv
<1>3. PhaseOK'
  BY <1>1 DEF PhaseOK, DecoderInv
<1>4. manifest_stack_height \in Entry
  BY StackAssumption DEF DecoderInv, StackOK, PhaseOK, Entry
<1>5. manifest_stack'[manifest_stack_height'] = x.entry
  BY <1>1, <1>4 DEF DecoderInv, StackOK
<1> QED BY <1>1, <1>2, <1>3, <1>5 DEF Above

(***************************************************************************)
(* What a function of a load amounts to: it goes on, or ends the load of   *)
(* an envelope that is not acceptable.  Loaded manifests are not touched.  *)
(***************************************************************************)
BelowUnchanged ==
    /\ manifest_stack_height' = manifest_stack_height
    /\ \A e \in Entry : e < manifest_stack_height => manifest_stack'[e] = manifest_stack[e]

GoesOn ==
    /\ pc # "idle" /\ pc # "sequence_num" /\ pc' # "idle" /\ pc' # "sequence_num"
    /\ envelope' = envelope /\ ret' = ret
    /\ BelowUnchanged

Invalidates ==
    /\ pc # "idle" /\ pc # "sequence_num" /\ pc' = "idle"
    /\ envelope' = None /\ ret' \in DecoderResults
    /\ ~Acceptable(envelope)
    /\ BelowUnchanged

LEMMA FillsAbove ==
    ASSUME StackOK, NEW x, NEW next, Continue(x, next), UNCHANGED manifest_stack_height
    PROVE  BelowUnchanged
<1>1. manifest_stack' = [manifest_stack EXCEPT ![manifest_stack_height] = x.entry]
  BY DEF Continue
<1>2. \A e \in Entry : e < manifest_stack_height => manifest_stack'[e] = manifest_stack[e]
  BY <1>1, StackAssumption DEF StackOK, Entry
<1> QED BY <1>2 DEF BelowUnchanged

LEMMA FunctionFails ==
    ASSUME DecoderInv, pc # "idle", pc # "sequence_num", NEW x, NEW next, Continue(x, next),
           UNCHANGED manifest_stack_height, Failed(x), ~Acceptable(envelope)
    PROVE  DecoderInv' /\ Invalidates
<1>1. x.state = InvalidState /\ x.ret \in DecoderResults /\ StatusOK(x.entry)
  BY DEF Failed
<1>2. x.ret # "SUCCESS"
  BY <1>1 DEF DecoderResults
<1>3. DecoderInv' /\ pc' = "idle" /\ envelope' = None /\ ret' = x.ret
  BY <1>1, <1>2, LoadFails
<1>4. BelowUnchanged
  BY FillsAbove DEF DecoderInv
<1> QED BY <1>1, <1>3, <1>4 DEF Invalidates

LEMMA FunctionSucceeds ==
    ASSUME DecoderInv, pc # "idle", pc # "sequence_num", NEW x, NEW next, Continue(x, next),
           UNCHANGED manifest_stack_height, next \in Phases \ {"idle", "sequence_num"},
           NEW state, NEW entry, x = Snapshot(state, entry, "SUCCESS"),
           state.step \in Steps, StatusOK(entry)
    PROVE  /\ StackOK' /\ PhaseOK' /\ GoesOn
           /\ pc' = next /\ envelope' = envelope /\ Above' = Snapshot(state, entry, "none")
<1>1. x.state = state /\ x.entry = entry /\ x.ret = "SUCCESS"
  BY DEF Snapshot
<1>2. /\ StackOK' /\ PhaseOK'
      /\ pc' = next /\ envelope' = envelope /\ ret' = "none"
      /\ Above' = Snapshot(x.state, x.entry, "none")
  BY <1>1, LoadContinues
<1>3. ret = "none"
  BY DEF DecoderInv, PhaseOK
<1>4. BelowUnchanged
  BY FillsAbove DEF DecoderInv
<1> QED BY <1>1, <1>2, <1>3, <1>4 DEF GoesOn

LEMMA EntriesOK == ASSUME NEW name PROVE StatusOK(StoredEntry(name)) /\ StatusOK(ParsedEntry(name))
BY DEF StatusOK, StoredEntry, ParsedEntry, StoredStatus

-----------------------------------------------------------------------------
(***************************************************************************)
(* The actions, one by one.                                                *)
(***************************************************************************)
LEMMA DecodeEnvelopeStep ==
    ASSUME DecoderInv, DecodeEnvelope PROVE DecoderInv' /\ (GoesOn \/ Invalidates)
<1> DEFINE y == suit_decoder_decode_envelope(Above, envelope)
<1>1. /\ pc = "decode_envelope" /\ Continue(y, "check_digest") /\ UNCHANGED manifest_stack_height
      /\ envelope \in DOMAIN Envelope /\ Above = Snapshot(Started, EmptyManifest, "none")
  BY DEF DecodeEnvelope, DecoderInv, PhaseOK, Progress
<1>2. IF WellFormed(envelope)
      THEN y = Snapshot(WithEnvelope("ENVELOPE_DECODED", envelope), StoredEntry(envelope), "SUCCESS")
      ELSE Failed(y)
  BY <1>1, EnvelopeDecoded
<1> HIDE DEF y
<1>3. CASE WellFormed(envelope)
  <2>1. WithEnvelope("ENVELOPE_DECODED", envelope).step \in Steps
    BY DEF WithEnvelope, Steps
  <2>2. /\ StackOK' /\ PhaseOK' /\ GoesOn /\ pc' = "check_digest" /\ envelope' = envelope
        /\ Above' = Snapshot(WithEnvelope("ENVELOPE_DECODED", envelope), StoredEntry(envelope),
                             "none")
    BY <1>1, <1>2, <1>3, <2>1, EntriesOK, FunctionSucceeds DEF Phases
  <2>3. Progress'
    BY <1>3, <2>2 DEF Progress
  <2> QED BY <2>2, <2>3 DEF DecoderInv
<1>4. CASE ~WellFormed(envelope)
  <2>1. ~Acceptable(envelope)
    BY <1>4 DEF Acceptable, Permitted, Authentic, Intact
  <2> QED BY <1>1, <1>2, <1>4, <2>1, FunctionFails
<1> QED BY <1>3, <1>4

LEMMA CheckDigestStep ==
    ASSUME DecoderInv, CheckDigest PROVE DecoderInv' /\ (GoesOn \/ Invalidates)
<1> DEFINE y == suit_decoder_check_manifest_digest(Above)
           correct == Envelope[envelope].digest = Envelope[envelope].manifest
<1>1. /\ pc = "check_digest" /\ Continue(y, "decode_manifest") /\ UNCHANGED manifest_stack_height
      /\ envelope \in DOMAIN Envelope /\ WellFormed(envelope)
      /\ Above = Snapshot(WithEnvelope("ENVELOPE_DECODED", envelope), StoredEntry(envelope), "none")
  BY DEF CheckDigest, DecoderInv, PhaseOK, Progress
<1>2. IF correct
      THEN y = Snapshot(WithEnvelope("MANIFEST_DIGEST_VERIFIED", envelope), StoredEntry(envelope),
                        "SUCCESS")
      ELSE Failed(y)
  BY <1>1, DigestChecked
<1> HIDE DEF y
<1>3. CASE correct
  <2>1. WithEnvelope("MANIFEST_DIGEST_VERIFIED", envelope).step \in Steps
    BY DEF WithEnvelope, Steps
  <2>2. /\ StackOK' /\ PhaseOK' /\ GoesOn /\ pc' = "decode_manifest" /\ envelope' = envelope
        /\ Above' = Snapshot(WithEnvelope("MANIFEST_DIGEST_VERIFIED", envelope),
                             StoredEntry(envelope), "none")
    BY <1>1, <1>2, <1>3, <2>1, EntriesOK, FunctionSucceeds DEF Phases
  <2>3. Progress'
    BY <1>1, <1>3, <2>2 DEF Progress
  <2> QED BY <2>2, <2>3 DEF DecoderInv
<1>4. CASE ~correct
  <2>1. ~Acceptable(envelope)
    BY <1>4 DEF Acceptable, Permitted, Authentic, Intact
  <2> QED BY <1>1, <1>2, <1>4, <2>1, FunctionFails
<1> QED BY <1>3, <1>4

LEMMA DecodeManifestStep ==
    ASSUME DecoderInv, DecodeManifest PROVE DecoderInv' /\ (GoesOn \/ Invalidates)
<1> DEFINE y == suit_decoder_decode_manifest(Above)
<1>1. /\ pc = "decode_manifest" /\ Continue(y, "authenticate") /\ UNCHANGED manifest_stack_height
      /\ envelope \in DOMAIN Envelope /\ WellFormed(envelope)
      /\ Envelope[envelope].digest = Envelope[envelope].manifest
      /\ Above = Snapshot(WithEnvelope("MANIFEST_DIGEST_VERIFIED", envelope),
                          StoredEntry(envelope), "none")
  BY DEF DecodeManifest, DecoderInv, PhaseOK, Progress
<1>2. IF Intact(envelope)
      THEN y = Snapshot(WithManifest("MANIFEST_DECODED", envelope), ParsedEntry(envelope), "SUCCESS")
      ELSE Failed(y)
  BY <1>1, ManifestDecoded
<1> HIDE DEF y
<1>3. CASE Intact(envelope)
  <2>1. WithManifest("MANIFEST_DECODED", envelope).step \in Steps
    BY DEF WithManifest, Steps
  <2>2. /\ StackOK' /\ PhaseOK' /\ GoesOn /\ pc' = "authenticate" /\ envelope' = envelope
        /\ Above' = Snapshot(WithManifest("MANIFEST_DECODED", envelope), ParsedEntry(envelope),
                             "none")
    BY <1>1, <1>2, <1>3, <2>1, EntriesOK, FunctionSucceeds DEF Phases
  <2>3. Progress'
    BY <1>3, <2>2 DEF Progress
  <2> QED BY <2>2, <2>3 DEF DecoderInv
<1>4. CASE ~Intact(envelope)
  <2>1. ~Acceptable(envelope)
    BY <1>4 DEF Acceptable, Permitted, Authentic
  <2> QED BY <1>1, <1>2, <1>4, <2>1, FunctionFails
<1> QED BY <1>3, <1>4

LEMMA AuthenticateStep ==
    ASSUME DecoderInv, Authenticate PROVE DecoderInv' /\ (GoesOn \/ Invalidates)
<1> DEFINE y == suit_decoder_authenticate_manifest(Above)
<1>1. /\ pc = "authenticate" /\ Continue(y, "authorize") /\ UNCHANGED manifest_stack_height
      /\ envelope \in DOMAIN Envelope /\ Intact(envelope)
      /\ Above = Snapshot(WithManifest("MANIFEST_DECODED", envelope), ParsedEntry(envelope), "none")
  BY DEF Authenticate, DecoderInv, PhaseOK, Progress
<1>2. IF Authentic(envelope)
      THEN y = Snapshot(WithManifest("MANIFEST_AUTHENTICATED", envelope), ParsedEntry(envelope),
                        "SUCCESS")
      ELSE Failed(y)
  BY <1>1, ManifestAuthenticated
<1> HIDE DEF y
<1>3. CASE Authentic(envelope)
  <2>1. WithManifest("MANIFEST_AUTHENTICATED", envelope).step \in Steps
    BY DEF WithManifest, Steps
  <2>2. /\ StackOK' /\ PhaseOK' /\ GoesOn /\ pc' = "authorize" /\ envelope' = envelope
        /\ Above' = Snapshot(WithManifest("MANIFEST_AUTHENTICATED", envelope),
                             ParsedEntry(envelope), "none")
    BY <1>1, <1>2, <1>3, <2>1, EntriesOK, FunctionSucceeds DEF Phases
  <2>3. Progress'
    BY <1>3, <2>2 DEF Progress
  <2> QED BY <2>2, <2>3 DEF DecoderInv
<1>4. CASE ~Authentic(envelope)
  <2>1. ~Acceptable(envelope)
    BY <1>4 DEF Acceptable, Permitted
  <2> QED BY <1>1, <1>2, <1>4, <2>1, FunctionFails
<1> QED BY <1>3, <1>4

LEMMA AuthorizeStep ==
    ASSUME DecoderInv, Authorize PROVE DecoderInv' /\ (GoesOn \/ Invalidates)
<1> DEFINE y == suit_decoder_authorize_manifest(Above)
<1>1. /\ pc = "authorize" /\ Continue(y, "decode_sequences") /\ UNCHANGED manifest_stack_height
      /\ envelope \in DOMAIN Envelope /\ Authentic(envelope)
      /\ Above = Snapshot(WithManifest("MANIFEST_AUTHENTICATED", envelope), ParsedEntry(envelope),
                          "none")
  BY DEF Authorize, DecoderInv, PhaseOK, Progress
<1>2. IF Permitted(envelope)
      THEN y = Snapshot(WithManifest("MANIFEST_AUTHORIZED", envelope), ParsedEntry(envelope),
                        "SUCCESS")
      ELSE Failed(y)
  BY <1>1, ManifestAuthorized
<1> HIDE DEF y
<1>3. CASE Permitted(envelope)
  <2>1. WithManifest("MANIFEST_AUTHORIZED", envelope).step \in Steps
    BY DEF WithManifest, Steps
  <2>2. /\ StackOK' /\ PhaseOK' /\ GoesOn /\ pc' = "decode_sequences" /\ envelope' = envelope
        /\ Above' = Snapshot(WithManifest("MANIFEST_AUTHORIZED", envelope),
                             ParsedEntry(envelope), "none")
    BY <1>1, <1>2, <1>3, <2>1, EntriesOK, FunctionSucceeds DEF Phases
  <2>3. Progress'
    BY <1>3, <2>2 DEF Progress
  <2> QED BY <2>2, <2>3 DEF DecoderInv
<1>4. CASE ~Permitted(envelope)
  <2>1. ~Acceptable(envelope)
    BY <1>4 DEF Acceptable
  <2> QED BY <1>1, <1>2, <1>4, <2>1, FunctionFails
<1> QED BY <1>3, <1>4

LEMMA DecodeSequencesStep ==
    ASSUME DecoderInv, DecodeSequences PROVE DecoderInv' /\ (GoesOn \/ Invalidates)
<1> DEFINE y == suit_decoder_decode_sequences(Above)
<1>1. /\ pc = "decode_sequences" /\ Continue(y, "create_components")
      /\ UNCHANGED manifest_stack_height
      /\ envelope \in DOMAIN Envelope /\ Permitted(envelope)
      /\ Above = Snapshot(WithManifest("MANIFEST_AUTHORIZED", envelope), ParsedEntry(envelope),
                          "none")
  BY DEF DecodeSequences, DecoderInv, PhaseOK, Progress
<1>2. IF Acceptable(envelope)
      THEN /\ y.state = WithManifest("SEQUENCES_DECODED", envelope)
           /\ y.ret = "SUCCESS"
           /\ StatusOK(y.entry)
           /\ Given(y.entry) = Meaning(envelope)
      ELSE Failed(y)
  BY <1>1, SequencesDecoded
<1> HIDE DEF y
<1>3. CASE Acceptable(envelope)
  <2>1. y.state.step \in Steps
    BY <1>2, <1>3 DEF WithManifest, Steps
  <2>2. /\ StackOK' /\ PhaseOK'
        /\ pc' = "create_components" /\ envelope' = envelope /\ ret' = "none"
        /\ Above' = Snapshot(y.state, y.entry, "none")
    BY <1>1, <1>2, <1>3, <2>1, LoadContinues DEF Phases
  <2>3. GoesOn
    BY <1>1, <2>2, FillsAbove DEF GoesOn, DecoderInv, PhaseOK
  <2>4. decoder_state' = y.state /\ manifest_stack'[manifest_stack_height'] = y.entry
    BY <2>2 DEF Above, Snapshot
  <2>5. Progress'
    BY <1>2, <1>3, <2>2, <2>4 DEF Progress
  <2> QED BY <2>2, <2>3, <2>5 DEF DecoderInv
<1>4. CASE ~Acceptable(envelope)
  BY <1>1, <1>2, <1>4, FunctionFails
<1> QED BY <1>3, <1>4

(***************************************************************************)
(* The steps after the decoder's checks.  KeepsLoaded: the manifests that  *)
(* count as loaded stay as they are.                                       *)
(***************************************************************************)
KeepsLoaded ==
    /\ Loaded' = Loaded
    /\ \A e \in Entry : e < Loaded => manifest_stack'[e] = manifest_stack[e]

Refuses ==
    /\ pc # "idle" /\ envelope \in DOMAIN Envelope /\ Acceptable(envelope)
    /\ pc' = "idle" /\ envelope' = None /\ ret' \in LateResults
    /\ KeepsLoaded

StartsLast ==
    /\ pc # "idle" /\ envelope' = envelope /\ ret' = ret
    /\ KeepsLoaded

Accepts ==
    /\ pc = "sequence_num" /\ envelope \in DOMAIN Envelope /\ Acceptable(envelope)
    /\ pc' = "idle" /\ envelope' = None /\ ret' = "SUCCESS"
    /\ Loaded \in Entry /\ Loaded' = Loaded + 1
    /\ UNCHANGED manifest_stack
    /\ Given(manifest_stack[Loaded]) = Meaning(envelope)

LEMMA EmptyOK == StatusOK(EmptyManifest)
BY DEF StatusOK, EmptyManifest

LEMMA CreateComponentsStep ==
    ASSUME DecoderInv, NEW r \in CreateResults, CreateComponents(r)
    PROVE  DecoderInv' /\ (StartsLast \/ Refuses)
<1> DEFINE y == suit_decoder_create_components(Above, r)
           filled == manifest_stack[manifest_stack_height]
<1>1. /\ pc = "create_components" /\ Continue(y, "sequence_num")
      /\ manifest_stack_height' = manifest_stack_height + (IF y.ret = "SUCCESS" THEN 1 ELSE 0)
  BY DEF CreateComponents
<1>2. /\ envelope \in DOMAIN Envelope /\ Acceptable(envelope) /\ ret = "none"
      /\ decoder_state = WithManifest("SEQUENCES_DECODED", envelope)
      /\ Given(filled) = Meaning(envelope)
      /\ manifest_stack_height \in Nat /\ manifest_stack_height < MaxManifests
  BY <1>1, StackAssumption DEF DecoderInv, StackOK, PhaseOK, Progress
<1>3. manifest_stack_height \in Entry /\ StatusOK(filled)
  BY <1>2, StackAssumption DEF DecoderInv, StackOK, Entry
<1>4. Above = Snapshot(WithManifest("SEQUENCES_DECODED", envelope), filled, ret)
  BY <1>2 DEF Above
<1>5. IF r = "SUCCESS"
      THEN y = Snapshot(WithManifest("COMPONENTS_CREATED", envelope), filled, "SUCCESS")
      ELSE y = Snapshot(InvalidState, EmptyManifest, r)
  BY <1>2, <1>3, <1>4, ComponentsCreated
<1> HIDE DEF y
<1>6. CASE r = "SUCCESS"
  <2>1. y.state = WithManifest("COMPONENTS_CREATED", envelope) /\ y.entry = filled
        /\ y.ret = "SUCCESS"
    BY <1>5, <1>6 DEF Snapshot
  <2>2. /\ decoder_state' = WithManifest("COMPONENTS_CREATED", envelope)
        /\ manifest_stack' = [manifest_stack EXCEPT ![manifest_stack_height] = filled]
        /\ ret' = "none" /\ pc' = "sequence_num" /\ envelope' = envelope
        /\ manifest_stack_height' = manifest_stack_height + 1
    BY <1>1, <2>1 DEF Continue
  <2>3. decoder_state'.step = "COMPONENTS_CREATED"
    BY <2>2 DEF WithManifest
  <2>4. manifest_stack' = manifest_stack
    BY <1>3, <2>2 DEF DecoderInv, StackOK
  <2>5. StackOK'
    BY <1>2, <2>2, <2>4, StackAssumption DEF DecoderInv, StackOK
  <2>6. PhaseOK'
    BY <1>2, <2>2, <2>3 DEF PhaseOK, Phases, Steps
  <2>7. Top' = manifest_stack_height
    BY <1>2, <2>2 DEF Top
  <2>8. Progress'
    BY <1>2, <2>2, <2>3, <2>4, <2>7 DEF Progress, DecoderFree
  <2>9. StartsLast
    BY <1>1, <1>2, <2>2, <2>4, <2>7 DEF StartsLast, KeepsLoaded, Loaded
  <2> QED BY <2>5, <2>6, <2>8, <2>9 DEF DecoderInv
<1>7. CASE r # "SUCCESS"
  <2>1. y.state = InvalidState /\ y.entry = EmptyManifest /\ y.ret = r
    BY <1>5, <1>7 DEF Snapshot
  <2>2. UNCHANGED manifest_stack_height
    BY <1>1, <1>2, <1>7, <2>1
  <2>3. DecoderInv' /\ pc' = "idle" /\ envelope' = None /\ ret' = r
    BY <1>1, <1>7, <2>1, <2>2, EmptyOK, LoadFails
  <2>4. BelowUnchanged
    BY <1>1, <2>2, FillsAbove DEF DecoderInv
  <2>5. r \in LateResults
    BY <1>7 DEF LateResults
  <2>6. KeepsLoaded
    BY <1>1, <2>3, <2>4 DEF KeepsLoaded, BelowUnchanged, Loaded
  <2> QED BY <1>1, <1>2, <2>3, <2>5, <2>6 DEF Refuses
<1> QED BY <1>6, <1>7

LEMMA PopsTop ==
    ASSUME StackOK, manifest_stack_height > 0, NEW r, Popped(r)
    PROVE  /\ StackOK' /\ manifest_stack_height' = Top
           /\ \A e \in Entry : e < Top => manifest_stack'[e] = manifest_stack[e]
<1>1. /\ manifest_stack_height' = Top
      /\ manifest_stack' = [manifest_stack EXCEPT ![Top] = EmptyManifest]
            \/ manifest_stack' = manifest_stack
  BY DEF Popped, Top
<1>2. Top \in Entry /\ Top \in 0 .. MaxManifests
  BY StackAssumption DEF StackOK, Top, Entry
<1>3. StackOK'
  BY <1>1, <1>2, EmptyOK DEF StackOK
<1>4. \A e \in Entry : e < Top => e # Top
  BY <1>2 DEF Entry
<1>5. \A e \in Entry : e # Top => manifest_stack'[e] = manifest_stack[e]
  BY <1>1, <1>2 DEF StackOK
<1> QED BY <1>1, <1>3, <1>4, <1>5

LEMMA AuthorizeSequenceNumStep ==
    ASSUME DecoderInv, NEW r \in SequenceNumResults, NEW released \in ReleaseResults,
           AuthorizeSequenceNum(r, released)
    PROVE  DecoderInv' /\ (Accepts \/ Refuses)
<1>1. /\ pc = "sequence_num" /\ pc' = "idle" /\ envelope' = None /\ ret' = r
      /\ IF r = "SUCCESS" THEN UNCHANGED <<manifest_stack, manifest_stack_height>>
         ELSE Popped(released)
      /\ UNCHANGED decoder_state
  BY DEF AuthorizeSequenceNum
<1>2. /\ envelope \in DOMAIN Envelope /\ Acceptable(envelope) /\ DecoderFree
      /\ manifest_stack_height > 0 /\ manifest_stack_height \in 0 .. MaxManifests
      /\ Given(manifest_stack[Top]) = Meaning(envelope)
      /\ StackOK /\ decoder_state.step \in Steps
  BY <1>1 DEF DecoderInv, StackOK, PhaseOK, Progress
<1>3. PhaseOK' /\ Progress'
  BY <1>1, <1>2 DEF PhaseOK, Phases, Progress, DecoderFree
<1>4. Loaded = Top /\ Loaded' = manifest_stack_height'
  BY <1>1 DEF Loaded
<1>5. CASE r = "SUCCESS"
  <2>1. StackOK'
    BY <1>1, <1>2, <1>5 DEF StackOK
  <2>2. Loaded \in Entry /\ Loaded' = Loaded + 1
    BY <1>1, <1>2, <1>4, <1>5, StackAssumption DEF Top, Entry
  <2>3. Accepts
    BY <1>1, <1>2, <1>4, <1>5, <2>2 DEF Accepts
  <2> QED BY <1>3, <2>1, <2>3 DEF DecoderInv
<1>6. CASE r # "SUCCESS"
  <2>1. /\ StackOK' /\ manifest_stack_height' = Top
        /\ \A e \in Entry : e < Top => manifest_stack'[e] = manifest_stack[e]
    BY <1>1, <1>2, <1>6, PopsTop
  <2>2. KeepsLoaded
    BY <1>4, <2>1 DEF KeepsLoaded
  <2>3. r \in LateResults
    BY <1>6 DEF LateResults
  <2>4. Refuses
    BY <1>1, <1>2, <2>2, <2>3 DEF Refuses
  <2> QED BY <1>3, <2>1, <2>4 DEF DecoderInv
<1> QED BY <1>5, <1>6

Requests ==
    /\ pc = "idle" /\ pc' = "decode_envelope" /\ envelope = None
    /\ envelope' \in DOMAIN Envelope /\ ret' = "none"
    /\ KeepsLoaded

Releases ==
    /\ pc = "idle" /\ pc' = "idle" /\ envelope = None /\ envelope' = None /\ ret' = ret
    /\ Loaded \in 1 .. MaxManifests /\ Loaded' = Loaded - 1
    /\ \A e \in Entry : e < Loaded' => manifest_stack'[e] = manifest_stack[e]

LEMMA LoadEnvelopeStep ==
    ASSUME DecoderInv, NEW name \in DOMAIN Envelope, LoadEnvelope(name)
    PROVE  DecoderInv' /\ Requests
<1>1. /\ pc = "idle" /\ manifest_stack_height < MaxManifests
      /\ manifest_stack' = [manifest_stack EXCEPT ![manifest_stack_height] = EmptyManifest]
      /\ decoder_state' = Started
      /\ envelope' = name /\ ret' = "none" /\ pc' = "decode_envelope"
      /\ UNCHANGED manifest_stack_height
  BY DEF LoadEnvelope, suit_decoder_init, suit_processor_wipe, Started, Snapshot
<1>2. manifest_stack_height \in Entry /\ envelope = None
  BY <1>1, StackAssumption DEF DecoderInv, StackOK, PhaseOK, Entry
<1>3. StackOK'
  BY <1>1, <1>2, EmptyOK DEF DecoderInv, StackOK
<1>4. decoder_state'.step \in Steps
  BY <1>1 DEF Started, InvalidState, Steps
<1>5. PhaseOK'
  BY <1>1, <1>4 DEF PhaseOK, Phases
<1>6. manifest_stack'[manifest_stack_height'] = EmptyManifest
  BY <1>1, <1>2 DEF DecoderInv, StackOK
<1>7. Above' = Snapshot(Started, EmptyManifest, "none")
  BY <1>1, <1>6 DEF Above
<1>8. Progress'
  BY <1>1, <1>7 DEF Progress
<1>9. \A e \in Entry : e < manifest_stack_height => e # manifest_stack_height
  BY <1>2 DEF Entry
<1>10. \A e \in Entry : e # manifest_stack_height => manifest_stack'[e] = manifest_stack[e]
  BY <1>1, <1>2 DEF DecoderInv, StackOK
<1>11. KeepsLoaded
  BY <1>1, <1>9, <1>10 DEF KeepsLoaded, Loaded
<1> QED BY <1>1, <1>2, <1>3, <1>5, <1>8, <1>11 DEF DecoderInv, Requests

LEMMA ReleaseManifestStep ==
    ASSUME DecoderInv, NEW r, ReleaseManifest(r)
    PROVE  DecoderInv' /\ Releases
<1>1. /\ pc = "idle" /\ manifest_stack_height > 0 /\ Popped(r)
      /\ UNCHANGED <<decoder_state, pc, envelope, ret>>
  BY DEF ReleaseManifest
<1>2. /\ StackOK' /\ manifest_stack_height' = Top
      /\ \A e \in Entry : e < Top => manifest_stack'[e] = manifest_stack[e]
  BY <1>1, PopsTop DEF DecoderInv
<1>3. envelope = None /\ DecoderFree /\ manifest_stack_height \in 0 .. MaxManifests
  BY <1>1 DEF DecoderInv, PhaseOK, StackOK
<1>4. PhaseOK' /\ Progress'
  BY <1>1, <1>3 DEF DecoderInv, PhaseOK, Progress, DecoderFree, Phases
<1>5. /\ Loaded = manifest_stack_height /\ Loaded' = Top
      /\ Loaded \in 1 .. MaxManifests /\ Top = Loaded - 1
  BY <1>1, <1>2, <1>3, StackAssumption DEF Loaded, Top
<1>6. Releases
  BY <1>1, <1>2, <1>3, <1>5 DEF Releases
<1> QED BY <1>2, <1>4, <1>6 DEF DecoderInv

-----------------------------------------------------------------------------
(***************************************************************************)
(* Reading the metadata of a manifest.                                     *)
(***************************************************************************)
LEMMA MetadataDecoded ==
    ASSUME NEW name \in DOMAIN Envelope
    PROVE  LET y == Decoded(name) IN
           IF Intact(name)
           THEN y = Snapshot(WithManifest("MANIFEST_DECODED", name), ParsedEntry(name), "SUCCESS")
           ELSE Failed(y)
<1> DEFINE x0 == Snapshot(Started, EmptyManifest, "SUCCESS")
           x1 == suit_decoder_decode_envelope(x0, name)
           x2 == IF x1.ret = "SUCCESS" THEN suit_decoder_check_manifest_digest(x1) ELSE x1
           x3 == IF x2.ret = "SUCCESS" THEN suit_decoder_decode_manifest(x2) ELSE x2
           e == Envelope[name]
<1>1. Decoded(name) = x3
  BY DEF Decoded, suit_decoder_init, suit_processor_wipe, Started, Snapshot
<1>2. IF WellFormed(name)
      THEN x1 = Snapshot(WithEnvelope("ENVELOPE_DECODED", name), StoredEntry(name), "SUCCESS")
      ELSE Failed(x1)
  BY EnvelopeDecoded
<1>3. \A y : Failed(y) => y.ret # "SUCCESS"
  BY DEF Failed, DecoderResults
<1> HIDE DEF x1
<1>4. CASE ~WellFormed(name)
  <2>1. x3 = x1 /\ Failed(x1)
    BY <1>2, <1>3, <1>4
  <2> QED BY <1>1, <1>4, <2>1 DEF Intact
<1>5. CASE WellFormed(name) /\ e.digest # e.manifest
  <2>1. x1 = Snapshot(WithEnvelope("ENVELOPE_DECODED", name), StoredEntry(name), "SUCCESS")
        /\ x1.ret = "SUCCESS"
    BY <1>2, <1>5 DEF Snapshot
  <2>2. Failed(suit_decoder_check_manifest_digest(x1))
    BY <1>5, <2>1, DigestChecked
  <2>3. x3 = suit_decoder_check_manifest_digest(x1)
    BY <1>3, <2>1, <2>2
  <2> QED BY <1>1, <1>5, <2>2, <2>3 DEF Intact
<1>6. CASE WellFormed(name) /\ e.digest = e.manifest
  <2>1. x1 = Snapshot(WithEnvelope("ENVELOPE_DECODED", name), StoredEntry(name), "SUCCESS")
        /\ x1.ret = "SUCCESS"
    BY <1>2, <1>6 DEF Snapshot
  <2>2. x2 = Snapshot(WithEnvelope("MANIFEST_DIGEST_VERIFIED", name), StoredEntry(name), "SUCCESS")
    BY <1>6, <2>1, DigestChecked
  <2>3. x2.ret = "SUCCESS"
    BY <2>2 DEF Snapshot
  <2> HIDE DEF x2
  <2>4. x3 = suit_decoder_decode_manifest(x2)
    BY <2>3
  <2>5. IF Intact(name)
        THEN x3 = Snapshot(WithManifest("MANIFEST_DECODED", name), ParsedEntry(name), "SUCCESS")
        ELSE Failed(x3)
    BY <1>6, <2>2, <2>4, ManifestDecoded
  <2> QED BY <1>1, <2>5
<1> QED BY <1>4, <1>5, <1>6

LEMMA MetadataVerified ==
    ASSUME NEW name \in DOMAIN Envelope
    PROVE  LET y == Verified(Decoded(name)) IN
           IF Permitted(name)
           THEN y = Snapshot(WithManifest("MANIFEST_AUTHORIZED", name), ParsedEntry(name), "SUCCESS")
           ELSE Failed(y)
<1> DEFINE x0 == Decoded(name)
           x1 == IF x0.ret = "SUCCESS" THEN suit_decoder_authenticate_manifest(x0) ELSE x0
           x2 == IF x1.ret = "SUCCESS" THEN suit_decoder_authorize_manifest(x1) ELSE x1
<1>1. Verified(Decoded(name)) = x2
  BY DEF Verified
<1>2. IF Intact(name)
      THEN x0 = Snapshot(WithManifest("MANIFEST_DECODED", name), ParsedEntry(name), "SUCCESS")
      ELSE Failed(x0)
  BY MetadataDecoded
<1>3. \A y : Failed(y) => y.ret # "SUCCESS"
  BY DEF Failed, DecoderResults
<1> HIDE DEF x0
<1>4. CASE ~Intact(name)
  <2>1. x2 = x0 /\ Failed(x0)
    BY <1>2, <1>3, <1>4
  <2> QED BY <1>1, <1>4, <2>1 DEF Permitted, Authentic
<1>5. CASE Intact(name)
  <2>1. x0.ret = "SUCCESS"
    BY <1>2, <1>5 DEF Snapshot
  <2>2. IF Authentic(name)
        THEN x1 = Snapshot(WithManifest("MANIFEST_AUTHENTICATED", name), ParsedEntry(name), "SUCCESS")
        ELSE Failed(x1)
    BY <1>2, <1>5, <2>1, ManifestAuthenticated
  <2> HIDE DEF x1
  <2>3. CASE ~Authentic(name)
    <3>1. x2 = x1 /\ Failed(x1)
      BY <1>3, <2>2, <2>3
    <3> QED BY <1>1, <2>3, <3>1 DEF Permitted
  <2>4. CASE Authentic(name)
    <3>1. x1.ret = "SUCCESS"
      BY <2>2, <2>4 DEF Snapshot
    <3>2. IF Permitted(name)
          THEN x2 = Snapshot(WithManifest("MANIFEST_AUTHORIZED", name), ParsedEntry(name), "SUCCESS")
          ELSE Failed(x2)
      BY <2>2, <2>4, <3>1, ManifestAuthorized
    <3> QED BY <1>1, <3>2
  <2> QED BY <2>3, <2>4
<1> QED BY <1>4, <1>5

\* Both at once, as far as its users go.
LEMMA MetadataRead ==
    ASSUME NEW name \in DOMAIN Envelope, NEW authenticate \in BOOLEAN
    PROVE  LET y == IF authenticate THEN Verified(Decoded(name)) ELSE Decoded(name) IN
           /\ StatusOK(y.entry)
           /\ [y.state EXCEPT !.step = "INVALID"].step = "INVALID"
           /\ y.ret = "SUCCESS" =>
                 /\ IF authenticate THEN Permitted(name) ELSE Intact(name)
                 /\ Intact(name)
                 /\ y.entry = ParsedEntry(name)
                 /\ y.state.digest = Envelope[name].digest
<1> DEFINE y == IF authenticate THEN Verified(Decoded(name)) ELSE Decoded(name)
           step == IF authenticate THEN "MANIFEST_AUTHORIZED" ELSE "MANIFEST_DECODED"
           passed == IF authenticate THEN Permitted(name) ELSE Intact(name)
<1>1. IF passed THEN y = Snapshot(WithManifest(step, name), ParsedEntry(name), "SUCCESS")
      ELSE Failed(y)
  BY MetadataDecoded, MetadataVerified
<1> HIDE DEF y, step
<1>2. passed => Intact(name)
  BY DEF Permitted, Authentic
<1>3. CASE passed
  <2>1. y.state = WithManifest(step, name) /\ y.entry = ParsedEntry(name)
    BY <1>1, <1>3 DEF Snapshot
  <2>2. y.state.digest = Envelope[name].digest
    BY <2>1 DEF WithManifest
  <2>3. [y.state EXCEPT !.step = "INVALID"].step = "INVALID"
    BY <2>1 DEF WithManifest
  <2>4. StatusOK(y.entry)
    BY <2>1, EntriesOK
  <2> QED BY <1>2, <1>3, <2>1, <2>2, <2>3, <2>4 DEF y
<1>4. CASE ~passed
  <2>1. y.state = InvalidState /\ StatusOK(y.entry) /\ y.ret # "SUCCESS"
    BY <1>1, <1>4 DEF Failed, DecoderResults
  <2>2. [y.state EXCEPT !.step = "INVALID"].step = "INVALID"
    BY <2>1 DEF InvalidState
  <2> QED BY <2>1, <2>2 DEF y
<1> QED BY <1>3, <1>4

MetadataOnly ==
    /\ UNCHANGED <<pc, envelope, ret>>
    /\ KeepsLoaded

LEMMA GetMetadataStep ==
    ASSUME DecoderInv, NEW name \in DOMAIN Envelope, NEW authenticate \in BOOLEAN,
           NEW want, NEW room, GetMetadata(name, authenticate, want, room)
    PROVE  DecoderInv' /\ MetadataOnly /\ MetadataIsTruthful'
<1> DEFINE x == IF authenticate THEN Verified(Decoded(name)) ELSE Decoded(name)
<1>1. /\ PlatformRuns /\ DecoderFree /\ manifest_stack_height < MaxManifests
      /\ answer' = IF Returned(x, want, room) = "SUCCESS" THEN Output(x, name, authenticate)
                   ELSE [ret |-> Returned(x, want, room)]
      /\ decoder_state' = [x.state EXCEPT !.step = "INVALID"]
      /\ manifest_stack' = [manifest_stack EXCEPT ![manifest_stack_height] = x.entry]
      /\ UNCHANGED <<manifest_stack_height, pc, envelope, ret>>
  BY DEF GetMetadata
<1>2. /\ StatusOK(x.entry)
      /\ [x.state EXCEPT !.step = "INVALID"].step = "INVALID"
      /\ x.ret = "SUCCESS" =>
            /\ IF authenticate THEN Permitted(name) ELSE Intact(name)
            /\ Intact(name)
            /\ x.entry = ParsedEntry(name)
            /\ x.state.digest = Envelope[name].digest
  BY MetadataRead
<1> HIDE DEF x
<1>3. pc \in {"idle", "sequence_num"}
  BY <1>1, FreeWhere DEF PlatformRuns
<1>4. decoder_state'.step = "INVALID"
  BY <1>1, <1>2
<1>5. StackOK'
  BY <1>1, <1>2 DEF DecoderInv, StackOK
<1>6. PhaseOK'
  BY <1>1, <1>4 DEF DecoderInv, PhaseOK, DecoderFree, Steps
<1>7. manifest_stack_height \in Entry
  BY <1>1, StackAssumption DEF DecoderInv, StackOK, Entry
<1>8. \A e \in Entry : e < manifest_stack_height => e # manifest_stack_height
  BY <1>7 DEF Entry
<1>9. \A e \in Entry : e # manifest_stack_height => manifest_stack'[e] = manifest_stack[e]
  BY <1>1, <1>7 DEF DecoderInv, StackOK
<1>10. pc = "sequence_num" => Top \in Entry /\ Top < manifest_stack_height /\ Top' = Top
  <2>1. pc = "sequence_num" => manifest_stack_height > 0
    BY DEF DecoderInv, Progress
  <2>2. manifest_stack_height > 0 => Top \in Entry /\ Top < manifest_stack_height
    BY <1>7, StackAssumption DEF Entry, Top
  <2>3. Top' = Top
    BY <1>1 DEF Top
  <2> QED BY <2>1, <2>2, <2>3
<1>11. Progress'
  <2>1. CASE pc = "idle"
    BY <1>1, <2>1 DEF Progress
  <2>2. CASE pc = "sequence_num"
    <3>1. manifest_stack'[Top'] = manifest_stack[Top]
      BY <1>8, <1>9, <1>10, <2>2
    <3>2. /\ Acceptable(envelope) /\ manifest_stack_height > 0
          /\ Given(manifest_stack[Top]) = Meaning(envelope)
      BY <2>2 DEF DecoderInv, Progress
    <3> QED BY <1>1, <1>4, <2>2, <3>1, <3>2 DEF Progress, DecoderFree
  <2> QED BY <1>3, <2>1, <2>2
<1>12. MetadataOnly
  <2>1. \A e \in Entry : e < Loaded => e < manifest_stack_height
    BY <1>7 DEF Loaded, Top, Entry
  <2>2. Loaded' = Loaded
    BY <1>1 DEF Loaded, Top
  <2> QED BY <1>1, <1>8, <1>9, <2>1, <2>2 DEF MetadataOnly, KeepsLoaded
<1>13. MetadataIsTruthful'
  <2>1. CASE Returned(x, want, room) = "SUCCESS"
    <3>1. x.ret = "SUCCESS"
      BY <2>1 DEF Returned
    <3>2. Envelope[name].digest = Envelope[name].manifest
      BY <1>2, <3>1 DEF Intact
    <3>3. /\ x.entry.component_id = Contents(name).component_id
          /\ x.entry.seq_num = Contents(name).seq_num
          /\ x.entry.version = Contents(name).version
          /\ x.state.digest = Envelope[name].manifest
      BY <1>2, <3>1, <3>2 DEF ParsedEntry
    <3>4. answer' = Output(x, name, authenticate)
      BY <1>1, <2>1
    <3>5. /\ answer'.of = name /\ answer'.authenticate = authenticate
          /\ answer'.component_id = x.entry.component_id
          /\ answer'.seq_num = x.entry.seq_num
          /\ answer'.version = x.entry.version
          /\ answer'.digest = x.state.digest
      BY <3>4 DEF Output
    <3> QED BY <1>2, <3>1, <3>3, <3>5 DEF MetadataIsTruthful
  <2>2. CASE Returned(x, want, room) # "SUCCESS"
    <3>1. answer'.ret # "SUCCESS"
      BY <1>1, <2>2
    <3> QED BY <3>1 DEF MetadataIsTruthful
  <2> QED BY <2>1, <2>2
<1> QED BY <1>5, <1>6, <1>11, <1>12, <1>13 DEF DecoderInv

-----------------------------------------------------------------------------
(***************************************************************************)
(* All steps together.                                                     *)
(***************************************************************************)
LEMMA NothingChanged ==
    ASSUME DecoderInv, UNCHANGED <<decoder_state, manifest_stack, manifest_stack_height, pc, envelope>>,
           pc = "idle" \/ UNCHANGED ret
    PROVE  DecoderInv' /\ KeepsLoaded
<1>1. StackOK'
  BY DEF DecoderInv, StackOK
<1>2. PhaseOK'
  BY DEF DecoderInv, PhaseOK, DecoderFree
<1>3. Progress'
  <2>1. CASE pc = "idle"
    BY <2>1 DEF Progress
  <2>2. CASE UNCHANGED ret
    BY <2>2 DEF DecoderInv, Progress, Above, Top, DecoderFree
  <2> QED BY <2>1, <2>2
<1>4. KeepsLoaded
  BY DEF KeepsLoaded, Loaded, Top
<1> QED BY <1>1, <1>2, <1>3, <1>4 DEF DecoderInv

Overflows ==
    /\ pc = "idle" /\ envelope = None /\ envelope' = None /\ ret' = "ERR_OVERFLOW"
    /\ Loaded = MaxManifests
    /\ KeepsLoaded

StepKind ==
    \/ Requests \/ GoesOn \/ Invalidates \/ StartsLast \/ Refuses \/ Accepts \/ Releases
    \/ Overflows \/ MetadataOnly

LEMMA StepInv == DecoderInv /\ [Next]_vars => DecoderInv' /\ StepKind
<1> SUFFICES ASSUME DecoderInv, [Next]_vars PROVE DecoderInv' /\ StepKind
  OBVIOUS
<1>1. ASSUME NEW name \in DOMAIN Envelope, LoadEnvelope(name) PROVE DecoderInv' /\ Requests
  BY <1>1, LoadEnvelopeStep
<1>2. CASE LoadRefused
  <2>1. /\ pc = "idle" /\ manifest_stack_height = MaxManifests /\ ret' = "ERR_OVERFLOW"
        /\ UNCHANGED <<decoder_state, manifest_stack, manifest_stack_height, pc, envelope>>
    BY <1>2 DEF LoadRefused
  <2>2. DecoderInv' /\ KeepsLoaded
    BY <2>1, NothingChanged
  <2> QED BY <2>1, <2>2 DEF StepKind, Overflows, DecoderInv, PhaseOK, Loaded
<1>3. CASE Load
  <2>1. ASSUME NEW r \in CreateResults, CreateComponents(r)
        PROVE  DecoderInv' /\ (StartsLast \/ Refuses)
    BY <2>1, CreateComponentsStep
  <2>2. ASSUME NEW r \in SequenceNumResults, NEW released \in ReleaseResults,
               AuthorizeSequenceNum(r, released)
        PROVE  DecoderInv' /\ (Accepts \/ Refuses)
    BY <2>2, AuthorizeSequenceNumStep
  <2> QED BY <1>3, <2>1, <2>2, DecodeEnvelopeStep, CheckDigestStep, DecodeManifestStep,
             AuthenticateStep, AuthorizeStep, DecodeSequencesStep DEF Load, StepKind
<1>4. ASSUME NEW r \in ReleaseResults, ReleaseManifest(r) PROVE DecoderInv' /\ Releases
  BY <1>4, ReleaseManifestStep
<1>5. CASE Metadata
  <2>1. CASE MetadataBusy \/ MetadataOverflow
    <3>1. UNCHANGED <<decoder_state, manifest_stack, manifest_stack_height, pc, envelope, ret>>
      BY <2>1 DEF MetadataBusy, MetadataOverflow
    <3> QED BY <3>1, NothingChanged DEF StepKind, MetadataOnly
  <2>2. ASSUME NEW name \in Asked, NEW authenticate \in BOOLEAN, NEW want \in Wanted,
               NEW room \in Rooms, GetMetadata(name, authenticate, want, room)
        PROVE  DecoderInv' /\ MetadataOnly
    BY <2>2, AskedAssumption, GetMetadataStep
  <2> QED BY <1>5, <2>1, <2>2 DEF Metadata, StepKind
<1>6. CASE UNCHANGED vars
  <2>1. UNCHANGED <<decoder_state, manifest_stack, manifest_stack_height, pc, envelope, ret>>
    BY <1>6 DEF vars
  <2> QED BY <2>1, NothingChanged DEF StepKind, MetadataOnly
<1> QED BY <1>1, <1>2, <1>3, <1>4, <1>5, <1>6 DEF Next, StepKind

LEMMA AlwaysInv == Spec => []DecoderInv
<1>1. DecoderInv /\ [Next]_vars => DecoderInv'
  BY StepInv
<1> QED BY <1>1, InitInv, PTL DEF Spec

(***************************************************************************)
(* The type invariant.                                                     *)
(***************************************************************************)
THEOREM TypeCorrect == Spec => []TypeOK
<1>1. DecoderInv => TypeOK
  BY DEF DecoderInv, StackOK, PhaseOK, StatusOK, TypeOK, Phases
<1> QED BY <1>1, AlwaysInv, PTL

(***************************************************************************)
(* Components are created for an envelope only after it has passed every   *)
(* check: digest, signatures, authorization and the digests of what was    *)
(* severed, for all envelopes.                                             *)
(***************************************************************************)
THEOREM CreatesAcceptableOnly == Spec => []CreatedOnlyIfAcceptable
<1>1. DecoderInv => CreatedOnlyIfAcceptable
  BY DEF DecoderInv, Progress, CreatedOnlyIfAcceptable
<1> QED BY <1>1, AlwaysInv, PTL

(***************************************************************************)
(* Between two loads the decoder is free, however the last one ended.      *)
(***************************************************************************)
THEOREM DecoderIsFreed == Spec => []FreeWhenIdle
<1>1. DecoderInv => FreeWhenIdle
  BY DEF DecoderInv, PhaseOK, FreeWhenIdle
<1> QED BY <1>1, AlwaysInv, PTL

(***************************************************************************)
(* Metadata given out is that of an intact manifest, of a permitted one if *)
(* asked so, in the middle of a load or not.                               *)
(***************************************************************************)
THEOREM MetadataTrue == Spec => []MetadataIsTruthful
<1>1. Init => MetadataIsTruthful
  BY DEF Init, NoAnswer, MetadataIsTruthful
<1>2. DecoderInv /\ MetadataIsTruthful /\ [Next]_vars => MetadataIsTruthful'
  <2> SUFFICES ASSUME DecoderInv, MetadataIsTruthful, [Next]_vars PROVE MetadataIsTruthful'
    OBVIOUS
  <2>1. ASSUME answer'.ret # "SUCCESS" PROVE MetadataIsTruthful'
    BY <2>1 DEF MetadataIsTruthful
  <2>2. NoAnswer.ret # "SUCCESS"
    BY DEF NoAnswer
  <2>3. CASE LoadRefused \/ \E name \in DOMAIN Envelope : LoadEnvelope(name)
    BY <2>1, <2>2, <2>3 DEF LoadRefused, LoadEnvelope
  <2>4. CASE Load
    <3>1. answer' = NoAnswer
      BY <2>4 DEF Load, DecodeEnvelope, CheckDigest, DecodeManifest, Authenticate, Authorize,
                  DecodeSequences, CreateComponents, AuthorizeSequenceNum, Continue
    <3> QED BY <2>1, <2>2, <3>1
  <2>5. CASE \E r \in ReleaseResults : ReleaseManifest(r)
    BY <2>1, <2>2, <2>5 DEF ReleaseManifest
  <2>6. CASE Metadata
    <3>1. CASE MetadataBusy \/ MetadataOverflow
      <4>1. answer'.ret # "SUCCESS"
        BY <3>1 DEF MetadataBusy, MetadataOverflow
      <4> QED BY <2>1, <4>1
    <3>2. ASSUME NEW name \in Asked, NEW authenticate \in BOOLEAN, NEW want \in Wanted,
                 NEW room \in Rooms, GetMetadata(name, authenticate, want, room)
          PROVE  MetadataIsTruthful'
      BY <3>2, AskedAssumption, GetMetadataStep
    <3> QED BY <2>6, <3>1, <3>2 DEF Metadata
  <2>7. CASE UNCHANGED vars
    BY <2>7 DEF vars, MetadataIsTruthful
  <2> QED BY <2>3, <2>4, <2>5, <2>6, <2>7 DEF Next
<1> QED BY <1>1, <1>2, AlwaysInv, PTL DEF Spec

-----------------------------------------------------------------------------
(***************************************************************************)
(* The refinement.  Two facts about sequences first: one element more, and *)
(* one element less.                                                       *)
(***************************************************************************)
LEMMA OneMore ==
    ASSUME NEW S, NEW n \in Nat, NEW s \in [1 .. n -> S], NEW t \in [1 .. n + 1 -> S],
           \A i \in 1 .. n : t[i] = s[i]
    PROVE  Len(s) = n /\ t = Append(s, t[n + 1])
<1>1. s \in Seq(S) /\ t \in Seq(S) /\ Len(s) = n /\ Len(t) = n + 1
  BY SeqDef
<1>2. t[n + 1] \in S
  OBVIOUS
<1> DEFINE u == Append(s, t[n + 1])
<1>3. u \in Seq(S) /\ Len(u) = n + 1
      /\ \A i \in 1 .. n : u[i] = s[i] /\ u[n + 1] = t[n + 1]
  BY <1>1, <1>2
<1>4. u[n + 1] = t[n + 1]
  BY <1>1, <1>2
<1> HIDE DEF u
<1>5. \A i \in 1 .. Len(t) : t[i] = u[i]
  BY <1>1, <1>3, <1>4
<1>6. t = u
  BY <1>1, <1>3, <1>5, SeqEqual
<1> QED BY <1>1, <1>6 DEF u

LEMMA OneLess ==
    ASSUME NEW S, NEW n \in Nat, NEW s \in [1 .. n + 1 -> S], NEW t \in [1 .. n -> S],
           \A i \in 1 .. n : t[i] = s[i]
    PROVE  s # <<>> /\ t = SubSeq(s, 1, Len(s) - 1)
<1>1. s \in Seq(S) /\ t \in Seq(S) /\ Len(s) = n + 1 /\ Len(t) = n
  BY SeqDef
<1> DEFINE u == SubSeq(s, 1, n)
<1>2. u \in Seq(S) /\ Len(u) = n /\ \A i \in 1 .. n : u[i] = s[i]
  BY <1>1
<1> HIDE DEF u
<1>3. \A i \in 1 .. Len(t) : t[i] = u[i]
  BY <1>1, <1>2
<1>4. t = u
  BY <1>1, <1>2, <1>3, SeqEqual
<1> QED BY <1>1, <1>4 DEF u

(***************************************************************************)
(* The stack of meanings that the loaded manifests stand for.              *)
(***************************************************************************)
Meanings == [i \in 1 .. Loaded |-> Given(manifest_stack[i - 1])]

LEMMA SameAcceptance ==
    /\ \A name : Acceptance!Acceptable(name) <=> Acceptable(name)
    /\ \A name : Acceptance!Meaning(name) = Meaning(name)
    /\ Acceptance!None = None
<1>1. \A name : Acceptance!Acceptable(name) <=> Acceptable(name)
  BY DEF Acceptance!Acceptable, Acceptance!Permitted, Acceptance!Authentic, Acceptance!Intact,
         Acceptance!WellFormed, Acceptance!Contents, Acceptance!Consistent, Acceptance!Carried,
         Acceptance!Severable, Acceptance!Sequence, Acceptance!Unseverable, Acceptance!Extensions,
         Acceptance!Absent, Acceptance!Empty, Acceptance!Malformed,
         Acceptable, Permitted, Authentic, Intact, WellFormed, Contents, Consistent, Carried,
         Severable, Sequence, Unseverable, Extensions, Absent, Empty, Malformed
<1>2. \A name : Acceptance!Meaning(name) = Meaning(name)
  BY DEF Acceptance!Meaning, Acceptance!UnseverableMeaning, Acceptance!SeverableMeaning,
         Acceptance!Available, Acceptance!Unavailable, Acceptance!Unauthorized,
         Acceptance!Contents, Acceptance!Carried, Acceptance!Sequence, Acceptance!Unseverable,
         Acceptance!Extensions, Acceptance!Absent, Acceptance!NoBytes,
         Meaning, UnseverableMeaning, SeverableMeaning, Available, Unavailable, Unauthorized,
         Contents, Carried, Sequence, Unseverable, Extensions, Absent, NoBytes
<1> QED BY <1>1, <1>2 DEF Acceptance!None, None

LEMMA LoadedRange ==
    ASSUME DecoderInv
    PROVE  Loaded \in 0 .. MaxManifests
<1>1. pc = "sequence_num" => manifest_stack_height > 0
  BY DEF DecoderInv, Progress
<1> QED BY <1>1, StackAssumption DEF DecoderInv, StackOK, Loaded, Top

LEMMA MeaningsKept ==
    ASSUME DecoderInv, KeepsLoaded
    PROVE  Meanings' = Meanings
<1>1. Loaded' = Loaded /\ \A e \in Entry : e < Loaded => manifest_stack'[e] = manifest_stack[e]
  BY DEF KeepsLoaded
<1>2. \A i \in 1 .. Loaded : i - 1 \in Entry /\ i - 1 < Loaded
  BY LoadedRange, StackAssumption DEF Entry
<1>3. \A i \in 1 .. Loaded : Given(manifest_stack'[i - 1]) = Given(manifest_stack[i - 1])
  BY <1>1, <1>2
<1> QED BY <1>1, <1>3 DEF Meanings

LEMMA BelowLoaded ==
    ASSUME DecoderInv, BelowUnchanged, pc # "sequence_num", pc' # "sequence_num"
    PROVE  KeepsLoaded
BY DEF BelowUnchanged, KeepsLoaded, Loaded

LEMMA ResultNames ==
    /\ {"SUCCESS", "none"} \cap (LateResults \cup DecoderResults) = {}
    /\ LateResults \cap DecoderResults = {}
<1>1. "SUCCESS" \notin LateResults /\ "SUCCESS" \notin DecoderResults
  BY DEF LateResults, DecoderResults
<1>2. "none" \notin LateResults /\ "none" \notin DecoderResults
  BY ResultsAssumption DEF DecoderResults
<1> QED BY <1>1, <1>2, ResultsAssumption

LEMMA AcceptRefines ==
    ASSUME DecoderInv, Accepts
    PROVE  Len(Meanings) < MaxManifests /\ Meanings' = Append(Meanings, Meaning(envelope))
<1> DEFINE S == {Given(manifest_stack[e]) : e \in Entry}
<1>1. /\ Loaded \in Entry /\ Loaded' = Loaded + 1 /\ UNCHANGED manifest_stack
      /\ Given(manifest_stack[Loaded]) = Meaning(envelope)
  BY DEF Accepts
<1>2. Loaded \in Nat /\ Loaded < MaxManifests
  BY <1>1, StackAssumption DEF Entry
<1>3. \A i \in 1 .. Loaded + 1 : i - 1 \in Entry
  BY <1>2, StackAssumption DEF Entry
<1>4. Meanings \in [1 .. Loaded -> S]
  BY <1>2, <1>3 DEF Meanings
<1>5. Meanings' = [i \in 1 .. Loaded + 1 |-> Given(manifest_stack[i - 1])]
  BY <1>1 DEF Meanings
<1>6. Meanings' \in [1 .. Loaded + 1 -> S]
  BY <1>3, <1>5
<1>7. \A i \in 1 .. Loaded : Meanings'[i] = Meanings[i]
  <2> TAKE i \in 1 .. Loaded
  <2>1. i \in 1 .. Loaded + 1
    BY <1>2
  <2>2. Meanings'[i] = Given(manifest_stack[i - 1])
    BY <1>5, <2>1
  <2>3. Meanings[i] = Given(manifest_stack[i - 1])
    BY DEF Meanings
  <2> QED BY <2>2, <2>3
<1>8. Meanings'[Loaded + 1] = Meaning(envelope)
  BY <1>1, <1>2, <1>5
<1> HIDE DEF S
<1>9. Len(Meanings) = Loaded /\ Meanings' = Append(Meanings, Meanings'[Loaded + 1])
  BY <1>2, <1>4, <1>6, <1>7, OneMore
<1> QED BY <1>2, <1>8, <1>9

LEMMA ReleaseRefines ==
    ASSUME DecoderInv, Releases
    PROVE  Meanings # <<>> /\ Meanings' = SubSeq(Meanings, 1, Len(Meanings) - 1)
<1> DEFINE S == {Given(manifest_stack[e]) : e \in Entry}
           n == Loaded - 1
<1>1. /\ Loaded \in 1 .. MaxManifests /\ Loaded' = n
      /\ \A e \in Entry : e < Loaded' => manifest_stack'[e] = manifest_stack[e]
  BY DEF Releases
<1>2. n \in Nat /\ Loaded = n + 1
  BY <1>1, StackAssumption
<1>3. \A i \in 1 .. n + 1 : i - 1 \in Entry
  BY <1>1, <1>2, StackAssumption DEF Entry
<1>4. \A i \in 1 .. n : manifest_stack'[i - 1] = manifest_stack[i - 1]
  <2> TAKE i \in 1 .. n
  <2>1. i - 1 \in Entry /\ i - 1 < n
    BY <1>2, <1>3
  <2> QED BY <1>1, <2>1
<1>5. Meanings = [i \in 1 .. n + 1 |-> Given(manifest_stack[i - 1])]
  BY <1>2 DEF Meanings
<1>6. Meanings' = [i \in 1 .. n |-> Given(manifest_stack[i - 1])]
  BY <1>1, <1>4 DEF Meanings
<1> HIDE DEF n
<1>7. Meanings \in [1 .. n + 1 -> S]
  BY <1>3, <1>5
<1>8. Meanings' \in [1 .. n -> S]
  BY <1>2, <1>3, <1>6
<1>9. \A i \in 1 .. n : Meanings'[i] = Meanings[i]
  BY <1>2, <1>5, <1>6
<1> HIDE DEF S
<1> QED BY <1>2, <1>7, <1>8, <1>9, OneLess

LEMMA StepRefines ==
    DecoderInv /\ [Next]_vars => [Acceptance!Next]_(Acceptance!vars)
<1> SUFFICES ASSUME DecoderInv, [Next]_vars PROVE [Acceptance!Next]_(Acceptance!vars)
  OBVIOUS
<1>1. StepKind
  BY StepInv
<1>2. \A name \in DOMAIN Envelope : name # None
  BY NamesAssumption
<1>3. pc # "idle" => envelope \in DOMAIN Envelope
  BY DEF DecoderInv, PhaseOK
<1>4. KeepsLoaded => Meanings' = Meanings
  BY MeaningsKept
<1>5. ret' = ret => AbstractResult' = AbstractResult
  BY DEF AbstractResult
<1>6. /\ ret' = "none" => AbstractResult' = "none"
      /\ ret' = "SUCCESS" => AbstractResult' = "accepted"
      /\ ret' \in LateResults => AbstractResult' = "refused"
      /\ ret' \in DecoderResults => AbstractResult' = "invalid"
  BY ResultNames DEF AbstractResult
<1>7. \A name : Acceptance!Acceptable(name) <=> Acceptable(name)
  BY SameAcceptance
<1>8. CASE Requests
  <2>1. Acceptance!Request(envelope')
    BY <1>4, <1>6, <1>8, SameAcceptance DEF Requests, Acceptance!Request, Meanings, None
  <2> QED BY <1>8, <2>1 DEF Requests, Acceptance!Next
<1>9. CASE GoesOn \/ StartsLast \/ MetadataOnly
  <2>1. KeepsLoaded /\ envelope' = envelope /\ ret' = ret
    BY <1>9, BelowLoaded DEF GoesOn, StartsLast, MetadataOnly
  <2> QED BY <1>4, <1>5, <2>1 DEF Acceptance!vars, Meanings
<1>10. CASE Invalidates
  <2>1. KeepsLoaded
    BY <1>10, BelowLoaded DEF Invalidates
  <2>2. Acceptance!Invalidate
    BY <1>2, <1>3, <1>4, <1>6, <1>7, <1>10, <2>1, SameAcceptance
       DEF Invalidates, Acceptance!Invalidate, Meanings
  <2> QED BY <2>2 DEF Acceptance!Next
<1>11. CASE Refuses
  <2>1. Acceptance!Refuse
    BY <1>2, <1>4, <1>6, <1>7, <1>11, SameAcceptance DEF Refuses, Acceptance!Refuse, Meanings
  <2> QED BY <2>1 DEF Acceptance!Next
<1>12. CASE Accepts
  <2>1. Len(Meanings) < MaxManifests /\ Meanings' = Append(Meanings, Meaning(envelope))
    BY <1>12, AcceptRefines
  <2>2. Acceptance!Accept
    BY <1>2, <1>6, <1>7, <1>12, <2>1, SameAcceptance DEF Accepts, Acceptance!Accept, Meanings
  <2> QED BY <2>2 DEF Acceptance!Next
<1>13. CASE Releases
  <2>1. Meanings # <<>> /\ Meanings' = SubSeq(Meanings, 1, Len(Meanings) - 1)
    BY <1>13, ReleaseRefines
  <2>2. Acceptance!Release
    BY <1>5, <1>13, <2>1, SameAcceptance DEF Releases, Acceptance!Release, Meanings
  <2> QED BY <2>2 DEF Acceptance!Next
<1>14. CASE Overflows
  <2>1. Len(Meanings) = MaxManifests
    BY <1>14, StackAssumption DEF Overflows, Meanings
  <2>2. "ERR_OVERFLOW" \in LateResults
    BY DEF LateResults
  <2>3. Acceptance!Refuse
    BY <1>4, <1>6, <1>14, <2>1, <2>2, SameAcceptance DEF Overflows, Acceptance!Refuse, Meanings
  <2> QED BY <2>3 DEF Acceptance!Next
<1> QED BY <1>1, <1>8, <1>9, <1>10, <1>11, <1>12, <1>13, <1>14 DEF StepKind

(***************************************************************************)
(* Loading implements EnvelopeAcceptance, for all envelopes, every size of *)
(* the manifest stack and all results of the platform: only acceptable     *)
(* envelopes get onto the stack, none is called invalid that is not, and   *)
(* what the stack gives out is what the envelopes say.                     *)
(***************************************************************************)
THEOREM DecoderRefines == Spec => ImplementsAcceptance
<1>1. Init => Acceptance!Init
  <2> SUFFICES ASSUME Init PROVE Acceptance!Init
    OBVIOUS
  <2>1. Loaded = 0 /\ envelope = None /\ ret = "none"
    BY DEF Init, Loaded
  <2>2. Meanings = <<>>
    BY <2>1 DEF Meanings
  <2>3. AbstractResult = "none"
    BY <2>1, ResultNames DEF AbstractResult
  <2> QED BY <2>1, <2>2, <2>3, SameAcceptance DEF Acceptance!Init, Meanings, None
<1>2. DecoderInv /\ [Next]_vars => [Acceptance!Next]_(Acceptance!vars)
  BY StepRefines
<1> QED BY <1>1, <1>2, AlwaysInv, PTL DEF Spec, ImplementsAcceptance, Acceptance!Spec
=============================================================================
