----------------------------- MODULE EnvelopeData -----------------------------
(***************************************************************************)
(* The envelopes and manifests a decoder may be given, as far as deciding  *)
(* about them goes, and what it means to accept one.                       *)
(*                                                                         *)
(* Contents are names, and a digest is the name of the content it was made *)
(* of: the hash has no collisions.  A signature is the digest it signs     *)
(* with a trusted key.                                                     *)
(***************************************************************************)
EXTENDS Naturals, Sequences

CONSTANTS
    Envelope,           \* the envelopes there are, by name
    Manifest,           \* the manifests they carry, by name
    MaxManifests,       \* SUIT_MANIFEST_STACK_MAX_ENTRIES
    Unsigned,           \* the manifest components that may come without signature
    Authorized          \* the pairs <<manifest component, component>> allowed

ASSUME StackAssumption == MaxManifests \in Nat \ {0}

NoBytes   == "no bytes"     \* an empty zcbor_string
Malformed == "malformed"    \* bytes that do not decode to what they should be

None      == "none"         \* no envelope

ASSUME NamesAssumption ==
    /\ {NoBytes, Malformed} \cap DOMAIN Manifest = {}
    /\ None \notin DOMAIN Envelope

(***************************************************************************)
(* The members of a manifest that are sequences, and the text.  Those that *)
(* are severable are either in the manifest or, named by a digest, in the  *)
(* envelope; members[n] is what the envelope carries.                      *)
(***************************************************************************)
Unseverable == {"shared", "validate", "load", "invoke"}
Extensions  == {"dependency_resolution", "candidate_verification"}
Sequence    == Unseverable \cup {"payload_fetch", "install"} \cup Extensions
Severable   == (Sequence \ Unseverable) \cup {"text"}
Member      == Sequence \cup {"text"}

Absent == "absent"      \* a member that is not there
Empty  == "empty"       \* a member that is there with no bytes in it

\* What the parser and the CDDL make sure of: the text is never integrated.
ASSUME DataAssumption ==
    /\ \A name \in DOMAIN Envelope :
          /\ Envelope[name].manifest \in DOMAIN Manifest
          /\ \A n \in Severable : Envelope[name].members[n] # Malformed
    /\ \A name \in DOMAIN Manifest, n \in Severable :
          /\ Manifest[name].choice[n].kind \in {"content", "digest", "absent"}
          /\ n = "text" => Manifest[name].choice[n].kind # "content"

Carried(name, n) == Envelope[name].members[n] # Absent

-----------------------------------------------------------------------------
(***************************************************************************)
(* When the manifest of an envelope is to be accepted.                     *)
(***************************************************************************)
Contents(name) == Manifest[Envelope[name].manifest]

WellFormed(name) ==
    /\ Envelope[name].decodes
    /\ \A n \in Severable : Envelope[name].members[n] # Empty

\* The digest that the signatures sign is the one of the manifest carried.
Intact(name) ==
    /\ WellFormed(name)
    /\ Envelope[name].digest = Envelope[name].manifest
    /\ Contents(name).decodes
    /\ Contents(name).component_id # Malformed

Authentic(name) ==
    LET signatures == Envelope[name].signatures IN
    /\ Intact(name)
    /\ signatures = <<>> => Contents(name).component_id \in Unsigned
    /\ \A i \in DOMAIN signatures : signatures[i] = Envelope[name].digest

Permitted(name) ==
    LET m == Contents(name) IN
    /\ Authentic(name)
    /\ m.components # <<>>
    /\ \A i \in DOMAIN m.components : <<m.component_id, m.components[i]>> \in Authorized
    /\ \A d \in m.dependencies : d < Len(m.components)

\* A severable member is in one place only, and outside of the manifest it is
\* what the manifest has the digest of.  A text needs a digest.
Consistent(name, n) ==
    LET m == Contents(name).choice[n] IN
    /\ m.kind = "content" => ~Carried(name, n)
    /\ m.kind = "digest"  => ~Carried(name, n) \/ Envelope[name].members[n] = m.of
    /\ m.kind = "absent" /\ n = "text" => ~Carried(name, n)

Acceptable(name) ==
    /\ Permitted(name)
    /\ Contents(name).seqs["shared"] # Absent
    /\ \A n \in Severable : Consistent(name, n)

(***************************************************************************)
(* What an accepted envelope gives for each sequence that is asked for.    *)
(***************************************************************************)
Available(bytes) == [ret |-> "SUCCESS", bytes |-> bytes]
Unavailable      == [ret |-> "ERR_UNAVAILABLE_COMMAND_SEQ", bytes |-> NoBytes]
Unauthorized     == [ret |-> "ERR_UNAUTHORIZED_COMMAND_SEQ", bytes |-> NoBytes]

SeverableMeaning(name, n) ==
    LET m == Contents(name).choice[n] IN
    CASE m.kind = "content"                       -> Available(m.of)
      [] m.kind = "digest" /\ Carried(name, n)    -> Available(m.of)
      [] m.kind = "digest" /\ ~Carried(name, n)   -> Unauthorized
      \* A sequence without a digest is never executed; the two extensions are
      \* told apart from a sequence that does not exist.
      [] m.kind = "absent"                        ->
            IF n \in Extensions /\ Carried(name, n) THEN Unauthorized ELSE Unavailable

UnseverableMeaning(name, n) ==
    IF Contents(name).seqs[n] = Absent THEN Unavailable ELSE Available(Contents(name).seqs[n])

Meaning(name) ==
    [component_id |-> Contents(name).component_id,
     seq_num      |-> Contents(name).seq_num,
     version      |-> Contents(name).version,
     payloads     |-> Envelope[name].payloads,
     seqs         |-> [n \in Sequence |-> IF n \in Unseverable THEN UnseverableMeaning(name, n)
                                          ELSE SeverableMeaning(name, n)]]
=============================================================================
