-------------------------- MODULE EnvelopeAcceptance --------------------------
(***************************************************************************)
(* What loading an envelope promises: the manifest stack holds the meaning *)
(* of acceptable envelopes only, an envelope is called invalid only when   *)
(* it is not acceptable, and nothing but a load or a release changes the   *)
(* stack.  How an envelope is decoded, in which order it is checked and    *)
(* what else happens meanwhile is left to EnvelopeDecoder.                 *)
(***************************************************************************)
EXTENDS EnvelopeData

VARIABLES
    stack,      \* the meanings of the manifests loaded, the latest last
    pending,    \* the envelope being loaded
    result      \* of the last load

vars == <<stack, pending, result>>

Init == stack = <<>> /\ pending = None /\ result = None

Request(name) ==
    /\ pending = None
    /\ pending' = name
    /\ result' = None
    /\ UNCHANGED stack

Accept ==
    /\ pending # None
    /\ Acceptable(pending)
    /\ Len(stack) < MaxManifests
    /\ stack' = Append(stack, Meaning(pending))
    /\ pending' = None
    /\ result' = "accepted"

Invalidate ==
    /\ pending # None
    /\ ~Acceptable(pending)
    /\ pending' = None
    /\ result' = "invalid"
    /\ UNCHANGED stack

\* No room on the stack, or the platform does not want an acceptable manifest.
Refuse ==
    /\ \/ pending = None /\ Len(stack) = MaxManifests
       \/ pending # None /\ Acceptable(pending)
    /\ pending' = None
    /\ result' = "refused"
    /\ UNCHANGED stack

Release ==
    /\ pending = None
    /\ stack # <<>>
    /\ stack' = SubSeq(stack, 1, Len(stack) - 1)
    /\ UNCHANGED <<pending, result>>

Next ==
    \/ \E name \in DOMAIN Envelope : Request(name)
    \/ Accept
    \/ Invalidate
    \/ Refuse
    \/ Release

Spec == Init /\ [][Next]_vars
=============================================================================
