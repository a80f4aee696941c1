----------------------------- MODULE VersionMatch -----------------------------
(***************************************************************************)
(* The version condition (suit_condition_version of suit_condition.c): the *)
(* version the platform reports for a component is compared with the one   *)
(* that a parameter of the manifest requires.                              *)
(*                                                                         *)
(* A version is a list of at most five integers: major, minor and patch    *)
(* number, and for a pre-release its kind (alpha -3, beta -2, release      *)
(* candidate -1) and its number, which may be missing.                     *)
(***************************************************************************)
EXTENDS Integers, Sequences, FiniteSetsExt

CONSTANTS
    Version,            \* the versions components have and manifests ask for
    PlatResults         \* what suit_plat_component_version_get returns

ASSUME VersionAssumption == Version \subseteq Seq(Int)

\* A failed condition is the condition's own answer; the platform's errors have
\* other names here.
ASSUME PlatformAssumption == "FAIL_CONDITION" \notin PlatResults

MaxLength == 5      \* the size of suit_semver.value

Comparison == {"greater", "greater_equal", "equal", "lesser_equal", "lesser"}

\* A parameter that was not overridden, and one that does not decode.
NotSet    == [type |-> "not set", value |-> <<>>]
Malformed == [type |-> "malformed", value |-> <<>>]

Parameter == {Malformed} \cup [type : Comparison, value : Version]

VARIABLES
    installed,          \* the version of the component
    version,            \* its version parameter
    dry_run,
    result              \* what the condition last returned, for these three

vars == <<installed, version, dry_run, result>>

Init ==
    /\ installed \in {v \in Version : Len(v) <= MaxLength}
    /\ version = NotSet
    /\ dry_run \in BOOLEAN
    /\ result = "none"

-----------------------------------------------------------------------------
\* Faulty variant: a pre-release keeps its length.
Unpadded(v) == v

\* A pre-release without a number is the one with number 0.
Padded(v) == IF Len(v) = 4 THEN Append(v, 0) ELSE v

\* Faulty variant: the last integer both versions have is left out.
DifferenceBeforeLast(a, b) ==
    {i \in 1 .. Min({Len(a), Len(b)}) - 1 : a[i] # b[i]}

\* Where two versions differ, as far as both go.
Difference(a, b) == {i \in 1 .. Min({Len(a), Len(b)}) : a[i] # b[i]}

\* A pre-release comes before the releases it has the numbers of; releases of
\* different lengths are equal.
compare_releases(a, b) ==
    IF Len(b) < 4 /\ Len(a) >= 4 THEN -1
    ELSE IF Len(a) < 4 /\ Len(b) >= 4 THEN 1 ELSE 0

\* Faulty variant: versions are not told apart by which one is greater.
compare_unsigned(version_a, version_b) ==
    LET a == Padded(version_a)
        b == Padded(version_b)
    IN IF Difference(a, b) = {} THEN compare_releases(a, b) ELSE 1

compare_versions(version_a, version_b) ==
    LET a == Padded(version_a)
        b == Padded(version_b)
        i == Min(Difference(a, b))
    IN IF Difference(a, b) = {} THEN compare_releases(a, b)
       ELSE IF a[i] > b[i] THEN 1 ELSE -1

Holds(comparison, cmp) ==
    CASE comparison = "greater"       -> cmp > 0
      [] comparison = "greater_equal" -> cmp >= 0
      [] comparison = "equal"         -> cmp = 0
      [] comparison = "lesser_equal"  -> cmp <= 0
      [] comparison = "lesser"        -> cmp < 0

parse_version_check(parameter) ==
    IF parameter = Malformed THEN "ERR_DECODING"
    ELSE IF Len(parameter.value) > MaxLength THEN "ERR_DECODING" ELSE "SUCCESS"

\* r is the result of suit_plat_component_version_get, which a dry run does not call.
suit_condition_version(parameter, dry, v, r) ==
    CASE parameter = NotSet -> "ERR_UNAVAILABLE_PARAMETER"
      [] parameter # NotSet /\ parse_version_check(parameter) # "SUCCESS" ->
            parse_version_check(parameter)
      [] OTHER ->
            IF dry THEN "SUCCESS"
            ELSE IF r # "SUCCESS" THEN r
            ELSE IF Holds(parameter.type, compare_versions(v, parameter.value)) THEN "SUCCESS"
            ELSE "FAIL_CONDITION"

-----------------------------------------------------------------------------
\* suit_directive_override_parameters with suit-parameter-version.
Override(parameter) ==
    /\ version' = parameter
    /\ result' = "none"
    /\ UNCHANGED <<installed, dry_run>>

CheckVersion(r) ==
    /\ result' = suit_condition_version(version, dry_run, installed, r)
    /\ UNCHANGED <<installed, version, dry_run>>

Next ==
    \/ \E parameter \in Parameter : Override(parameter)
    \/ \E r \in PlatResults : CheckVersion(r)

Spec == Init /\ [][Next]_vars

-----------------------------------------------------------------------------
(***************************************************************************)
(* Reference: the precedence of semantic versions.                         *)
(***************************************************************************)
\* Three numbers, or a pre-release of them.
Complete(v) ==
    /\ Len(v) \in 3 .. MaxLength
    /\ \A i \in 1 .. 3 : v[i] >= 0
    /\ Len(v) > 3 => v[4] < 0
    /\ Len(v) > 4 => v[5] >= 0

\* A release is what all its pre-releases come before: its kind is 0.
Key(v) == [i \in 1 .. MaxLength |-> IF i <= Len(v) THEN v[i] ELSE 0]

Precedes(a, b) ==
    \E i \in 1 .. MaxLength :
        /\ Key(a)[i] < Key(b)[i]
        /\ \A j \in 1 .. i - 1 : Key(a)[j] = Key(b)[j]

Related(comparison, a, b) ==
    \/ comparison \in {"greater", "greater_equal"} /\ Precedes(b, a)
    \/ comparison \in {"lesser", "lesser_equal"} /\ Precedes(a, b)
    \/ comparison \in {"equal", "greater_equal", "lesser_equal"} /\ Key(a) = Key(b)

Decided == version.type \in Comparison /\ result \in {"SUCCESS", "FAIL_CONDITION"} /\ ~dry_run

\* For complete versions the condition holds exactly when the precedence of
\* semantic versions says so: 1.2.3-alpha.1 < 1.2.3-beta < 1.2.3-rc.1 < 1.2.3.
AgreesWithPrecedence ==
    Decided /\ Complete(installed) /\ Complete(version.value) =>
        (result = "SUCCESS" <=> Related(version.type, installed, version.value))

\* Whatever the two versions are, complete or not, the five comparisons do not
\* contradict each other, nor do they when the versions are exchanged.
ConsistentComparisons ==
    Decided =>
        LET holds(comparison) == Holds(comparison, compare_versions(installed, version.value))
            swapped(comparison) == Holds(comparison, compare_versions(version.value, installed))
        IN /\ holds("greater") <=> ~holds("lesser_equal")
           /\ holds("lesser") <=> ~holds("greater_equal")
           /\ holds("equal") <=> holds("greater_equal") /\ holds("lesser_equal")
           /\ holds("greater") <=> swapped("lesser")

\* A requirement of a release with fewer numbers stands for all releases that
\* begin with them: equal to 1.2 is 1.2.0 as much as 1.2.7, but no pre-release,
\* and neither is greater or lesser.
PrefixStandsForReleases ==
    Decided /\ Complete(installed) /\ Len(version.value) <= 3 =>
        LET release == Len(installed) = 3
            within  == SubSeq(installed, 1, Len(version.value)) = version.value
        IN /\ version.type = "equal" => (result = "SUCCESS" <=> release /\ within)
           /\ version.type \in {"greater", "lesser"} /\ release /\ within =>
                 result = "FAIL_CONDITION"
=============================================================================
