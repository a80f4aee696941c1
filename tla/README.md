# suit-processor in TLA+

`suit-processor` executes SUIT manifests (software updates for constrained
devices): it decodes and authenticates an envelope, creates the components the
manifest names, validates its command sequences, rehearses them, and executes
the one its caller asks for. Manifests may load other manifests as
*dependencies*. Everything runs on one thread; what makes the code hard is that
nothing is recursive: nested sequences and dependencies are coroutines over two
bounded stacks, and every call of the platform may fail between any two of their
steps.

Paths are relative to the root of the repository.

## 1. The system

| Component | State | Operations | What makes it correct |
|---|---|---|---|
| **Component registry** `src/suit_manifest.c`, `suit_decoder_create_components` | the pool `components[]` (identifier, reference count, handle, kind), the manifest stack and the `component_map` of every entry | append a component or dependency, release a component, create all components of a manifest, release a manifest | one slot and one platform handle per component in use; a slot is reused only when no manifest refers to it; counts are exact; kind and identity are stable |
| **Command sequence machine** `src/suit_seq_exec.c`, `src/suit_schedule_seq.c` | `seq_stack` of suspended sequences, each with its position, result, selected components and coroutine state | schedule, step, finalize, component loop, run/validate one command | the stack machine computes what a recursive interpreter would; results reach the right frame exactly once; every sequence ends; validation has no effect |
| **Directives** `src/suit_directive.c` | parameters of each slot, `integrity_checked` | set-component-index, try-each, run-sequence, override/set-parameters, fetch, copy, write, invoke, process-dependency | only the selected components are touched; soft-failure stays inside; a write takes the integrity flag back; dependencies are loaded and released in pairs |
| **Conditions** `src/suit_condition.c` | `integrity_checked` | identifiers, digests, slot, content, version, abort, is-dependency, dependency-integrity | no effects; a broken dependency is a failed condition, never an error; versions are compared by their precedence |
| **Processor driver** `src/suit.c` | `manifest_stack_height`, `dry_run`, `current_seq` | process_sequence (load, validate, dry run, execute, complete, release), load_envelope | an idle processor holds nothing; nothing is executed that was not validated; dry run is only rehearsed |
| **Envelope decoder** `src/suit_decoder.c` | `step`, the decoded envelope and manifest, the status of each sequence | the steps from decoding to component creation, each checking the step before it | only what is authentic and permitted gets onto the stack; severed sequences only with the right digest; a failed load leaves the decoder free |
| **Metadata API** `suit_processor_get_manifest_metadata` | the stack entry above the top, the decoder | decode, optionally authenticate, copy fields; also called by the platform in the middle of a load | tells the truth; disturbs neither the load under way nor the stack |
| **Platform** `include/suit_platform.h` (external) | handles, stored envelopes | every `suit_plat_*` function | - |
| **CBOR codec** (generated from `cddl/`, not in the repository) | none | decoding | - |
| `src/fih.c`, `include/suit_report.h`, build files, tests | - | - | not used by the core |

Interactions. `suit_process_sequence` loads the root manifest into the registry
(the decoder calls the registry once per component), schedules one sequence
after the other on the machine, and drives the machine until its stack is
empty. A command applies to one slot of the manifest of its frame.
dependency-integrity and process-dependency call back into the driver
(`suit_processor_load_envelope`) and the registry (`suit_manifest_release`) from
inside the machine, and schedule the sequences of the manifest they loaded onto
the same stack. The slots, and so the parameters and the integrity flags, are
shared by all manifests on the stack.

Hard behaviours: coroutine state that must fit the stack above it; a command
suspended in the middle of its loop over components while nested sequences
change the selection; state read before a load and used after it; flags that a
nested manifest may reset; loops over the platform that fail half way; circular
dependencies, ended only by the bounds of the stacks; one decoder state and one
free stack entry shared by loads and by metadata calls made from inside them. `PROJECT.json` lists the
hazards line by line with the properties that address each.

## 2. The modules

```
ComponentRegistry <----INSTANCE---- Processor ---EXTENDS--> SeqExec <--EXTENDS-- SequenceRun
      ^                                ^                                              ^
RegistryHistory                    MCProcessor                                  MCSequenceRun
      ^    ^
      |    +- MCComponentRegistry        SeqExec <-- SeqExec_proofs <-- SequenceRun_proofs --> SequenceRun
      +- ComponentRegistry_proofs                         ^
                    ^                                     |
                    +-----------INSTANCE---------- Processor_proofs --> Processor
                                                          ^
                                                DependencyCommands_proofs
                                                          ^
                                                 SharedSequence_proofs

EnvelopeData <--EXTENDS-- EnvelopeAcceptance <--INSTANCE-- EnvelopeDecoder          VersionMatch
                                                              ^    ^                   ^    ^
                                          MCEnvelopeDecoder --+    |   MCVersionMatch -+    |
                                              EnvelopeDecoder_proofs     VersionMatch_proofs
```

(All arrows without a label are EXTENDS; EnvelopeDecoder extends EnvelopeData, too.)

**ComponentRegistry** is the registry with the discipline of its callers. A
load and a release are loops over components; every iteration, with its one
call of the platform, is a step (`AppendComponent`, `ReleaseStep`), so that a
failure can come between any two. `op`, `entry` and `pos` are the call under way,
the stack entry it works on and the index of its loop; `handles` is the
platform's side: how many handles are open per component. `Unwind` is the release
at the end of a failed `suit_decoder_create_components`. `PopDeniedDependency`
is the release that process-dependency does when the platform refuses the
dependency it has just loaded: of the entry *below* the top (section 5); it is
enabled only with `DependencyDenied`. The component list of a manifest is
never empty (the decoder refuses it), so a load ends after at least one append.

**RegistryHistory** adds a history variable, `mishaps`: whether the platform has
denied a dependency or refused a release so far. It changes no step of the
registry; it lets a property say until when the counts can be relied on, instead
of assuming that such a thing never happens.

**SeqExec** is the machine and all commands that stay inside one manifest. A
step is one iteration of the component loop: one command on one component, with
the platform call it makes and everything up to the next one. A frame of
`seq_stack` has the fields of `struct suit_seq_exec_state`; `current_command`
counts the commands before the read position. `call` is the platform call of
the step. The operators correspond to the functions:

| TLA+ | code |
|---|---|
| `Schedule`, `Finalize`, `component_idx_next` | the functions of `suit_seq_exec.c` of that name |
| `Return` | end of `suit_run_single_command` / `suit_validate_single_command`: advance the component loop, or finalize on an error |
| `EndOfSequence`, `RejectCommand`, `SkipCommand`, `ComponentGone` | the exits of `suit_seq_exec_step` and of the two command processors |
| `SetComponentIndex`, `TryEach`, `RunSequence`, `Override`, `OverrideSizeFails`, `SetParameters`, `Perform` | the directives |
| `CheckCondition`, `AssumeCondition`, `Abort`, `ConditionIsDependency` | the conditions (`AssumeCondition`: what the dry run skips) |
| `DependencyIntegrityRefused`, `ProcessDependencyRefused`, `RetrieveFails`, `LoadFailed` | the ways out of the two dependency commands before a manifest is loaded |
| `ValidateCommand`, `ValidateOverride` | the two validating processors |

Data are abstracted to what control depends on. A sequence is a list of decoded
commands; `"undecodable"` is anything the codec refuses, and also swap and
commands that are not supported, which end in the same result. A
parameter is set or not; the result of a check is any result of the platform.
For version matching this includes the comparison itself, which is VersionMatch.
A parameter with a value of its own to decode may turn out malformed when it is used
(`MalformedResults`).

**SequenceRun** runs the machine on one sequence of one manifest and keeps the
`log` of platform calls. No dependency is stored there.

**Processor** is the whole: the driver of `suit.c` with the two dependency
commands, over `SeqExec` (extended) and the registry (its variables are the
registry's, and its actions are used as `Registry!Action`). `pc` is the place in
`suit_process_sequence`, `seq` its loop variable; `envelope` tells which envelope
each stack entry was loaded from, `content` which one each dependency component
stores. Commands that write change `content` to any envelope. The two ghost
variables are `handles` and `checked` (the envelope that last passed
dependency-integrity). All decoder steps before component creation are one
decision, `LoadRejected`, and the status of each sequence is a constant of the
envelope: the contract that EnvelopeDecoder is shown to keep.

The order in which the driver does things is the code's: `load_envelope` raises
the height as soon as the decoder has finished and then asks the platform to
authorize the sequence number; the validation loop drops its result
(section 5); the dry run is left out for validate, load and invoke.

**EnvelopeData** has the envelopes and manifests as data, and what makes one
acceptable: `WellFormed`, `Intact`, `Authentic`, `Permitted`, `Consistent`, and
`Meaning`, what an accepted envelope gives for each sequence. A digest is
the name of the content it was made of, a signature the digest it signs with a
trusted key. Of the bytes the model keeps which ones decode. **EnvelopeAcceptance**
is the specification of loading in five actions: a request ends with the meaning
of an acceptable envelope on the stack, with an unacceptable one called
invalid, or with an acceptable one refused; releases pop; nothing else changes
the stack.

**EnvelopeDecoder** is the code. Every function of `suit_decoder.c` is an operator
of the same name on `[state, entry, ret]`: the decoder state, the stack entry
`decoded_manifest` points to, and the result. Each checks its `step`
(`OutOfTurn`), resets the state when it fails (`Fails`) or goes on (`Reaches`), and
leaves in the entry what the code leaves there, also on failure.
`suit_processor_load_envelope` calls one function per step of the model,
because most of them call the platform, and the platform may call
`suit_processor_get_manifest_metadata`, which uses the same decoder state and the
same entry (`MetadataBusy`, `MetadataOverflow`, `GetMetadata`). The two functions that
only parse are not interrupted (`PlatformRuns`). The macros of
`suit_decoder_decode_sequences` work on one member at a time; the code reports
errors through one `ret`, which here is a status `"INVALID"` of the member.
A component loop that fails has released what it created (ComponentRegistry has
the loop), so that `suit_decoder_create_components` is one operator here.

Left out of EnvelopeDecoder: duplicate keys of CBOR maps, the limits on the number
of signers and payloads (they count as an envelope that does not decode), digest
algorithms other than the two supported ones (they count as malformed, the
result differs only in its number), the canaries of the signature loop. When a
member of a list is wrong the code leaves the loop over the extensions and the
model goes on through it: what either has written to the entry is
wiped by the next load. In the same way, a metadata call that fails gives out
nothing here, while the code may have written some of the outputs.

**VersionMatch** is the version condition: `compare_versions`, the five comparison
types, the parameter that may be missing, malformed or too long, the dry run. The
operators are those of the code; the reference is the precedence of semantic
versions, written as a lexicographic order of keys.

## 3. What is checked

All runs finish within five minutes on two workers. Deadlock is checked in all
of them; `Terminated` is the explicit end of `SequenceRun`.

| Run | Question | Result |
|---|---|---|
| `Registry` | 3 manifests, 3 components, 2 slots: the pool overflows, components are shared, listed twice, of the wrong kind; the platform refuses to create, to release, to process. What survives which failure? | `TypeOK`, `HandlesMatch`, `OneSlotPerComponent`, `IdentityStable` hold always; `NoDanglingUnlessDenied` until a dependency is denied; `ExactUntilMishap`, `PoolEmptyUntilMishap` until something is not released (2.8 M states) |
| `Sequences` | Do try-each, run-sequence, soft-failure, selections and the parameter directives (which stop half way when an image size is refused) compose, up to the limit of the stack and beyond it? Does validation look at everything and touch nothing? Does every sequence end, whichever command it has and whichever parameters are set? | equal to the reference interpreter; `TypeOK`, `CallChain`, `NoStaleResult`, `SoftFailureStaysInside`, `HardErrorIsFinal`, `OnlySelectedTouched`, `ValidationIsPure`, `MovesForward`, `Termination` hold (371 k) |
| `ProcessorDependency` | One dependency, fetched, checked and processed in all orders, two different calls in a row, content that changes between calls | `IdleIsClean`, `ProcessesWhatWasChecked`, `DependencySharedHasNoEffect`, `RehearsedOnlyInDryRun`, `IntegrityFailsSoftly` hold (121 k) |
| `ProcessorNested` | Dependencies of dependencies, circular ones, both stacks overflow, components cannot be created | implements `ComponentRegistry`; `TypeOK`, `ResumedInPlace`, `MovesForward`, `EveryCallReturns` hold (121 k) |
| `ProcessorFaulty` | The platform refuses dependencies and fails to release components, and what is stored changes between calls | still implements `ComponentRegistry` with `DependencyDenied`; `StacksAgree` and `ProcessesWhatWasChecked` hold, the latter up to slots that leaked (492 k) |
| `Decoder` | 9 manifests in 21 envelopes, 5 sound and 16 with one fault each, loaded and released in any order on a stack of two; metadata is asked of five of them between loads and at every call of the platform during one, with four choices of outputs | implements `EnvelopeAcceptance`; `TypeOK`, `CreatedOnlyIfAcceptable`, `MetadataIsTruthful`, `FreeWhenIdle` hold (7.4 k) |
| `VersionMatch` | Releases, pre-releases with and without a number, shorter and too long versions, each with each, by every comparison | `AgreesWithPrecedence`, `ConsistentComparisons`, `PrefixStandsForReleases` hold (17.6 k) |

The *reference interpreter* of `MCSequenceRun` is a recursive definition with no
stack, no coroutine state and no saved selections: it folds over commands,
components and alternatives and takes the platform's answers from the log.
`AgreesWithReference` compares result, calls and parameters at the end of every
execution. It is written from the meaning of the commands as the code states
it, so where the code has a peculiarity that follows from its design (the first
component on which a command fails decides; a nested sequence leaves
its selection behind) the reference states it openly.

*Refinement.* `UsesRegistry` says that the processor implements the registry's
specification under the identity mapping: it loads only above the top, releases
what the specification allows and never starts one registry call inside another.
What is proved of the registry therefore holds in every behaviour the
processor shows. `ImplementsAcceptance` says that the decoder implements
EnvelopeAcceptance. Its mapping is not the identity: the abstract stack holds what
`suit_manifest_get_command_seq` would return for each entry, and an entry counts
only when its load is over, although the code raises the height before it asks
for the sequence number. Metadata calls map to stuttering steps, wherever they
happen: this is what it means that they disturb nothing. The Processor
module relies on the contract, not on the decoder.

*Progress.* `MovesForward` says that every step gets further in a lexicographic order: the
stage of the driver, then, from the bottom of the sequence stack upwards, the command, the
component and the alternative of each frame, then the components of the manifest being loaded
or released. It holds without any fairness, and is what liveness rests on: a command
applied twice to a component, or an alternative that is tried again, would break it even
where the call still returns.

*Fairness* is weak fairness of `Step`, which is all of the processor except its
caller. The code justifies it: `suit_process_scheduled` and
`suit_process_sequence` are synchronous loops on one thread, and platform
calls return. Nothing is assumed about the caller or about which answers come.

*Bounds.* Two slots with three components make the pool overflow; three manifests
are the shortest stack with a middle. Two components per manifest show a loop that is
interrupted between two iterations. Three levels of sequences show a frame that
is called and calls. Three manifests with a stack of four or five frames let a
circular dependency hit either limit. The sizes in the code (`SUIT_MAX_*`) are build-time
constants; the proofs hold for all of them. `MaxRefCount` bounds the counts of
references that leak, in `Registry` after a mishap and in `ProcessorFaulty`. A stack of two shows a
load above another manifest, a full stack, and an entry used again; the envelopes
have a single fault each, because the first check that fails ends a load. The
versions have all lengths from none to six and differ at every position. The programs and the
worlds tried are listed, with the reason for each, in the two MC modules.

## 4. What is proved

Every theorem holds for all values of the constants that satisfy the named
assumptions of its module: every pool and stack size, every set of components,
envelopes, manifests and versions, all platform results.

`ComponentRegistry_proofs`:

| Theorem | Property |
|---|---|
| `TypeCorrect` | `TypeOK` |
| `HandlesAlwaysMatch` | `HandlesMatch` |
| `SlotsAreShared` | `OneSlotPerComponent` |
| `IdentityIsStable` | `IdentityStable` |
| `ReferencesCounted` | `NoDanglingUnlessDenied` |
| `CountsAreExact` | `ExactUntilMishap` |
| `PoolEmpties` | `PoolEmptyUntilMishap` |

The inductive invariant `RegistryInv` adds to the type two facts: `CallEntry`,
which entry a call under way works on, and `PoolInv`, that slots in use are
filled, distinct, and match the handles. No part is inductive alone:
that a handle exists when the last reference goes needs the slots to be
distinct, and that they are distinct needs the scan of the pool to have
found a component that is in use. `FirstIsMember` (the minimum of a set of
slots exists) makes the two scans of `assign_component_index` total. The
counting theorems relate `Cardinality(References(s))` before and after each
action: an append adds one reference, a step of the release loop removes one, and
raising or lowering the stack moves an entry in or out of `Live` without changing
what it contributes. The last three are about `SpecHistory`: as long as `mishaps`
is empty, each step keeps the counts exact, and the step that adds a mishap ends
the claim. Where the run bounds `ref_count`, the theorems need no bound.

`EnvelopeDecoder_proofs`:

| Theorem | Property |
|---|---|
| `TypeCorrect` | `TypeOK` |
| `CreatesAcceptableOnly` | `CreatedOnlyIfAcceptable` |
| `DecoderIsFreed` | `FreeWhenIdle` |
| `MetadataTrue` | `MetadataIsTruthful` |
| `DecoderRefines` | `ImplementsAcceptance` (the refinement) |

The inductive invariant is `DecoderInv`. Its heart is `Progress`: at every step of
a load, the decoder state and the entry above the top are *functions of the
envelope* being loaded (`WithEnvelope`, `WithManifest`, `StoredEntry`,
`ParsedEntry`, ...), and the envelope has passed the checks made so far. Nothing that
was there before enters into them, which is what a stale entry or a metadata call
in between would break. `PhaseOK` ties `pc` to `step`: this is why
`DecoderFree` is false while a load is under way, and why a metadata call during
a load can only answer `ERR_WAIT`, until the components are created and the entry
it borrows is a different one. Each function of the decoder has a
lemma that says what it returns for an envelope that passes, and when it fails.
`StepInv` then classifies every step (`StepKind`) and `StepRefines` maps
each class to a step of EnvelopeAcceptance or a stutter. The assumptions are
that stored members are not `Malformed`, that names do not clash, and that the
results of the platform are told apart from those of the decoder
(`ResultsAssumption`: only the names matter, the code uses negative numbers for both).

`VersionMatch_proofs`:

| Theorem | Property |
|---|---|
| `DecidesByPrecedence` | `AgreesWithPrecedence` |
| `ComparesConsistently` | `ConsistentComparisons` |
| `PrefixIsAllReleases` | `PrefixStandsForReleases` |

The invariant `ResultOK` says that a stored result is the one of the condition for
the versions as they are; the rest is about `compare_versions`: `FirstDecides` (the
first difference decides), `Antisymmetric`, and `CompleteVersion`: a complete version has
three integers or, once `Padded`, five, and of the shorter of two the fourth
key is 0 where the other's is negative.

`SequenceRun_proofs`, over the lemmas about the machine's operators in `SeqExec_proofs`:

| Theorem | Property |
|---|---|
| `TypeCorrect` | `TypeOK` |
| `CallsAreChained` | `CallChain` |
| `ResultsAreConsumed` | `NoStaleResult` |
| `SoftFailureIsPrivate` | `SoftFailureStaysInside` |
| `ErrorsAreFinal` | `HardErrorIsFinal` |
| `TouchesOnlySelected` | `OnlySelectedTouched` |
| `ValidationHasNoEffect` | `ValidationIsPure` |
| `StepsMoveForward` | `MovesForward` |
| `FurtherOnIsAnOrder` (in `SeqExec_proofs`) | |

`SeqExec_proofs` shows that every step of the machine treats the stack in one of three
ways: the top frame goes on, schedules one frame above itself, or ends and hands its
result and its selection down. The inductive invariant `IInv` says of every frame that
it is `Sound` (its position is in its program, its indexes in its component map, and
`cmd_exec_state` and `retval` are a pair its command can be suspended with), of
adjacent frames that the lower one waits for the upper, of the entry frame that it
cannot fail softly, and of the `log` that an error is still on its way to the caller.
The pairing is what makes the results private: a result that arrives belongs to the
command that is suspended. An error survives because no command catches anything but
a failed condition, and a failed condition is never made of it. One case needs
care: set-component-index is demanded again when a frame is resumed at its first
command (`MissingSetIndex`), which would discard the result if the manifest could
have several components there (`EntryOK`).

`StepIsForward` shows that every step of the machine moves the frame on top, perhaps scheduling
one above it, or ends it and leaves the place of the frame below alone: the loop over the
components goes up through the selection that is kept aside while a nested sequence changes
the other one (`LoopGoesUp`), and try-each counts its alternatives. It asks nothing of the
frames but their types, and so serves the processor as well.
`FurtherOnIsAnOrder` shows that to be further on is irreflexive and transitive on stacks of
typed frames. Such a stack has at most `MaxSeqDepth` frames, and each frame has
finitely many places: its commands end, its components are below `MaxComponents`, and
`cmd_exec_state` is bounded by the alternatives. So no state of a run recurs, and
the machine cannot go on for ever. This last conclusion, that an order on finitely many
places has no endless ascent, is an induction over data and argued here only, not checked by
the prover; and that the machine does go on, which `Termination` says too, needs the
fairness and `ENABLED`.

`Processor_proofs`:

| Theorem | Property | Condition |
|---|---|---|
| `ProcessorInvariant` | (`PInv`, the inductive invariant) | |
| `TypeCorrect` | `TypeOK` | |
| `RehearsesInDryRun` | `RehearsedOnlyInDryRun` | |
| `CallsMoveForward` | `MovesForward` | |
| `ManifestPerOpenCommand` | `StacksAgree` | `ResumedInPlace` |
| `ImplementsRegistry` | `UsesRegistry` (the refinement) | `ResumedInPlace` |
| `LastManifestRemoved` | `ManifestsRemoved` | `ResumedInPlace` |
| `CallsLeaveNothing` | `IdleIsClean` | `ResumedInPlace`; the platform releases and denies nothing |

`PInv` holds without any condition, also in the two situations of section 5 in
which the processor goes on with a manifest that was released underneath it. Nothing in
it may say, therefore, that the manifest of a frame is still loaded; the lemmas of
`SeqExec_proofs` about the stack are proved again for less. It has the
invariant of the registry (through an instance of its proofs) and an account of the
manifest stack: `Height` is what the places of the driver and of the suspended
commands say the stack should be (`root`, one for the root manifest, one per frame
with its dependency loaded, and `Owed` for a load or release under way), and the
stack is never lower. The difference, `Slack`, cannot shrink; that it does not grow either
is exactly `InStep`, and needs `ResumedInPlace`: a command that returns early when
it is resumed forgets its manifest. `ManifestsRemoved` is violated without the
condition (run `ProcessorCandidate`); `ProcessorNested` checks that the condition holds
among dependencies that refer to one another.

`CallsMoveForward` needs none of that: a dependency command counts the sequences of its
dependency whatever became of the manifest, and a load or release ends. So, by the
argument above, a call is over after finitely many steps even in those situations, and with
dependencies that are their own dependencies: only the depth of the stacks ends those, and the commands that met the limit
have moved on.

`DependencyCommands_proofs` reduces the condition to the one test the code gets wrong:

| Theorem | Property | Condition, besides that the platform denies no dependency |
|---|---|---|
| `CommandsResumeInPlace` | `ResumedInPlace` | `ResumedChecked` |
| `CheckedStacksAgree` | `StacksAgree` | `ResumedChecked` |
| `CheckedImplementsRegistry` | `UsesRegistry` | `ResumedChecked` |
| `CheckedCallsLeaveNothing` | `IdleIsClean` | `ResumedChecked`; the platform releases what it is told to |

`ResumedChecked` says that process-dependency, when it is resumed, finds the check of its
component standing. Everything else a resumed command tests is proved to be as it was
(`Placed`): its position in the stack, its component, that this is a dependency, and
whether the run is a dry run. The argument goes round all three parts: frames that wait do not
move (`WaitersStay`); they lie below the entry that the registry works on
(`FramesLieBelow`, from `InStep`); there the component maps do not change, and slots
that are referenced keep their component and kind (`ManifestKept`, from the counting
theorems of the registry).

The same module has what the processor then promises about the dependencies themselves:

| Theorem | Property | Condition, besides that the platform denies no dependency |
|---|---|---|
| `IntegrityNeverAborts` | `IntegrityFailsSoftly` | `ResumedInPlace`; the platform releases what it is told to |
| `CheckedIntegrityNeverAborts` | `IntegrityFailsSoftly` | `ResumedChecked`; the platform releases what it is told to |
| `ProcessesTheChecked` | `ProcessesWhatWasChecked` | `ResumedInPlace` |
| `CheckedProcessesTheChecked` | `ProcessesWhatWasChecked` | `ResumedChecked` |

For the first, `VerdictKept` says that while the condition has its dependency released, the
verdict it is about to return is that it failed softly, or that it holds and the release
does not fail; every other way out of the condition is one of its early returns. The release must
be reliable, because a condition that holds returns the error of a failed release.

The second is about four commands that may lie calls apart: the load and the end of the
check in dependency-integrity, the write that takes it back, the load in
process-dependency. Its invariant has three parts. `AboveValidates`: all that
runs above an integrity condition only validates, so that nothing is written while a check is under way.
`VerifiesWhatIsStored`: the manifest being checked is therefore still the one that
its component stores. `CheckedIsStored`: a slot in use with its flag set was
checked with what is stored there, or was leaked. The last is not inductive without
the other two (the flag is set at the end of the check, for what was loaded at its
beginning), nor without the counting of references: that a slot is wiped when it is
taken into use matters only if a call that ends has given up all slots but the leaked ones
(between two calls the platform may store anything).

`SharedSequence_proofs` is about the shared sequence:

| Theorem | Property | Condition, besides that the platform denies no dependency |
|---|---|---|
| `DependencySharedIsInert` | `DependencySharedHasNoEffect` | `ResumedInPlace` |
| `CheckedDependencySharedIsInert` | `DependencySharedHasNoEffect` | `ResumedChecked` |

process-dependency has the shared sequence of its dependency validated with
`suit_validate_single_shared_command` and later executed, and the two do not go the same
way. The validation enters every alternative of a try-each and skips what has no component
selected; the execution evaluates conditions, takes one alternative, and stops
where it fails. Sequences may be circular, so what was validated cannot be described by
recursion: `Innocent` is the union of all sets of sequences that hold nothing forbidden
and start only one another (a greatest fixed point), and a command is `Fine` when it is
not forbidden and starts innocent sequences only. `Judging` says of every validating frame that
what it has passed is fine (for a nested frame: will be, once it succeeds), as far as a component
is selected there; a frame that has one component, or is nested, starts with one, any other from its
first set-component-index on. `SharedFirst` carries this over from the result of the
validation to the execution of the sequence, `Linked` ties each suspended frame to the
sequence above it, and `Sheltered` says of all that runs above a waiting command, unless
it is the main sequence of its dependency, that it is `Harmless`: with the selection it has now
it reaches only fine commands. That the component maps below do not change
meanwhile comes from `FramesLieBelow`.

The same module discharges the condition `ResumedChecked`, for manifests of which it can be
said before the processor runs:

| Theorem | Property | Condition, besides that the platform denies no dependency |
|---|---|---|
| `TameStaysChecked` | `ResumedChecked` | the worlds are `Tame` |
| `TameIsFaithful` | `ResumedInPlace`, `StacksAgree`, `UsesRegistry`, `ProcessesWhatWasChecked`, `DependencySharedHasNoEffect` | the worlds are `Tame` |
| `TameLeavesNothing` | `IdleIsClean`, `IntegrityFailsSoftly` | the worlds are `Tame`; the platform releases what it is told to |

A world is `Tame` if each of its dependencies has no dependencies itself (a `Leaf`, whatever
it writes), or fetches, copies and writes nothing, sets no slot, and is released without error.
The root manifest is not restricted: it may write to the components of its
dependencies, below any nesting, and may use one that is already checked.
Dependencies may be their own dependencies. The runs `ProcessorDependency` and
`ProcessorNested` are about such worlds (TLC evaluates `RunsAreTame` of `MCProcessor`), the run
`ProcessorCandidate` is about the smallest that is not: a dependency that lists as its
own dependency the component it was loaded from, and updates it.

The invariant is `TameInv` and `ChecksStand`: the flag of every waiting process-dependency is
set, from the load on and until its dependency is released. Four things take flags back.
A load wipes the slot it takes into use, but that was free, and the slot of a frame that waits
is referenced (`LoadSpares`). A command unchecks the dependency components it selects, and those
belong to its own manifest (`StepClears`); what runs above a command that waits runs in
a dependency (`AboveWaiter`), which lists no such component if it is a leaf
(`LeavesAreLeaves`, through every way a load can go) and modifies nothing otherwise
(`ReadOnlyAbove`, through every way a sequence is started) (`CommandSpares`). The last is
dependency-integrity itself, whose failing release takes back the flag it has just set
(`ReleaseSpares`, from `VerdictKept`): that is why the releases matter for manifests that are not
leaves. The induction is over the properties it proves: that what the commands
above find is a dependency of the right manifest is itself known only as long as
the commands are resumed in place.

The assumptions. `SeqExecAssumption`: sizes are positive, "SUCCESS" is a result of the
platform, the processor's own "ERR_AGAIN" and "FAIL_SOFT_CONDITION" are not.
`ProcessorAssumption`: a manifest is loaded or rejected as not authentic, and the
authorization of a dependency always succeeds unless `DependencyDenied`. `SetupsAssumption` and
`WorldsAssumption`: programs are lists of decoded commands, run-sequence names a
sequence, an envelope has components and its dependencies are stored somewhere.
Programs may be circular, and no bound on the number of worlds, calls or components
is assumed.

Model-checked only: liveness (`Termination`, `EveryCallReturns`), which the prover
cannot treat (the half of it that is an action property, `MovesForward`, is proved), and `AgreesWithReference`, because the reference is a recursive
definition.

## 5. Where the code and its documents disagree

Each of the five is a run in which TLC finds the stated property violated.

1. `ProcessorSharedEffect`. The loop in `suit.c:231` that validates the root
   manifest has an inner `ret` (line 233) that shadows the outer one. A failed
   validation is logged and the manifest is executed, against
   `REQUIREMENTS.md:45` and `include/suit.h:27`. Dependencies are validated as
   intended.
2. `ProcessorRefusedRelease`. `suit_directive.c:482` reads the top of the manifest
   stack before the dependency is loaded. If the platform then refuses the
   sequence, the clean-up "Remove the checked manifest from the stack" (574)
   releases the parent's components and drops the dependency's entry without
   releasing it: a try-each that falls back finds its component missing, and
   references leak. The registry is specified with this behaviour
   (`PopDeniedDependency`), so that what survives it is known: `HandlesMatch`
   and `OneSlotPerComponent` do, the counts do not.
3. `ProcessorCandidate`. process-dependency tests `integrity_checked` again at each
   re-entry (`suit_directive.c:465`). A dependency that writes to the component it
   was loaded from has cleared it; the directive returns without releasing.
4. `SequenceDirectiveFailure`. `REQUIREMENTS.md:51` wants a failed directive to abort
   whatever the soft-failure flag; `suit_seq_exec.c:331` does not tell
   directives from conditions. `tests/unit/try_each/src/main.c` relies on it.
5. `ProcessorSoftEntry`. The comment at `suit_directive.c:314` forbids soft-failure
   at the entry point of a manifest sequence; the test of the stack height lets the
   entry points of dependencies pass. When the shared sequence of a dependency
   sets it and fails, process-dependency returns the soft failure as it is
   (line 491; only the last sequence is guarded, line 485). If the parent runs it from
   within run-sequence, the failure ends there and the parent completes, although
   the sequence of the dependency was never executed.

A smaller one, seen while translating and kept in the model as it is in
the code. `REQUIREMENTS.md:43` wants each sequence of a
manifest with more than one component to begin with set-component-index, and
`suit_seq_exec.c:267` looks only at sequences that are alone on the stack: in a
dependency, commands without a selection are skipped.

Further remarks of the same kind, about the decoder. `include/suit_decoder.h:109` says
"All of the severed sequences are verified through their digests. If there is a
severed sequence without a digest, this function will fail." Only the text behaves
so: payload-fetch and install in the envelope without a digest in the manifest
are made unavailable and the load succeeds, and the two extensions keep the
status SEVERED. Nothing of them is ever executed, which is what
`SeverableMeaning` states; the envelope `extra` of the run `Decoder` is such a case.
`suit_decoder_authorize_manifest` returns without a reset when the number of
components is out of range (`suit_decoder.c:619`); the CDDL already excludes these
numbers, so the model has only the path that resets. After a version that does not decode,
`suit.c:427` uses a structure nothing has set; the result is an error in any
case. A component whose release the platform refused
(`suit_manifest.c:57`) keeps its slot with `integrity_checked`: a later call that names it
may process what is stored there by then without a check. Without the exception
`Leaked` in `ProcessesWhatWasChecked` TLC finds this in the world of `ProcessorFaulty`;
no document of the repository says what should happen. The dry run stores parameters
in the slots the execution then uses. It takes every condition to hold and so
rehearses the first alternative of a try-each; when another one is executed, its
set-parameters finds the value set and leaves it (`suit_directive.c:405`). No document
forbids this, and no property is about it: the modules keep which parameters are set, not
their values. And of versions: `[1, -1]` has two numbers and counts as a release, so that it
compares equal to `[1]`; a requirement ">= 1" holds for 1.2.3, but not for 1.2.4-rc.1
(`suit_condition.c:88`).

## 6. Not modelled, and the plan

Done: the registry, the decoder with its metadata calls, the version comparison,
the machine with all commands; the processor with dependencies; all with proofs.
What is left is the **composition** of Processor with EnvelopeDecoder in the place
of its contract, so that the metadata calls meet the coroutines of the sequence machine.
Today the two are connected through EnvelopeAcceptance only.

Left out on purpose: the CBOR codec (generated; seen through its results), the
cryptography (platform), `fih.c` and `suit_report.h` (unused by the core),
`SUIT_ERR_WAIT` (`ARCHITECTURE.md` describes a retry, the processing loop has
none: it is one more error; the one the metadata call returns is modelled), the lookup
of integrated payloads (`suit_manifest_get_integrated_payload`, a search by key).
