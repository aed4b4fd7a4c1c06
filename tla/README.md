# Formal model of VerifAxis

TLA+ specifications of VerifAxis, the runtime that asks a model for an answer,
has it checked by verifiers, feeds the failed checks back and stops with a named
reason. The modules are written from the Python code; paths below are relative
to `src/verifaxis/` of the repository.

1. [The system](#the-system)
2. [Modules](#modules), with how they correspond to the code
3. [What the runs check](#what-the-runs-check)
4. [Bounds](#bounds)
5. [Fairness](#fairness)
6. [What is proved](#what-is-proved)
7. [Where code and documents disagree](#where-code-and-documents-disagree)
8. [What is not modelled](#what-is-not-modelled)
9. [Plan](#plan)

## The system

| Component | State it keeps | Operations | Talks to | What makes it correct |
|---|---|---|---|---|
| evidence types, `types.py` | immutable packets, candidates, budgets; the growing `RunTrace` | create, hash, `validate_hash`, `from_packets`, `finish` | everything | a packet that calls itself LLM-produced is never independent; the residual depends on failures and unknowns only |
| runtime, `runtime.py` | the trace, its counters, `last_evidence`, `residual`, the start time | `verify()` | calls model, verifiers and controller in turn | it ends; limits hold; `VERIFIED` is earned; the trace accounts for all calls; the model is shown the newest evidence |
| controller, `controller.py` | its three settings | `decide(trace, evidence, budget_exhausted)` | reads the trace | the order of its rules; cycle and plateau windows |
| adapters, `interfaces.py` | their own | `generate`, `verify` | called by the runtime; may raise, be slow, return anything of their type | environment |
| fault injector, `faults.py` | history, pending packets by release step, audit events | `inject`, `flush`, `plan` | wrapped around a verifier by the benchmark | nothing lost, released on time, every corruption labelled and audited |
| baselines, `baselines.py` | a ledger and local lists per run | one function per strategy | model, verifiers, oracle; `run_vcer` calls `verify()` | budget, every call of a cut run charged, earned `VERIFIED`, faithful trace |
| benchmark, `bench.py` | scripted model and faulting verifiers per row, the rows, two files | `run_benchmark` | baselines, faults, metrics | seeds that repeat only far apart, no false verification under a single fault, rows on disk before reports |
| metrics, `metrics.py` | none | summaries, curves, paired comparison, McNemar | rows | figures agree with the rows and with each other |
| reporting, `reporting.py` | `report.json` | `load_run`, `build_report`, write | files of the benchmark | a report is about rows that are on disk |
| evidence artifact, `evidence.py` | a file | build, validate, write, load | result of `verify()`; other processes and the user share the file | what is written is accepted, what is acknowledged stays, changes are noticed |
| replay model, `models/replay.py` | a call counter | `generate` | evidence of the state | repairs, and only from evidence it may believe |
| arithmetic verifier, `verifiers/safe_math.py` | none | `verify` | parses task and answer | passes exactly the right number, whatever kinds of number meet |
| restricted Python verifier, `verifiers/restricted_python.py` | a step count per case | `verify` | interprets a candidate function | a pass means what Python means; a failure is the candidate's |
| HTTP adapter, `models/openai_compatible.py` | none | `generate` | one request | an adapter that returns or raises |
| command line, `cli.py` | none | `demo`, `run`, `verify-evidence`, `bench`, `report` | all of the above | a file it has reported is there |

One command is one thread, so within a command the interleavings that matter are
those of the runtime's own steps with what the caller's code and the clock do in
between: the deadline may pass between the look at the clock and the call it guards,
an adapter may fail at any call, and a verifier that kept a reference to the
dictionaries of a packet may write to them while a later verifier of the same round
runs. Commands are processes: they share the artifact and the two files of a
benchmark, may overlap, and may die between any two system calls. The rest of the
difficulty is in long sequences: which of five limits is hit first and where in a
round, what a mixed round ends as, windows over the history of rounds, packets that
a fault holds back for a later round, and partial rounds; and in numbers at the
edges of their formats. `PROJECT.json` lists these hazards at their lines with the
properties that guard against them.

## Modules

| Module | Models | Uses |
|---|---|---|
| `EvidenceTypes` | vocabulary of `types.py` | |
| `VerificationController` | `controller.py` as functions of trace and packets | `EvidenceTypes` |
| `VerifyRuntime` | one call of `verify()` as a state machine | `VerificationController`; `RecurrenceContract` as refinement target |
| `RecurrenceContract` | what recurrence promises its caller, without packets or counters | |
| `FaultInjection` | `faults.py` as functions: one packet through one injector | `EvidenceTypes` |
| `FaultInjector` | an injector under any sequence of `inject` and `flush` | `FaultInjection` |
| `BaselineEvidence` | pure helpers of `baselines.py`: labels, statuses, synthetic trace | `EvidenceTypes` |
| `FaultyRecurrence` | the vcer row of a fault benchmark | `VerifyRuntime`, `FaultInjection`, `BaselineEvidence` |
| `Baselines` | one run of any other strategy | `BaselineEvidence` |
| `ArithmeticDemo` | `verifaxis demo` and `run`: replay model and arithmetic verifier under `verify()` | `VerifyRuntime` |
| `PythonInterpreter` | the interpreter of the restricted Python verifier | |
| `RestrictedPython` | that verifier: refusals and the loop over the cases | `PythonInterpreter` |
| `EvidenceArtifact` | building and validating an artifact | `EvidenceTypes` |
| `ArtifactStore` | its file under writers, a reader and a user | `EvidenceArtifact`; `WriteOnceStore` as refinement target |
| `WriteOnceStore` | what storing an artifact promises, without files or handles | |
| `Metrics` | `metrics.py` as functions of rows | |
| `BenchmarkRun` | the benchmark and report commands with their files | `Metrics` |
| `SequenceLemmas` | induction; flattening, counting and ranking of sequences; sums over sets; quotients: for the proofs | |
| `...Proofs` | theorems about `VerifyRuntime`, `FaultInjector`, `FaultyRecurrence`, `Baselines`, `ArithmeticDemo`, `ArtifactStore`, `BenchmarkRun` | the module they are named after, `SequenceLemmas` |
| `MC...` | small instances for TLC | one specification each |

### Correspondence

*Packets.* A packet is a record with the fields the code decides on. Its content
hash is the bit `sealed`: `NewPacket` and the injector's clone compute the hash of
what they make, a write to the content afterwards clears the bit, and
`validate_hash` reads it. `NewPacket` demotes an LLM-produced packet that claims
independence, as `__post_init__` does. Claims, counterexamples and candidates are
elements of small sets; equality of residuals is equality of the three fields that
enter the residual's fingerprint.

*verify().* `pc` is where control is: at the loop head (`"loop"`), inside
`model.generate` (`"model"`), at the head of the verifier loop (`"verifiers"`),
inside `verifier.verify` (`"verify"`) or returned (`"done"`). One action runs from
one such point to the next and contains all that the code does between them:
`StartRound` counts the model call before making it, `JudgeRound` records the
step, computes `exhausted`, asks the controller and either finalises or stores
`last_evidence`. A verifier that raises, returns something else than a packet or
returns a packet with a wrong hash is one action, as in the code's one `except`
clause. `timeUp` is the comparison in `_time_exhausted`; `DeadlinePasses` may
happen between any two actions. `PacketMutated` is the write by adapter code and
is possible only while adapter code runs. `overruns` is a history variable. A
controller supplied by the caller (`AnyController`) may answer anything.

*Injector.* Probability and seed of a configuration only ever yield one truth
value per configuration and step (`_decision` never sees the packet), so an
injector holds that schedule. `pending` is the code's dictionary from release steps to
lists of packets. `FirstStage`, `NextStage` and `LastStage` are the nested loop over
configurations and packets: what is in hand, what was put aside and the audit events
before the first configuration, after one more, and after all. `InReleaseOrder` is
the sorted walk over the dictionary; `Injected` and `AfterInject` are what `inject`
returns and leaves.

*The vcer row.* `FaultyRecurrence` replaces three things in `VerifyRuntime`: the
controller's answer (`_FaultAwareController`), the verifier's return (the case
verifier through its injector, and the selection of one packet from the list) and
the model (the scripted one, or any). A second verifier is present for the two
kinds that split a packet, as in `_faulting_verifiers`. The packet's `provenance`
names the candidate it was made for; the code keeps no such binding, which is why
the properties can ask about it.

*Baselines.* The strategies share `_generate` and `_verify`, so they share the
actions `CallModel`, `ModelReturns`, `CallVerifier` and so on; `Rounds`,
`ReturnBudgetExhausted`, `ReturnModelError` and `ReturnComplete` hold what differs.
`batch` is the local list of `_verify`, which only `EndRound` adds to the evidence;
it is lost when the round is cut short. A call of a verifier returns a sequence of
packets (`Replies`): one, as the `Verifier` protocol says, or as many as a list holds,
which `_verify` takes too. `recorded` is a history variable: how many packets each
complete round left. The initial evidence of a tool-augmented run is given to it: the
calls that collected it are in no ledger.

*Arithmetic.* `ArithmeticDemo` gives `verify()` the adapters that `cli.py` gives it.
A number is an integer, which is exact, or one of a few floats; a sum or difference
with a float is rounded to the nearest (ties to the even one) and beyond the largest
to infinity. A candidate is the number that is read from its text and the wording
around it; a task is the value of its expression. `VerdictRaises` is what raises after
the guarded part of the verifier (`safe_math.py:181`): the difference of an integer
that is no float, and the hash of a packet that holds infinity.

*Restricted Python.* A syntax tree is a nested record; an interpretation passes on a
machine record with the environment, the step count, the signal (`break`, `continue`,
`return` and errors are exceptions in the code) and the last value. `Statement` and
`Expression` have one alternative per class of node. `MaxInt` and `MaxLoop` stand for
4096-bit integers and ranges of 1000 elements. `RestrictedPython` is the state
machine around it: a refusal, or one case after the other.

*Artifact.* A digest is what was digested, so it is matched by nothing else. `Build`
works on the objects of a finished run; `Accepted` works on the document alone and
derives from it what the validator derives: the chain from the steps, with the
candidates' fingerprints as they are stored (they are never computed again), the claim
from the last step, and the six keys of the decision that are compared one by one.
`JsonNodes` and `DepthHolds` are the traversal of the whole document: every packet is
counted in its step, once more as a summary in the chain, and a failed packet's
counterexample again in the residual; the other 38 values and the error records are
counted by number. A JSON value of a run has a size and a depth (`Nodes`, `Depth`).
The writer is the actions `Render`, `LookForFile`, `Compare`, `OpenFile` (which
truncates) and `FillFile`, one per system call; `Fail` stands for a death or an
error at any of them. The reader stats the file (`StatFile`) and then reads and
validates it (`LoadFile`). The user may remove the file and edit it, with or without
recomputing its outer hash; what is at the destination before the first command may
be nothing, other text or a directory. `handle` holds the writers whose open handle is
still the file at the destination. `Written` and `Content` map this to `WriteOnceStore`,
in which storing needs a free place, and only the user, each of whose changes flips
the history variable `changed`, takes or alters what is there.

*Benchmark.* `MakeRow` is one turn of the loop over baselines, cases and faults, with
the outcome of a strategy taken from a set: how a strategy gets there is the subject
of the modules above. Which calls a fault is applied to (`FaultEvents`) is no choice:
`Applies` looks the row's seed, the fault and the step up in the set `Drawn` of the
draws below the probability, as `_decision` hashes these three, and `FailsClosed` ends
vcer at the first packet with a label. `Assemble` sorts, summarises and compares; each file is
truncated and filled in two actions; `Report` is `load_run` and `build_report` on
either file; `Stop` is a death. A rate is a pair of integers, compared by cross
multiplication. `saved` is a history variable: the rows that were on disk at some time.
Benchmark and report commands come one after the other. A benchmark writes over the
files of the run before it, which `docs/reproducing.md:40` tells the user to avoid for
frozen runs and the code does not prevent: `CompletedRunIsSaved` speaks of the last run.

## What the runs check

Each property has a mutant, a plausible slip kept next to the definition it
replaces (its comment says "Slip"), under which TLC finds the property violated.

| Run | Module | Shows |
|---|---|---|
| `verify_evidence` | `MCVerifyRuntime` | `TypeOK`; `VerifiedIsEarned`: all verifiers passed the answer with intact, independent packets; `NothingSettledIsRevised`: only complete, intact, unconflicted rounds with something to revise are followed by another; `KeepsContract`: `verify()` refines `RecurrenceContract` |
| `verify_history` | `MCVerifyRuntime` | `NoCyclePaidFor` and `NoPlateauPaidFor` over seven rounds and nine settings; under a controller that may answer anything `WithinBudget`, `TraceAccountsForCalls`, `ModelSeesNewestEvidence`, `AtMostOneOverrun` and, as liveness, `Terminates` |
| `fault_injector` | `MCFaultInjector` | packets are not lost (`NothingLost`), released neither early nor late (`ReleasedOnTime`), labelled when changed (`UnlabelledIsOriginal`), replayed as their verifier made them (`StaleIsAuthentic`), and delays agree with the audit log (`DelaysAreAudited`) |
| `faulty_recurrence` | `MCFaultyRecurrence` | no single fault verifies a wrong answer (`NoFalseVerification`), corrupted evidence drives no revision (`NoRevisionFromCorruption`), a packet recorded for a candidate it is not about is labelled stale (`StrayEvidenceIsStale`), harmless faults do not prevent success (`BenignFaultsAreSurvived`, liveness) |
| `baselines` | `MCBaselines` | for all seven strategies: `TypeOK`, budget (`WithinBudget`), what a run that is cut short answers, was charged and keeps (`CutRunKeepsItsCalls`), the synthetic trace (`TraceKeepsEvidence`), what `VERIFIED` of a fixed loop rests on (`LoopVerifiedIsEarned`), the oracle's stop (`OracleStopsAtFirstCorrect`) |
| `artifact_store` | `MCArtifactStore` | for commands that do not overlap: what was reported as written stays (`AcknowledgedIsKept`), a changed document is rejected unless its hash was recomputed (`UnrecomputedEditIsRejected`), and even then one edit of one part changes neither claim nor chain nor decision (`OneEditKeepsTheDecision`), a file nobody edited is what a run wrote and, for modest runs, is accepted when read back (`WrittenIsReadable`), the file refines `WriteOnceStore` (`KeepsPromise`) |
| `benchmark_run` | `MCBenchmarkRun` | within a strategy, rows share a seed only for examples a stride apart (`SeedsRepeatStridesApart`), summaries, curves and tests agree with the rows and with each other (`ReportReconciles`), no whole report without its rows on disk (`RawBeforeReport`), a benchmark that ended normally left its own two files (`CompletedRunIsSaved`) |
| `restricted_python` | `MCRestrictedPython` | a candidate that passes computes what Python computes (`PassIsPythons`), and one that fails has a case that shows it, whatever cases ran before (`FailureIsToBlame`) |
| `arithmetic_demo` | `MCArithmeticDemo` | a run ends `VERIFIED` at the first right answer and on nothing else (`VerifiedIffRight`); the replay model repairs its answer in the second round (`ReplayRepairs`, liveness) |

`StrayEvidenceIsStale` deserves a remark: a delayed packet is released into a later
round, where it would speak for a candidate it never saw. It does not reach the
trace because the round it leaves empty ends the row as `UNVERIFIABLE`. The mutant
that lets unsettled rounds go on shows that this is all that prevents it.

`ReportReconciles` compares figures of one report that are computed along different
ways: the rates of a summary with each other, the last point of the risk-coverage
curve with the rates of the answered rows, the robustness table with the summary, the
discordant pairs of a comparison with the two accuracies, and the p-value of the
exact test with the chance of a tail at least as uneven, counted over all sequences.

It does not look at what may be compared: `run_benchmark` makes the exact test for its
smoke runs as for any other, though `docs/research-contract.md:94` says that these
receive no significance tests.

`VerifiedIsEarned` and `KeepsContract` speak of independent packets where the controller
requires them, which is its default. With `require_independent_evidence=False` a caller
opts out, and the model then allows `VERIFIED` on dependent packets, as the code does;
`docs/research-contract.md:66` states the requirement without this exception.

`OneEditKeepsTheDecision` is about an editor who recomputes the outer hash and changes
one part of the document. One who changes every part alike, packets with their hashes
included, makes a document of a run that never was, and nothing in the file can tell.

Three more runs each exhibit a behaviour against a statement of the repository; see
[below](#where-code-and-documents-disagree).

## Bounds

- `verify_evidence`: two candidates, up to three rounds, zero to
  two verifiers, five packets (pass, fail, unknown, and two of an LLM critic that
  lies about its independence), every limit absent, tight and slack, with and
  without a deadline. Two verifiers suffice for every mix of two packets, and the
  rules read sets of statuses.
- `verify_history`: seven rounds of one verifier, three candidates, patience 1 to 3,
  window 3 to 5, so both windows slide past the start of the trace. Under any
  controller, two rounds of none or two verifiers and three rounds of one, with limits
  of one and three verifier calls and two model calls, which bind before, inside and
  after a round, and with a deadline.
- `fault_injector`: `MaxCalls` = 3 injected packets, steps 0 to 2 in any order and
  repeated, every single fault, every chain of two out of six, every schedule. A
  delay of two steps spans all the calls.
- `faulty_recurrence`: nine kinds, delays 1 and 2, every schedule over up to four
  rounds, three candidates of which one is right.
- `baselines`: up to three rounds of up to two verifiers with five verdicts: a pass,
  the same with a corruption label, a failure, an unknown and an LLM's pass, and calls
  that return none of them or two; limits absent, binding at a call, and binding inside
  a round. Three rounds with two verifiers give rounds of zero to four packets and flat
  lists that do not divide evenly. 4.9 million states.
- `artifact_store`: two writers one after the other (`SYMMETRY`: they differ in nothing
  but their names), `MaxWrites` = 3, `MaxEdits` = 2; seven traces: one run at two times,
  a run without a round, one whose packet was written to after its round, and one beyond
  each of the limits on depth (32), nodes (50000: two values of 13000 nodes, each of
  which the document holds twice) and packets (`MaxPackets` = 2 stands for 1_024). Three
  writes are an acknowledged one, one that dies over it, and one more; two edits can
  change a packet and then what follows from it. `overlapping_writers` has two writes.
- `benchmark_run`: `MaxRows` = 6 rows, `MaxReports` = 1, seven configurations: two
  with pairs and without faults; unsorted baselines and faults; one strategy under two
  of its names; a fault listed twice; three cases of a fault listed twice; an unknown
  baseline. `FaultStride` = 2 and `BaselineStride` = 20 stand for 10_000 and 100_000:
  three cases are beyond the first, so seeds do repeat. Draws differ between the steps
  of a row and between rows. Configurations of two rows can run three times, so a death
  can be repeated. `schedules_unpaired` has two rows, the strides of the code, and the
  draws and outcomes of the program for the seed 1729 and a probability of 0.5.
- `restricted_python`: ten functions (loops with else parts, breaks, continues, early
  returns, nested conditions) on arguments from -1 to 4 and -1 to 3, with and
  without a name asked for, step limits 20, 60
  and 10000, suites of one and three cases; `MaxInt` = 1000 and `MaxLoop` = 8.
- `arithmetic_demo`: floats of two bits of which the largest is 12 (`TooBig` = 16), task
  values among them integers between two floats, one whose successor is no float, and
  floats that adding one does and does not change; one to three rounds of one or two
  verifiers.

The counters of the specifications are bounded by the budgets, so no further
constraint is used. Deadlock is checked except where the system may stop: the
callers of an injector, the commands around an artifact or a benchmark may stop
calling, and the restricted Python verifier ends after one verdict.

## Fairness

`VerifyRuntime` assumes weak fairness of the disjunction of its own steps: the
thread runs, and an adapter call eventually returns or raises. The runtime cannot
interrupt a call, so without the second half nothing could terminate; which of the
outcomes occurs is left open. Neither the deadline nor the writes to packets are
fair. `FaultyRecurrence` and `ArithmeticDemo` assume the same of their steps. The
other specifications state no fairness and have safety properties only.

## What is proved

Every theorem holds for all values of the constants that satisfy the named
assumptions (`ASSUME`) of the module; TLC evaluates those on the instances. Each
proof of an invariant has one step per action. Whole-run statements are invariants
of `Spec` strengthened until they are inductive; TLC checked each strengthening on
the instance of its run before it was proved.

`SequenceLemmas` holds what the proofs share. Several of the models' operators are
folds or recursive functions over sequences, and what they compute is proved by
induction over the length. `Induction` states it with a set of numbers where one
would write a predicate, and rests on the well-founded order of the natural numbers;
on it rest what `FlattenSeq` yields (`FlattenType`, `FlattenAppend`, `FlattenRange`)
and how often elements occur in sequences that are joined (`CountConcat`), what sums
over a set do when elements are added or the set is partitioned, and that elements
of a finite set under a strict order can be numbered by how many are below them.

`VerifyRuntimeProofs`, for every set of candidates, claims and packets, all budgets,
controllers and numbers of verifiers, from `ParameterAssumption` and
`NoneAssumption` (`None` is no candidate, counterexample, number or reason):

- `TypeCorrect` (`TypeOK`): `TypeInv` adds that a round in progress has a candidate.
- `BudgetIsKept` (`WithinBudget`): `BudgetInv` adds what the guard of the loop head
  established, that there is still room for the step that will be recorded.
- `OverrunIsBounded` (`AtMostOneOverrun`): `OverrunInv` adds that there was no overrun
  before the deadline and that control is outside any adapter call after one.
- `VerificationIsEarned` (`VerifiedIsEarned`): `RoundInv` says that the packets of the
  round are as many as its calls, less the one in progress; the lemma
  `DecideVerified` says what `decide()` must have seen. They meet in `JudgeRound`.
- `EvidenceIsFresh` (`ModelSeesNewestEvidence`), for every controller: `FreshInv`.
- `OnlyUnsettledIsRevised` (`NothingSettledIsRevised`): `RevisedInv`, which keeps for
  every step but the last what `decide()` must have seen to continue.
- `CyclesAreCut`, `PlateausAreCut` (`NoCyclePaidFor`, `NoPlateauPaidFor`), for every
  window and patience: `HistoryInv`, over the prefixes of the trace at which
  `decide()` was asked.
- `CallsAreAccounted` (`TraceAccountsForCalls`), for every controller: `AccountsInv`
  joins the property with `RoundInv` and `CountInv`, because whether a packet is
  missing from the last step is decided while the round is still open. `CallsOfAppend`
  says that recording a step adds its calls to the fold over the trace.
- `ContractIsKept` (`KeepsContract`): `ContractInv`; every action maps to a step of
  `RecurrenceContract` or to a stutter.
- `ProgressIsMade`: `StepsLeft` is a natural number that every step of the runtime
  lowers, whatever deadline and packets do in between. It bounds a call to
  `max_iterations * (2 * verifiers + 4) + 1` steps, and it is the reason behind
  `Terminates`: what is left to TLC is only that under the fairness a step is taken
  while one is enabled.

`FaultInjectorProofs`, for every list of configurations (chains of any length), every
schedule, and `inject` and `flush` with steps in any order, from
`InjectorAssumption`, `CorruptionAssumption` (what corruption writes is a claim or
counterexample again) and `NoneAssumption`:

- `Invariant`: `IInv` has four parts. `IsInjector` gives the shape of the object: the
  history holds packets as their callers passed them, and what is pending under a
  step names that step as its release step and is labelled. `ReturnsOK` says of
  every earlier return what the properties ask, relative to the number of its call,
  so that later calls leave it alone. `Accounted` counts, per release step and per
  injected packet, what was returned and what is pending against what was announced
  and passed. The step that keeps it is an induction over the configurations of a
  chain (`NextStageKept`, `LastStageKept`): each single fault keeps the counts, except
  where it replaces or splits packets.
- `Originals` (`UnlabelledIsOriginal`), `Replays` (`StaleIsAuthentic`) and `Releasing`
  (`ReleasedOnTime`) follow from `ReturnsOK`; `Auditing` (`DelaysAreAudited`) and
  `Keeping` (`NothingLost`) from `Accounted`, with `Load` as the number of packets in
  the dictionary.

`FaultyRecurrenceProofs`, for every case, every model, kind of fault, delay, schedule
and number of rounds, from `FaultyAssumption` and those of the modules it uses:

- `RowInvariant`: `RowInv` says of every packet in a round or in the trace what the
  fault may have made of the packet of its candidate (`AnswerOK`), and that a
  packet can wait in the injector only if the row is about to end (`InjectorsInv`):
  a delay leaves the round of the only verifier unknown, and the controller does not
  revise that.
- `FailsClosed` (`NoFalseVerification`), `NothingIsAmplified` (`NoRevisionFromCorruption`)
  and `StraysSaySo` (`StrayEvidenceIsStale`) follow from it.
- `LoopHeadNeverStops`: at the loop head there is always room for another round, so
  the row loses nothing by having no `StopAtLoopHead`.
- `HarmlessRowsSucceed`, the safety half of `BenignFaultsAreSurvived`: a row whose fault
  leaves the verdict alone ends in no other way than with the right answer. `HarmlessInv`
  knows the round in which the answer will be right (`Needed`), counts the injector's
  calls against the rounds, and says what every packet of a round looks like.

`BaselinesProofs`, for every strategy, budget and number of verifiers, from
`BaselineAssumption` (what the strategies are given is of its type; the claim of the
packets `_verify` makes is a claim, and a candidate can be the provenance of a
packet) and `NoneAssumption`:

- `TypeCorrect` (`TypeOK`): `OutcomeInv`; `BestIsCandidate` says that the fold of
  best-of-n picks one of its candidates.
- `BudgetIsKept` (`WithinBudget`): `BudgetInv`, the guards before the call under way.
- `CutRunsAreAccounted` (`CutRunKeepsItsCalls`): `CutInv` follows the calls of the
  round in progress and what its packets are about through every place at which the
  round may be given up, for verifiers that return any number of packets.
- `OracleStops` (`OracleStopsAtFirstCorrect`): `OracleInv`.
- `LoopVerificationIsEarned` (`LoopVerifiedIsEarned`): `LoopInv` binds the last round's
  packets to the newest candidate.
- `TraceIsFaithful` (`TraceKeepsEvidence`): `DealingKeepsEvidence` says that dealing a
  list by quotient and remainder loses and repeats nothing, for every length and
  number of candidates; `RoundsInv` says where in the flat list the packets of each
  candidate are, so that in complete rounds the cuts fall between candidates.

`ArtifactStoreProofs`, for any traces, limits, sizes of values, edits and number of
writes, from `StoreAssumption` and `LimitAssumption` (the limits are numbers, and the
depth leaves room for the seven levels that every document has):

- `TypeCorrect` (`TypeOK`) and `WrittenIsAccepted` (`WrittenIsReadable`): `FileInv` says
  that without an edit whatever artifact is at the destination was built from some
  trace. That it is accepted joins two derivations of the same parts, from objects and
  from the document, and a bound on `JsonNodes`, a sum over rounds and packets, by the
  numbers of both and the size of one value.
- `EditsAreRejected`, with any number of overlapping writers: where every artifact comes
  from.
- `OneEditIsNotEnough` (`OneEditKeepsTheDecision`), also with overlapping writers: a
  document after one edit differs from a built one in one part, and whichever it is,
  validation compares it with another that is as it was built.
- `AcknowledgedStays` and `PromiseIsKept` (refinement of `WriteOnceStore`), for
  commands that do not overlap: `SerialInv` says that at most one writer is active,
  that only it can have a handle, and what the file holds at each of its steps.

`BenchmarkRunProofs`, for any sequence of commands and deaths and all configurations,
from `ConfigAssumption` and `StrideAssumption` (the types of configurations and strides),
`OutcomeAssumption` (no strategy abstains from an answer it verified),
`TornAssumption` and `NameAssumption` (`NameOrder` lists distinct names, and `None` is no
name):

- `SeedsRepeatStridesApartTheorem` (`SeedsRepeatStridesApart`), for any strides, cases and
  faults: `SeedInv`, by the order of the cursor; `OffsetsDiffer` is the arithmetic.
- `RawBeforeReportTheorem` (`RawBeforeReport`): `StoredInv`.
- `CompletedRunIsSavedTheorem` (`CompletedRunIsSaved`): `CompletionInv`.
- `ReportReconcilesTheorem` (`ReportReconciles`). `LoopInv` says that the rows are exactly
  the places the loops have passed (`Placed`), so that all strategies of a report have
  the same examples; `ReportInv` that whatever report is about to be written or on disk
  is one of such rows. `InOrderLists`, `SortedOnce` and `SortedAgain` show that the sort
  is a stable permutation and changes nothing a second time, which a report on a saved
  report relies on. The rates are sums over the rows: `SummariesReconcile` splits the rows
  by fault and by answer. `ExactTest` relates the p-value, a sum of binomial
  coefficients, to the number of sequences of the same length with a tail as uneven:
  `ChooseCounts` counts subsets by Pascal's rule, and complementing subsets makes the
  two tails equal.

`ArithmeticDemoProofs`, for every set of numbers, every float format and every number
of verifiers, from `NumberAssumption` (the finite floats contain 0, 1 and 2 and are
below `TooBig`; a task's value is finite, and if it is a float, so is its successor),
`CandidateAssumption` and `CounterexampleAssumption` (what the verifier writes into a
failed packet is a counterexample):

- `VerifiedExactlyWhenRight` (`VerifiedIffRight`), for every model. `VerdictIsRight` says
  when the verifier passes, `RaisesAtWrongAnswer` that no exception takes the place of
  a pass, `UnanimousDecision` what `decide()` makes of equal packets; `DemoInv` keeps the
  packets of a round equal.
- `RepairIsInTime`, the safety half of `ReplayRepairs`: where the property promises a
  repair, a run never ends in another way and never has a third round. `NearestIsNear`
  and `SuccessorIsNear` bound what rounding does to an expected value and to its
  successor, so that the first answer is seen to be wrong; `FailureTells` says that the
  packet of a failure carries the value the model needs; `RepairInv` joins them.

Model-checked only:

- liveness (`Terminates`, `BenignFaultsAreSurvived`, `ReplayRepairs`), where fairness and
  ENABLED are out of the prover's reach. The part of each that is safety is proved:
  `ProgressIsMade`, `HarmlessRowsSucceed`, `RepairIsInTime`;
- restricted Python (`PassIsPythons`, `FailureIsToBlame`): the interpreter is a recursive
  operator over syntax trees, and the provers accept no module that reaches one.

## Where code and documents disagree

Each is a run with one violated property; the quotations are in `PROJECT.json`.

| Run | The code | The statement |
|---|---|---|
| `repetition_is_oscillation` | A, A, A stops as `OSCILLATION` | repetition is handled as plateau (`controller.py:71`) |
| `overlapping_writers` | of two overlapping commands one overwrites what the other reported as written | refuses to overwrite different content (`README.md:67-68`) |
| `schedules_unpaired` | the seed of a row depends on its baseline, and its fault schedule on nothing else | fault schedules are paired (`docs/research-contract.md:92`) |

Seen while modelling and not given a run:

- Evidence. A round of LLM criticism alone is revised (`controller.py:55`), where
  `docs/architecture.md:41` ends without an independent check; LLM criticism against an
  independent pass ends as `VERIFIER_CONFLICT`, where `docs/architecture.md:40` has
  independent packets disagree; the verifier budget can end a run inside a round, where
  `docs/architecture.md:46` stops only before the next call of `Revise`.
- Baselines. Best-of-n answers an empty string after a model error with candidates at
  hand (`baselines.py:531` against `:507`); a budget that ends before the first answer
  leaves an empty answer that is no abstention; a fixed loop, once it has an answer, never
  abstains, neither on `VERIFIER_CONFLICT` nor on `UNVERIFIABLE` (`baselines.py:609`
  against `docs/research-contract.md:68`); the
  synthetic trace shows packets of an uneven run under other candidates
  (`baselines.py:362` against `:358`); verifier calls of tool-augmented runs are not
  reported (`bench.py:657` against `docs/research-contract.md:56`); a round ended by a
  later verifier's error or the budget loses its packets (`baselines.py:591` against
  "trace/provenance loss", `docs/research-contract.md:100`); five of
  the nine fault labels do not stop the vcer row, although `baselines.py:318` says it
  fails closed on labelled evidence.
- `run_vcer` hands on its own limit and the budget, and `verify()` looks at the budget
  only (`baselines.py:662`, `runtime.py:117`): with a larger budget the row runs longer than
  `max_iterations`. The benchmark passes equal values.
- Independence. `require_independent_evidence=False` lets dependent packets verify
  (`controller.py:49`, `docs/research-contract.md:66` has no such exception).
- Reports. Smoke runs get an exact test (`bench.py:700`, against
  `docs/research-contract.md:94`); a benchmark overwrites a frozen run
  (`docs/reproducing.md:40`). `report` on `raw_results.json` writes `report.json` again as kind
  "evaluation" without comparisons (`reporting.py:45`).
- Artifacts. Traces carry times, so two runs of a command never render the same text
  and the "identical existing artifact" is met only by writing one result twice. The
  fingerprint of a candidate is compared where it is repeated but never computed again,
  and keys of the decision beyond the six are not looked at, where `CHANGELOG.md:15-17`
  says that conflicting summaries fail closed. The limits are those of a reader: a long
  run can write an artifact that `verify-evidence` then refuses.
- Restricted Python. `and` and `or` return Booleans, `is` is silently false, the result
  of an augmented assignment is unbounded, a `break` outside a loop or a parameter
  given twice is accepted, default arguments are refused.
- Arithmetic. The replay model's branch for an unknown expectation is unreachable
  (`replay.py:64`); it does not fail first for floats from 2**53 on
  (`docs/research-contract.md:33`); an answer of `1e999` or a huge integer ends as
  `VERIFIER_ERROR` and not as a failed check (`safe_math.py:181`); a candidate whose
  text cannot be encoded makes `verify()` raise (`runtime.py:62`).

## What is not modelled

- Text: prompts, serialisation, timestamps, token estimates, HTML, argument parsing,
  the byte size of an artifact. Hashes are one bit or what was hashed; token counts are
  no control state.
- HTTP: an adapter that returns or raises. The reproduction scripts: sequences of
  commands around the benchmark.
- Packet classes foreign to `types.py`, for which the injector and the baselines have
  fallbacks. The verifier calls behind the initial evidence of a tool-augmented run.
- Writes to packets of earlier rounds of a running `verify()`: it never reads their
  hashes or verdicts again. What they do to an artifact is in `ArtifactStore`, which
  has a trace whose packet was written to after its round.
- The budget of a benchmark configuration, beyond the number of rounds; in
  `BenchmarkRun` a strategy may end in more ways than the scripted model allows, also
  with wrong answers verified, because metrics must be right about any rows.
- The branch of `run_vcer` that does not delegate (`verify_fn` is always set by then),
  and a limit of `run_vcer` that differs from its budget's (`baselines.py:662`).
- How an expression is found in a task and parsed (`safe_math.py`); fractions.
- In restricted Python: strings, containers, powers, calls other than `range` in a
  loop, keyword arguments, the normalisation of test cases.
- Means and the seeded bootstrap interval of the metrics; the generation of tasks.

## Plan

Done: types, controller, runtime with its contract, injector, recurrence under faults,
baselines, artifact and its file, metrics, benchmark and reports, restricted Python,
arithmetic demo; theorems for all of them except restricted Python, and for every
invariant of every run but its two. What is left:

1. `FaultyRecurrence`: a limit of `run_vcer` that differs from its budget's.
2. `PythonInterpreter`: containers and the calls on them; Boolean operators as values;
   the interpreter as a recursive function over a set of syntax trees, about which
   could then be proved.
3. A termination measure for `FaultyRecurrence` and `ArithmeticDemo` like `StepsLeft`.
