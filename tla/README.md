# kairos-cedar in TLA+

kairos-cedar tests two production implementations of the Cedar policy language
against each other (the Rust reference `cedar-policy`, the Go reimplementation
`cedar-go`) on inputs drawn from generators written in Lean, and does the same
for Rego and `opa`. What it reports, a rate of agreement and a list of
disagreements, is only worth something if the programs that drive the engines do
not lose, mix up or invent verdicts. This project specifies those programs in
TLA+, model-checks them with TLC, and proves the results with TLAPS.

    tlasany M.tla                       parse a module
    tlc -config X.cfg M                 check a run (module and cfg are in the table of section 3)
    tlapm MProofs.tla                   check the proofs about M

Paths below are relative to the repository; `run_diff.py` without a directory is
`experiments/phase_c_diff/run_diff.py`.

## 1. The system

| Component | State it keeps | Operations | Module |
|---|---|---|---|
| Differential driver `run_diff.py`, with the Go harness and the Rust runner it writes | phase of the run, verdicts per index, counters, sequence counter of the trace; on disk: fixtures, two input files, `disagreements.jsonl` | write fixtures, sample, build harness, Go batch, Rust batch, summarise, emit per-tuple events, write the corpus | `DiffRun`, `DiffContract` |
| CedarMicro driver `experiments/phase_c_cm_diff/run_cm_diff.py` | job list, thread pool, scratch directories, results; `samples.tsv`, `summary.json` | submit, evaluate one job, collect, leave the pool, write outputs | `CmDiff` |
| Mutation harness `experiments/phase_m_mutation/run.py` | the mutated source tree, results | apply, build, run properties, restore, report | `MutationHarness` |
| Head-to-head driver `experiments/phase_d_drt_headtohead/run_headtohead.py` | release binary, two logs, `summary.json`, `comparison_table.tex` | build replica, run it in two modes, run `run_diff.py`, publish | `HeadToHead` |
| CLI result parser `experiments/lib/cedar_cli.py` | none | classify the CLI's output, collapse to Allow or Deny | `CliVerdict`; the collapse in `DiffRun` |
| Widened harnesses, two scripts `run_widened.py` | fixtures, input files, `results.jsonl`, a file per disagreement, `SUMMARY.md` | build, two batches, classify, write | `Widened` |
| Round-trip harness `phase_h_json_roundtrip/run_roundtrip.py` | results per probe, numbered findings on disk | Go process, CLI call per probe, collate | `RoundTrip` |
| Schema prober `phase_i_schema_roundtrip/probe_schemas.py` | case rows, gap files and fixtures, `SUMMARY.md` | check-parse, two round trips, normalise, classify, file | `SchemaProbe` |
| Proposer loop `phase_a_v1/run_loop.py`, `run_iter_1..3.py` | conversation, `outputs/`, and `GenLLM.lean` in `cedar-micro` | ask the model, compile, log, feed back | `Proposer` |
| OPA driver `phase_k_opa_diff/run_opa_diff.py` | results, counts, labels | Lean run, one opa call per tuple, exit code | `OpaDiff` |
| Symbolic-compiler sweep `phase_j_symcc_sweep/run_symcc.py` | rows, counts, `results.json` | call, classify, count, write | `SymccSweep` |
| Property runner `experiments/phase_l_pbt/run.py` | one script file in `cedar-full` | sample, judge P1 to P4 | `PbtRun` |
| Lean oracle runner `lean_runner.py` with `MeasureLean.lean` | answers by key | run, file each line, print | `LeanBatch` |
| cedar-drt replica, byte fuzzer (Rust) | counters, time budget | attempt, summarise | as a writer of the log, in `HeadToHead` |
| Generators in Lean (`cedar-full`) | none, pure | enumerate a support | listing order in `DiffRun`, arms in `PbtRun` |
| Demo, attribution, other Lean sources, preflight, linter, image, CI, reproducers | none | | section 5 |

How they interact. Every engine and every Lean tool runs in a container that
mounts the checkout; a driver hands it work through *files in the checkout with
fixed names* and reads its standard output. The head-to-head driver and the demo
call `run_diff.py` as a child process; the mutation harness calls `lake build`
and the property runner. The single proposer scripts read what the one before
them left in `outputs/`. The drivers that trace do so through a best-effort sink.
There are no locks anywhere.

What is hard about it:

- *Shared files.* Nothing stops two runs in one checkout, or two workers of one
  run, from replacing each other's input between a write and a container's read.
- *Crashes.* `write_text` and `open("w")` truncate first. A killed driver leaves
  torn fixtures, a torn corpus, a mutated or emptied source file, an old log, a
  source without its log, files of findings that no summary lists.
- *Partial answers.* A batch that dies half-way is accepted with what it printed,
  and a CLI that dies without a word is read as a Deny.
- *Timeouts.* `subprocess.run(timeout=...)` raises, in places where nobody
  catches it, and it ends the docker client, not the container.
- *Lost events.* The trace sink may fail at any event; the failure is swallowed.
- *Stale state.* Outputs and logs of earlier runs stay where later ones look.

What makes each component correct:

- Driver: a reported disagreement is one (`DisagreementsReal`), a verdict is filed
  under its own tuple whatever else happens in the checkout (`VerdictsFaithful`),
  nothing of a dead run leaks into the next (`NoLeftovers`), the rates are rates,
  the corpus is one run's, the trace tells the run in order and ends as it ended.
- CedarMicro driver: a recorded decision belongs to its job, the pool is drained
  before anything is written, the exit code vouches for all calls.
- Mutation harness: the tree comes back, damage of a kill is confined and
  repairable, verdicts are about one mutation, the exit code covers all of them.
- Head-to-head driver: a column shows this invocation's numbers; table and
  summary belong together.
- Widened, round-trip and schema harnesses: what they file is real, what is real
  is filed, and a summary lists nothing that has no file.
- Proposer: an accepting script leaves a generator that compiles, and what is fed
  back belongs to what was proposed.
- OPA driver, sweep, property runner, CLI parser, oracle runner: counts, labels,
  classes and exit codes follow from what the tools said, also when tools fail,
  and where they do not, the property says by how much.

## 2. Modules

`DiffRun` is one action per step of `_run_diff` for each of a set of `Runs`; the
checkout is shared, everything else is per run. The stage names are those of the
code's phases; a file write is two actions (truncate, fill) with the torn content
in between, because the hazards live there. `TruncateFixtures`/`WriteFixtures` are
`setup_fixtures`, `SampleTuples`/`NoTuples`/`SampleRaise` the three ends of
`sample_tuples` (the first may come with fewer tuples than were asked for, because a
line that does not parse is skipped), `BuildGoHarness`/`BuildFails` those of the build.
A run that fails goes on in three steps of its own, so that it can be killed between
them: the phase's error event, `CloseFailed`, which closes the trace, and `ExitFailed`. `WriteGoInput`/`FlushGoInput`/`RunGoBatch` are `run_go_batch` and
`WriteRustInput`/`FlushRustInput`/`RunRustBatch` `run_rust_batch`, `Summarise` the
comparison loop, `EmitTuple` one turn of the event loop, `Complete` the closing
event, `NoCorpus`/`TruncateCorpus`/`WriteCorpus` the end of `_run_diff`.
`RaiseUncaught` is every exception without a handler, `Kill` ends the process
anywhere. What the engines say of each tuple (`rustSem`, `goSem`) is chosen
freely at the start and fixed. `Overlap` says whether runs may overlap.

`DiffContract` is what a run promises without files and harnesses: waiting,
working, publishing, published or abandoned, and only tuples on which the engines
differ are ever published, or on which the Rust CLI has an error and Go allows. `DiffRun!ImplementsContract` is its refinement: the
phases of the code map to the five phases, `corpus` to `kept`, the differing
indices to those on which the fixed answers differ.

`CmDiff` has the main thread and the workers as separate processes. Main:
`Submit`, `Collect`, `CollectRaises`, `LeavePool`, `OpenTsv`, `FillTsv`,
`WriteSummary`. A worker: `Take`, the file writes of `_rust_authorize` in their
order (each truncate, fill), two reads by the container, an answer or an
exception. `ScratchOf` is the directory a worker's thread identifier gives it, a
constant, so that the same module states both what the docstring promises
(directories of their own) and what CPython on Linux does (all the same).

`MutationHarness` is a sequence of invocations on one tree. A file is the set of
mutations in it, or `TornFile`. `BreaksBuild` and `BreaksPbt` say which mutations the
build and the properties detect, constants; detection in a tree with several
mutations is taken to be monotone. A tool may also fail for a reason of its own
(`BuildBreaksDown`, `PbtBreaksDown`), or time out (`ToolRaises`).

`HeadToHead` is a sequence of invocations in one checkout. The numbers in a log, a
column or an output are known by the invocation whose replica printed them. The
replica is a process of its own that outlives a timeout or a killed driver
(`writers`); two of them on one log write at their own offsets, and what the last
line of the log then is, is left open (`shared`).

The other harnesses are smaller and share no file with each other:

- `Widened` is both `run_widened.py` scripts, which differ in probes and wording.
  Invocations overlap in one directory: `WideStart` (importing the script rewrites
  the fixtures), `WriteInput`, `GoBatch`, `RustBatch`, then `WriteResults`, one
  `WriteDisagreement` per file, `WriteSummaryMd`. `Label` is `classify`, an
  operator on two answers. `spoiled` observes which answers were given with torn
  fixtures or by a CLI that died.
- `RoundTrip` is `run_roundtrip.py` with its flags: `GoLeg` is one process for all
  probes, which a "fatal" probe ends, `RustLeg` a call per probe, late or dead
  ones included, `Collate` one probe of the collation with its number and file.
- `SchemaProbe` is `probe_schemas.py`. The normalisation is an operator on type
  nodes (`NormaliseTypeNode`, `NormaliseTop`), compared in the properties with the
  type a node stands for (`TypeOf`), written from the Cedar JSON schema format. A round
  trip may bring back any node, an extension with a name of somebody's namespace
  included, and the two places where the code takes different types for one are named
  (`Confused`). The rest is the sweep (`SpCase`), the gap files (`SpFile`) and the summary (`SpReport`).
- `Proposer` is the loop and the three single attempts, one invocation at a time:
  `Ask`, `WriteGenLLM`, `Build`, `WriteLoopSummary`. A source is the number of the
  answer it came with; a log knows the source it is about, and nothing else of the
  model's answers matters.
- `OpaDiff` is one sweep: `Agrees` and `Classify` are the rule and the label, with all
  branches of `classify_disagreement`; `OpaReport`, `OpaWrite` (the file of `--output`,
  truncated, then filled) and `OpaExit` the end. opa may fail on any tuple, also with a
  message that contains the word the exit code looks for, and `OpaStops` is an exception
  or a kill, anywhere.
- `SymccSweep` takes every policy through every subcommand (`SymccCall`), classifies
  by elapsed time and output (`ClassifyOutput`), and writes at the very end:
  `OpenSweep`, `FlushSweep` any number of times, `CloseSweep`, with `SweepStops` between
  any two of them.
- `PbtRun` samples with a script that every invocation writes, runs and removes
  under one name; `P1` to `P4` are operators on the rows. What a generator yields
  follows from the arms it has, and `dropped` is a regression that lost one.
- `CliVerdict` has a CLI that prints piece by piece and may be killed between two
  pieces, and `ParseCedarCliResult` on the words that were printed.
- `LeanBatch` has the lines of the process, with those of `lake` between them, the
  key each line is filed under (`ErrorKey`, `TupleKey`), and the script's printing.

`Experiments` composes the nine: a behaviour is one of one harness while the others
stay where they began. That this loses nothing is a theorem
(`HarnessesStayApart`) in one direction, and in the other a fact about the code:
no path one of them writes is read by another. It lets one run check all of them.
`Pinned` fixes what the engines say of harnesses that are not in use, and
`ExperimentsTypeOK` asks the type invariant of the harness that is.

`MCDrivers` does the same for `CmDiff`, `MutationHarness` and `HeadToHead`: a behaviour
is one of the driver that `tool` names, with the fairness that driver has alone. It
serves the runs only; the proofs are about the three modules themselves, whose
properties carry the prefixes `Mut` and `Hh` where the names would clash.

`MCDiffRun`, `MCCmDiff`, `MCMutationHarness`, `MCSchemaProbe`, `MCSymccSweep` and
`MCExperiments` give constants for TLC. The `*Proofs` modules hold the theorems. Definitions marked
"Variant" in a comment are mutations of the definition after them, used to see
that a property can fail.

### Abstractions that matter

- A tuple is its index; the generator lists its support in one order and repeats
  it (`MeasureDiff.lean`), so `PayloadOf(i) == i % SupportSize`. This is the reason
  why overlapping runs do not mix verdicts, and it is a variable of the check: the
  variant `LinesDrawnPerSize`, a sampler whose draw depends on the sample size,
  breaks `VerdictsFaithful` and `ImplementsContract`.
- A file that is being written holds any number of complete lines. A torn last
  line is left out: both harnesses drop or die on it, which the prefixes cover.
- Files whose content is the same text in every run (fixtures, schema, entities of
  `CmDiff`, the runner script) are only absent, torn or written.
- A piece of text is the set of the words in it that a parser looks for
  (`CliVerdict`), a name is a namespace and an identifier (`SchemaProbe`).
- In `DiffRun` the outcome of the CLI on a tuple is the one the parser assigns to it;
  a CLI that dies without output is in `CliVerdict`.
- In `Widened` a tuple has a single policy, as in `widened_shapes.py`, so that an
  evaluation error leaves nothing that could allow (`SinglePolicyAssumption`).
- In `CmDiff` the probe context and the expression are the job; the translation of
  an expression to Cedar text is left out.
- In `DiffRun` a line that does not parse is a tuple less; at most `MaxDropped` of them.
- `decision_outcome` tells an evaluation error from a parse error no more than from a
  Deny; the runs of `DiffRun` have the parse error stand for both, the proofs have all
  four outcomes.
- In `SymccSweep` five of the nine categories other than TIMEOUT are told apart; a
  process that a hang-up ended (`SIGHUP`) has the exit code of a timeout. In `PbtRun` a
  policy row shows one scope kind for the three roles alike, and so the sixth kind of
  an action scope, `actionInAny`, is left out.
- Python is taken to have no write errors other than those `FixturesRaise` and
  `RaiseUncaught` stand for; an I/O error inside `apply_mutation` or `restore` is
  the same as a kill for the tree.
- The trace events of `HeadToHead` and the session wrapper of both drivers are left
  out. One mutation harness and one head-to-head driver run at a time.

## 3. Runs

| Run | Module, cfg | What it asks | Bounds |
|---|---|---|---|
| `diff_runs` | `MCDiffRun`, `DiffRun_runs` | is what a run reports and traces what happened: `DisagreementsReal`, `RowsInOrder`, `TraceEndsHonest`, `TupleRowsMatchSummary`; do overlapping runs mix up verdicts: `VerdictsFaithful` | two overlapping runs of 2 and 1 tuples and engines that tell the two apart; or one traced run of two tuples, with Rust or without, all answers, one tuple that does not parse, one lost event |
| `diff_seq` | `MCDiffRun`, `DiffRun_seq` | does a killed run leave something for the next, and does every run end: `TypeOK`, `NoLeftovers`, `RatesAreProportions`, `CorpusIsOneRuns`, `ImplementsContract`, `Terminates` | two runs of 2 and 1 tuples, in either order, one after the other, both with Rust, so that both may have a corpus; all answers |
| `drivers` | `MCDrivers`, `Drivers` | CedarMicro: `TypeOK`, `DecisionsFaithful`, `StopsCleanly`, `ExitCodeHonest`, `Terminates`; mutation harness: `MutTypeOK`, `TreeRestored`, `VerdictsHonest`, `ExitMeansCoverage`, `DamageConfined`, `MutTerminates`; head-to-head: `HhTypeOK`, `FreshWhenRun`, `OutputsAgree`, `HhTerminates` | two workers with own directories, two samples, four jobs; three invocations, four mutations in two files; two invocations, one edit of the replica |
| `experiments` | `MCExperiments`, `Experiments` | the nine harnesses: `DisagreementsTruthful` and `FilesBackSummary` (widened), `FindingsAreReal` and `FindingsComplete` (round trip), `CleanKeepsTypes` and `LossesAreFiled` (schemas), `AcceptedGeneratorStays` and `LoopFeedsItsErrors` (proposer), `OpaReportTruthful`, `SweepReportTruthful`, `VerdictIsTheGenerators` (property runner), `VerdictIsCedars` (CLI), `EveryLineIsFiled` (oracle runner); `ExperimentsTypeOK` | see below |

Bounds of `experiments`: two overlapping invocations of the widened, round-trip and
schema harnesses and of the property runner, over two tuples, probes or schemas;
three invocations of the proposer with four answers and two attempts in the loop;
three OPA tuples with every answer; one policy through two subcommands in two
sweeps, with a timeout below and one above the constant `TIMEOUT_S` and calls of one
and of thirty seconds; two targets with the same
heads, two edge cases; every outcome and set of words of the CLI; three tuples and
two lines of `lake`. The two invocations `i1` and `i2` are interchangeable in all
four harnesses and are declared symmetric; every property of the run is an
invariant.

Runs in which the code disagrees with its own text, each with one property:

| Run | Module, cfg | The text | The code |
|---|---|---|---|
| `cm_shared` | `MCCmDiff`, `CmDiff_shared` | run_cm_diff.py:190 "unique worker_id so scratch dirs don't collide" | identifiers are multiples of 64, all workers share one directory |
| `h2h_stale` | `HeadToHead`, `HeadToHead_stale` | run_headtohead.py:169 "Run the ... binary ... and parse its summary" | the log of an earlier or an orphaned container is parsed |
| `h2h_build` | `HeadToHead`, `HeadToHead_build` | run_headtohead.py:145 stops after "[build] FAILED" | the pipe to `tail` hides the failure as long as an old binary exists |
| `mut_lived` | `MCMutationHarness`, `MutationHarness_lived` | phase_m_mutation/run.py:16 "Runs the PBT harness (phase_l_pbt) if `lake build` survives", :19 "LIVED (no test failed ...)" | a mutation aimed at the build that builds is reported as lived, and as a test gap, without the property runner (lines 245-250) |
| `symcc_timeout` | `MCSymccSweep`, `SymccSweep_timeout` | run_symcc.py:260 `--timeout` is the "Per-invocation timeout (s)" | line 142 compares with the constant 30: with `--timeout 60` an answer after 40 seconds is a TIMEOUT |
| `diff_errors` | `MCDiffRun`, `DiffRun_errors` | run_diff.py:751 "both Rust+Go returned non-error decision" | the Rust runner prints an error as Deny (`decision_outcome`), and the guard of line 677 does not see it |
| `schema_spelling` | `MCSchemaProbe`, `SchemaProbe_spelling` | probe_schemas.py:628 "semantically-equivalent ... spellings deep-equal" | a node that is built anew loses `required`: an optional attribute in another spelling is a silent diff |
| `proposer_feedback` | `Proposer`, `Proposer_feedback` | run_iter_2.py:3 "we feed the exact rejection reason back" | source and log are two files; a first attempt that is repeated and cut short leaves a pair that does not belong together |

More texts the models depart from, without a run of their own:

- run_diff.py:61 "every meaningful callsite should emit so the run is auditable ...
  even on crash": a timeout in three of the five phases leaves no event
  (`RaiseUncaught`). run_diff.py:698 "one differential_test_tuple event per compared
  pair": a tuple with a Go error has an event and is not compared (`Emitted`).
- run_opa_diff.py:158-161 calls a specification's false against opa's undefined a
  POSSIBLE-BUG ("if our spec says false, OPA should agree"); main has counted it as an
  agreement before (264-270, "is *expected* for complete rules"), so the branch is never
  reached. `OpaReportTruthful` demands neither (`Disputed`).
- probe_schemas.py:659 "Strip a `__cedar::` prefix if present": the code strips any
  namespace of an extension's name, and lines 662-667 take an entity type for whatever
  else has its name. `CleanKeepsTypes` exempts these two confusions, and no other.
- demo/run_demo.py:384 "both implementations agree on every decision": part 5 goes
  by the exit code of `run_diff.py` (line 399), which is 0 whatever the rates are.
- run_roundtrip.py:385 "Return non-zero if any panics found": `main` prints the
  number and returns (`RtFinish`).

What the properties exempt, since the code cannot tell: a CLI that was killed, whose
output reads as a Deny (`VerdictIsCedars`, `DisagreementsTruthful`), a `check-parse` that
died, which reads as an ill-formed schema (`LossesAreFiled`), a mutation that a broken
tool killed (`VerdictsHonest`), a rate above one while another run has replaced the input
file (`RatesAreProportions` is about runs that do not overlap). The list of hazards says
so at each.

Why the bounds are enough. Mixing up verdicts needs two tuples with different
payloads and a foreign file of another length: two tuples, a support of two, runs
of 2 and 1. A leak from a dead run needs one predecessor. A rate above one, a gap
in the rows and a disagreement next to an agreement all occur with two tuples. For
the pool, two workers and four jobs give every pair of jobs in flight and a worker
that starts a second job while another holds a failed one. For the mutation
harness, two mutations of one file, one of another file, and a mutation of each kind
of detection; the third invocation starts on a tree that a second one, itself
started on a damaged tree, has left. For the head-to-head driver the second
invocation finds logs, outputs, a binary and containers of the first. In
`experiments` a second tuple or probe is what a dead harness hides or another
invocation's file lacks, and a second invocation is who overlaps or comes after a
kill; the third one of the proposer reads a pair that the second has half replaced.
What larger instances would add is covered by the proofs, which hold for all of
them. The bounds have names: `MaxTarget`, `MaxDropped`, `MaxLost`, `RustSays`,
`GoSays`, `MutInvocations`, `HhInvocations`, `MaxEdits`, `WideRustSays`, `WideGoSays`, `RtGoSays`, `RtRustSays`,
`SpGoBacks`, `SpRustBacks`, `Answers`, `Launches`, `OpaMay`, `NPolicies`, `Timeouts`,
`Durations`, `SweepLaunches`, `MaxNoise`.

In all runs the system really may stop (all runs ended, no invocation left), so
deadlock is not checked; that nothing stops early is what `Terminates`, `MutTerminates`
and `HhTerminates` say.

Fairness. Weak fairness of the driver's own steps (`Step`, `MainStep`, `Work`, `MutStep`,
`HhStep`):
a process that can go on does. Where a step is a call into a container it always
can, because the call has a timeout, and the timeout is a step (`RaiseUncaught`,
`CallRaises`, `ToolRaises`, `TimeOut`). No fairness is assumed of a replica, of
starting a run, or of a kill. Termination is asked of the drivers that wait for
somebody (a pool, a container, an orphan); the nine harnesses of `Experiments` are
single threads without waiting, and every step moves them on, so that it would say
nothing of them.

## 4. Proofs

All theorems hold for every value of the constants under the named assumptions of
the module that declares them (`NTargetAssumption`, `ScratchAssumption`, ...), which
say no more than the types of the parameters, that no run is named like a state of
the corpus (`RunsAssumption`), that no user's name is a builtin of Cedar
(`UserNamesAssumption`), that a widened tuple has one policy
(`SinglePolicyAssumption`), that the sweep's list of subcommands repeats none
(`SweepAssumption`), and that the tables of `main.rs` expect what a generator with
all its arms yields, which its thresholds need (`ArmsAssumption`). Every invariant
that a passing run checks is proved.

- `DiffRunProofs`. `TypeCorrect`. `VerdictsAreFaithful` and `DisagreementsAreReal`
  from `FaithfulInv`: an input file, whoever wrote it and however much of it, lists
  tuples under their own indices (`InputsFaithful`), and a verdict is "skipped"
  exactly in a run without Rust. `VerdictsFaithful` alone is not inductive, since
  nothing in it speaks about the files. `NothingLeftOver` from `ExclusiveInv`:
  without overlap one run is active (`OneActive`), and what it reads is what it has
  written (`FilesInPlace`). `RatesAreRates` and `CorpusHasOneOwner` follow from
  that with the cardinalities of the sample and of the valid verdicts.
  `DriverImplementsContract`, for runs that do not overlap: the step simulation, one
  lemma per kind of step (silent, phase move, clear, publish); what it publishes is
  what `DisagreementsReal` allows.
  The trace: every step but a turn of the event loop either emits nothing or a
  `Forward` sequence of events, whose ranks lie between the ranks of the stages it
  leads from and to (`StepSpeaks`, `StageRank`). `RowsAreInOrder` from `RowsInv`: the
  rows are numbered up to the counter and ranked up to the stage, the tuples among
  them up to the cursor. `TraceEndsTell` and `TupleRowsMatch` count with `EmitLoses`:
  a row is missing only where the loss, the counter minus the number of rows, grows
  (`EndsInv`, `TuplesInv`); a run that has closed its trace as failed and not yet
  exited is a stage of its own there.
- `CmDiffProofs`. `TypeCorrect`. `DecisionsAreFaithfulApart`: what a worker has
  written is still there when its container reads (`OwnFiles`), as long as two
  workers of one directory are never busy at once (`Apart`); `DecisionsAreFaithful`,
  for workers with a directory each (`Unshared`), is its corollary.
  `PoolIsDrained` from `CleanInv`: a worker's job is running, and no other's.
  `ExitCodeIsHonest` from `HonestInv` on top of it. `NobodyWaitsForNobody`, from
  `Carried`: a job that runs is in somebody's hands, and main waits for no job that
  was not submitted or was cancelled; so main or a worker has a step to take.
- `MutationHarnessProofs`. `TypeCorrect`. `TreeIsRestored` and `OneFileAtRisk` from
  `RestoreInv`, which says what the tree is at each stage. `VerdictsAreHonest` and
  `ExitCodeCovers` from `JudgedInv` on top of it, which says which
  mutations have a verdict, and that one at the property runner has built.
- `HeadToHeadProofs`. `TypeCorrect`. `ColumnsAreFresh` from `FreshInv`: as long as no
  container has outlived its call, the only writer is the one the driver waits for
  (`OneWriter`), and no column is set before its mode has run (`NotYetSet`).
  `OutputsAreConsistent` from `PublishInv`.
- `WidenedProofs`. `WideTypeCorrect`, `DisagreementsAreTruthful` (answers are the
  engines' unless spoiled, for any foreign input file) and `SummaryIsBacked` (what
  is still to be written and what is on disk make up the disagreements, and the
  directory never shrinks).
- `SchemaProbeProofs`. `SpTypeCorrect`; `CleanIsClean`, whose heart is that equal
  normal forms stand for types that are equal or one of the two confusions, for every
  identifier and namespace; `LossesStayFiled`.
- `ProposerProofs`. `PrTypeCorrect`, `AcceptedStays`, `LoopConversation`.
- `HarnessProofs`. The type invariant and one theorem per property of the CLI parser,
  the OPA driver, the round-trip harness, the oracle runner, the sweep and the
  property runner, each from an inductive invariant of its own. For
  `VerdictsAreTheGenerators` a lost arm has to be shown to reach the census:
  counting the random policies as triples gives P3, and the bodies left give P4.
  `HarnessesStayApart`: a behaviour of `Experiments` is one of each harness alone;
  from it `ExperimentsTyped`, and `ReportsStayTrue` for all nine harnesses.
  `SweepReportsTruth` rests on the file being the beginning of the rows at each of its
  flushes (`SweepFile`), `OpaReportsTruth` on which stages leave which file (`OpaFile`).

Five of the eight claims that the runs refute have a theorem, which says what they
need to hold; what it names is then the whole reason for the violation. Of the other
three `DisagreementsReal`, `SweepReportTruthful` and `VerdictsHonest` say, and the
proofs show, what the code does instead.

| claim | theorem | holds if |
| --- | --- | --- |
| `DecisionsFaithful` | `DecisionsAreFaithfulApart` | two workers of one directory are never busy at once |
| `NumbersAreThisRuns` | `NumbersAreOurs` | no container outlives its call, and docker comes as far as the shell (`LogIsOurs`) |
| `FailedBuildStops` | `FailedFirstBuildStops` | no binary of an earlier build is there |
| `SilentDiffsDiffer` | `SilentDiffsAreReal` | no attribute is optional, and no reserved or extension name is spelled directly as a type (`UsualSchema`) |
| `FeedbackIsExact` | `FeedbackIsExactUnlessCutShort` | an attempt that was answered comes to its log (`AttemptCompletes`) |

Only model-checked: the termination of each driver, which is out of the prover's reach
(fairness and ENABLED). The half of it that needs neither is proved, with a measure
that every step lowers: `RunsAreBounded` (a run of run_diff.py has `--n` + 16 steps,
and no overlapping run gives it more), `RunIsBounded` (all threads of the pool have
10 steps a job and 5 between them), and `InvocationsRunOut` of the mutation harness
(seven steps a mutation, and seven) and of the head-to-head driver (twelve). For the
pool, whose threads do wait for each other, `NobodyWaitsForNobody` adds that some
step is possible; what remains for TLC is that one that is possible is taken.

## 5. Not modelled

- Attribution (`cedar-spec-bridge`): a decision table over three verdicts whose
  cases are its own specification, with lemmas proved in Lean; no driver calls it.
- The Lean oracle, the generators of `cedar-micro`, `cedar-full` and `rego-full`, and
  the Rego evaluator: pure functions that are proved sound, or are the
  specification themselves, in Lean, for all inputs. A bounded check would say less.
  What the drivers rely on is modelled: the order of the support, and the arms.
- The mutators of the cedar-drt replica and the byte fuzzer: loops that count
  attempts until a budget is used up and share no state; what others see of them,
  a log with a summary line at the end, is in `HeadToHead`.
- The demo: five commands and their exit codes. What is to be said of part 5 is above.
- Preflight (independent checks, one exit code), `tools/md_lint.py` (text
  processing nobody depends on), the container image, CI, reproducers and examples
  (configuration and fixed inputs).
