------------------------------ MODULE DiffRun ------------------------------
(***************************************************************************)
(* The differential driver experiments/phase_c_diff/run_diff.py: several   *)
(* invocations ("runs") of the program in one checkout.  A run writes the  *)
(* fixtures, samples tuples from the Lean generator, builds the Go harness,*)
(* hands all tuples to the Go harness and then to the Rust CLI through     *)
(* input files in the checkout, and compares the two sets of verdicts.     *)
(*                                                                         *)
(* The checkout (fixtures, input files, disagreement corpus) is shared by  *)
(* all runs; everything else belongs to one process.  A tuple is known by  *)
(* its index; PayloadOf gives the element of the generator's support the   *)
(* index stands for.                                                       *)
(***************************************************************************)
EXTENDS Integers, FiniteSets, Sequences

CONSTANTS
    Runs,          \* the invocations of the driver
    NTarget,       \* --n of each run
    MaxTarget,     \* bound: no run asks for more than this many tuples
    SkipRust,      \* --skip-rust of each run
    HasSink,       \* whether the run has a trace sink (session mode)
    SupportSize,   \* genTuple.val.length in the Lean generator
    RustSays,      \* bound: what the Rust CLI may answer on a tuple
    GoSays,        \* bound: what cedar-go may answer on a tuple
    MaxDropped,    \* bound: lines of the sampler a run may fail to parse
    MaxLost,       \* bound: trace events the sink may fail to store, per run
    Overlap        \* whether a run may start while another one is active

ASSUME RunsAssumption == Runs \cap {"none", "torn"} = {}  \* no run has the name of a corpus state
ASSUME NTargetAssumption == MaxTarget \in Nat /\ NTarget \in [Runs -> 0 .. MaxTarget]
ASSUME FlagsAssumption ==
    /\ SkipRust \in [Runs -> BOOLEAN]
    /\ HasSink \in [Runs -> BOOLEAN]
    /\ Overlap \in BOOLEAN
ASSUME SupportAssumption == SupportSize \in Nat \ {0}
ASSUME BoundsAssumption == MaxLost \in Nat /\ MaxDropped \in Nat

VARIABLES
    pc,         \* where each run is
    sampled,    \* the indices of the tuples of each run
    goDec,      \* go_decisions: index -> verdict, a partial function
    rustDec,    \* rust_decisions
    report,     \* the counters of the summary
    cursor,     \* next tuple of the per-tuple event loop
    trace,      \* rows of the trace store written by each run
    seq,        \* _EMIT_SEQUENCE[0] of each run
    fixtures,   \* schema.cedarschema and entities.json in the checkout
    goInput,    \* _go_input.jsonl: index -> payload, the lines on disk
    rustInput,  \* _rust_input.jsonl
    corpus,     \* disagreements.jsonl
    tornRead,   \* observation: a harness of the run read torn fixtures
    rustSem,    \* what the Rust CLI says of each payload (fixed)
    goSem       \* what cedar-go says of each payload (fixed)

checkout == <<fixtures, goInput, rustInput, corpus>>
verdicts == <<sampled, goDec, rustDec, tornRead>>
engines  == <<rustSem, goSem>>
summary  == <<report, cursor>>
vars == <<pc, sampled, goDec, rustDec, report, cursor, trace, seq,
          fixtures, goInput, rustInput, corpus, tornRead, rustSem, goSem>>

-----------------------------------------------------------------------------
\* Data

Phases == {"fixtures", "sample_tuples", "build_go_harness",
           "go_batch", "rust_per_tuple"}

Payload == 0 .. SupportSize - 1
PayloadOf(i) == i % SupportSize

\* Variant: the sampler draws differently for each sample size.
LinesDrawnPerSize(indices) == [i \in indices |-> PayloadOf(i + Cardinality(indices))]

\* The lines the tuples with the given indices are in an input file.
Lines(indices) == [i \in indices |-> PayloadOf(i)]

\* What a prefix of an input file lists: the file is in the order of the indices.
UpTo(indices, k) == {i \in indices : i < k}

RustOutcome == {"Allow", "Deny", "ParseError", "EvalError"}
GoOutcome   == {"Allow", "Deny", "ERROR"}
ASSUME AnswersAssumption == RustSays \subseteq RustOutcome /\ GoSays \subseteq GoOutcome
Verdict     == {"Allow", "Deny", "ERROR", "skipped"}

\* Variant: the four outcomes are handed on.
RustDecisionRaw(outcome) == outcome

\* CedarCLIResult.decision_outcome
RustDecision(outcome) == IF outcome = "Allow" THEN "Allow" ELSE "Deny"

Failed == {"raised", "exit1"}
Ended  == {"exit0", "exit1", "raised", "killed"}
Stage  == {"idle", "fixtures", "fixtures_torn", "sample_tuples",
           "build_go_harness", "go_write", "go_flush", "go_batch",
           "rust_write", "rust_flush", "rust_per_tuple", "summary",
           "tuple_events", "run_complete", "corpus", "corpus_torn",
           "failing", "failed_closed"} \cup Ended

\* Trace events
RunStart      == [type |-> "run_start"]
PhaseStart(p) == [type |-> "phase_start", phase |-> p]
PhaseError(p) == [type |-> "phase_error", phase |-> p]
PhaseDone(p)  == [type |-> "phase_complete", phase |-> p]
RunComplete(s) == [type |-> "run_complete", status |-> s]
TupleEvent(i, d) == [type |-> "differential_test_tuple", idx |-> i, diff_found |-> d]

Event == {RunStart}
    \cup [type: {"phase_start", "phase_error", "phase_complete"}, phase: Phases]
    \cup [type: {"run_complete"}, status: {"succeeded", "failed"}]
    \cup [type: {"differential_test_tuple"}, idx: Nat, diff_found: BOOLEAN]

Row == [n: Nat \ {0}, ev: Event]

NoCorpusYet == [run |-> "none"]
TornCorpus == [run |-> "torn"]

NoReport == [goValid |-> 0, compared |-> {}, agreements |-> {}, disagreements |-> {}]

\* The tuples a run compares: rust_decisions.get(idx, "missing") and the
\* Go one both are real decisions.
Get(dec, i) == IF i \in DOMAIN dec THEN dec[i] ELSE "missing"
\* Variant: engine errors are compared like verdicts.
IsAnswer(v) == v \notin {"skipped", "missing"}
IsDecision(v) == v \notin {"ERROR", "skipped", "missing"}
Compared(r) == {i \in sampled[r] : /\ IsDecision(Get(rustDec[r], i))
                                   /\ IsDecision(Get(goDec[r], i))}

-----------------------------------------------------------------------------
\* _emit: the counter moves before sink.emit is tried and a failing emit is
\* swallowed, so a lost event leaves a gap in the sequence numbers.

Lost(r) == seq[r] - Cardinality(trace[r])

\* Variant: the counter only counts what the sink took.
EmitCountingStored(r, evs) ==
    IF HasSink[r]
    THEN \E lost \in SUBSET (1 .. Len(evs)) :
            /\ Lost(r) + Cardinality(lost) <= MaxLost
            /\ trace' = [trace EXCEPT ![r] = @ \cup
                    {[n |-> seq[r] + i, ev |-> evs[i]] : i \in (1 .. Len(evs)) \ lost}]
            /\ seq' = [seq EXCEPT ![r] = @ + Len(evs) - Cardinality(lost)]
    ELSE UNCHANGED <<trace, seq>>

Emit(r, evs) ==
    IF HasSink[r]
    THEN \E lost \in SUBSET (1 .. Len(evs)) :
            /\ Lost(r) + Cardinality(lost) <= MaxLost
            /\ trace' = [trace EXCEPT ![r] = @ \cup
                    {[n |-> seq[r] + i, ev |-> evs[i]] : i \in (1 .. Len(evs)) \ lost}]
            /\ seq' = [seq EXCEPT ![r] = @ + Len(evs)]
    ELSE UNCHANGED <<trace, seq>>

Goto(r, stage) == pc' = [pc EXCEPT ![r] = stage]

-----------------------------------------------------------------------------
Init ==
    /\ pc = [r \in Runs |-> "idle"]
    /\ sampled = [r \in Runs |-> {}]
    /\ goDec = [r \in Runs |-> <<>>]
    /\ rustDec = [r \in Runs |-> <<>>]
    /\ report = [r \in Runs |-> NoReport]
    /\ cursor = [r \in Runs |-> 0]
    /\ trace = [r \in Runs |-> {}]
    /\ seq = [r \in Runs |-> 0]
    /\ fixtures = "absent"
    /\ goInput = <<>>
    /\ rustInput = <<>>
    /\ corpus = NoCorpusYet
    /\ tornRead = [r \in Runs |-> FALSE]
    /\ rustSem \in [Payload -> RustSays]
    /\ goSem \in [Payload -> GoSays]

\* main, _run_diff up to the first write.
Start(r) ==
    /\ pc[r] = "idle"
    /\ Overlap \/ \A q \in Runs : pc[q] \in {"idle"} \cup Ended
    /\ Goto(r, "fixtures")
    /\ Emit(r, <<RunStart, PhaseStart("fixtures")>>)
    /\ UNCHANGED <<verdicts, summary, checkout, engines>>

\* Variant: fixtures that exist are not written again.
KeepExistingFixtures(r) ==
    /\ pc[r] = "fixtures"
    /\ fixtures' = IF fixtures = "absent" THEN "torn" ELSE fixtures
    /\ Goto(r, IF fixtures = "absent" THEN "fixtures_torn" ELSE "sample_tuples")
    /\ UNCHANGED <<verdicts, summary, trace, seq, goInput, rustInput, corpus, engines>>

\* setup_fixtures: write_text truncates before it writes.
TruncateFixtures(r) ==
    /\ pc[r] = "fixtures"
    /\ fixtures' = "torn"
    /\ Goto(r, "fixtures_torn")
    /\ UNCHANGED <<verdicts, summary, trace, seq, goInput, rustInput, corpus, engines>>

WriteFixtures(r) ==
    /\ pc[r] = "fixtures_torn"
    /\ fixtures' = "written"
    /\ Goto(r, "sample_tuples")
    /\ Emit(r, <<PhaseDone("fixtures"), PhaseStart("sample_tuples")>>)
    /\ UNCHANGED <<verdicts, summary, goInput, rustInput, corpus, engines>>

FixturesRaise(r) ==
    /\ pc[r] \in {"fixtures", "fixtures_torn"}
    /\ Goto(r, "raised")
    /\ Emit(r, <<PhaseError("fixtures")>>)
    /\ UNCHANGED <<verdicts, summary, checkout, engines>>

\* Lines of measure-diff with too few fields are dropped; fewer tuples than
\* asked for are noted and the run goes on.
SampleTuples(r) ==
    /\ pc[r] = "sample_tuples"
    /\ \E parsed \in SUBSET (0 .. NTarget[r] - 1) :
            /\ parsed # {}
            /\ NTarget[r] <= Cardinality(parsed) + MaxDropped
            /\ sampled' = [sampled EXCEPT ![r] = parsed]
    /\ Goto(r, "build_go_harness")
    /\ Emit(r, <<PhaseDone("sample_tuples"), PhaseStart("build_go_harness")>>)
    /\ UNCHANGED <<goDec, rustDec, tornRead, summary, checkout, engines>>

\* Variant: the failure is reported but the run is not closed.
NoTuplesUnclosed(r) ==
    /\ pc[r] = "sample_tuples"
    /\ Goto(r, "failed_closed")
    /\ Emit(r, <<PhaseError("sample_tuples")>>)
    /\ UNCHANGED <<verdicts, summary, checkout, engines>>

\* Variant: a run that sampled nothing starts over, without a limit.
NoTuplesStartsOver(r) ==
    /\ pc[r] = "sample_tuples"
    /\ Goto(r, "fixtures")
    /\ Emit(r, <<PhaseError("sample_tuples")>>)
    /\ UNCHANGED <<verdicts, summary, checkout, engines>>

\* measure-diff exits non-zero, or no line of it parses.
NoTuples(r) ==
    /\ pc[r] = "sample_tuples"
    /\ Goto(r, "failing")
    /\ Emit(r, <<PhaseError("sample_tuples")>>)
    /\ UNCHANGED <<verdicts, summary, checkout, engines>>

\* TimeoutExpired of the container, or docker is missing.
SampleRaise(r) ==
    /\ pc[r] = "sample_tuples"
    /\ Goto(r, "raised")
    /\ Emit(r, <<PhaseError("sample_tuples")>>)
    /\ UNCHANGED <<verdicts, summary, checkout, engines>>

BuildGoHarness(r) ==
    /\ pc[r] = "build_go_harness"
    /\ Goto(r, "go_write")
    /\ Emit(r, <<PhaseDone("build_go_harness"), PhaseStart("go_batch")>>)
    /\ UNCHANGED <<verdicts, summary, checkout, engines>>

BuildFails(r) ==
    /\ pc[r] = "build_go_harness"
    /\ Goto(r, "failing")
    /\ Emit(r, <<PhaseError("build_go_harness")>>)
    /\ UNCHANGED <<verdicts, summary, checkout, engines>>

\* The two failing exits: the run is closed in the store, then it returns 1.
CloseFailed(r) ==
    /\ pc[r] = "failing"
    /\ Goto(r, "failed_closed")
    /\ Emit(r, <<RunComplete("failed")>>)
    /\ UNCHANGED <<verdicts, summary, checkout, engines>>

ExitFailed(r) ==
    /\ pc[r] = "failed_closed"
    /\ Goto(r, "exit1")
    /\ UNCHANGED <<verdicts, summary, checkout, engines, trace, seq>>

\* An exception that no handler sees: a TimeoutExpired of the build or of a
\* batch, a full disk, an interrupt, a print to a closed stdout.
RaiseUncaught(r) ==
    /\ pc[r] \notin {"idle"} \cup Ended
    /\ Goto(r, "raised")
    /\ UNCHANGED <<verdicts, summary, checkout, engines, trace, seq>>

\* run_go_batch, first half: the payload file is truncated, then some of its
\* lines reach the disk, then all of them.
WriteGoInput(r) ==
    /\ pc[r] = "go_write"
    /\ \E k \in sampled[r] : goInput' = Lines(UpTo(sampled[r], k))
    /\ Goto(r, "go_flush")
    /\ UNCHANGED <<verdicts, summary, trace, seq, fixtures, rustInput, corpus, engines>>

FlushGoInput(r) ==
    /\ pc[r] = "go_flush"
    /\ goInput' = Lines(sampled[r])
    /\ Goto(r, "go_batch")
    /\ UNCHANGED <<verdicts, summary, trace, seq, fixtures, rustInput, corpus, engines>>

\* What the Go harness decides: entities it cannot parse become an empty
\* map, silently, and then any verdict is possible.
GoVerdicts == IF fixtures = "written" THEN {goSem} ELSE [Payload -> GoOutcome]

\* run_go_batch, second half: the harness reads the file and answers line by
\* line; what it printed before it died (k lines) is kept.
RunGoBatch(r) ==
    /\ pc[r] = "go_batch"
    /\ \E k \in 0 .. MaxTarget, says \in GoVerdicts :
            goDec' = [goDec EXCEPT ![r] =
                [i \in UpTo(DOMAIN goInput, k) |-> says[goInput[i]]]]
    /\ tornRead' = [tornRead EXCEPT ![r] = @ \/ fixtures # "written"]
    /\ IF SkipRust[r]
       THEN /\ rustDec' = [rustDec EXCEPT ![r] = [i \in sampled[r] |-> "skipped"]]
            /\ Goto(r, "summary")
            /\ Emit(r, <<PhaseDone("go_batch")>>)
       ELSE /\ Goto(r, "rust_write")
            /\ Emit(r, <<PhaseDone("go_batch"), PhaseStart("rust_per_tuple")>>)
            /\ UNCHANGED rustDec
    /\ UNCHANGED <<sampled, summary, checkout, engines>>

WriteRustInput(r) ==
    /\ pc[r] = "rust_write"
    /\ \E k \in sampled[r] : rustInput' = Lines(UpTo(sampled[r], k))
    /\ Goto(r, "rust_flush")
    /\ UNCHANGED <<verdicts, summary, trace, seq, fixtures, goInput, corpus, engines>>

FlushRustInput(r) ==
    /\ pc[r] = "rust_flush"
    /\ rustInput' = Lines(sampled[r])
    /\ Goto(r, "rust_per_tuple")
    /\ UNCHANGED <<verdicts, summary, trace, seq, fixtures, goInput, corpus, engines>>

\* cedar rejects fixtures it cannot parse; the runner reads that as Deny.
RustVerdict(p) == IF fixtures = "written" THEN RustDecision(rustSem[p]) ELSE "Deny"

\* run_rust_batch, second half: the per-tuple timeout is uncaught in the
\* runner, so any suffix of the answers may be missing.
RunRustBatch(r) ==
    /\ pc[r] = "rust_per_tuple"
    /\ \E k \in 0 .. MaxTarget :
            rustDec' = [rustDec EXCEPT ![r] =
                [i \in UpTo(DOMAIN rustInput, k) |-> RustVerdict(rustInput[i])]]
    /\ tornRead' = [tornRead EXCEPT ![r] = @ \/ fixtures # "written"]
    /\ Goto(r, "summary")
    /\ Emit(r, <<PhaseDone("rust_per_tuple")>>)
    /\ UNCHANGED <<sampled, goDec, summary, checkout, engines>>

\* Variant: two missing verdicts count as an agreement.
SummariseMissingAgrees(r) ==
    /\ pc[r] = "summary"
    /\ report' = [report EXCEPT ![r] =
            [goValid |-> Cardinality({i \in DOMAIN goDec[r] : goDec[r][i] # "ERROR"}),
             compared |-> Compared(r),
             agreements |-> {i \in sampled[r] : Get(rustDec[r], i) = Get(goDec[r], i)},
             disagreements |-> {i \in Compared(r) : rustDec[r][i] # goDec[r][i]}]]
    /\ Goto(r, IF HasSink[r] THEN "tuple_events" ELSE "run_complete")
    /\ UNCHANGED <<cursor, trace, seq, verdicts, checkout, engines>>

\* The valid-sample count ranges over everything the harness answered, the
\* comparison over the run's own tuples.
Summarise(r) ==
    /\ pc[r] = "summary"
    /\ report' = [report EXCEPT ![r] =
            [goValid |-> Cardinality({i \in DOMAIN goDec[r] : goDec[r][i] # "ERROR"}),
             compared |-> Compared(r),
             agreements |-> {i \in Compared(r) : rustDec[r][i] = goDec[r][i]},
             disagreements |-> {i \in Compared(r) : rustDec[r][i] # goDec[r][i]}]]
    /\ Goto(r, IF HasSink[r] THEN "tuple_events" ELSE "run_complete")
    /\ UNCHANGED <<cursor, trace, seq, verdicts, checkout, engines>>

\* One turn of the per-tuple event loop; there is none for an index that was
\* not sampled.
Emitted(r, i) == /\ i \in sampled[r]
                 /\ Get(rustDec[r], i) \notin {"skipped", "missing"}
                 /\ Get(goDec[r], i) # "missing"
\* Variant: diff_found without the ERROR guards.
DiffFoundOnErrors(r, i) == rustDec[r][i] # goDec[r][i]
DiffFound(r, i) == /\ rustDec[r][i] # goDec[r][i]
                   /\ "ERROR" \notin {rustDec[r][i], goDec[r][i]}

EmitTuple(r) ==
    /\ pc[r] = "tuple_events"
    /\ cursor[r] < NTarget[r]
    /\ cursor' = [cursor EXCEPT ![r] = @ + 1]
    /\ IF Emitted(r, cursor[r])
       THEN Emit(r, <<TupleEvent(cursor[r], DiffFound(r, cursor[r]))>>)
       ELSE UNCHANGED <<trace, seq>>
    /\ UNCHANGED <<pc, report, verdicts, checkout, engines>>

EmitTuplesDone(r) ==
    /\ pc[r] = "tuple_events"
    /\ cursor[r] = NTarget[r]
    /\ Goto(r, "run_complete")
    /\ UNCHANGED <<summary, trace, seq, verdicts, checkout, engines>>

Complete(r) ==
    /\ pc[r] = "run_complete"
    /\ Goto(r, "corpus")
    /\ Emit(r, <<RunComplete("succeeded")>>)
    /\ UNCHANGED <<summary, verdicts, checkout, engines>>

\* Variant: a run without disagreements removes the corpus.
NoCorpusRemoves(r) ==
    /\ pc[r] = "corpus"
    /\ report[r].disagreements = {}
    /\ corpus' = [run |-> "none", tuples |-> {}]
    /\ Goto(r, "exit0")
    /\ UNCHANGED <<summary, trace, seq, verdicts, fixtures, goInput, rustInput, engines>>

\* The corpus is written only when there is something to write.
NoCorpus(r) ==
    /\ pc[r] = "corpus"
    /\ report[r].disagreements = {}
    /\ Goto(r, "exit0")
    /\ UNCHANGED <<summary, trace, seq, verdicts, checkout, engines>>

TruncateCorpus(r) ==
    /\ pc[r] = "corpus"
    /\ report[r].disagreements # {}
    /\ corpus' = TornCorpus
    /\ Goto(r, "corpus_torn")
    /\ UNCHANGED <<summary, trace, seq, verdicts, fixtures, goInput, rustInput, engines>>

\* Two runs that have the file open write over each other's lines.
WriteCorpus(r) ==
    /\ pc[r] = "corpus_torn"
    /\ \/ corpus' = [run |-> r, tuples |-> report[r].disagreements]
       \/ corpus # TornCorpus /\ corpus' = TornCorpus
    /\ Goto(r, "exit0")
    /\ UNCHANGED <<summary, trace, seq, verdicts, fixtures, goInput, rustInput, engines>>

\* The process is killed: no handler runs, the checkout stays as it is.
Kill(r) ==
    /\ pc[r] \notin {"idle"} \cup Ended
    /\ Goto(r, "killed")
    /\ UNCHANGED <<summary, trace, seq, verdicts, checkout, engines>>

Step(r) ==
    \/ TruncateFixtures(r) \/ WriteFixtures(r) \/ FixturesRaise(r)
    \/ SampleTuples(r) \/ NoTuples(r) \/ SampleRaise(r)
    \/ BuildGoHarness(r) \/ BuildFails(r)
    \/ CloseFailed(r) \/ ExitFailed(r) \/ RaiseUncaught(r)
    \/ WriteGoInput(r) \/ FlushGoInput(r) \/ RunGoBatch(r)
    \/ WriteRustInput(r) \/ FlushRustInput(r) \/ RunRustBatch(r)
    \/ Summarise(r) \/ EmitTuple(r) \/ EmitTuplesDone(r)
    \/ Complete(r) \/ NoCorpus(r) \/ TruncateCorpus(r) \/ WriteCorpus(r)

Next == \E r \in Runs : Start(r) \/ Step(r) \/ Kill(r)

Spec == Init /\ [][Next]_vars

\* Container calls have a timeout, so a run that was started keeps moving.
FairSpec == Spec /\ \A r \in Runs : WF_vars(Step(r))
-----------------------------------------------------------------------------
\* Properties

\* Every variable has its type; the partial functions stay within the
\* indices any run asked for.
Indices == 0 .. MaxTarget - 1

IsPartial(f, S, T) == DOMAIN f \subseteq S /\ f \in [DOMAIN f -> T]

TypeOK ==
    /\ pc \in [Runs -> Stage]
    /\ sampled \in [Runs -> SUBSET Nat]
    /\ \A r \in Runs : sampled[r] \subseteq 0 .. NTarget[r] - 1
    /\ DOMAIN goDec = Runs /\ DOMAIN rustDec = Runs
    /\ \A r \in Runs : /\ IsPartial(goDec[r], Indices, GoOutcome)
                       /\ IsPartial(rustDec[r], Indices, Verdict)
    /\ report \in [Runs -> [goValid : Nat, compared : SUBSET Nat,
                            agreements : SUBSET Nat, disagreements : SUBSET Nat]]
    /\ cursor \in [Runs -> Nat]
    /\ seq \in [Runs -> Nat]
    /\ trace \in [Runs -> SUBSET Row]
    /\ fixtures \in {"absent", "torn", "written"}
    /\ IsPartial(goInput, Indices, Payload)
    /\ IsPartial(rustInput, Indices, Payload)
    /\ \/ corpus \in {NoCorpusYet, TornCorpus}
       \/ corpus \in [run : Runs, tuples : SUBSET Nat]
    /\ tornRead \in [Runs -> BOOLEAN]
    /\ rustSem \in [Payload -> RustOutcome]
    /\ goSem \in [Payload -> GoOutcome]

\* A verdict recorded for an index is the engine's verdict on the tuple of
\* that index, also when another run replaced the input file between the
\* write and the harness's read: the generator gives every run the same tuple
\* for the same index, so a replaced file can drop or add indices but never
\* swap their tuples.  Only torn fixtures break it.
VerdictsFaithful ==
    \A r \in Runs : ~tornRead[r] =>
        /\ \A i \in DOMAIN goDec[r] : goDec[r][i] = goSem[PayloadOf(i)]
        /\ \A i \in DOMAIN rustDec[r] :
              rustDec[r][i] \in {"skipped", RustDecision(rustSem[PayloadOf(i)])}

\* A run that has the checkout to itself never lets a harness read the torn
\* fixtures a killed run left behind, and no verdict it keeps is about an
\* index it did not sample: files of earlier, crashed runs do not leak in.
NoLeftovers ==
    ~Overlap => \A r \in Runs :
        /\ ~tornRead[r]
        /\ DOMAIN goDec[r] \subseteq sampled[r]
        /\ DOMAIN rustDec[r] \subseteq sampled[r]

\* The two engines differ on a tuple: both decide it, and differently.
Differ(i) ==
    /\ {rustSem[PayloadOf(i)], goSem[PayloadOf(i)]} \subseteq {"Allow", "Deny"}
    /\ rustSem[PayloadOf(i)] # goSem[PayloadOf(i)]

\* The Rust CLI cannot decide a tuple cedar-go allows.
RustFailsOnAllow(i) ==
    /\ rustSem[PayloadOf(i)] \in {"ParseError", "EvalError"}
    /\ goSem[PayloadOf(i)] = "Allow"

Summarised(r) ==
    pc[r] \in {"tuple_events", "run_complete", "corpus", "corpus_torn", "exit0"}

\* What the summary calls disagreements.  A difference both harnesses
\* answered is always reported.  What is reported is such a difference, or a
\* Rust error on a tuple Go allows, which the Rust runner prints as Deny: a Go
\* error, a Rust error on a tuple Go denies, a missing answer or a stale file
\* is never reported.
DisagreementsReal ==
    \A r \in Runs : ~tornRead[r] /\ Summarised(r) =>
        LET answered == {i \in sampled[r] \cap DOMAIN goDec[r] \cap DOMAIN rustDec[r] :
                            ~SkipRust[r]}
        IN /\ {i \in answered : Differ(i)} \subseteq report[r].disagreements
           /\ report[r].disagreements \subseteq answered
           /\ \A i \in report[r].disagreements : Differ(i) \/ RustFailsOnAllow(i)
           /\ {i \in answered : RustFailsOnAllow(i)} \subseteq report[r].disagreements

\* [Violated] "both Rust+Go returned non-error decision" (run_diff.py:751): no
\* pair is compared on which an engine had an error.
ComparedAreDecisions ==
    \A r \in Runs : ~tornRead[r] => \A i \in report[r].compared :
        {rustSem[PayloadOf(i)], goSem[PayloadOf(i)]} \subseteq {"Allow", "Deny"}

\* The inductive strengthening of VerdictsFaithful and DisagreementsReal: an
\* input file, whoever wrote it and however much of it, lists the generator's
\* tuples under their own index.
InputsFaithful ==
    /\ \A i \in DOMAIN goInput : goInput[i] = PayloadOf(i)
    /\ \A i \in DOMAIN rustInput : rustInput[i] = PayloadOf(i)

SkippedTogether ==
    \A r \in Runs :
        /\ pc[r] \in {"rust_write", "rust_flush", "rust_per_tuple"} => ~SkipRust[r]
        /\ \A i \in DOMAIN rustDec[r] : rustDec[r][i] = "skipped" <=> SkipRust[r]

FaithfulInv == InputsFaithful /\ VerdictsFaithful /\ SkippedTogether /\ DisagreementsReal

\* The inductive strengthening of NoLeftovers: without overlap one run is
\* active at a time, and the files it reads are the ones it has just written.
Active(r) == pc[r] \notin {"idle"} \cup Ended

OneActive == \A r, q \in Runs : Active(r) /\ Active(q) => r = q

FilesInPlace ==
    \A r \in Runs :
        /\ pc[r] \in {"sample_tuples", "build_go_harness", "go_write", "go_flush",
                      "go_batch", "rust_write", "rust_flush", "rust_per_tuple"}
              => fixtures = "written"
        /\ pc[r] = "go_batch" => DOMAIN goInput \subseteq sampled[r]
        /\ pc[r] = "rust_per_tuple" => DOMAIN rustInput \subseteq sampled[r]
        /\ pc[r] = "corpus_torn" => corpus = TornCorpus /\ report[r].disagreements # {}

ExclusiveInv == ~Overlap => OneActive /\ FilesInPlace /\ NoLeftovers

\* What the printed summary relies on: agreements and disagreements split the
\* compared pairs, and no rate exceeds one when runs do not overlap.
RatesAreProportions ==
    \A r \in Runs :
        /\ report[r].agreements \cap report[r].disagreements = {}
        /\ report[r].agreements \cup report[r].disagreements = report[r].compared
        /\ ~Overlap => /\ Cardinality(report[r].compared) <= report[r].goValid
                       /\ report[r].goValid <= Cardinality(sampled[r])

\* Rows of the trace store read in sequence order tell the run in its order:
\* sequence numbers are never reused, a phase does not begin after a later
\* one, nothing follows run_complete, and a run has at most one end.
Rank(ev) ==
    LET Of(p) == CASE p = "fixtures" -> 1 [] p = "sample_tuples" -> 2
                   [] p = "build_go_harness" -> 3 [] p = "go_batch" -> 4
                   [] p = "rust_per_tuple" -> 5
    IN CASE ev.type = "run_start" -> 0
         [] ev.type = "phase_start" -> 2 * Of(ev.phase)
         [] ev.type \in {"phase_error", "phase_complete"} -> 2 * Of(ev.phase) + 1
         [] ev.type = "differential_test_tuple" -> 12
         [] ev.type = "run_complete" -> 13

RowsInOrder ==
    \A r \in Runs : \A a, b \in trace[r] :
        /\ a.n <= seq[r]
        /\ a.n = b.n => a = b
        /\ a.n < b.n => \/ Rank(a.ev) < Rank(b.ev)
                        \/ /\ a.ev.type = b.ev.type
                           /\ a.ev.type = "differential_test_tuple"
                           /\ a.ev.idx < b.ev.idx

\* The end the trace store shows is the end the process has, or had coming
\* when it was cut short: a run recorded as succeeded has nothing left but its
\* corpus, one recorded as failed has measured nothing and returns 1, and with
\* no row lost a run that returned an exit code has the row that goes with it.
Closes(r, s) == \E row \in trace[r] : row.ev = RunComplete(s)

TraceEndsHonest ==
    \A r \in Runs :
        /\ Closes(r, "succeeded") => pc[r] \in {"corpus", "corpus_torn", "exit0", "raised", "killed"}
        /\ Closes(r, "failed") => /\ pc[r] \in {"failed_closed", "exit1", "raised", "killed"}
                                  /\ goDec[r] = <<>> /\ report[r] = NoReport
        /\ pc[r] \in {"exit0", "exit1"} /\ HasSink[r] /\ Lost(r) = 0 =>
              Closes(r, IF pc[r] = "exit0" THEN "succeeded" ELSE "failed")

\* The per-tuple rows and the summary are computed by two different loops;
\* they agree on the disagreements, up to rows the sink lost.
TupleRowsMatchSummary ==
    \A r \in Runs :
        LET found == {row.ev.idx : row \in {x \in trace[r] :
                          x.ev.type = "differential_test_tuple" /\ x.ev.diff_found}}
        IN /\ found \subseteq report[r].disagreements
           /\ HasSink[r] /\ pc[r] \in {"run_complete", "corpus", "corpus_torn", "exit0"} =>
                Cardinality(report[r].disagreements \ found) <= Lost(r)

\* disagreements.jsonl is the full list of one run that exited 0 with
\* disagreements, or it is visibly cut short by a run that was writing its own;
\* it is missing only while no run that exited 0 found any.
CorpusIsOneRuns ==
    /\ corpus.run \in Runs =>
          /\ corpus.tuples # {}
          /\ corpus.tuples = report[corpus.run].disagreements
          /\ pc[corpus.run] = "exit0"
    /\ corpus.run = "torn" =>
          \E r \in Runs : /\ pc[r] \in {"corpus_torn", "raised", "killed"}
                          /\ report[r].disagreements # {}
    /\ corpus.run = "none" =>
          \A r \in Runs : pc[r] = "exit0" => report[r].disagreements = {}

\* Runs that do not overlap implement the contract of DiffContract: the steps
\* between the start and the end of a run are invisible, exit 0 publishes.
Contract == INSTANCE DiffContract WITH
    phase <- [r \in Runs |-> IF pc[r] = "idle" THEN "waiting"
                             ELSE IF pc[r] = "exit0" THEN "published"
                             ELSE IF pc[r] \in Ended THEN "abandoned"
                             ELSE IF pc[r] = "corpus_torn" THEN "publishing"
                             ELSE "working"],
    found <- [r \in Runs |-> IF pc[r] = "exit0" THEN report[r].disagreements ELSE {}],
    kept <- corpus,
    differing <- {i \in Indices : Differ(i) \/ RustFailsOnAllow(i)}

ImplementsContract == Contract!Spec

\* Every run that is started comes to an end.
Terminates == \A r \in Runs : pc[r] = "fixtures" ~> pc[r] \in Ended
============================================================================
