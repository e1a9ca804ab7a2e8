------------------------------ MODULE Widened ------------------------------
(***************************************************************************)
(* The two widened harnesses, phase_h2_datetime_duration/run_widened.py    *)
(* and phase_c_diff/bug-hunt-2026-04-25/run_widened.py, which differ in    *)
(* their probes and wording only: build the Go harness, hand the selected  *)
(* tuples to it and to the Rust CLI, join the answers by idx, classify     *)
(* them, and write results.jsonl, a file per disagreement and SUMMARY.md.  *)
(*                                                                         *)
(* Invocations of one script share its directory: fixtures, both input     *)
(* files, the outputs.  They may overlap, one per --shape for instance,    *)
(* and may be killed.  A tuple is its position in all_tuples(); an answer  *)
(* is a decision and whether it came with an error.                        *)
(***************************************************************************)
EXTENDS Integers, FiniteSets

CONSTANTS
    NWide,         \* len(all_tuples())
    ShapeOf,       \* the shape of each tuple
    WideRuns,      \* the invocations
    WideRustSays,  \* bound: what cedar-policy may answer on each tuple
    WideGoSays     \* bound: what cedar-go may answer on each tuple

WideTuples == 1 .. NWide
Shapes == {ShapeOf[t] : t \in WideTuples}
WideAnswer == [dec : {"Allow", "Deny", "ERROR"}, err : BOOLEAN]
AnswersFrom(Says) == {f \in [WideTuples -> WideAnswer] : \A t \in WideTuples : f[t] \in Says[t]}

ASSUME WideTuplesAssumption == NWide \in Nat \ {0} /\ DOMAIN ShapeOf = WideTuples

\* Each tuple has a single policy (widened_shapes.py), so an evaluation error
\* leaves nothing that could allow; what is no decision is an error.
ASSUME SinglePolicyAssumption ==
    \A t \in WideTuples : \A a \in WideRustSays[t] \cup WideGoSays[t] :
        a \in WideAnswer /\ (a.err => a.dec # "Allow") /\ (a.dec = "ERROR" => a.err)

VARIABLES
    widePc,       \* where each invocation is
    wanted,       \* its tuples
    goOut,        \* go_results: tuple -> answer, a partial function
    rustOut,      \* rust_results
    toFile,       \* the disagreements it has still to write
    wideFixtures, \* schema.cedarschema and entities.json
    goFile,       \* the tuples listed in _go_input.jsonl
    rustFile,     \* the tuples listed in _rust_input.jsonl
    results,      \* the disagreements among the rows of results.jsonl
    disagreeDir,  \* disagreements/: tuple -> whether the answers in its file were spoiled
    summaryMd,    \* the disagreements listed in SUMMARY.md
    spoiled,      \* observation: tuples answered with torn fixtures or by a dead CLI
    rustTruth,    \* what cedar-policy says of each tuple (fixed)
    goTruth       \* what cedar-go says of each tuple (fixed)

ownState == <<wanted, goOut, rustOut, toFile, spoiled>>
inputFiles == <<wideFixtures, goFile, rustFile>>
outputFiles == <<results, disagreeDir, summaryMd>>
truths == <<rustTruth, goTruth>>
wideVars == <<widePc, ownState, inputFiles, outputFiles, truths>>

WideEnded == {"exit0", "exit1", "raised", "killed"}
WideStages == {"fixtures", "build", "go_write", "go_flush", "go_run", "rust_write",
               "rust_flush", "rust_run", "results", "results_torn", "files", "summary"}

Nothing == [is |-> "absent", lists |-> {}]
TornOutput == [is |-> "torn", lists |-> {}]
Written(S) == [is |-> "written", lists |-> S]

WideInit ==
    /\ widePc = [d \in WideRuns |-> "idle"]
    /\ wanted = [d \in WideRuns |-> {}] /\ toFile = wanted /\ spoiled = wanted
    /\ goOut = [d \in WideRuns |-> <<>>] /\ rustOut = goOut
    /\ wideFixtures = "absent"
    /\ goFile = {} /\ rustFile = {}
    /\ results = Nothing /\ summaryMd = Nothing
    /\ disagreeDir = <<>>
    /\ rustTruth \in AnswersFrom(WideRustSays)
    /\ goTruth \in AnswersFrom(WideGoSays)

WideGoto(d, stage) == widePc' = [widePc EXCEPT ![d] = stage]

\* The process is gone, and what it knew with it.
WideEnd(d, stage) ==
    /\ WideGoto(d, stage)
    /\ wanted' = [wanted EXCEPT ![d] = {}]
    /\ goOut' = [goOut EXCEPT ![d] = <<>>] /\ rustOut' = [rustOut EXCEPT ![d] = <<>>]
    /\ toFile' = [toFile EXCEPT ![d] = {}] /\ spoiled' = [spoiled EXCEPT ![d] = {}]

-----------------------------------------------------------------------------
\* Importing the script truncates and rewrites the fixtures.
WideStart(d) ==
    /\ \/ /\ widePc[d] = "idle" /\ wideFixtures' = "torn"
          /\ WideGoto(d, "fixtures")
          /\ \E s \in {WideTuples} \cup {{t \in WideTuples : ShapeOf[t] = s} : s \in Shapes} :
                wanted' = [wanted EXCEPT ![d] = s]
       \/ /\ widePc[d] = "fixtures" /\ wideFixtures' = "written"
          /\ WideGoto(d, "build")
          /\ UNCHANGED wanted
    /\ UNCHANGED <<goOut, rustOut, toFile, spoiled, goFile, rustFile, outputFiles, truths>>

\* --shape names no shape, or the Go harness does not build; TimeoutExpired of
\* a container is caught nowhere.
WideGiveUp(d) ==
    /\ \/ widePc[d] = "build" /\ WideEnd(d, "exit1")
       \/ widePc[d] \in {"build", "go_run", "rust_run"} /\ WideEnd(d, "raised")
    /\ UNCHANGED <<inputFiles, outputFiles, truths>>

WideBuild(d) ==
    /\ widePc[d] = "build"
    /\ WideGoto(d, "go_write")
    /\ UNCHANGED <<ownState, inputFiles, outputFiles, truths>>

\* An input file is truncated and some of its lines arrive, then all.
Some(d) == {{t \in wanted[d] : t < k} : k \in WideTuples}

WriteInput(d) ==
    /\ \/ /\ widePc[d] = "go_write" /\ WideGoto(d, "go_flush")
          /\ goFile' \in Some(d) /\ UNCHANGED rustFile
       \/ /\ widePc[d] = "go_flush" /\ WideGoto(d, "go_run")
          /\ goFile' = wanted[d] /\ UNCHANGED rustFile
       \/ /\ widePc[d] = "rust_write" /\ WideGoto(d, "rust_flush")
          /\ rustFile' \in Some(d) /\ UNCHANGED goFile
       \/ /\ widePc[d] = "rust_flush" /\ WideGoto(d, "rust_run")
          /\ rustFile' = wanted[d] /\ UNCHANGED goFile
    /\ UNCHANGED <<ownState, wideFixtures, outputFiles, truths>>

\* Entities that do not parse are an empty map for the Go harness, and cedar
\* rejects them: with torn fixtures the answers are not about the tuple.
Torn(S) == IF wideFixtures = "written" THEN {} ELSE S

\* run_go_batch: every line that was printed counts, whatever the exit code.
GoBatch(d) ==
    /\ widePc[d] = "go_run"
    /\ \E k \in 0 .. NWide :
        LET answered == {t \in goFile : t <= k}
        IN /\ goOut' = [goOut EXCEPT ![d] = [t \in answered |-> goTruth[t]]]
           /\ spoiled' = [spoiled EXCEPT ![d] = @ \cup Torn(answered)]
    /\ WideGoto(d, "rust_write")
    /\ UNCHANGED <<wanted, rustOut, toFile, inputFiles, outputFiles, truths>>

\* run_rust_batch: the runner dies of a tuple that takes 30 seconds; a CLI that
\* dies without a word is an ERROR of that tuple.
RustBatch(d) ==
    /\ widePc[d] = "rust_run"
    /\ \E k \in 0 .. NWide : \E dead \in SUBSET {t \in rustFile : t <= k} :
        LET answered == {t \in rustFile : t <= k}
            Says(t) == IF t \in dead THEN [dec |-> "ERROR", err |-> TRUE] ELSE rustTruth[t]
        IN /\ rustOut' = [rustOut EXCEPT ![d] = [t \in answered |-> Says(t)]]
           /\ spoiled' = [spoiled EXCEPT ![d] = @ \cup dead \cup Torn(answered)]
    /\ WideGoto(d, "results")
    /\ UNCHANGED <<wanted, goOut, toFile, inputFiles, outputFiles, truths>>

-----------------------------------------------------------------------------
\* classify: an error is no decision, whatever the text says.
Label(r, g) ==
    CASE r.err /\ g.err                 -> "agreement_both_reject"
      [] r.err /\ ~g.err                -> IF g.dec = "Deny" THEN "asymmetric_path_both_deny"
                                           ELSE "evaluator_disagreement"
      [] ~r.err /\ g.err                -> IF r.dec = "Deny" THEN "asymmetric_path_both_deny"
                                           ELSE "evaluator_disagreement"
      [] ~r.err /\ ~g.err /\ r.dec = g.dec -> "agreement"
      [] OTHER                          -> "semantic_disagreement"

Classification(d, t) ==
    IF t \in DOMAIN rustOut[d] /\ t \in DOMAIN goOut[d]
    THEN Label(rustOut[d][t], goOut[d][t]) ELSE "missing"

\* Variant: whatever does not agree is a disagreement.
UnagreedTuples(d) == {t \in wanted[d] : Classification(d, t) \notin
                        {"agreement", "agreement_both_reject", "asymmetric_path_both_deny"}}

Disagreements(d) == {t \in wanted[d] : Classification(d, t) \in
                        {"semantic_disagreement", "evaluator_disagreement"}}

\* results.jsonl is opened for writing and then filled; two invocations that
\* have it open write over each other's lines.
WriteResults(d) ==
    /\ \/ /\ widePc[d] = "results" /\ WideGoto(d, "results_torn")
          /\ results' = TornOutput /\ UNCHANGED toFile
       \/ /\ widePc[d] = "results_torn" /\ WideGoto(d, "files")
          /\ \/ results' = Written(Disagreements(d))
             \/ results # TornOutput /\ results' = TornOutput
          /\ toFile' = [toFile EXCEPT ![d] = Disagreements(d)]
    /\ UNCHANGED <<wanted, goOut, rustOut, spoiled, inputFiles, disagreeDir, summaryMd, truths>>

\* One disagreements/<shape>/<sample_id>.json after the other, in order.
WriteDisagreement(d) ==
    /\ widePc[d] = "files"
    /\ \E t \in toFile[d] :
        /\ \A u \in toFile[d] : t <= u
        /\ disagreeDir' = [u \in DOMAIN disagreeDir \cup {t} |->
                              IF u = t THEN t \in spoiled[d] ELSE disagreeDir[u]]
        /\ toFile' = [toFile EXCEPT ![d] = @ \ {t}]
    /\ UNCHANGED <<widePc, wanted, goOut, rustOut, spoiled, inputFiles, results, summaryMd, truths>>

\* Variant: the summary does not wait for the files.
WriteSummaryMdEarly(d) ==
    /\ \/ /\ widePc[d] = "files" /\ WideGoto(d, "summary")
          /\ summaryMd' = TornOutput /\ UNCHANGED ownState
       \/ widePc[d] = "summary" /\ WideEnd(d, "exit0") /\ summaryMd' = Written(Disagreements(d))
    /\ UNCHANGED <<inputFiles, results, disagreeDir, truths>>

WriteSummaryMd(d) ==
    /\ \/ /\ widePc[d] = "files" /\ toFile[d] = {} /\ WideGoto(d, "summary")
          /\ summaryMd' = TornOutput /\ UNCHANGED ownState
       \/ widePc[d] = "summary" /\ WideEnd(d, "exit0") /\ summaryMd' = Written(Disagreements(d))
    /\ UNCHANGED <<inputFiles, results, disagreeDir, truths>>

WideKill(d) ==
    /\ widePc[d] \in WideStages
    /\ WideEnd(d, "killed")
    /\ UNCHANGED <<inputFiles, outputFiles, truths>>

WideStep(d) ==
    \/ WideStart(d) \/ WideGiveUp(d) \/ WideBuild(d) \/ WriteInput(d) \/ GoBatch(d)
    \/ RustBatch(d) \/ WriteResults(d) \/ WriteDisagreement(d) \/ WriteSummaryMd(d)

WideNext == \E d \in WideRuns : WideStep(d) \/ WideKill(d)

WideSpec == WideInit /\ [][WideNext]_wideVars

-----------------------------------------------------------------------------
\* Properties

WideOutput == [is : {"absent", "torn", "written"}, lists : SUBSET WideTuples]

WideTypeOK ==
    /\ widePc \in [WideRuns -> {"idle"} \cup WideStages \cup WideEnded]
    /\ wanted \in [WideRuns -> SUBSET WideTuples]
    /\ toFile \in [WideRuns -> SUBSET WideTuples] /\ spoiled \in [WideRuns -> SUBSET WideTuples]
    /\ DOMAIN goOut = WideRuns /\ DOMAIN rustOut = WideRuns
    /\ \A d \in WideRuns : DOMAIN goOut[d] \subseteq WideTuples /\ DOMAIN rustOut[d] \subseteq WideTuples
    /\ wideFixtures \in {"absent", "torn", "written"}
    /\ goFile \subseteq WideTuples /\ rustFile \subseteq WideTuples
    /\ results \in WideOutput /\ summaryMd \in WideOutput
    /\ DOMAIN disagreeDir \subseteq WideTuples
    /\ \A t \in DOMAIN disagreeDir : disagreeDir[t] \in BOOLEAN
    /\ rustTruth \in AnswersFrom(WideRustSays) /\ goTruth \in AnswersFrom(WideGoSays)

\* An authorization outcome: what allows.
Allows(a) == a.dec = "Allow"

\* However invocations overwrite each other's input files, a tuple is called a
\* disagreement exactly when one engine allows what the other does not, both
\* having answered; only a CLI that died on the tuple, or fixtures being
\* rewritten under the batch, can make that wrong.
DisagreementsTruthful ==
    \A d \in WideRuns : \A t \in wanted[d] \ spoiled[d] :
        t \in Disagreements(d) <=>
            /\ t \in DOMAIN rustOut[d] \cap DOMAIN goOut[d]
            /\ Allows(rustTruth[t]) # Allows(goTruth[t])

\* SUMMARY.md only lists disagreements that have their file, and a file is only
\* there for a tuple on which the engines differ, or whose answers were spoiled:
\* a kill or an overlap leaves files of an earlier run behind, never a listed
\* disagreement without one.
FilesBackSummary ==
    /\ summaryMd.lists \subseteq DOMAIN disagreeDir
    /\ \A t \in DOMAIN disagreeDir :
          disagreeDir[t] \/ Allows(rustTruth[t]) # Allows(goTruth[t])
=============================================================================
