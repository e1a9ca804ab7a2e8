----------------------------- MODULE RoundTrip -----------------------------
(***************************************************************************)
(* phase_h_json_roundtrip/run_roundtrip.py: every probe, a policy in JSON, *)
(* goes to Cedar text and back, all of them in one process of the Go       *)
(* harness, one by one through the cedar CLI; the outcomes are collated    *)
(* probe by probe and every finding is numbered and written to             *)
(* disagreements/F<number>_<probe>.md.                                     *)
(*                                                                         *)
(* Invocations, possibly with --go-only or --rust-only, share that         *)
(* directory, may overlap and may be killed.  A probe is its position.     *)
(***************************************************************************)
EXTENDS Integers, FiniteSets

CONSTANTS
    NProbes,    \* len(PROBES)
    RtRuns,     \* the invocations
    RtGoSays,   \* bound: what becomes of each probe in the Go harness
    RtRustSays  \* bound: what becomes of each probe in the cedar CLI

Probes == 1 .. NProbes

\* What a round trip can be; "fatal" is a Go error that recover() cannot stop.
RtOutcome == {"clean", "silent_diff", "parse_fail", "panic"}

ASSUME NProbesAssumption == NProbes \in Nat \ {0}
ASSUME RtSaysAssumption == \A p \in Probes : /\ RtGoSays[p] \subseteq RtOutcome \cup {"fatal"}
                                            /\ RtRustSays[p] \subseteq RtOutcome \ {"panic"}

FatesFrom(Says) ==
    {f \in [Probes -> RtOutcome \cup {"fatal"}] : \A p \in Probes : f[p] \in Says[p]}

VARIABLES
    rtPc,        \* where each invocation is
    legs,        \* the harnesses it runs
    goResults,   \* go_results_map: probe -> outcome, a partial function
    rustResults, \* rust_results_map
    findingNo,   \* the rows so far: probe -> its finding number, 0 when it is none
    findingDir,  \* disagreements/: the <<number, probe>> of every file
    unsure,      \* observation: probes on which a CLI was late or died
    rtGoTruth, rtRustTruth \* what becomes of each probe (fixed)

rtOwn == <<legs, goResults, rustResults, findingNo>>
rtTruths == <<rtGoTruth, rtRustTruth>>
rtVars == <<rtPc, rtOwn, findingDir, unsure, rtTruths>>

RtEnded == {"exit0", "exit1", "raised", "killed"}
RtStages == {"build", "go", "rust", "collate"}

RtInit ==
    /\ rtPc = [i \in RtRuns |-> "idle"]
    /\ legs = [i \in RtRuns |-> {}]
    /\ goResults = [i \in RtRuns |-> <<>>]
    /\ rustResults = goResults /\ findingNo = goResults
    /\ findingDir = {} /\ unsure = {}
    /\ rtGoTruth \in FatesFrom(RtGoSays)
    /\ rtRustTruth \in FatesFrom(RtRustSays)

RtGoto(i, stage) == rtPc' = [rtPc EXCEPT ![i] = stage]

\* The process is gone, and what it knew with it.
RtEnd(i, stage) ==
    /\ RtGoto(i, stage)
    /\ legs' = [legs EXCEPT ![i] = {}]
    /\ goResults' = [goResults EXCEPT ![i] = <<>>]
    /\ rustResults' = [rustResults EXCEPT ![i] = <<>>]
    /\ findingNo' = [findingNo EXCEPT ![i] = <<>>]

AfterGo(L) == IF "rust" \in L THEN "rust" ELSE "collate"

\* --go-only, --rust-only, both (then neither runs); --dry-run stops here.
RtStart(i) ==
    /\ rtPc[i] = "idle"
    /\ \/ \E L \in SUBSET {"go", "rust"} :
            /\ legs' = [legs EXCEPT ![i] = L]
            /\ RtGoto(i, IF "go" \in L THEN "build" ELSE AfterGo(L))
            /\ UNCHANGED <<goResults, rustResults, findingNo>>
       \/ RtEnd(i, "exit0")
    /\ UNCHANGED <<findingDir, unsure, rtTruths>>

RtBuild(i) ==
    /\ rtPc[i] = "build"
    /\ \/ RtGoto(i, "go") /\ UNCHANGED rtOwn
       \/ RtEnd(i, "exit1")
    /\ UNCHANGED <<findingDir, unsure, rtTruths>>

\* run_go_harness: one answer a line, as far as the process came; a non-zero
\* exit code is printed only.  TimeoutExpired is caught nowhere.
GoLeg(i) ==
    /\ rtPc[i] = "go"
    /\ \/ \E k \in 0 .. NProbes :
            /\ \A p \in 1 .. k : rtGoTruth[p] # "fatal"
            /\ goResults' = [goResults EXCEPT ![i] = [p \in 1 .. k |-> rtGoTruth[p]]]
            /\ RtGoto(i, AfterGo(legs[i]))
            /\ UNCHANGED <<legs, rustResults, findingNo>>
       \/ RtEnd(i, "raised")
    /\ UNCHANGED <<findingDir, unsure, rtTruths>>

\* run_rust_roundtrip of every probe: a CLI that takes 15 seconds is a panic,
\* one that is killed a parse_fail.
RustLeg(i) ==
    /\ rtPc[i] = "rust"
    /\ \E late, dead \in SUBSET Probes :
        /\ late \cap dead = {}
        /\ rustResults' = [rustResults EXCEPT ![i] =
              [p \in Probes |-> CASE p \in late -> "panic" [] p \in dead -> "parse_fail"
                                  [] OTHER -> rtRustTruth[p]]]
        /\ unsure' = unsure \cup late \cup dead
    /\ RtGoto(i, "collate")
    /\ UNCHANGED <<legs, goResults, findingNo, findingDir, rtTruths>>

-----------------------------------------------------------------------------
Got(results, p) == IF p \in DOMAIN results THEN results[p] ELSE "not_run"

\* Variant: what one of the two did not answer is a disagreement as well.
FindingRunOrNot(g, r) ==
    \/ g \in {"panic", "silent_diff"}
    \/ g # r /\ {g, r} \cap {"clean", "silent_diff"} # {}

\* Panics and silent diffs of Go, and outcomes that differ although at least
\* one of the two thinks the policy valid.
IsFinding(g, r) ==
    \/ g \in {"panic", "silent_diff"}
    \/ /\ "not_run" \notin {g, r} /\ g # r
       /\ {g, r} \cap {"clean", "silent_diff"} # {}

Numbers(i) == {findingNo[i][p] : p \in DOMAIN findingNo[i]} \ {0}

NextNumber(i) == Cardinality(Numbers(i)) + 1

\* Variant: a finding is numbered by the probe's position.
CollateByPosition(i) ==
    LET p == Cardinality(DOMAIN findingNo[i]) + 1
        finding == IsFinding(Got(goResults[i], p), Got(rustResults[i], p))
    IN /\ rtPc[i] = "collate" /\ p \in Probes
       /\ findingNo' = [findingNo EXCEPT ![i] = [q \in 1 .. p |->
                            IF q < p THEN @[q] ELSE IF finding THEN p ELSE 0]]
       /\ findingDir' = findingDir \cup IF finding THEN {<<NextNumber(i), p>>} ELSE {}
       /\ UNCHANGED <<rtPc, legs, goResults, rustResults, unsure, rtTruths>>

\* One probe: its row, and its file when it is a finding.
Collate(i) ==
    LET p == Cardinality(DOMAIN findingNo[i]) + 1
        no == IF IsFinding(Got(goResults[i], p), Got(rustResults[i], p))
              THEN NextNumber(i) ELSE 0
    IN /\ rtPc[i] = "collate" /\ p \in Probes
       /\ findingNo' = [findingNo EXCEPT ![i] = [q \in 1 .. p |-> IF q < p THEN @[q] ELSE no]]
       /\ findingDir' = findingDir \cup IF no > 0 THEN {<<no, p>>} ELSE {}
       /\ UNCHANGED <<rtPc, legs, goResults, rustResults, unsure, rtTruths>>

\* main prints the summary and the number of panics, and returns.
RtFinish(i) ==
    /\ rtPc[i] = "collate" /\ DOMAIN findingNo[i] = Probes
    /\ RtGoto(i, "exit0")
    /\ UNCHANGED <<rtOwn, findingDir, unsure, rtTruths>>

RtKill(i) ==
    /\ rtPc[i] \in RtStages
    /\ RtEnd(i, "killed")
    /\ UNCHANGED <<findingDir, unsure, rtTruths>>

RtStep(i) == RtStart(i) \/ RtBuild(i) \/ GoLeg(i) \/ RustLeg(i) \/ Collate(i) \/ RtFinish(i)

RtNext == \E i \in RtRuns : RtStep(i) \/ RtKill(i)

RtSpec == RtInit /\ [][RtNext]_rtVars

-----------------------------------------------------------------------------
\* Properties

RtTypeOK ==
    /\ rtPc \in [RtRuns -> {"idle"} \cup RtStages \cup RtEnded]
    /\ legs \in [RtRuns -> SUBSET {"go", "rust"}]
    /\ \A i \in RtRuns :
        /\ \E k \in 0 .. NProbes : goResults[i] \in [1 .. k -> RtOutcome]
        /\ rustResults[i] \in [Probes -> RtOutcome] \cup {<<>>}
        /\ \E k \in 0 .. NProbes : findingNo[i] \in [1 .. k -> 0 .. k]
    /\ findingDir \subseteq Probes \X Probes
    /\ unsure \subseteq Probes
    /\ rtGoTruth \in FatesFrom(RtGoSays) /\ rtRustTruth \in FatesFrom(RtRustSays)

\* A file in disagreements/, of whichever invocation and however many were
\* killed before it, is about a probe that Go loses or on which the two really
\* differ; only a CLI that was late or died puts a sound probe there.
FindingsAreReal ==
    \A f \in findingDir :
        \/ rtGoTruth[f[2]] \in {"panic", "silent_diff"}
        \/ rtGoTruth[f[2]] # rtRustTruth[f[2]]
        \/ f[2] \in unsure

\* An invocation that gets to its summary has filed, under numbers 1, 2, ... in
\* the order of the probes, everything that both harnesses showed it; of the
\* probes that crash Go it misses those the harness died of, and all after them.
FindingsComplete ==
    \A i \in RtRuns : rtPc[i] = "exit0" /\ DOMAIN findingNo[i] = Probes =>
        /\ \A p \in DOMAIN goResults[i] :
            \/ rtGoTruth[p] \in {"panic", "silent_diff"}
            \/ /\ legs[i] = {"go", "rust"} /\ p \notin unsure
               /\ (rtGoTruth[p] = "clean") # (rtRustTruth[p] = "clean")
            => findingNo[i][p] > 0
        /\ \A p \in Probes : findingNo[i][p] > 0 => <<findingNo[i][p], p>> \in findingDir
        /\ Numbers(i) = 1 .. Cardinality(Numbers(i))
        /\ \A p, q \in Probes : p < q /\ findingNo[i][q] > 0 => findingNo[i][p] < findingNo[i][q]
=============================================================================
