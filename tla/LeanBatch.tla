----------------------------- MODULE LeanBatch -----------------------------
(***************************************************************************)
(* phase_c_diff/lean_runner.py: run measure-lean in the container, which   *)
(* prints a line per tuple, and file the lines by idx.  When the binary is *)
(* not built, lake runs the program instead and may print lines of its own *)
(* between them.  The process may end early; called as a script, the       *)
(* runner prints the answers in the order of their keys.                   *)
(***************************************************************************)
EXTENDS Integers, Sequences, FiniteSets

CONSTANTS
    NLean,   \* the tuples asked for
    MaxNoise \* bound: lines that are no answers

LeanTuples == 1 .. NLean
LeanDecision == {"Allow", "Deny"}

ASSUME LeanAssumption == NLean \in Nat /\ MaxNoise \in Nat

VARIABLES
    leanPc,    \* "start", "lean", "read", or how it ended
    stdout,    \* the lines of the process: a tuple's, or 0 for one of lake's
    noise,     \* how many of the latter
    lineNo,    \* the lines that were read
    decisions, \* results: key -> answer, a partial function
    leanTruth  \* what the specification decides of each tuple (fixed)

leanVars == <<leanPc, stdout, noise, lineNo, decisions, leanTruth>>

LeanEnded == {"exit0", "exit1", "raised"}

LeanInit ==
    /\ leanPc = "start" /\ stdout = <<>> /\ noise = 0 /\ lineNo = 0 /\ decisions = <<>>
    /\ leanTruth \in [LeanTuples -> LeanDecision]

\* The binary or lake is started; a timeout is caught nowhere.
RunInImage ==
    /\ \/ leanPc = "start" /\ leanPc' = "lean"
       \/ leanPc = "lean" /\ leanPc' = "raised"
    /\ UNCHANGED <<stdout, noise, lineNo, decisions, leanTruth>>

Printed == Len(stdout) - noise

\* MeasureLean.lean prints the tuples in order, or lake a line.
MeasureLean ==
    /\ leanPc = "lean"
    /\ \/ /\ Printed < NLean
          /\ stdout' = Append(stdout, Printed + 1) /\ UNCHANGED noise
       \/ /\ noise < MaxNoise
          /\ stdout' = Append(stdout, 0) /\ noise' = noise + 1
    /\ UNCHANGED <<leanPc, lineNo, decisions, leanTruth>>

\* It ends, at the last tuple or before; a failure counts when nothing came.
LeanReturns ==
    /\ leanPc = "lean" /\ leanPc' = "read"
    /\ UNCHANGED <<stdout, noise, lineNo, decisions, leanTruth>>

\* Variant: all such lines have one key.
ErrorKeyShared == <<"parse_error", 0>>

\* f"parse_error_{len(results)}".
ErrorKey == <<"parse_error", Cardinality(DOMAIN decisions)>>

TupleKey(t) == <<"idx", t>>

\* A line that is no JSON, or has no "idx", is filed as an error; one of lake's
\* that is JSON but no object ends the runner with a TypeError.
ReadLine ==
    LET line == stdout[lineNo + 1]
        key == IF line = 0 THEN ErrorKey ELSE TupleKey(line)
    IN /\ leanPc = "read" /\ lineNo < Len(stdout)
       /\ \/ /\ lineNo' = lineNo + 1
             /\ decisions' = [k \in DOMAIN decisions \cup {key} |->
                               IF k # key THEN decisions[k]
                               ELSE IF line = 0 THEN "ERROR" ELSE leanTruth[line]]
             /\ UNCHANGED leanPc
          \/ line = 0 /\ leanPc' = "raised" /\ UNCHANGED <<lineNo, decisions>>
       /\ UNCHANGED <<stdout, noise, leanTruth>>

\* __main__: nothing is an error; sorting by int(key) raises on an error's key.
PrintDecisions ==
    /\ leanPc = "read" /\ lineNo = Len(stdout)
    /\ leanPc' = IF decisions = <<>> THEN "exit1"
                 ELSE IF \E k \in DOMAIN decisions : k[1] # "idx" THEN "raised" ELSE "exit0"
    /\ UNCHANGED <<stdout, noise, lineNo, decisions, leanTruth>>

LeanNext == RunInImage \/ MeasureLean \/ LeanReturns \/ ReadLine \/ PrintDecisions

LeanSpec == LeanInit /\ [][LeanNext]_leanVars

-----------------------------------------------------------------------------
\* Properties

LeanTypeOK ==
    /\ leanPc \in {"start", "lean", "read"} \cup LeanEnded
    /\ stdout \in Seq(0 .. NLean) /\ noise \in 0 .. MaxNoise /\ lineNo \in 0 .. Len(stdout)
    /\ leanTruth \in [LeanTuples -> LeanDecision]
    /\ \A k \in DOMAIN decisions : decisions[k] \in LeanDecision \cup {"ERROR"}

\* However lake's lines fall between the answers and wherever the process ends,
\* a tuple's entry is the decision on that tuple, and every line has an entry of
\* its own, so that none hides another: the entries count the lines.
EveryLineIsFiled ==
    /\ \A k \in DOMAIN decisions : k[1] = "idx" => decisions[k] = leanTruth[k[2]]
    /\ Cardinality(DOMAIN decisions) = lineNo
    /\ leanPc = "exit0" => {k[2] : k \in DOMAIN decisions} = 1 .. lineNo
=============================================================================
