------------------------------ MODULE OpaDiff ------------------------------
(***************************************************************************)
(* phase_k_opa_diff/run_opa_diff.py: what the Lean specification of Rego   *)
(* decides on each tuple (one run of measure-rego, plus a few tuples       *)
(* written by hand) against one call of the opa binary per tuple.  The     *)
(* decisions agree, disagree and are labelled, or opa fails; the           *)
(* disagreements go to the file of --output, and the exit code tells CI    *)
(* whether a label says BUG.                                               *)
(***************************************************************************)
EXTENDS Integers, FiniteSets

CONSTANTS
    NOpa,      \* tuples of measure-rego and by hand
    SpecSays,  \* spec_result of each tuple
    OpaMay     \* bound: what opa may decide on each tuple

OpaTuples == 1 .. NOpa
RegoValue == {"true", "false", "undefined"}

\* A call that fails: timeout, exit code, no JSON; its message may say BUG.
OpaFailure == {"error", "error_BUG"}

ASSUME OpaAssumption ==
    /\ NOpa \in Nat \ {0}
    /\ SpecSays \in [OpaTuples -> RegoValue]
    /\ \A t \in OpaTuples : OpaMay[t] \subseteq RegoValue

VARIABLES
    oPc,       \* "idle", "lean", "sweep", "report", "dump", "exit", or how it ended
    output,    \* whether --output is given
    outFile,   \* its file: "old" as it was, "torn" or "new"
    opaResult, \* the results so far: tuple -> what opa said
    agreed, disagreed,
    bugs,      \* the disagreements: tuple -> label
    opaTruth   \* what opa decides on each tuple (fixed)

oVars == <<oPc, output, outFile, opaResult, agreed, disagreed, bugs, opaTruth>>

OpaBusy  == {"lean", "sweep", "report", "dump", "exit"}
OpaEnded == {"exit0", "exit1", "no_tuples", "raised", "killed"}

OpaInit ==
    /\ oPc = "idle" /\ opaResult = <<>> /\ bugs = <<>>
    /\ output \in BOOLEAN /\ outFile = "old"
    /\ agreed = 0 /\ disagreed = 0
    /\ opaTruth \in [OpaTuples -> RegoValue] /\ \A t \in OpaTuples : opaTruth[t] \in OpaMay[t]

\* The binary has to be there, and measure-rego to exit 0 within its time.
OpaStart ==
    /\ \/ oPc = "idle" /\ oPc' \in {"lean", "no_tuples"}
       \/ oPc = "lean" /\ oPc' \in {"sweep", "no_tuples"}
    /\ UNCHANGED <<output, outFile, opaResult, agreed, disagreed, bugs, opaTruth>>

\* Variant: undefined agrees with false whichever side says it.
AgreesEitherWay(spec, opa) == spec = opa \/ {spec, opa} = {"false", "undefined"}

\* A rule that is false is one that did not fire: undefined, says opa.
Agrees(spec, opa) == spec = opa \/ (spec = "false" /\ opa = "undefined")

\* classify_disagreement.  Main has counted a specification's false against
\* opa's undefined as an agreement before it could be labelled.
Classify(spec, opa) ==
    CASE {spec, opa} = {"false", "undefined"}     -> "POSSIBLE-BUG"
      [] {spec, opa} \subseteq RegoValue /\ spec # opa /\ "true" \in {spec, opa} -> "BUG"
      [] opa \in OpaFailure                       -> opa
      [] OTHER                                    -> "UNEXPECTED-DISAGREEMENT"

\* The text of the label contains BUG.
SaysBug(label) == label \in {"BUG", "POSSIBLE-BUG", "error_BUG"}

OpaTuple ==
    LET t == Cardinality(DOMAIN opaResult) + 1
    IN /\ oPc = "sweep" /\ t \in OpaTuples
       /\ \E opa \in {opaTruth[t]} \cup OpaFailure :
            /\ opaResult' = [u \in 1 .. t |-> IF u < t THEN opaResult[u] ELSE opa]
            /\ IF Agrees(SpecSays[t], opa)
               THEN agreed' = agreed + 1 /\ UNCHANGED <<disagreed, bugs>>
               ELSE /\ disagreed' = disagreed + 1 /\ UNCHANGED agreed
                    /\ bugs' = [u \in DOMAIN bugs \cup {t} |->
                                  IF u = t THEN Classify(SpecSays[t], opa) ELSE bugs[u]]
       /\ UNCHANGED <<oPc, output, outFile, opaTruth>>

\* Variant: the old report stays when there is nothing to report.
OpaReportKeepsOld ==
    /\ oPc = "sweep" /\ DOMAIN opaResult = OpaTuples
    /\ oPc' = IF output /\ bugs # <<>> THEN "report" ELSE "exit"
    /\ UNCHANGED <<output, outFile, opaResult, agreed, disagreed, bugs, opaTruth>>

\* The summary is printed.
OpaReport ==
    /\ oPc = "sweep" /\ DOMAIN opaResult = OpaTuples
    /\ oPc' = IF output THEN "report" ELSE "exit"
    /\ UNCHANGED <<output, outFile, opaResult, agreed, disagreed, bugs, opaTruth>>

\* --output: open truncates, dump streams.
OpaWrite ==
    /\ \/ oPc = "report" /\ oPc' = "dump" /\ outFile' = "torn"
       \/ oPc = "dump" /\ oPc' = "exit" /\ outFile' = "new"
    /\ UNCHANGED <<output, opaResult, agreed, disagreed, bugs, opaTruth>>

OpaExit ==
    /\ oPc = "exit"
    /\ oPc' = IF \E t \in DOMAIN bugs : SaysBug(bugs[t]) THEN "exit1" ELSE "exit0"
    /\ UNCHANGED <<output, outFile, opaResult, agreed, disagreed, bugs, opaTruth>>

\* An exception ends the process with status 1 as a BUG does: measure-rego is
\* late, opa cannot be started, --output cannot be opened or filled.
OpaStops ==
    /\ oPc \in OpaBusy /\ oPc' \in {"raised", "killed"}
    /\ UNCHANGED <<output, outFile, opaResult, agreed, disagreed, bugs, opaTruth>>

OpaNext == OpaStart \/ OpaTuple \/ OpaReport \/ OpaWrite \/ OpaExit \/ OpaStops

OpaSpec == OpaInit /\ [][OpaNext]_oVars

-----------------------------------------------------------------------------
\* Properties

OpaTypeOK ==
    /\ oPc \in {"idle"} \cup OpaBusy \cup OpaEnded
    /\ output \in BOOLEAN /\ outFile \in {"old", "torn", "new"}
    /\ opaResult \in UNION {[1 .. k -> RegoValue \cup OpaFailure] : k \in 0 .. NOpa}
    /\ DOMAIN bugs \subseteq DOMAIN opaResult
    /\ \A t \in DOMAIN bugs :
        bugs[t] \in {"BUG", "POSSIBLE-BUG", "UNEXPECTED-DISAGREEMENT"} \cup OpaFailure
    /\ opaTruth \in [OpaTuples -> RegoValue]

Differs(t) == opaResult[t] # SpecSays[t]

\* Main takes this for an agreement (264-270), classify_disagreement has it as a
\* POSSIBLE-BUG (158-161).
Disputed(t) == SpecSays[t] = "false" /\ opaResult[t] = "undefined"

\* What is filed, counted, written and told to CI, against what was decided.
\* Whatever is filed did come out another way, a failure of opa included, and
\* a difference is filed: nothing is said of the disputed one.  The summary's
\* counts add up.  An exit code comes after the whole file of --output, a torn
\* file without one: with 0 no answer differed, though opa may have failed on
\* all tuples; with 1 some answer differed or some failure's message says BUG.
\* (An exception and a missing tool leave status 1, too.)
OpaReportTruthful ==
    /\ \A t \in DOMAIN opaResult :
        /\ t \in DOMAIN bugs => Differs(t)
        /\ Differs(t) /\ ~Disputed(t) => t \in DOMAIN bugs
    /\ disagreed = Cardinality(DOMAIN bugs)
    /\ agreed + disagreed = Cardinality(DOMAIN opaResult)
    /\ outFile = "torn" => oPc \in {"dump", "raised", "killed"}
    /\ oPc \in {"exit0", "exit1"} =>
        /\ DOMAIN opaResult = OpaTuples
        /\ output <=> outFile = "new"
    /\ oPc = "exit1" => \E t \in OpaTuples : Differs(t) /\ opaResult[t] # "error"
    /\ oPc = "exit0" => \A t \in OpaTuples :
        ~Differs(t) \/ Disputed(t) \/ opaResult[t] = "error"
=============================================================================
