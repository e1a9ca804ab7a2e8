------------------------------- MODULE PbtRun -------------------------------
(***************************************************************************)
(* phase_l_pbt/run.py: samples expressions with measure-full and policies  *)
(* with a one-shot Lean script, and judges four properties of the samples. *)
(* The script has one fixed name in cedar-full, is written, run and        *)
(* removed by every invocation; invocations in one tree may overlap.       *)
(*                                                                         *)
(* What is sampled follows from the arms the generator has; a regression   *)
(* drops some.  A policy row of the random arm shows one scope kind, for   *)
(* the three roles alike, one condition kind and one body.                 *)
(***************************************************************************)
EXTENDS Integers, FiniteSets

CONSTANTS
    PbRuns,              \* the invocations
    EXPECTED_HEADS,      \* target -> root heads
    EXPECTED_SUBHEADS,   \* target -> heads below the root
    EDGE_CASE_POLICY_IDS,
    EXPECTED_SCOPE_KINDS,
    EXPECTED_CONDITION_KINDS,
    Bodies,              \* the bodies the random arm yields
    MinRandom,           \* P3: the least number of random policies
    P4_MIN_DISTINCT_BODIES

Targets == DOMAIN EXPECTED_HEADS

ASSUME PbAssumption ==
    /\ DOMAIN EXPECTED_SUBHEADS = Targets
    /\ IsFiniteSet(Bodies) /\ MinRandom \in Nat /\ P4_MIN_DISTINCT_BODIES \in Nat

\* The expectations are those of a generator that has all its arms: some head is
\* expected, none only below roots that are not; a fixture is not called random;
\* bodies are counted under some condition, and at least two are asked for; and
\* the random arm yields as many bodies and policies as the thresholds.
ASSUME ArmsAssumption ==
    /\ \E t \in Targets : EXPECTED_HEADS[t] # {}
    /\ \A t \in Targets : EXPECTED_SUBHEADS[t] # {} => EXPECTED_HEADS[t] # {}
    /\ "random" \notin EDGE_CASE_POLICY_IDS
    /\ IsFiniteSet(EXPECTED_SCOPE_KINDS) /\ EXPECTED_SCOPE_KINDS # {}
    /\ IsFiniteSet(EXPECTED_CONDITION_KINDS) /\ EXPECTED_CONDITION_KINDS \ {"empty"} # {}
    /\ P4_MIN_DISTINCT_BODIES \in 2 .. Cardinality(Bodies)
    /\ MinRandom <= Cardinality(EXPECTED_SCOPE_KINDS) * Cardinality(EXPECTED_CONDITION_KINDS)
                       * Cardinality(Bodies)

\* What a regression can drop: an arm of the generator.
Arm(kind, of, x) == [kind |-> kind, of |-> of, x |-> x]
Arms == (UNION {{Arm("head", t, h) : h \in EXPECTED_HEADS[t]} : t \in Targets})
    \cup (UNION {{Arm("sub", t, h) : h \in EXPECTED_SUBHEADS[t]} : t \in Targets})
    \cup {Arm("edge", "", e) : e \in EDGE_CASE_POLICY_IDS}
    \cup {Arm("scope", "", k) : k \in EXPECTED_SCOPE_KINDS}
    \cup {Arm("condition", "", k) : k \in EXPECTED_CONDITION_KINDS}
    \cup {Arm("random", "", "random"), Arm("bodies", "", "random")}

VARIABLES
    pbPc,       \* where each invocation is
    answer,     \* what the script run gave it: "none", "rows", "exit2" or "raised"
    scriptFile, \* .pbt_genpolicy_ids.lean: "absent", "torn" or "full"
    dropped,    \* the arms the generator lacks (fixed)
    illTyped    \* whether it yields ill-typed expressions (fixed)

pbVars == <<pbPc, answer, scriptFile, dropped, illTyped>>

PbEnded == {"exit0", "exit1", "exit2", "raised", "killed"}
PbStages == {"measure", "write", "flush", "lean", "cleanup", "unlink", "judge"}

PbInit ==
    /\ pbPc = [i \in PbRuns |-> "idle"] /\ answer = [i \in PbRuns |-> "none"]
    /\ scriptFile = "absent"
    /\ dropped \in {{}} \cup {{a} : a \in Arms} /\ illTyped \in BOOLEAN

PbGoto(i, stage) == pbPc' = [pbPc EXCEPT ![i] = stage]

-----------------------------------------------------------------------------
\* The samples

Yields(kind, of, x) == Arm(kind, of, x) \notin dropped

ExprRows ==
    UNION {{[target |-> t, head |-> h, wt |-> ~illTyped,
             subs |-> {s \in EXPECTED_SUBHEADS[t] : Yields("sub", t, s)}] :
                h \in {x \in EXPECTED_HEADS[t] : Yields("head", t, x)}} : t \in Targets}

RandomRows ==
    IF ~Yields("random", "", "random") THEN {}
    ELSE [id : {"random"},
          scope : {k \in EXPECTED_SCOPE_KINDS : Yields("scope", "", k)},
          condition : {k \in EXPECTED_CONDITION_KINDS : Yields("condition", "", k)},
          body : IF Yields("bodies", "", "random") THEN Bodies
                 ELSE {CHOOSE b \in Bodies : TRUE}]

PolicyRows == RandomRows \cup
    [id : {e \in EDGE_CASE_POLICY_IDS : Yields("edge", "", e)},
     scope : {"any"}, condition : {"when"}, body : {"fixture"}]

-----------------------------------------------------------------------------
\* The properties

P1 == \A r \in ExprRows : r.wt

\* Variant: heads are pooled over the targets.
P2Pooled ==
    /\ UNION {EXPECTED_HEADS[t] : t \in Targets} \subseteq {r.head : r \in ExprRows}
    /\ UNION {EXPECTED_SUBHEADS[t] : t \in Targets} \subseteq UNION {r.subs : r \in ExprRows}

P2 == \A t \in Targets :
        LET of == {r \in ExprRows : r.target = t}
        IN EXPECTED_HEADS[t] \subseteq {r.head : r \in of}
           /\ EXPECTED_SUBHEADS[t] \subseteq UNION {r.subs : r \in of}

P3 == /\ EDGE_CASE_POLICY_IDS \cup {"random"} \subseteq {r.id : r \in PolicyRows}
      /\ Cardinality({r \in PolicyRows : r.id = "random"}) >= MinRandom

P4 == LET random == {r \in PolicyRows : r.id = "random"}
      IN /\ random # {}
         /\ EXPECTED_SCOPE_KINDS \subseteq {r.scope : r \in random}
         /\ EXPECTED_CONDITION_KINDS \subseteq {r.condition : r \in random}
         /\ Cardinality({r.body : r \in {q \in random : q.condition # "empty"}})
               >= P4_MIN_DISTINCT_BODIES

-----------------------------------------------------------------------------
\* One invocation

PbStart(i) ==
    /\ pbPc[i] = "idle" /\ PbGoto(i, "measure")
    /\ UNCHANGED <<answer, scriptFile, dropped, illTyped>>

\* run_measure: a tool that fails is exit 2, one that hangs an exception.
RunMeasure(i) ==
    /\ pbPc[i] = "measure"
    /\ \E next \in {"write", "exit2", "raised"} : PbGoto(i, next)
    /\ UNCHANGED <<answer, scriptFile, dropped, illTyped>>

WriteScript(i) ==
    /\ \/ pbPc[i] = "write" /\ PbGoto(i, "flush") /\ scriptFile' = "torn"
       \/ pbPc[i] = "flush" /\ PbGoto(i, "lean") /\ scriptFile' = "full"
    /\ UNCHANGED <<answer, dropped, illTyped>>

\* Lean finds no main in half a script, and no script where it was removed.
RunScript(i) ==
    /\ pbPc[i] = "lean" /\ PbGoto(i, "cleanup")
    /\ \E a \in {"rows", "exit2", "raised"} :
        /\ a = "rows" => scriptFile = "full"
        /\ answer' = [answer EXCEPT ![i] = a]
    /\ UNCHANGED <<scriptFile, dropped, illTyped>>

AfterCleanup(i) == IF answer[i] = "rows" THEN "judge" ELSE answer[i]

\* finally: if the script exists it is unlinked, which raises when another
\* invocation was quicker.
Cleanup(i) ==
    /\ \/ /\ pbPc[i] = "cleanup"
          /\ PbGoto(i, IF scriptFile # "absent" THEN "unlink" ELSE AfterCleanup(i))
          /\ UNCHANGED scriptFile
       \/ /\ pbPc[i] = "unlink"
          /\ PbGoto(i, IF scriptFile = "absent" THEN "raised" ELSE AfterCleanup(i))
          /\ scriptFile' = "absent"
    /\ UNCHANGED <<answer, dropped, illTyped>>

PbJudge(i) ==
    /\ pbPc[i] = "judge"
    /\ PbGoto(i, IF P1 /\ P2 /\ P3 /\ P4 THEN "exit0" ELSE "exit1")
    /\ UNCHANGED <<answer, scriptFile, dropped, illTyped>>

PbKill(i) ==
    /\ pbPc[i] \in PbStages /\ PbGoto(i, "killed")
    /\ UNCHANGED <<answer, scriptFile, dropped, illTyped>>

PbStep(i) == PbStart(i) \/ RunMeasure(i) \/ WriteScript(i) \/ RunScript(i) \/ Cleanup(i)
             \/ PbJudge(i)

PbNext == \E i \in PbRuns : PbStep(i) \/ PbKill(i)

PbSpec == PbInit /\ [][PbNext]_pbVars

-----------------------------------------------------------------------------
\* Properties

PbTypeOK ==
    /\ pbPc \in [PbRuns -> {"idle"} \cup PbStages \cup PbEnded]
    /\ answer \in [PbRuns -> {"none", "rows", "exit2", "raised"}]
    /\ scriptFile \in {"absent", "torn", "full"}
    /\ dropped \subseteq Arms /\ illTyped \in BOOLEAN

\* A generator that lost an arm, or its typing, is never let through, and one
\* that has all of them never fails, whatever overlapping invocations do to each
\* other's script: they can only cost each other the verdict.
VerdictIsTheGenerators ==
    \A i \in PbRuns :
        /\ pbPc[i] = "exit0" => dropped = {} /\ ~illTyped
        /\ pbPc[i] = "exit1" => dropped # {} \/ illTyped
=============================================================================
