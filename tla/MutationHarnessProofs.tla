----------------------- MODULE MutationHarnessProofs -----------------------
(* Theorems of MutationHarness, for any list of mutations.                  *)
EXTENDS MutationHarness, FiniteSetTheorems, TLAPS

LEMMA TornIsNoContent == TornFile \notin SUBSET Mutations /\ 0 \notin Mutations
  BY MutationsAssumption DEF TornFile, Mutations

LEMMA JudgeType ==
  ASSUME MutTypeOK, NEW killed \in BOOLEAN, Judge(killed), current \in Mutations
  PROVE  DOMAIN verdict' \subseteq Mutations /\ verdict' \in [DOMAIN verdict' -> BOOLEAN]
  <1> DEFINE D == DOMAIN verdict \cup {current}
  <1>1. verdict' = [m \in D |-> IF m = current THEN killed ELSE verdict[m]]
    BY DEF Judge
  <1>2. \A m \in D : (IF m = current THEN killed ELSE verdict[m]) \in BOOLEAN
    BY DEF MutTypeOK
  <1>3. D \subseteq Mutations
    BY DEF MutTypeOK
  <1> HIDE DEF D
  <1>4. DOMAIN verdict' = D
    BY <1>1
  <1>5. verdict' \in [D -> BOOLEAN]
    BY <1>1, <1>2
  <1> QED
    BY <1>3, <1>4, <1>5

\* Every action that judges sets a verdict from a truth value, the others keep
\* the results list or empty it.
LEMMA VerdictMoves ==
  ASSUME MutTypeOK, MutNext
  PROVE  \/ verdict' = verdict
         \/ verdict' = NoVerdict
         \/ current \in Mutations /\ \E killed \in BOOLEAN : Judge(killed)
  <1> USE DEF MutTypeOK, Trying
  <1>1. CASE Build
    <2>1. Builds \in BOOLEAN /\ (~Builds) \in BOOLEAN
      BY DEF Builds
    <2> QED
      BY <1>1, <2>1 DEF Build, AfterBuild
  <1>2. CASE BuildBreaksDown
    BY <1>2 DEF BuildBreaksDown, AfterBuild
  <1>3. CASE RunPbt
    <2>1. (~PropertiesHold) \in BOOLEAN
      BY DEF PropertiesHold
    <2> QED
      BY <1>3, <2>1 DEF RunPbt
  <1>4. CASE PbtBreaksDown
    BY <1>4 DEF PbtBreaksDown
  <1> QED
    BY <1>1, <1>2, <1>3, <1>4 DEF MutNext, MutStep, MutInvoke, MutKill, ReadOriginal, ApplyMutation,
       ToolRaises, Restore, Report

\* Every variable has its type in every reachable state.
THEOREM TypeCorrect == MutSpec => []MutTypeOK
  <1> USE MutationsAssumption, InvocationsAssumption
  <1>1. MutInit => MutTypeOK
    <2> SUFFICES ASSUME MutInit PROVE MutTypeOK
      OBVIOUS
    <2>1. DOMAIN verdict \subseteq Mutations /\ verdict \in [DOMAIN verdict -> BOOLEAN]
      BY DEF MutInit, NoVerdict
    <2>2. infra \in BOOLEAN
      BY Zenon DEF MutInit
    <2> QED
      BY <2>1, <2>2 DEF MutInit, MutTypeOK, Content, MutEnded, Exited, Trying
  <1>2. MutTypeOK /\ [MutNext]_mutVars => MutTypeOK'
    <2> SUFFICES ASSUME MutTypeOK, [MutNext]_mutVars PROVE MutTypeOK'
      OBVIOUS
    <2>1. CASE UNCHANGED mutVars
      BY <2>1 DEF mutVars, MutTypeOK
    <2>2. CASE MutNext
      <3>1. DOMAIN verdict' \subseteq Mutations /\ verdict' \in [DOMAIN verdict' -> BOOLEAN]
        BY <2>2, VerdictMoves, JudgeType DEF NoVerdict, MutTypeOK
      <3>2. infra' \in BOOLEAN
        <4>1. infra' = infra \/ infra' = TRUE \/ infra' = FALSE
          BY <2>2, Zenon DEF MutNext, MutStep, MutInvoke, MutKill, ReadOriginal, ApplyMutation, Build,
             BuildBreaksDown, RunPbt, PbtBreaksDown, ToolRaises, Restore, Report
        <4> QED
          BY <4>1, Zenon DEF MutTypeOK
      <3>3. tree' \in [Files -> Content]
        <4>1. CASE ApplyMutation \/ Restore
          BY <4>1 DEF ApplyMutation, Restore, Truncated, Filled, MutTypeOK, Content, Trying
        <4> QED
          BY <2>2, <4>1 DEF MutNext, MutStep, MutInvoke, MutKill, ReadOriginal, Build, MutTypeOK,
             BuildBreaksDown, RunPbt, PbtBreaksDown, ToolRaises, Report
      <3>4. found' \in [Files -> Content]
        BY <2>2 DEF MutNext, MutStep, MutInvoke, MutKill, ReadOriginal, ApplyMutation, Build,
           BuildBreaksDown, RunPbt, PbtBreaksDown, ToolRaises, Restore, Report, MutTypeOK
      <3>5. /\ selected' \subseteq Mutations /\ left' \subseteq selected'
            /\ current' \in Mutations \cup {0} /\ (stage' \in Trying => current' \in Mutations)
            /\ stage' \in {"idle", "next"} \cup Trying \cup MutEnded
            /\ original' \in SUBSET Mutations
            /\ invocations' \in 0 .. MutInvocations
        <4> USE DEF MutTypeOK, Trying, MutEnded, Exited
        <4>1. CASE ReadOriginal
          <5>1. PICK m \in left : /\ current' = m /\ left' = left \ {m}
                                  /\ IF Applicable(m)
                                     THEN original' = tree[FileOf[m]] /\ stage' = "apply"
                                     ELSE stage' = "exit2" /\ UNCHANGED original
            BY <4>1 DEF ReadOriginal
          <5>2. m \in Mutations /\ original' \in SUBSET Mutations /\ stage' \in {"apply", "exit2"}
            BY <5>1 DEF Applicable, Content
          <5> QED
            BY <4>1, <5>1, <5>2 DEF ReadOriginal
        <4>2. CASE MutInvoke
          BY <4>2 DEF MutInvoke
        <4>3. CASE Build \/ BuildBreaksDown \/ RunPbt \/ PbtBreaksDown \/ ToolRaises \/ Report \/ MutKill
          BY <4>3 DEF Build, BuildBreaksDown, RunPbt, PbtBreaksDown, AfterBuild, ToolRaises,
             Report, MutKill
        <4>4. CASE ApplyMutation \/ Restore
          BY <4>4 DEF ApplyMutation, Restore
        <4> QED
          BY <2>2, <4>1, <4>2, <4>3, <4>4 DEF MutNext, MutStep
      <3> QED
        BY <3>1, <3>2, <3>3, <3>4, <3>5 DEF MutTypeOK
    <2> QED
      BY <2>1, <2>2
  <1> QED
    BY <1>1, <1>2, PTL DEF MutSpec

-----------------------------------------------------------------------------
\* The tree

LEMMA RestoreStep ==
  MutTypeOK /\ RestoreInv /\ [MutNext]_mutVars => RestoreInv'
  <1> SUFFICES ASSUME MutTypeOK, RestoreInv, [MutNext]_mutVars PROVE RestoreInv'
    OBVIOUS
  <1> USE MutationsAssumption DEF RestoreInv, TreeRestored, DamageConfined, Trying, Exited, MutEnded
  <1>0. tree \in [Files -> Content] /\ found \in [Files -> Content]
    BY DEF MutTypeOK
  <1>1. CASE MutInvoke
    BY <1>1, <1>0 DEF MutInvoke
  <1>2. CASE ReadOriginal
    <2>1. PICK m \in Mutations : /\ current' = m
                                /\ \/ original' = tree[FileOf[m]] /\ stage' = "apply"
                                   \/ stage' = "exit2"
      BY <1>2 DEF ReadOriginal, MutTypeOK
    <2>2. stage = "next" /\ UNCHANGED <<tree, found>>
      BY <1>2 DEF ReadOriginal
    <2> QED
      BY <2>1, <2>2
  <1>3. CASE ApplyMutation
    <2>1. UNCHANGED <<current, original, found>> /\ current \in Mutations
      BY <1>3 DEF ApplyMutation, MutTypeOK
    <2> QED
      BY <1>0, <1>3, <2>1 DEF ApplyMutation, Truncated, Filled
  <1>4. CASE Restore
    <2>1. UNCHANGED <<current, original, found>> /\ current \in Mutations
      BY <1>4 DEF Restore, MutTypeOK
    <2>2. CASE stage \in {"restore", "unwind"}
      BY <1>0, <1>4, <2>1, <2>2 DEF Restore, Truncated
    <2>3. CASE stage \in {"restore_fill", "unwind_fill"}
      <3>1. tree' = found
        BY <1>0, <1>4, <2>1, <2>3 DEF Restore, Filled
      <3> QED
        BY <1>4, <2>1, <2>3, <3>1 DEF Restore
    <2> QED
      BY <1>4, <2>2, <2>3 DEF Restore
  <1>5. CASE Build \/ BuildBreaksDown \/ RunPbt \/ PbtBreaksDown \/ ToolRaises
    <2>1. /\ UNCHANGED <<tree, current, original, found>>
          /\ stage \in {"build", "pbt"} /\ stage' \in {"pbt", "restore", "unwind"}
      BY <1>5 DEF Build, BuildBreaksDown, RunPbt, PbtBreaksDown, AfterBuild, ToolRaises
    <2> QED
      BY <2>1
  <1>6. CASE Report \/ MutKill
    <2>1. /\ UNCHANGED <<tree, current, original, found>>
          /\ stage = "next" \/ stage' = "killed"
          /\ stage' \in MutEnded
      BY <1>6 DEF Report, MutKill
    <2> QED
      BY <1>6, <2>1 DEF Report, MutKill
  <1>7. CASE UNCHANGED mutVars
    BY <1>7 DEF mutVars
  <1> QED
    BY <1>1, <1>2, <1>3, <1>4, <1>5, <1>6, <1>7 DEF MutNext, MutStep

LEMMA RestoreAlways == MutSpec => []RestoreInv
  <1>1. MutInit => RestoreInv
    BY DEF MutInit, RestoreInv, TreeRestored, DamageConfined, Trying, Exited
  <1> QED
    BY <1>1, RestoreStep, TypeCorrect, PTL DEF MutSpec

\* Unless it is killed, the harness leaves every file as it found it, whatever
\* the tools do.
THEOREM TreeIsRestored == MutSpec => []TreeRestored
  <1>1. RestoreInv => TreeRestored
    BY DEF RestoreInv
  <1> QED
    BY <1>1, RestoreAlways, PTL

\* At any moment, a kill included, at most the file of one mutation differs from
\* what was found.
THEOREM OneFileAtRisk == MutSpec => []DamageConfined
  <1>1. RestoreInv => DamageConfined
    BY DEF RestoreInv
  <1> QED
    BY <1>1, RestoreAlways, PTL

-----------------------------------------------------------------------------
\* The verdicts

\* The tree a tool sees is what was found with the current mutation on top: a
\* tool that passes clears the mutation, one that fails blames it or the tree.
LEMMA ToolsSeeTheMutation ==
  ASSUME MutTypeOK, RestoreInv, stage \in {"build", "pbt"}
  PROVE  /\ Builds => current \notin BreaksBuild
         /\ PropertiesHold => current \notin BreaksPbt
         /\ ~Builds \/ ~PropertiesHold => Caught(current) \/ ~FoundPasses
  <1>1. /\ current \in Mutations /\ FileOf[current] \in Files
        /\ tree = [found EXCEPT ![FileOf[current]] = found[FileOf[current]] \cup {current}]
    BY MutationsAssumption DEF MutTypeOK, RestoreInv, Trying
  <1>2. /\ tree[FileOf[current]] = found[FileOf[current]] \cup {current}
        /\ \A f \in Files \ {FileOf[current]} : tree[f] = found[f]
    BY <1>1 DEF MutTypeOK
  <1>3. ASSUME FoundPasses, ~Caught(current) PROVE Builds /\ PropertiesHold
    <2> SUFFICES ASSUME NEW f \in Files
                 PROVE  /\ tree[f] # TornFile
                        /\ tree[f] \cap (BreaksBuild \cup BreaksPbt) = {}
      BY DEF Builds, PropertiesHold
    <2>1. found[f] # TornFile /\ found[f] \cap (BreaksBuild \cup BreaksPbt) = {}
      BY <1>3 DEF FoundPasses
    <2>2. current # 0 /\ current \notin BreaksBuild \cup BreaksPbt
      BY <1>1, <1>3, MutationsAssumption DEF Mutations, Caught
    <2> QED
      BY <1>2, <2>1, <2>2 DEF TornFile
  <1>4. (Builds => current \notin BreaksBuild) /\ (PropertiesHold => current \notin BreaksPbt)
    BY <1>1, <1>2 DEF Builds, PropertiesHold
  <1> QED
    BY <1>3, <1>4

\* Judging adds the current mutation to the results list.
LEMMA Judged ==
  ASSUME MutTypeOK, NEW killed \in BOOLEAN, Judge(killed)
  PROVE  /\ DOMAIN verdict' = DOMAIN verdict \cup {current}
         /\ verdict'[current] = killed
         /\ \A m \in DOMAIN verdict \ {current} : verdict'[m] = verdict[m]
  BY DEF Judge

LEMMA JudgedStep ==
  MutTypeOK /\ RestoreInv /\ JudgedInv /\ [MutNext]_mutVars => JudgedInv'
  <1> SUFFICES ASSUME MutTypeOK, RestoreInv, JudgedInv, [MutNext]_mutVars PROVE JudgedInv'
    OBVIOUS
  <1>1. ASSUME NEW killed \in BOOLEAN, Judge(killed), stage \in {"build", "pbt"}, stage' = "restore",
               UNCHANGED <<selected, left, current, found>>,
               infra => infra',
               ~killed => Survives(current),
               killed => Caught(current) \/ infra' \/ ~FoundPasses
        PROVE  JudgedInv'
    <2>1. /\ DOMAIN verdict' = DOMAIN verdict \cup {current}
          /\ verdict'[current] = killed
          /\ \A m \in DOMAIN verdict \ {current} : verdict'[m] = verdict[m]
      BY <1>1, Judged
    <2>2. VerdictsHonest'
      <3>0. FoundPasses' = FoundPasses
        BY <1>1 DEF FoundPasses
      <3> SUFFICES ASSUME NEW m \in DOMAIN verdict'
                   PROVE  /\ ~verdict'[m] => Survives(m)
                          /\ verdict'[m] => Caught(m) \/ infra' \/ ~FoundPasses
        BY <3>0, Zenon DEF VerdictsHonest, Survives, Caught
      <3>1. CASE m = current
        BY <1>1, <2>1, <3>1, Zenon
      <3>2. CASE m # current
        <4>1. m \in DOMAIN verdict /\ verdict'[m] = verdict[m]
          BY <2>1, <3>2, Zenon
        <4>2. /\ ~verdict[m] => Survives(m)
              /\ verdict[m] => Caught(m) \/ infra \/ ~FoundPasses
          BY <4>1, Zenon DEF JudgedInv, VerdictsHonest
        <4> QED
          BY <1>1, <4>1, <4>2, Zenon
      <3> QED
        BY <3>1, <3>2
    <2>3. DOMAIN verdict' = selected' \ left'
      BY <1>1, <2>1 DEF JudgedInv
    <2> QED
      BY <1>1, <2>2, <2>3 DEF JudgedInv
  <1>2. CASE MutInvoke
    BY <1>2 DEF MutInvoke, NoVerdict, JudgedInv, VerdictsHonest
  <1>3. CASE ReadOriginal
    <2>1. PICK m \in left : /\ current' = m /\ left' = left \ {m} /\ stage' \in {"apply", "exit2"}
      BY <1>3 DEF ReadOriginal
    <2>2. stage = "next" /\ UNCHANGED <<selected, verdict, found, infra>>
      BY <1>3 DEF ReadOriginal
    <2>3. DOMAIN verdict \cup {m} = selected \ left'
      BY <2>1, <2>2 DEF JudgedInv, MutTypeOK
    <2> QED
      BY <2>1, <2>2, <2>3 DEF JudgedInv, VerdictsHonest, FoundPasses, Caught, Survives
  <1>4. CASE ApplyMutation \/ Restore \/ ToolRaises \/ MutKill
    <2>1. /\ UNCHANGED <<selected, left, current, verdict, found, infra>>
          /\ \/ stage \in {"apply", "apply_fill"} /\ stage' \in {"apply_fill", "build"}
             \/ stage \in {"restore", "restore_fill"} /\ stage' \in {"restore_fill", "next"}
             \/ stage' \in {"unwind", "unwind_fill", "exit2", "killed"}
      BY <1>4, Zenon DEF ApplyMutation, Restore, ToolRaises, MutKill
    <2>2. VerdictsHonest'
      BY <2>1, Zenon DEF JudgedInv, VerdictsHonest, FoundPasses, Caught, Survives
    <2> QED
      BY <2>1, <2>2 DEF JudgedInv
  <1>5. CASE Report
    <2>1. /\ UNCHANGED <<selected, left, current, verdict, found, infra>>
          /\ stage = "next" /\ left = {}
          /\ stage' = IF Lived = {} THEN "exit0" ELSE "exit1"
      BY <1>5 DEF Report
    <2>2. VerdictsHonest' /\ Lived' = Lived
      BY <2>1, Zenon DEF JudgedInv, VerdictsHonest, FoundPasses, Caught, Survives, Lived
    <2> QED
      BY <2>1, <2>2 DEF JudgedInv
  <1>6. CASE Build
    <2>1. /\ stage = "build" /\ AfterBuild(Builds)
          /\ UNCHANGED <<selected, left, current, found, infra>>
      BY <1>6 DEF Build
    <2>2. /\ Builds => current \notin BreaksBuild
          /\ ~Builds => Caught(current) \/ ~FoundPasses
      BY <2>1, ToolsSeeTheMutation
    <2>3. CASE Layer[current] = "lake-build"
      <3>1. Judge(~Builds) /\ stage' = "restore" /\ (~Builds) \in BOOLEAN
        BY <2>1, <2>3 DEF AfterBuild, Builds
      <3>2. Builds => Survives(current)
        BY <2>2, <2>3 DEF Survives
      <3> QED
        BY <1>1, <2>1, <2>2, <3>1, <3>2
    <2>4. CASE Layer[current] # "lake-build" /\ ~Builds
      <3>1. Judge(TRUE) /\ stage' = "restore"
        BY <2>1, <2>4 DEF AfterBuild
      <3> QED
        BY <1>1, <2>1, <2>2, <2>4, <3>1
    <2>5. CASE Layer[current] # "lake-build" /\ Builds
      <3>1. stage' = "pbt" /\ UNCHANGED verdict
        BY <2>1, <2>5 DEF AfterBuild
      <3>2. Layer[current] = "pbt"
        BY <2>1, <2>5, MutationsAssumption DEF MutTypeOK, Trying
      <3>3. VerdictsHonest'
        BY <2>1, <3>1, Zenon DEF JudgedInv, VerdictsHonest, FoundPasses, Caught, Survives
      <3> QED
        BY <2>1, <2>2, <2>5, <3>1, <3>2, <3>3 DEF JudgedInv
    <2> QED
      BY <2>3, <2>4, <2>5
  <1>7. CASE BuildBreaksDown
    <2>1. /\ stage = "build" /\ AfterBuild(FALSE) /\ infra'
          /\ UNCHANGED <<selected, left, current, found>>
      BY <1>7 DEF BuildBreaksDown
    <2>2. Judge(TRUE) /\ stage' = "restore"
      BY <2>1 DEF AfterBuild
    <2> QED
      BY <1>1, <2>1, <2>2
  <1>8. CASE RunPbt
    <2>1. /\ stage = "pbt" /\ Judge(~PropertiesHold) /\ stage' = "restore"
          /\ UNCHANGED <<selected, left, current, found, infra>>
      BY <1>8 DEF RunPbt
    <2>2. (~PropertiesHold) \in BOOLEAN
      BY DEF PropertiesHold
    <2>3. /\ PropertiesHold => Survives(current)
          /\ ~PropertiesHold => Caught(current) \/ ~FoundPasses
      BY <2>1, ToolsSeeTheMutation DEF Survives, JudgedInv
    <2> QED
      BY <1>1, <2>1, <2>2, <2>3
  <1>9. CASE PbtBreaksDown
    <2>1. /\ stage = "pbt" /\ Judge(TRUE) /\ stage' = "restore" /\ infra'
          /\ UNCHANGED <<selected, left, current, found>>
      BY <1>9 DEF PbtBreaksDown
    <2> QED
      BY <1>1, <2>1
  <1>10. CASE UNCHANGED mutVars
    <2>1. UNCHANGED <<stage, selected, left, current, verdict, found, infra>>
      BY <1>10 DEF mutVars
    <2>2. VerdictsHonest' /\ Lived' = Lived
      BY <2>1, Zenon DEF JudgedInv, VerdictsHonest, FoundPasses, Caught, Survives, Lived
    <2> QED
      BY <2>1, <2>2 DEF JudgedInv
  <1> QED
    BY <1>2, <1>3, <1>4, <1>5, <1>6, <1>7, <1>8, <1>9, <1>10 DEF MutNext, MutStep

LEMMA JudgedAlways == MutSpec => []JudgedInv
  <1>1. MutInit => JudgedInv
    BY DEF MutInit, JudgedInv, VerdictsHonest, NoVerdict
  <1> QED
    BY <1>1, JudgedStep, RestoreAlways, TypeCorrect, PTL DEF MutSpec

\* A mutation called lived passed every test that was run on it; one called
\* killed is caught by some test, unless a tool or the found tree was broken.
THEOREM VerdictsAreHonest == MutSpec => []VerdictsHonest
  <1>1. JudgedInv => VerdictsHonest
    BY DEF JudgedInv
  <1> QED
    BY <1>1, JudgedAlways, PTL

\* The exit code speaks for every selected mutation.
THEOREM ExitCodeCovers == MutSpec => []ExitMeansCoverage
  <1>1. JudgedInv => ExitMeansCoverage
    <2> SUFFICES ASSUME JudgedInv PROVE ExitMeansCoverage
      OBVIOUS
    <2>1. stage \in {"exit0", "exit1"} => DOMAIN verdict = selected
      BY DEF JudgedInv
    <2>2. ASSUME FoundPasses, ~infra, stage = "exit0", NEW m \in selected PROVE Caught(m)
      <3>1. m \in DOMAIN verdict /\ m \notin Lived
        BY <2>1, <2>2 DEF JudgedInv
      <3> QED
        BY <2>2, <3>1, Zenon DEF Lived, JudgedInv, VerdictsHonest
    <2>3. ASSUME stage = "exit1" PROVE \E m \in selected : Survives(m)
      <3>1. PICK m \in DOMAIN verdict : ~verdict[m]
        BY <2>3 DEF JudgedInv, Lived
      <3>2. m \in selected
        BY <2>1, <2>3, <3>1
      <3> QED
        BY <2>3, <3>1, <3>2, Zenon DEF JudgedInv, VerdictsHonest
    <2> QED
      BY <2>1, <2>2, <2>3 DEF ExitMeansCoverage
  <1> QED
    BY <1>1, JudgedAlways, PTL

-----------------------------------------------------------------------------
\* Every invocation runs out of steps

\* The steps left until the next mutation is read, at each stage.
StageSteps ==
    CASE stage = "apply" -> 7
      [] stage = "apply_fill" -> 6
      [] stage = "build" -> 5
      [] stage = "pbt" -> 4
      [] stage \in {"restore", "unwind"} -> 3
      [] stage \in {"restore_fill", "unwind_fill"} -> 2
      [] OTHER -> 1

StepsLeft == IF stage \in {"idle"} \cup MutEnded THEN 0 ELSE 7 * Cardinality(left) + StageSteps

Bounded ==
  /\ StepsLeft \in 0 .. 7 * NMutations + 7
  /\ StepsLeft = 0 <=> stage \in {"idle"} \cup MutEnded

CountsDown == invocations' = invocations => StepsLeft' < StepsLeft

LEMMA LeftFinite ==
  ASSUME NEW S \in SUBSET Mutations
  PROVE  IsFiniteSet(S) /\ Cardinality(S) \in 0 .. NMutations
  <1>1. IsFiniteSet(Mutations) /\ Cardinality(Mutations) = NMutations
    BY MutationsAssumption, FS_Interval DEF Mutations
  <1>2. IsFiniteSet(S) /\ Cardinality(S) <= Cardinality(Mutations) /\ Cardinality(S) \in Nat
    BY <1>1, FS_Subset, FS_CardinalityType
  <1> QED
    BY <1>1, <1>2, MutationsAssumption

\* Whatever the tools do, every step of an invocation, and its being killed, takes
\* it nearer its end, and it has seven steps for a mutation at most: the loop of
\* main over the mutations cannot go on for ever.
THEOREM InvocationsRunOut == MutSpec => []Bounded /\ [][CountsDown]_mutVars
  <1> USE MutationsAssumption
  <1>1. MutTypeOK => Bounded
    <2> SUFFICES ASSUME MutTypeOK PROVE Bounded
      OBVIOUS
    <2>1. Cardinality(left) \in 0 .. NMutations
      BY LeftFinite DEF MutTypeOK
    <2>2. StageSteps \in 1 .. 7
      BY DEF StageSteps
    <2>3. 7 * Cardinality(left) + StageSteps \in 1 .. 7 * NMutations + 7
      BY <2>1, <2>2
    <2> QED
      BY <2>3 DEF Bounded, StepsLeft
  <1>2. MutTypeOK /\ MutTypeOK' /\ MutNext => CountsDown
    <2> SUFFICES ASSUME MutTypeOK, MutTypeOK', MutNext, invocations' = invocations
                 PROVE  StepsLeft' < StepsLeft
      BY DEF CountsDown
    <2> DEFINE n == Cardinality(left)
    <2>1. n \in Nat /\ Cardinality(left') \in Nat /\ StepsLeft \in Nat
      BY <1>1, LeftFinite DEF MutTypeOK, Bounded
    <2>2. ~MutInvoke
      BY DEF MutInvoke, MutTypeOK
    <2>3. CASE ReadOriginal
      <3>1. PICK m \in left : left' = left \ {m}
        BY <2>3 DEF ReadOriginal
      <3>2. IsFiniteSet(left)
        BY LeftFinite DEF MutTypeOK
      <3>3. Cardinality(left') = n - 1
        BY <3>1, <3>2, FS_RemoveElement
      <3>4. stage = "next" /\ stage' \in {"apply", "exit2"}
        BY <2>3 DEF ReadOriginal
      <3>5. StepsLeft = 7 * n + 1
        BY <3>4 DEF StepsLeft, StageSteps, MutEnded, Exited
      <3>6. StepsLeft' = 7 * Cardinality(left') + 7 \/ StepsLeft' = 0
        BY <3>4 DEF StepsLeft, StageSteps, MutEnded, Exited
      <3> QED
        BY <2>1, <3>3, <3>5, <3>6
    <2>4. CASE MutKill
      BY <1>1, <2>1, <2>4 DEF MutKill, StepsLeft, MutEnded, Bounded
    <2>5. CASE Report
      <3>1. stage = "next" /\ stage' \in {"exit0", "exit1"}
        BY <2>5 DEF Report
      <3> QED
        BY <2>1, <3>1 DEF StepsLeft, StageSteps, MutEnded, Exited
    <2>6. CASE ApplyMutation \/ Build \/ BuildBreaksDown \/ RunPbt \/ PbtBreaksDown
               \/ ToolRaises \/ Restore
      <3>1. left' = left
        BY <2>6 DEF ApplyMutation, Build, BuildBreaksDown, RunPbt, PbtBreaksDown, ToolRaises,
           Restore
      <3>3. /\ stage \in Trying
            /\ stage' = "exit2" \/ StageSteps' < StageSteps
            /\ stage' \notin {"idle", "exit0", "exit1", "killed"}
        <4>1. \/ stage = "apply" /\ stage' = "apply_fill"
              \/ stage = "apply_fill" /\ stage' = "build"
              \/ stage = "build" /\ stage' \in {"restore", "pbt", "unwind"}
              \/ stage = "pbt" /\ stage' \in {"restore", "unwind"}
              \/ stage = "restore" /\ stage' = "restore_fill"
              \/ stage = "unwind" /\ stage' = "unwind_fill"
              \/ stage \in {"restore_fill", "unwind_fill"} /\ stage' \in {"next", "exit2"}
          BY <2>6 DEF ApplyMutation, Build, BuildBreaksDown, RunPbt, PbtBreaksDown, ToolRaises,
             Restore, AfterBuild
        <4> QED
          BY <4>1 DEF StageSteps, Trying
      <3>4. StageSteps \in 1 .. 7 /\ StageSteps' \in 1 .. 7
        BY DEF StageSteps
      <3>5. StepsLeft = 7 * n + StageSteps
        BY <3>3 DEF StepsLeft, Trying, MutEnded, Exited
      <3>6. StepsLeft' = 0 \/ (StepsLeft' = 7 * n + StageSteps' /\ stage' # "exit2")
        BY <3>1 DEF StepsLeft, MutEnded, Exited
      <3> QED
        BY <2>1, <3>3, <3>4, <3>5, <3>6
    <2> QED
      BY <2>2, <2>3, <2>4, <2>5, <2>6 DEF MutNext, MutStep
  <1>3. MutTypeOK /\ MutTypeOK' /\ [MutNext]_mutVars => [CountsDown]_mutVars
    BY <1>2
  <1> QED
    BY <1>1, <1>3, TypeCorrect, PTL DEF MutSpec
=============================================================================
