-------------------------- MODULE MutationHarness --------------------------
(***************************************************************************)
(* The mutation harness experiments/phase_m_mutation/run.py, with the      *)
(* property runner of phase_l_pbt it calls: for each selected mutation it  *)
(* edits a source file of cedar-full in place, builds, perhaps runs the    *)
(* properties, and puts the file back.  The harness is invoked again and   *)
(* again on the same tree, one invocation at a time; an invocation may be  *)
(* killed anywhere and then leaves the tree as it is.                      *)
(*                                                                         *)
(* A file is known by the set of mutations it has in it, or is TornFile    *)
(* while it is being rewritten.                                            *)
(***************************************************************************)
EXTENDS Integers

CONSTANTS
    NMutations,      \* len(MUTATIONS)
    Files,           \* the mutated source files
    FileOf,          \* Mutation.file
    Layer,           \* Mutation.expected_failure_in
    BreaksBuild,     \* the mutations with which lake build fails
    BreaksPbt,       \* the mutations some property of phase_l_pbt detects
    MutInvocations   \* bound: how often the harness is invoked

Mutations == 1 .. NMutations
TornFile == {0}      \* a truncated file: no set of mutations

ASSUME MutationsAssumption ==
    /\ NMutations \in Nat
    /\ FileOf \in [Mutations -> Files]
    /\ Layer \in [Mutations -> {"lake-build", "pbt"}]
    /\ BreaksBuild \subseteq Mutations /\ BreaksPbt \subseteq Mutations
ASSUME InvocationsAssumption == MutInvocations \in Nat

VARIABLES
    stage,       \* where the invocation is
    selected,    \* the mutations --only selects
    left,        \* those not tried yet
    current,     \* the mutation being tried
    original,    \* the content read before the mutation
    verdict,     \* the results list: mutation -> killed?
    tree,        \* the source files
    found,       \* observation: the tree when the invocation started
    infra,       \* observation: a tool failed for a reason of its own
    invocations  \* how many invocations there have been

mutVars == <<stage, selected, left, current, original, verdict, tree, found, infra, invocations>>

Exited == {"exit0", "exit1", "exit2"}
Trying == {"apply", "apply_fill", "build", "pbt", "restore", "restore_fill",
           "unwind", "unwind_fill"}
MutEnded  == Exited \cup {"killed"}

-----------------------------------------------------------------------------
\* Tools

\* lake build, on the whole tree; an emptied module breaks its importers.
Builds == \A f \in Files : tree[f] # TornFile /\ tree[f] \cap BreaksBuild = {}

\* phase_l_pbt/run.py exits 0: P1 to P4 hold of what the generator prints.
PropertiesHold == \A f \in Files : tree[f] # TornFile /\ tree[f] \cap BreaksPbt = {}

NoVerdict == [m \in {} |-> FALSE]

MutInit ==
    /\ stage = "idle"
    /\ selected = {} /\ left = {} /\ current = 0
    /\ original = {}
    /\ verdict = NoVerdict
    /\ tree = [f \in Files |-> {}]
    /\ found = tree
    /\ infra = FALSE
    /\ invocations = 0

\* main: --only picks the mutations, the results list is empty.
MutInvoke ==
    /\ stage \in {"idle"} \cup MutEnded
    /\ invocations < MutInvocations
    /\ invocations' = invocations + 1
    /\ \E S \in SUBSET Mutations : selected' = S /\ left' = S
    /\ stage' = "next"
    /\ verdict' = NoVerdict
    /\ found' = tree
    /\ infra' = FALSE
    /\ UNCHANGED <<current, original, tree>>

\* Variant: an empty file is not noticed.
ApplicableUnchecked(m) == m \notin tree[FileOf[m]]

\* apply_mutation up to the write: the find string must be there, once.
Applicable(m) == tree[FileOf[m]] # TornFile /\ m \notin tree[FileOf[m]]

ReadOriginal ==
    /\ stage = "next"
    /\ \E m \in left :
        /\ \A k \in left : m <= k
        /\ current' = m
        /\ left' = left \ {m}
        /\ IF Applicable(m)
           THEN original' = tree[FileOf[m]] /\ stage' = "apply"
           ELSE stage' = "exit2" /\ UNCHANGED original
    /\ UNCHANGED <<selected, verdict, tree, found, infra, invocations>>

\* write_text truncates the file and then fills it, here and in restore.
Truncated == [tree EXCEPT ![FileOf[current]] = TornFile]
Filled(content) == [tree EXCEPT ![FileOf[current]] = content]

ApplyMutation ==
    /\ \/ stage = "apply" /\ tree' = Truncated /\ stage' = "apply_fill"
       \/ stage = "apply_fill" /\ tree' = Filled(original \cup {current}) /\ stage' = "build"
    /\ UNCHANGED <<selected, left, current, original, verdict, found, infra, invocations>>

Judge(killed) == verdict' = [m \in DOMAIN verdict \cup {current} |->
                                IF m = current THEN killed ELSE verdict[m]]

\* What the harness makes of the build's exit code.  The verdict joins the
\* results only after restore; nothing can come between but a kill.
\* Variant: the build's success counts as the kill.
AfterBuildInverted(ok) ==
    IF Layer[current] = "lake-build" THEN Judge(ok) /\ stage' = "restore"
    ELSE IF ~ok THEN Judge(TRUE) /\ stage' = "restore"
    ELSE stage' = "pbt" /\ UNCHANGED verdict

AfterBuild(ok) ==
    IF Layer[current] = "lake-build" THEN Judge(~ok) /\ stage' = "restore"
    ELSE IF ~ok THEN Judge(TRUE) /\ stage' = "restore"
    ELSE stage' = "pbt" /\ UNCHANGED verdict

Build ==
    /\ stage = "build"
    /\ AfterBuild(Builds)
    /\ UNCHANGED <<selected, left, current, original, tree, found, infra, invocations>>

\* A non-zero exit that has nothing to do with the source.
BuildBreaksDown ==
    /\ stage = "build"
    /\ AfterBuild(FALSE)
    /\ infra' = TRUE
    /\ UNCHANGED <<selected, left, current, original, tree, found, invocations>>

RunPbt ==
    /\ stage = "pbt"
    /\ Judge(~PropertiesHold)
    /\ stage' = "restore"
    /\ UNCHANGED <<selected, left, current, original, tree, found, infra, invocations>>

\* phase_l_pbt exits 2 when it cannot sample; that is a failure like any other.
PbtBreaksDown ==
    /\ stage = "pbt"
    /\ Judge(TRUE)
    /\ stage' = "restore"
    /\ infra' = TRUE
    /\ UNCHANGED <<selected, left, current, original, tree, found, invocations>>

\* Variant: cycle_one without its finally.
ToolRaisesNoFinally ==
    /\ stage \in {"build", "pbt"}
    /\ stage' = "exit2"
    /\ UNCHANGED <<selected, left, current, original, verdict, tree, found, infra, invocations>>

\* Variant: a mutation whose tool timed out is tried again.
ToolRaisesRetries ==
    /\ stage \in {"build", "pbt"}
    /\ stage' = "apply"
    /\ UNCHANGED <<selected, left, current, original, verdict, tree, found, infra, invocations>>

\* TimeoutExpired: the finally clause restores the file, then main gives up.
ToolRaises ==
    /\ stage \in {"build", "pbt"}
    /\ stage' = "unwind"
    /\ UNCHANGED <<selected, left, current, original, verdict, tree, found, infra, invocations>>

\* Variant: only an exception restores.
RestoreOnErrorOnly ==
    /\ \/ stage = "restore" /\ stage' = "next" /\ UNCHANGED tree
       \/ stage = "unwind" /\ tree' = Truncated /\ stage' = "unwind_fill"
       \/ stage = "unwind_fill" /\ tree' = Filled(original) /\ stage' = "exit2"
    /\ UNCHANGED <<selected, left, current, original, verdict, found, infra, invocations>>

Restore ==
    /\ \/ stage = "restore" /\ tree' = Truncated /\ stage' = "restore_fill"
       \/ stage = "restore_fill" /\ tree' = Filled(original) /\ stage' = "next"
       \/ stage = "unwind" /\ tree' = Truncated /\ stage' = "unwind_fill"
       \/ stage = "unwind_fill" /\ tree' = Filled(original) /\ stage' = "exit2"
    /\ UNCHANGED <<selected, left, current, original, verdict, found, infra, invocations>>

Lived == {m \in DOMAIN verdict : ~verdict[m]}

\* Variant: any kill makes the run a success.
ReportAnyKill ==
    /\ stage = "next"
    /\ left = {}
    /\ stage' = IF Lived # DOMAIN verdict \/ Lived = {} THEN "exit0" ELSE "exit1"
    /\ UNCHANGED <<selected, left, current, original, verdict, tree, found, infra, invocations>>

Report ==
    /\ stage = "next"
    /\ left = {}
    /\ stage' = IF Lived = {} THEN "exit0" ELSE "exit1"
    /\ UNCHANGED <<selected, left, current, original, verdict, tree, found, infra, invocations>>

MutKill ==
    /\ stage \notin {"idle"} \cup MutEnded
    /\ stage' = "killed"
    /\ UNCHANGED <<selected, left, current, original, verdict, tree, found, infra, invocations>>

MutStep ==
    \/ ReadOriginal \/ ApplyMutation \/ Build \/ BuildBreaksDown \/ RunPbt
    \/ PbtBreaksDown \/ ToolRaises \/ Restore \/ Report

MutNext == MutInvoke \/ MutStep \/ MutKill

MutSpec == MutInit /\ [][MutNext]_mutVars

\* Every tool call has a timeout.
MutFairSpec == MutSpec /\ WF_mutVars(MutStep)

-----------------------------------------------------------------------------
\* Properties

Content == (SUBSET Mutations) \cup {TornFile}

\* Every variable has its type, and a mutation is tried between two `next'.
MutTypeOK ==
    /\ stage \in {"idle", "next"} \cup Trying \cup MutEnded
    /\ selected \subseteq Mutations /\ left \subseteq selected
    /\ current \in Mutations \cup {0} /\ (stage \in Trying => current \in Mutations)
    /\ original \in SUBSET Mutations
    /\ DOMAIN verdict \subseteq Mutations /\ verdict \in [DOMAIN verdict -> BOOLEAN]
    /\ tree \in [Files -> Content]
    /\ found \in [Files -> Content]
    /\ infra \in BOOLEAN
    /\ invocations \in 0 .. MutInvocations

\* "After the test cycle, the original content is restored byte-exact"
\* (run.py:58): between two mutations, and when the harness exits, with
\* whatever code, every file is what the invocation found.  A killed
\* invocation is the one exception.
TreeRestored == stage \in {"next"} \cup Exited => tree = found

\* A verdict against the tests that would notice the mutation.  LIVED is true
\* of the tests that were run, whatever the tree the invocation found and
\* whichever tools broke down: the mutation breaks neither the build nor, when
\* it is aimed at them, the properties.  KILLED is true of the mutation unless
\* a tool broke down in this invocation or what it found failed already.
Caught(m) == m \in BreaksBuild \cup BreaksPbt

Survives(m) == m \notin BreaksBuild /\ (Layer[m] = "pbt" => m \notin BreaksPbt)

FoundPasses == \A f \in Files :
    found[f] # TornFile /\ found[f] \cap (BreaksBuild \cup BreaksPbt) = {}

VerdictsHonest ==
    \A m \in DOMAIN verdict :
        /\ ~verdict[m] => Survives(m)
        /\ verdict[m] => Caught(m) \/ infra \/ ~FoundPasses

\* [Violated] "Runs the PBT harness (phase_l_pbt) if `lake build` survives",
\* "LIVED (no test failed = the mutation slipped through)" (run.py:16-18): a
\* mutation reported as lived is caught neither by the build nor the properties.
LivedMeansNoTestFails ==
    \A m \in DOMAIN verdict : ~verdict[m] => ~Caught(m)

\* Exit 0 vouches for every selected mutation, exit 1 for a gap, and neither
\* leaves a selected mutation untried.
ExitMeansCoverage ==
    /\ stage \in {"exit0", "exit1"} => DOMAIN verdict = selected
    /\ stage = "exit1" => \E m \in selected : Survives(m)
    /\ stage = "exit0" /\ FoundPasses /\ ~infra => \A m \in selected : Caught(m)

\* However far an invocation gets, it endangers one file at a time: that file is
\* half-written or has the current mutation on top of what was found, and the
\* harness still holds what was found until it is back on disk.
DamageConfined ==
    \A f \in Files : tree[f] # found[f] =>
        /\ f = FileOf[current]
        /\ tree[f] \in {TornFile, found[f] \cup {current}}
        /\ original = found[f]

\* Every invocation ends.
MutTerminates == stage = "next" ~> stage \in MutEnded

\* Inductive strengthening of TreeRestored: what the tree is at each stage.
RestoreInv ==
    /\ TreeRestored
    /\ DamageConfined
    /\ stage = "apply" => tree = found
    /\ stage \in Trying => original = found[FileOf[current]]
    /\ stage \in {"apply_fill", "restore_fill", "unwind_fill"}
          => tree = [found EXCEPT ![FileOf[current]] = TornFile]
    /\ stage \in {"build", "pbt", "restore", "unwind"}
          => tree = [found EXCEPT ![FileOf[current]] = original \cup {current}]

\* Inductive strengthening of VerdictsHonest and ExitMeansCoverage: the build has
\* passed when the properties run, and the results list is complete but for the
\* mutation being tried.
JudgedInv ==
    /\ VerdictsHonest
    /\ stage = "pbt" => Layer[current] = "pbt" /\ current \notin BreaksBuild
    /\ stage \in {"next", "restore", "restore_fill", "exit0", "exit1"}
          => DOMAIN verdict = selected \ left
    /\ stage \in {"apply", "apply_fill", "build", "pbt"}
          => DOMAIN verdict \cup {current} = selected \ left
    /\ stage \in {"exit0", "exit1"} => left = {}
    /\ stage = "exit0" => Lived = {}
    /\ stage = "exit1" => Lived # {}
=============================================================================
