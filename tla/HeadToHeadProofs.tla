-------------------------- MODULE HeadToHeadProofs --------------------------
(* Theorems of HeadToHead, for any number of invocations and edits.         *)
EXTENDS HeadToHead, TLAPS

LEMMA PublishedTyped ==
  ASSUME HhTypeOK, place # "idle"
  PROVE  Published \in [run: Invocations, columns: [Modes -> Nat], ours: Nat]
  <1>1. inv \in Invocations /\ ours \in Nat
    BY BoundsAssumption DEF HhTypeOK, Invocations
  <1>2. columns \in [Modes -> Nat]
    BY BoundsAssumption DEF HhTypeOK
  <1> QED
    BY <1>1, <1>2 DEF Published

LEMMA ContinueTyped ==
  ASSUME HhTypeOK, NEW numbers \in 0 .. inv, Continue(numbers)
  PROVE  /\ columns' \in [Modes -> 0 .. inv]
         /\ mode' \in Modes
         /\ place' \in {"replica", "json_open", "ours"}
  BY DEF Continue, HhTypeOK, AfterDrt, Modes

\* Every variable has its type in every reachable state.
THEOREM TypeCorrect == HhSpec => []HhTypeOK
  <1> USE BoundsAssumption
  <1>1. HhInit => HhTypeOK
    <2> SUFFICES ASSUME HhInit PROVE HhTypeOK
      OBVIOUS
    <2>1. /\ columns \in [Modes -> 0 .. inv] /\ log \in [Modes -> Partial .. inv]
          /\ shared \in [Modes -> BOOLEAN] /\ mode \in Modes
          /\ skip \in [drt : BOOLEAN, ours : BOOLEAN]
      BY DEF HhInit, NoNumbers, Partial, Modes
    <2>2. orphaned \in BOOLEAN /\ masked \in BOOLEAN
      BY Zenon DEF HhInit
    <2>3. /\ place = "idle" /\ inv \in 0 .. HhInvocations /\ ours \in 0 .. inv
          /\ source \in 1 .. MaxEdits + 1 /\ binary \in 0 .. source
          /\ writers \subseteq Modes \X (1 .. inv) /\ ran \subseteq Modes
          /\ table \in Output /\ json \in Output
      BY DEF HhInit, Output, NoNumbers
    <2> QED
      BY <2>1, <2>2, <2>3 DEF HhTypeOK
  <1>2. HhTypeOK /\ [HhNext]_hhVars => HhTypeOK'
    <2> SUFFICES ASSUME HhTypeOK, [HhNext]_hhVars PROVE HhTypeOK'
      OBVIOUS
    <2>1. CASE HhInvoke
      <3> USE <2>1 DEF HhInvoke
      <3>1. inv' = inv + 1 /\ inv' \in Invocations /\ inv \in 0 .. HhInvocations
        BY DEF HhTypeOK, Invocations
      <3>2. /\ columns' \in [Modes -> 0 .. inv'] /\ ours' \in 0 .. inv'
            /\ log' \in [Modes -> Partial .. inv']
            /\ writers' \subseteq Modes \X (1 .. inv')
        BY <3>1 DEF HhTypeOK, NoNumbers, Partial, logs
      <3>3. /\ skip' \in [drt : BOOLEAN, ours : BOOLEAN]
            /\ place' \in {"replica", "build", "json_open", "ours"}
        BY DEF AfterDrt
      <3>4. orphaned' \in BOOLEAN /\ masked' \in BOOLEAN
        BY Zenon DEF HhTypeOK
      <3> QED
        BY <3>1, <3>2, <3>3, <3>4 DEF HhTypeOK, hhOutputs, Modes
    <2>2. CASE EditReplica
      BY <2>2 DEF EditReplica, HhTypeOK, driver, hhResults, logs, hhOutputs
    <2>3. CASE BuildReplica
      <3>1. masked' \in BOOLEAN
        BY <2>3, Zenon DEF BuildReplica, HhTypeOK
      <3> QED
        BY <2>3, <3>1 DEF BuildReplica, HhTypeOK, HhEnded, driver, hhResults, logs, hhOutputs
    <2>4. CASE DockerFailsToBuild
      BY <2>4 DEF DockerFailsToBuild, HhTypeOK, HhEnded, driver, hhResults, build, logs, hhOutputs
    <2>5. CASE ShellRuns
      <3> USE <2>5 DEF ShellRuns, driver, hhResults, build, hhOutputs
      <3>1. log' \in [Modes -> Partial .. inv] /\ ran' \subseteq Modes
        BY DEF HhTypeOK, Partial
      <3>2. shared' \in [Modes -> BOOLEAN]
        <4>1. (\E w \in writers : w[1] = mode) \in BOOLEAN
          OBVIOUS
        <4> QED
          BY <4>1 DEF HhTypeOK
      <3>3. writers' \subseteq Modes \X (1 .. inv)
        BY DEF HhTypeOK, Own, Invocations
      <3> QED
        BY <3>1, <3>2, <3>3 DEF HhTypeOK
    <2>6. CASE DockerFails \/ ContainerReturns
      BY <2>6 DEF DockerFails, ContainerReturns, HhTypeOK, driver, hhResults, build, logs, hhOutputs
    <2>7. CASE TimeOut
      <3>1. orphaned' \in BOOLEAN
        <4>1. (orphaned \/ Own \in writers) \in BOOLEAN
          OBVIOUS
        <4> QED
          BY <2>7, <4>1 DEF TimeOut
      <3>2. Continue(NoNumbers) /\ NoNumbers \in 0 .. inv
        BY <2>7 DEF TimeOut, NoNumbers, HhTypeOK
      <3> QED
        BY <2>7, <3>1, <3>2, ContinueTyped DEF TimeOut, HhTypeOK, driver, build, hhOutputs
    <2>8. CASE ParseLog
      <3> DEFINE numbers == IF log[mode] \in Invocations THEN log[mode] ELSE NoNumbers
      <3>1. numbers \in 0 .. inv
        BY DEF HhTypeOK, Partial, NoNumbers, Invocations
      <3>2. Continue(numbers)
        BY <2>8 DEF ParseLog
      <3> HIDE DEF numbers
      <3> QED
        BY <2>8, <3>1, <3>2, ContinueTyped
           DEF ParseLog, HhTypeOK, driver, build, logs, hhOutputs
    <2>9. CASE RunTypeDirected
      BY <2>9 DEF RunTypeDirected, HhTypeOK, NoNumbers, driver, build, logs, hhOutputs
    <2>10. CASE Publish
      <3>1. Published \in Output /\ TornOutput \in Output
        BY <2>10, PublishedTyped DEF Publish, Output
      <3> QED
        BY <2>10, <3>1 DEF Publish, HhTypeOK, HhEnded, driver, hhResults, build, logs
    <2>11. CASE HhKill
      <3>1. orphaned' \in BOOLEAN
        <4>1. (orphaned \/ Own \in writers) \in BOOLEAN
          OBVIOUS
        <4> QED
          BY <2>11, <4>1 DEF HhKill
      <3> QED
        BY <2>11, <3>1 DEF HhKill, HhTypeOK, HhEnded, driver, hhResults, build, hhOutputs
    <2>12. CASE Replica
      <3>1. PICK w \in writers : PrintsSummary(w) \/ DiesOrCovers(w)
        BY <2>12 DEF Replica
      <3>2. log' \in [Modes -> Partial .. inv] /\ writers' \subseteq Modes \X (1 .. inv)
        <4>1. w[1] \in Modes /\ w[2] \in 1 .. inv
          BY DEF HhTypeOK
        <4>2. \E line \in Partial .. inv : log' = [log EXCEPT ![w[1]] = line]
          BY <3>1, <4>1 DEF PrintsSummary, DiesOrCovers, Last, HhTypeOK, Partial
        <4> QED
          BY <3>1, <4>2 DEF PrintsSummary, DiesOrCovers, HhTypeOK
      <3> QED
        BY <3>1, <3>2
           DEF PrintsSummary, DiesOrCovers, HhTypeOK, driver, hhResults, build, hhOutputs
    <2>13. CASE UNCHANGED hhVars
      BY <2>13 DEF hhVars, HhTypeOK, driver, hhResults, build, logs, hhOutputs
    <2> QED
      BY <2>1, <2>2, <2>3, <2>4, <2>5, <2>6, <2>7, <2>8, <2>9, <2>10, <2>11, <2>12, <2>13
         DEF HhNext, HhStep
  <1> QED
    BY <1>1, <1>2, PTL DEF HhSpec

-----------------------------------------------------------------------------
\* The columns

\* A column is set from a log of this invocation or to no numbers.
LEMMA ContinueFresh ==
  ASSUME HhTypeOK, FreshInv, NEW numbers \in {NoNumbers, inv}, Continue(numbers), inv' = inv,
         ran' = ran
  PROVE  ~orphaned => \A m \in ran : columns'[m] \in {NoNumbers, inv}
  BY DEF Continue, FreshInv, FreshWhenRun, HhTypeOK

\* No column is set before its mode has been run.
LEMMA NotYetSetStep ==
  ASSUME HhTypeOK, NotYetSet, [HhNext]_hhVars
  PROVE  NotYetSet'
  <1> USE DEF NotYetSet
  <1>1. CASE HhInvoke
    BY <1>1 DEF HhInvoke, Modes
  <1>2. CASE TimeOut \/ ParseLog
    <2>1. PICK numbers : Continue(numbers)
      BY <1>2 DEF TimeOut, ParseLog
    <2>2. place \in {"replica", "wait", "parse"}
      BY <1>2 DEF TimeOut, ParseLog
    <2>3. CASE mode = "bytes"
      BY <2>1, <2>2, <2>3 DEF Continue, HhTypeOK, Modes
    <2>4. CASE mode # "bytes"
      BY <2>1, <2>4 DEF Continue, AfterDrt
    <2> QED
      BY <2>3, <2>4
  <1>3. CASE EditReplica \/ BuildReplica \/ DockerFailsToBuild \/ ShellRuns \/ DockerFails
             \/ ContainerReturns \/ RunTypeDirected \/ Publish \/ HhKill \/ Replica
    <2>1. UNCHANGED <<mode, columns>>
      BY <1>3 DEF EditReplica, BuildReplica, DockerFailsToBuild, ShellRuns, DockerFails,
         ContainerReturns, RunTypeDirected, Publish, HhKill, Replica, PrintsSummary,
         DiesOrCovers, hhResults
    <2>2. place' \in {"build", "replica", "wait", "parse"} =>
              place \in {"build", "replica", "wait", "parse"}
      BY <1>3 DEF EditReplica, BuildReplica, DockerFailsToBuild, ShellRuns, DockerFails,
         ContainerReturns, RunTypeDirected, Publish, HhKill, Replica, PrintsSummary,
         DiesOrCovers
    <2> QED
      BY <2>1, <2>2
  <1>4. CASE UNCHANGED hhVars
    BY <1>4 DEF hhVars, hhResults
  <1> QED
    BY <1>1, <1>2, <1>3, <1>4 DEF HhNext, HhStep

\* As long as no container outlives its call, a column that ran shows this
\* invocation's numbers or none (run_cedar_drt_replica).
THEOREM ColumnsAreFresh == HhSpec => []FreshWhenRun
  <1> USE BoundsAssumption
  <1>1. HhInit => FreshInv
    BY DEF HhInit, FreshInv, OneWriter, NotYetSet, FreshWhenRun, Modes
  <1>2. HhTypeOK /\ FreshInv /\ [HhNext]_hhVars => FreshInv'
    <2> SUFFICES ASSUME HhTypeOK, FreshInv, [HhNext]_hhVars PROVE OneWriter' /\ FreshWhenRun'
      BY NotYetSetStep DEF FreshInv
    <2> USE DEF FreshInv, OneWriter
    <2>1. CASE HhInvoke
      <3>1. ~orphaned => writers = {}
        BY <2>1 DEF HhInvoke, HhEnded
      <3>2. place' # "wait"
        BY <2>1 DEF HhInvoke, AfterDrt
      <3> QED
        BY <2>1, <3>1, <3>2 DEF HhInvoke, FreshWhenRun
    <2>2. CASE EditReplica \/ BuildReplica \/ DockerFailsToBuild \/ RunTypeDirected \/ Publish
      <3>1. place # "wait" /\ place' # "wait"
        BY <2>2 DEF EditReplica, BuildReplica, DockerFailsToBuild, RunTypeDirected, Publish,
           HhEnded
      <3>2. UNCHANGED <<mode, driver, columns, logs>>
        BY <2>2 DEF EditReplica, BuildReplica, DockerFailsToBuild, RunTypeDirected, Publish,
           hhResults
      <3> QED
        BY <3>1, <3>2 DEF driver, logs, FreshWhenRun
    <2>3. CASE ShellRuns
      <3>1. inv' = inv /\ mode' = mode /\ columns' = columns /\ orphaned' = orphaned
        BY <2>3 DEF ShellRuns, driver, hhResults
      <3>2. place = "replica" /\ mode \in Modes /\ ran' = ran \cup {mode}
        BY <2>3 DEF ShellRuns, HhTypeOK
      <3>3. ~orphaned => writers = {}
        BY <3>2
      <3>4. ~orphaned => \A m \in Modes : ~shared'[m]
        BY <2>3, <3>3 DEF ShellRuns, HhTypeOK
      <3>5. ~orphaned => \A m \in ran' : log'[m] \in {Partial, NoNumbers, inv}
        BY <2>3, <3>2 DEF ShellRuns, HhTypeOK
      <3>6. ~orphaned => /\ writers' \subseteq {Own}
                         /\ writers' # {} => place' = "wait"
        BY <2>3, <3>3 DEF ShellRuns
      <3>7. columns[mode] \in {NoNumbers, inv}
        BY <3>2 DEF NotYetSet
      <3> QED
        BY <3>1, <3>2, <3>4, <3>5, <3>6, <3>7 DEF FreshWhenRun, Own
    <2>4. CASE DockerFails \/ ContainerReturns
      BY <2>4 DEF DockerFails, ContainerReturns, driver, hhResults, logs, FreshWhenRun, Own
    <2>5. CASE TimeOut
      <3>1. UNCHANGED <<inv, log, writers, shared, ran>> /\ place' # "wait"
        BY <2>5 DEF TimeOut, Continue, AfterDrt, driver
      <3>2. ~orphaned' => ~orphaned /\ writers = {}
        BY <2>5 DEF TimeOut
      <3>3. ~orphaned => \A m \in ran : columns'[m] \in {NoNumbers, inv}
        BY <2>5, <3>1, ContinueFresh DEF TimeOut
      <3> QED
        BY <3>1, <3>2, <3>3 DEF FreshWhenRun
    <2>6. CASE ParseLog
      <3>1. UNCHANGED <<inv, log, writers, shared, ran, orphaned>> /\ place' # "wait"
        BY <2>6 DEF ParseLog, Continue, AfterDrt, driver, logs
      <3>2. ~orphaned => writers = {}
        BY <2>6 DEF ParseLog
      <3>3. ~orphaned => \A m \in ran : columns'[m] \in {NoNumbers, inv}
        <4>1. CASE orphaned
          BY <4>1
        <4>2. CASE ~orphaned /\ mode \in ran
          <5>1. log[mode] \in {Partial, NoNumbers, inv}
            BY <4>2
          <5>2. Partial \notin Invocations
            BY DEF Partial, Invocations
          <5> QED
            BY <2>6, <3>1, <5>1, <5>2, ContinueFresh DEF ParseLog
        <4>3. CASE ~orphaned /\ mode \notin ran
          BY <2>6, <4>3 DEF ParseLog, Continue, FreshWhenRun, HhTypeOK
        <4> QED
          BY <4>1, <4>2, <4>3
      <3> QED
        BY <3>1, <3>2, <3>3 DEF FreshWhenRun
    <2>7. CASE HhKill
      BY <2>7 DEF HhKill, HhEnded, driver, hhResults, FreshWhenRun
    <2>8. CASE Replica
      <3>1. PICK w \in writers : PrintsSummary(w) \/ DiesOrCovers(w)
        BY <2>8 DEF Replica
      <3>2. UNCHANGED <<place, mode, inv, columns, shared, ran, orphaned>>
        BY <3>1 DEF PrintsSummary, DiesOrCovers, driver, hhResults
      <3>3. writers' \subseteq writers
        BY <3>1 DEF PrintsSummary, DiesOrCovers
      <3>4. ~orphaned => w = Own /\ ~shared[w[1]] /\ w[1] = mode /\ w[2] = inv /\ mode \in ran
        BY <3>1 DEF Own, HhTypeOK
      <3>5. ~orphaned => \A m \in ran : log'[m] \in {Partial, NoNumbers, inv}
        BY <3>1, <3>4 DEF PrintsSummary, DiesOrCovers, Last, HhTypeOK
      <3> QED
        BY <3>2, <3>3, <3>5 DEF FreshWhenRun, Own
    <2>9. CASE UNCHANGED hhVars
      BY <2>9 DEF hhVars, driver, hhResults, logs, FreshWhenRun, Own
    <2> QED
      BY <2>1, <2>2, <2>3, <2>4, <2>5, <2>6, <2>7, <2>8, <2>9 DEF HhNext, HhStep
  <1>3. FreshInv => FreshWhenRun
    BY DEF FreshInv
  <1> QED
    BY <1>1, <1>2, <1>3, TypeCorrect, PTL DEF HhSpec

-----------------------------------------------------------------------------
\* The outputs

\* A successful invocation leaves a table and a summary of the same numbers, and
\* no table is left without the summary it belongs to (the writes of _run).
THEOREM OutputsAreConsistent == HhSpec => []OutputsAgree
  <1> USE BoundsAssumption
  <1>1. HhInit => PublishInv
    BY DEF HhInit, PublishInv, OutputsAgree, NoOutput
  <1>2. HhTypeOK /\ HhTypeOK' /\ PublishInv /\ [HhNext]_hhVars => PublishInv'
    <2> SUFFICES ASSUME HhTypeOK, HhTypeOK', PublishInv, [HhNext]_hhVars PROVE PublishInv'
      OBVIOUS
    <2> USE DEF PublishInv, OutputsAgree
    <2>1. inv \in Nat /\ inv' \in Nat /\ (place # "idle" => inv > 0)
      BY DEF HhTypeOK, Invocations
    <2>2. json.run \in Int /\ table.run \in Int
      BY DEF HhTypeOK, Output, NoOutput, TornOutput, Invocations
    <2>3. CASE HhInvoke
      <3>1. inv' = inv + 1 /\ json' = json /\ table' = table
        BY <2>3 DEF HhInvoke, hhOutputs
      <3>2. place' \in {"build", "replica", "ours", "json_open"}
        BY <2>3 DEF HhInvoke, AfterDrt
      <3> QED
        BY <2>1, <2>2, <3>1, <3>2
    <2>4. CASE Publish
      <3>1. inv' = inv /\ Published' = Published /\ inv > 0
        BY <2>1, <2>4 DEF Publish, driver, hhResults, Published
      <3>2. Published.run = inv /\ TornOutput.run = -1
        BY DEF Published, TornOutput
      <3>3. CASE place = "json_open"
        BY <2>1, <2>2, <2>4, <3>1, <3>2, <3>3 DEF Publish
      <3>4. CASE place = "json_fill"
        BY <2>1, <2>2, <2>4, <3>1, <3>2, <3>4 DEF Publish
      <3>5. CASE place = "table_open"
        BY <2>1, <2>2, <2>4, <3>1, <3>2, <3>5 DEF Publish
      <3>6. CASE place = "table_fill"
        BY <2>1, <2>2, <2>4, <3>1, <3>2, <3>6 DEF Publish
      <3> QED
        BY <2>4, <3>3, <3>4, <3>5, <3>6 DEF Publish
    <2>5. CASE HhKill
      BY <2>1, <2>2, <2>5 DEF HhKill, driver, hhResults, hhOutputs
    <2>6. CASE EditReplica \/ Replica
      <3>1. UNCHANGED <<place, inv, json, table, Published>>
        BY <2>6 DEF EditReplica, Replica, PrintsSummary, DiesOrCovers, driver, hhResults,
           hhOutputs, Published
      <3> QED
        BY <3>1
    <2>7. CASE BuildReplica \/ DockerFailsToBuild \/ ShellRuns \/ DockerFails
               \/ ContainerReturns \/ TimeOut \/ ParseLog \/ RunTypeDirected
      <3>1. place \in {"build", "replica", "wait", "parse", "ours"}
        BY <2>7 DEF BuildReplica, DockerFailsToBuild, ShellRuns, DockerFails,
           ContainerReturns, TimeOut, ParseLog, RunTypeDirected
      <3>2. place' \in {"replica", "wait", "parse", "ours", "json_open", "exit1", "raised"}
        BY <2>7 DEF BuildReplica, DockerFailsToBuild, ShellRuns, DockerFails,
           ContainerReturns, TimeOut, ParseLog, RunTypeDirected, Continue, AfterDrt
      <3>3. inv' = inv /\ json' = json /\ table' = table
        BY <2>7 DEF BuildReplica, DockerFailsToBuild, ShellRuns, DockerFails,
           ContainerReturns, TimeOut, ParseLog, RunTypeDirected, driver, hhOutputs
      <3> QED
        BY <2>1, <2>2, <3>1, <3>2, <3>3
    <2>8. CASE UNCHANGED hhVars
      BY <2>8 DEF hhVars, driver, hhResults, hhOutputs, Published
    <2> QED
      BY <2>3, <2>4, <2>5, <2>6, <2>7, <2>8 DEF HhNext, HhStep
  <1>3. PublishInv => OutputsAgree
    BY DEF PublishInv
  <1> QED
    BY <1>1, <1>2, <1>3, TypeCorrect, PTL DEF HhSpec

-----------------------------------------------------------------------------
\* Every invocation runs out of steps

\* The steps left of a run of the replica, and those after the replica.
ReplicaSteps == CASE place = "replica" -> 3 [] place = "wait" -> 2 [] place = "parse" -> 1

Passes == IF mode = "bytes" THEN 3 ELSE 0

StepsLeft ==
    CASE place = "build" -> 12
      [] place \in {"replica", "wait", "parse"} -> 5 + Passes + ReplicaSteps
      [] place = "ours" -> 5
      [] place = "json_open" -> 4
      [] place = "json_fill" -> 3
      [] place = "table_open" -> 2
      [] place = "table_fill" -> 1
      [] OTHER -> 0

Bounded ==
  /\ StepsLeft \in 0 .. 12
  /\ StepsLeft = 0 <=> place \in {"idle"} \cup HhEnded

\* What the driver does brings it nearer its end; what its containers and its
\* users do meanwhile does not take it away from there.
CountsDown ==
  /\ inv' = inv => StepsLeft' <= StepsLeft
  /\ HhStep \/ HhKill => StepsLeft' < StepsLeft

\* The driver, invoked once, makes at most twelve steps, whatever docker, the
\* replicas it still has running and the editor of their source do.
THEOREM InvocationsRunOut == HhSpec => []Bounded /\ [][CountsDown]_hhVars
  <1>1. HhTypeOK => Bounded
    <2> SUFFICES ASSUME HhTypeOK PROVE Bounded
      OBVIOUS
    <2>1. place \in {"replica", "wait", "parse"} => ReplicaSteps \in 1 .. 3
      BY DEF ReplicaSteps
    <2>2. Passes \in {0, 3}
      BY DEF Passes
    <2>3. CASE place \in {"replica", "wait", "parse"}
      BY <2>1, <2>2, <2>3 DEF Bounded, StepsLeft, HhEnded
    <2>4. CASE place \notin {"replica", "wait", "parse"}
      BY <2>4 DEF Bounded, StepsLeft, HhEnded, HhTypeOK
    <2> QED
      BY <2>3, <2>4
  <1>2. HhTypeOK /\ Bounded /\ Bounded' /\ HhNext => CountsDown
    <2> SUFFICES ASSUME HhTypeOK, Bounded, Bounded', HhNext PROVE CountsDown
      OBVIOUS
    <2>1. Bounded /\ Bounded'
      OBVIOUS
    <2>2. CASE HhInvoke
      <3>1. inv' # inv /\ place \in {"idle"} \cup HhEnded
        BY <2>2 DEF HhInvoke, HhTypeOK
      <3>2. ~HhStep /\ ~HhKill
        BY <3>1 DEF HhStep, HhKill, BuildReplica, DockerFailsToBuild, ShellRuns, DockerFails,
           ContainerReturns, TimeOut, ParseLog, RunTypeDirected, Publish, HhEnded
      <3> QED
        BY <3>1, <3>2 DEF CountsDown
    <2>3. CASE EditReplica
      <3>1. UNCHANGED <<place, mode>> /\ place \in {"idle"} \cup HhEnded
        BY <2>3 DEF EditReplica
      <3>2. ~HhStep /\ ~HhKill
        BY <3>1 DEF HhStep, HhKill, BuildReplica, DockerFailsToBuild, ShellRuns, DockerFails,
           ContainerReturns, TimeOut, ParseLog, RunTypeDirected, Publish, HhEnded
      <3> QED
        BY <2>1, <3>1, <3>2 DEF CountsDown, StepsLeft, Passes, ReplicaSteps, Bounded
    <2>4. HhStep \/ HhKill => StepsLeft' < StepsLeft
      <3>1. CASE HhKill
        BY <2>1, <3>1 DEF HhKill, Bounded, HhEnded
      <3>2. CASE BuildReplica \/ DockerFailsToBuild
        <4>1. place = "build" /\ place' \in {"replica", "exit1", "raised"}
          BY <3>2 DEF BuildReplica, DockerFailsToBuild
        <4>2. Passes' \in {0, 3}
          BY DEF Passes
        <4> QED
          BY <4>1, <4>2 DEF StepsLeft, ReplicaSteps
      <3>3. CASE ShellRuns \/ DockerFails \/ ContainerReturns
        <4>1. mode' = mode /\ \/ place = "replica" /\ place' \in {"wait", "parse"}
                              \/ place = "wait" /\ place' = "parse"
          BY <3>3 DEF ShellRuns, DockerFails, ContainerReturns
        <4>2. Passes' = Passes /\ Passes \in {0, 3}
          BY <4>1 DEF Passes
        <4> QED
          BY <4>1, <4>2 DEF StepsLeft, ReplicaSteps
      <3>4. CASE TimeOut \/ ParseLog
        <4>1. place \in {"replica", "wait", "parse"} /\ mode \in Modes
          BY <3>4 DEF TimeOut, ParseLog, HhTypeOK
        <4>2. \/ mode = "bytes" /\ mode' = "corpus" /\ place' = "replica"
              \/ mode = "corpus" /\ place' \in {"ours", "json_open"}
          BY <3>4, <4>1 DEF TimeOut, ParseLog, Continue, AfterDrt, Modes
        <4>3. StepsLeft = 5 + Passes + ReplicaSteps /\ ReplicaSteps \in 1 .. 3
          BY <4>1 DEF StepsLeft, ReplicaSteps
        <4>4. CASE mode = "bytes"
          <5>1. Passes = 3 /\ Passes' = 0 /\ ReplicaSteps' = 3 /\ place' = "replica"
            BY <4>2, <4>4 DEF Passes, ReplicaSteps
          <5>2. StepsLeft' = 8
            BY <5>1 DEF StepsLeft
          <5> QED
            BY <4>3, <5>1, <5>2
        <4>5. CASE mode = "corpus"
          <5>1. Passes = 0 /\ StepsLeft' \in {4, 5}
            BY <4>2, <4>5 DEF Passes, StepsLeft
          <5> QED
            BY <4>3, <5>1
        <4> QED
          BY <4>1, <4>4, <4>5 DEF Modes
      <3>5. CASE RunTypeDirected \/ Publish
        <4>1. \/ place = "ours" /\ place' = "json_open"
              \/ place = "json_open" /\ place' = "json_fill"
              \/ place = "json_fill" /\ place' = "table_open"
              \/ place = "table_open" /\ place' = "table_fill"
              \/ place = "table_fill" /\ place' = "exit0"
          BY <3>5 DEF RunTypeDirected, Publish
        <4> QED
          BY <4>1 DEF StepsLeft
      <3> QED
        BY <3>1, <3>2, <3>3, <3>4, <3>5 DEF HhStep
    <2>5. CASE HhStep \/ HhKill
      BY <2>1, <2>4, <2>5 DEF CountsDown, Bounded
    <2>6. CASE Replica
      <3>1. UNCHANGED <<place, mode>>
        BY <2>6 DEF Replica, PrintsSummary, DiesOrCovers
      <3>2. StepsLeft' = StepsLeft
        BY <3>1 DEF StepsLeft, ReplicaSteps, Passes
      <3> QED
        BY <2>1, <2>4, <3>2 DEF CountsDown, Bounded
    <2> QED
      BY <2>2, <2>3, <2>5, <2>6 DEF HhNext
  <1>3. HhTypeOK /\ Bounded /\ Bounded' /\ [HhNext]_hhVars => [CountsDown]_hhVars
    BY <1>2
  <1> QED
    BY <1>1, <1>3, TypeCorrect, PTL DEF HhSpec

-----------------------------------------------------------------------------
\* Whose numbers the columns show

\* The two ways in which an old log can be taken for this invocation's: a
\* container that outlived its call still writes, or docker failed before the
\* shell that truncates the log.
LogIsOurs == ~orphaned /\ (place = "parse" => mode \in ran)

SetAfterRun == \A m \in Modes : columns[m] # NoNumbers => m \in ran

LEMMA SetAfterRunStep ==
  ASSUME HhTypeOK, LogIsOurs, SetAfterRun, [HhNext]_hhVars
  PROVE  SetAfterRun'
  <1> USE DEF SetAfterRun
  <1>1. CASE HhInvoke
    BY <1>1 DEF HhInvoke
  <1>2. CASE TimeOut
    BY <1>2 DEF TimeOut, Continue, HhTypeOK
  <1>3. CASE ParseLog
    <2>1. mode \in ran /\ ran' = ran
      BY <1>3 DEF ParseLog, LogIsOurs, logs
    <2> QED
      BY <1>3, <2>1 DEF ParseLog, Continue, HhTypeOK
  <1>4. CASE EditReplica \/ BuildReplica \/ DockerFailsToBuild \/ ShellRuns \/ DockerFails
             \/ ContainerReturns \/ RunTypeDirected \/ Publish \/ HhKill \/ Replica
    <2>1. columns' = columns /\ ran \subseteq ran'
      BY <1>4 DEF EditReplica, BuildReplica, DockerFailsToBuild, ShellRuns, DockerFails,
         ContainerReturns, RunTypeDirected, Publish, HhKill, Replica, PrintsSummary,
         DiesOrCovers, hhResults, logs
    <2> QED
      BY <2>1
  <1>5. CASE UNCHANGED hhVars
    BY <1>5 DEF hhVars, hhResults, logs
  <1> QED
    BY <1>1, <1>2, <1>3, <1>4, <1>5 DEF HhNext, HhStep

\* The numbers of a column are this invocation's, however the replicas end and
\* whatever the logs hold from before, as long as no container has outlived its
\* call and docker has come as far as the shell: nothing else makes
\* run_cedar_drt_replica report an older run.
THEOREM NumbersAreOurs == HhSpec /\ []LogIsOurs => []NumbersAreThisRuns
  <1>1. HhInit => SetAfterRun
    BY DEF HhInit, SetAfterRun
  <1>2. HhTypeOK /\ LogIsOurs /\ SetAfterRun /\ [HhNext]_hhVars => SetAfterRun'
    BY SetAfterRunStep
  <1>3. LogIsOurs /\ SetAfterRun /\ FreshWhenRun => NumbersAreThisRuns
    BY DEF LogIsOurs, SetAfterRun, FreshWhenRun, NumbersAreThisRuns
  <1> QED
    BY <1>1, <1>2, <1>3, TypeCorrect, ColumnsAreFresh, PTL DEF HhSpec

-----------------------------------------------------------------------------
\* What a failed build stops

\* Without a binary of an earlier build a failed build ends the invocation, as
\* build_replica means it to: FailedBuildStops is lost only by a binary that is
\* already there when cargo fails.
THEOREM FailedFirstBuildStops ==
  HhSpec /\ [](place = "build" => binary = 0) => []FailedBuildStops
  <1> DEFINE Inv == masked => place \in HhEnded
  <1>1. HhInit => Inv
    BY DEF HhInit
  <1>2. Inv => FailedBuildStops
    BY DEF FailedBuildStops, HhEnded
  <1>3. Inv /\ (place = "build" => binary = 0) /\ [HhNext]_hhVars => Inv'
    <2> SUFFICES ASSUME Inv, place = "build" => binary = 0, [HhNext]_hhVars PROVE Inv'
      OBVIOUS
    <2>1. CASE BuildReplica
      BY <2>1 DEF BuildReplica, HhEnded
    <2>2. CASE HhInvoke
      BY <2>2 DEF HhInvoke
    <2>3. CASE EditReplica \/ HhKill \/ Replica \/ UNCHANGED hhVars
      BY <2>3 DEF EditReplica, HhKill, Replica, PrintsSummary, DiesOrCovers, build, hhVars, HhEnded
    <2>4. CASE HhStep /\ ~BuildReplica
      <3>1. masked' = masked /\ place \notin HhEnded
        BY <2>4 DEF HhStep, DockerFailsToBuild, ShellRuns, DockerFails, ContainerReturns, TimeOut,
           ParseLog, RunTypeDirected, Publish, build, HhEnded
      <3> QED
        BY <3>1
    <2> QED
      BY <2>1, <2>2, <2>3, <2>4 DEF HhNext
  <1> QED
    BY <1>1, <1>2, <1>3, PTL DEF HhSpec
=============================================================================
