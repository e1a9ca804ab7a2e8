----------------------------- MODULE HeadToHead -----------------------------
(***************************************************************************)
(* The head-to-head driver phase_d_drt_headtohead/run_headtohead.py: it    *)
(* builds the Rust replica of cedar-drt, runs it in a container once per   *)
(* mode with its output redirected into a log in the checkout, runs        *)
(* run_diff.py, and publishes a summary and a LaTeX table.  It is invoked  *)
(* again and again in one checkout, one invocation at a time; the binary,  *)
(* the logs, the two outputs and containers that outlive their invocation  *)
(* carry over.                                                             *)
(*                                                                         *)
(* The numbers a replica run or a run of run_diff.py prints are known by   *)
(* the invocation they belong to, the replica's source by its version.     *)
(***************************************************************************)
EXTENDS Integers

CONSTANTS
    HhInvocations,  \* bound: how often the driver is invoked
    MaxEdits         \* bound: how often cedar_drt_replica/src is edited

ASSUME BoundsAssumption == HhInvocations \in Nat /\ MaxEdits \in Nat

Modes       == {"bytes", "corpus"}
Invocations == 1 .. HhInvocations
NoNumbers   == 0      \* summary.get(..., 0) of a summary without numbers
Partial     == -1     \* of a log: its last line is no summary
NoOutput    == [run |-> 0]
TornOutput  == [run |-> -1]

VARIABLES
    place,     \* where the driver is
    inv,       \* the current invocation
    mode,      \* the mode it is running
    skip,      \* --skip-drt and --skip-ours
    columns,   \* drt_bytes_summary and drt_corpus_summary
    ours,      \* ours_summary
    source,    \* version of cedar_drt_replica/src
    binary,    \* version target/release was built from, 0 if there is none
    log,       \* outputs/cedar_drt_*_attempts.jsonl: its last line
    writers,   \* replica processes that are running
    shared,    \* whether a log has been written by two processes at once
    table,     \* comparison_table.tex
    json,      \* summary.json
    ran,       \* observation: the modes whose shell ran in this invocation
    orphaned,  \* observation: a container has outlived its call
    masked     \* observation: this invocation's cargo build failed

driver  == <<inv, skip>>
hhResults == <<columns, ours>>
build   == <<source, binary, masked>>
logs    == <<log, writers, shared, ran, orphaned>>
hhOutputs == <<table, json>>
hhVars == <<place, mode, driver, hhResults, build, logs, hhOutputs>>

HhEnded == {"exit0", "exit1", "raised", "killed"}
Own   == <<mode, inv>>

HhInit ==
    /\ place = "idle" /\ inv = 0 /\ mode = "bytes"
    /\ skip = [drt |-> FALSE, ours |-> FALSE]
    /\ columns = [m \in Modes |-> NoNumbers] /\ ours = NoNumbers
    /\ source = 1 /\ binary = 0
    /\ log = [m \in Modes |-> NoNumbers]
    /\ writers = {}
    /\ shared = [m \in Modes |-> FALSE]
    /\ table = NoOutput /\ json = NoOutput
    /\ ran = {} /\ orphaned = FALSE /\ masked = FALSE

-----------------------------------------------------------------------------
\* The driver

AfterDrt(s) == IF s.ours THEN "json_open" ELSE "ours"

\* main, and the skip flags at the head of each part of _run.
HhInvoke ==
    /\ place \in {"idle"} \cup HhEnded
    /\ inv < HhInvocations
    /\ inv' = inv + 1
    /\ \E drt, mine, noBuild \in BOOLEAN :
        /\ skip' = [drt |-> drt, ours |-> mine]
        /\ place' = IF drt THEN AfterDrt(skip') ELSE IF noBuild THEN "replica" ELSE "build"
    /\ mode' = "bytes"
    /\ columns' = [m \in Modes |-> NoNumbers] /\ ours' = NoNumbers
    /\ ran' = {} /\ masked' = FALSE
    /\ UNCHANGED <<source, binary, log, writers, shared, orphaned, hhOutputs>>

\* Between two invocations the replica's source may change.
EditReplica ==
    /\ place \in {"idle"} \cup HhEnded
    /\ source <= MaxEdits
    /\ source' = source + 1
    /\ UNCHANGED <<place, mode, driver, hhResults, binary, masked, logs, hhOutputs>>

\* build_replica: cargo's exit code is lost in `| tail -20`, so a failed build
\* is noticed only when there is no binary at all.
BuildReplica ==
    /\ place = "build"
    /\ \/ binary' = source /\ place' = "replica" /\ UNCHANGED masked
       \/ /\ masked' = TRUE
          /\ place' = IF binary = 0 THEN "exit1" ELSE "replica"
          /\ UNCHANGED binary
    /\ UNCHANGED <<mode, driver, hhResults, source, logs, hhOutputs>>

\* docker itself fails, or its build times out, which nobody catches.
DockerFailsToBuild ==
    /\ place = "build"
    /\ place' \in {"exit1", "raised"}
    /\ UNCHANGED <<mode, driver, hhResults, build, logs, hhOutputs>>

\* Variant: the output is appended to the log.
ShellRunsAppending ==
    /\ place = "replica"
    /\ ran' = ran \cup {mode}
    /\ UNCHANGED <<log, shared>>
    /\ IF binary = 0
       THEN place' = "parse" /\ UNCHANGED writers
       ELSE place' = "wait" /\ writers' = writers \cup {Own}
    /\ UNCHANGED <<mode, driver, hhResults, build, orphaned, hhOutputs>>

\* run_cedar_drt_replica: the shell in the container truncates the log, then
\* starts the binary, if there is one.
ShellRuns ==
    /\ place = "replica"
    /\ ran' = ran \cup {mode}
    /\ log' = [log EXCEPT ![mode] = Partial]
    /\ shared' = [shared EXCEPT ![mode] = \E w \in writers : w[1] = mode]
    /\ IF binary = 0
       THEN place' = "parse" /\ UNCHANGED writers
       ELSE place' = "wait" /\ writers' = writers \cup {Own}
    /\ UNCHANGED <<mode, driver, hhResults, build, orphaned, hhOutputs>>

\* docker exits before any shell runs; the exit code is recorded and ignored.
DockerFails ==
    /\ place = "replica"
    /\ place' = "parse"
    /\ UNCHANGED <<mode, driver, hhResults, build, logs, hhOutputs>>

ContainerReturns ==
    /\ place = "wait" /\ Own \notin writers
    /\ place' = "parse"
    /\ UNCHANGED <<mode, driver, hhResults, build, logs, hhOutputs>>

Continue(numbers) ==
    /\ columns' = [columns EXCEPT ![mode] = numbers]
    /\ IF mode = "bytes"
       THEN mode' = "corpus" /\ place' = "replica"
       ELSE place' = AfterDrt(skip) /\ UNCHANGED mode

\* Variant: the timeout waits for the container to end.
TimeOutWaits ==
    /\ place \in {"replica", "wait"} /\ Own \notin writers
    /\ Continue(NoNumbers)
    /\ UNCHANGED <<driver, ours, build, logs, hhOutputs>>

\* TimeoutExpired ends the docker client, not the container.
TimeOut ==
    /\ place \in {"replica", "wait"}
    /\ orphaned' = (orphaned \/ Own \in writers)
    /\ Continue(NoNumbers)
    /\ UNCHANGED <<driver, ours, build, log, writers, shared, ran, hhOutputs>>

\* Variant: the last line of the log counts as a summary, whatever it is.
ParseLogAnyLine ==
    /\ place = "parse"
    /\ Continue(log[mode])
    /\ UNCHANGED <<driver, ours, build, logs, hhOutputs>>

\* The last line of the log, if there is a log and the line is a summary.
ParseLog ==
    /\ place = "parse"
    /\ Continue(IF log[mode] \in Invocations THEN log[mode] ELSE NoNumbers)
    /\ UNCHANGED <<driver, ours, build, logs, hhOutputs>>

\* run_type_directed: run_diff.py printed its summary block, or ended (or was
\* timed out) without one.
RunTypeDirected ==
    /\ place = "ours"
    /\ ours' \in {inv, NoNumbers}
    /\ place' = "json_open"
    /\ UNCHANGED <<mode, driver, columns, build, logs, hhOutputs>>

Published == [run |-> inv, columns |-> columns, ours |-> ours]

\* Variant: the table is written before the summary.
PublishTableEarly ==
    /\ \/ place = "json_open" /\ table' = Published /\ place' = "json_fill" /\ UNCHANGED json
       \/ place = "json_fill" /\ json' = Published /\ place' = "exit0" /\ UNCHANGED table
       \/ place = "table_open" /\ place' = "table_fill" /\ UNCHANGED <<table, json>>
       \/ place = "table_fill" /\ place' = "exit0" /\ UNCHANGED <<table, json>>
    /\ UNCHANGED <<mode, driver, hhResults, build, logs>>

\* summary.json first, then the table, each truncated and then filled.
Publish ==
    /\ \/ place = "json_open" /\ json' = TornOutput /\ place' = "json_fill" /\ UNCHANGED table
       \/ place = "json_fill" /\ json' = Published /\ place' = "table_open" /\ UNCHANGED table
       \/ place = "table_open" /\ table' = TornOutput /\ place' = "table_fill" /\ UNCHANGED json
       \/ place = "table_fill" /\ table' = Published /\ place' = "exit0" /\ UNCHANGED json
    /\ UNCHANGED <<mode, driver, hhResults, build, logs>>

\* The driver is killed; the container is not its child.
HhKill ==
    /\ place \notin {"idle"} \cup HhEnded
    /\ place' = "killed"
    /\ orphaned' = (orphaned \/ Own \in writers)
    /\ UNCHANGED <<mode, driver, hhResults, build, log, writers, shared, ran, hhOutputs>>

-----------------------------------------------------------------------------
\* The replica's process w = <<mode, invocation>>.  Two of them write at their
\* own offsets, so each may cover the end of the other's output.

Last(m, line) == log' = [log EXCEPT ![m] = line]

PrintsSummary(w) ==
    /\ writers' = writers \ {w}
    /\ \E line \in IF shared[w[1]] THEN {w[2], log[w[1]], Partial} ELSE {w[2]} :
            Last(w[1], line)
    /\ UNCHANGED <<place, mode, driver, hhResults, build, shared, ran, orphaned, hhOutputs>>

\* It dies in mid-run, or covers another process's summary with attempts.
DiesOrCovers(w) ==
    /\ \E line \in {log[w[1]], Partial} : Last(w[1], line)
    /\ writers' \in {writers \ {w}, writers}
    /\ UNCHANGED <<place, mode, driver, hhResults, build, shared, ran, orphaned, hhOutputs>>

Replica == \E w \in writers : PrintsSummary(w) \/ DiesOrCovers(w)

HhStep ==
    \/ BuildReplica \/ DockerFailsToBuild \/ ShellRuns \/ DockerFails
    \/ ContainerReturns \/ TimeOut \/ ParseLog \/ RunTypeDirected \/ Publish

HhNext == HhInvoke \/ EditReplica \/ HhStep \/ HhKill \/ Replica

HhSpec == HhInit /\ [][HhNext]_hhVars

\* Every call the driver makes has a timeout; a replica may run for ever.
HhFairSpec == HhSpec /\ WF_hhVars(HhStep)

-----------------------------------------------------------------------------
\* Properties

Output == {NoOutput, TornOutput}
    \cup [run: Invocations, columns: [Modes -> Nat], ours: Nat]

\* Every variable has its type, and nothing is attributed to an invocation that
\* has not begun.
HhTypeOK ==
    /\ place \in {"idle", "build", "replica", "wait", "parse", "ours", "json_open",
              "json_fill", "table_open", "table_fill"} \cup HhEnded
    /\ inv \in 0 .. HhInvocations /\ (place # "idle" => inv \in Invocations)
    /\ mode \in Modes
    /\ skip \in [drt : BOOLEAN, ours : BOOLEAN]
    /\ columns \in [Modes -> 0 .. inv] /\ ours \in 0 .. inv
    /\ source \in 1 .. MaxEdits + 1 /\ binary \in 0 .. source
    /\ log \in [Modes -> Partial .. inv]
    /\ writers \subseteq Modes \X (1 .. inv)
    /\ shared \in [Modes -> BOOLEAN]
    /\ table \in Output /\ json \in Output
    /\ ran \subseteq Modes
    /\ orphaned \in BOOLEAN /\ masked \in BOOLEAN

\* As long as no container has outlived its call, a column whose container ran
\* in this invocation shows this invocation's numbers or none, whatever earlier
\* invocations left in the log and however the replica ended.
FreshWhenRun ==
    ~orphaned => \A m \in ran : columns[m] \in {NoNumbers, inv}

\* A successful invocation leaves a table and a summary of the same numbers, its
\* own; and whatever was cut short, a table in the checkout is backed by a
\* summary of the same invocation, unless a later one has begun to replace it.
OutputsAgree ==
    /\ place = "exit0" => table = json /\ json = Published
    /\ table.run > 0 => \/ json = TornOutput
                        \/ json.run > table.run
                        \/ json = table

\* Every invocation ends, also when a replica hangs.
HhTerminates == place \in {"build", "replica", "ours", "json_open"} ~> place \in HhEnded

\* [Violated] "Run the cedar-drt replica binary in `mode` and parse its summary"
\* (run_headtohead.py:169): the numbers of a column were printed by a replica of
\* this invocation.
NumbersAreThisRuns == \A m \in Modes : columns[m] \in {NoNumbers, inv}

\* [Violated] "Build the cedar-drt replica binary" and the test of the exit code
\* that prints "[build] FAILED" (run_headtohead.py:134, 145): after a build that
\* failed, the invocation measures nothing.
FailedBuildStops == masked => place \notin {"replica", "wait", "parse"}

\* Inductive strengthening of FreshWhenRun: the log of a mode that has run holds
\* nothing older than this invocation, the only process that may still write to
\* a log is the one the driver waits for, and no column is set before its mode
\* has been run.
OneWriter ==
    ~orphaned =>
        /\ writers \subseteq {Own}
        /\ writers # {} => place = "wait"
        /\ \A m \in Modes : ~shared[m]
        /\ \A m \in ran : log[m] \in {Partial, NoNumbers, inv}
        /\ place = "wait" => mode \in ran

NotYetSet ==
    place \in {"build", "replica", "wait", "parse"} =>
        columns[mode] = NoNumbers /\ columns["corpus"] = NoNumbers

FreshInv == OneWriter /\ NotYetSet /\ FreshWhenRun

\* Inductive strengthening of OutputsAgree.
PublishInv ==
    /\ OutputsAgree
    /\ place = "json_fill" => json = TornOutput
    /\ place = "table_open" => json = Published
    /\ place = "table_fill" => json = Published /\ table = TornOutput
    /\ json.run <= inv /\ table.run <= inv
    /\ place \in {"build", "replica", "wait", "parse", "ours", "json_open", "json_fill"}
          => json.run < inv /\ table.run < inv
=============================================================================
