----------------------------- MODULE SymccSweep -----------------------------
(***************************************************************************)
(* phase_j_symcc_sweep/run_symcc.py: every sampled policy through every    *)
(* subcommand of cedar symcc, each call with a timeout of its own; the     *)
(* outcome is classified from exit code, output and elapsed time, counted  *)
(* by subcommand and class, and written to results.json at the very end.   *)
(* Invocations come one after the other and can be killed.                 *)
(*                                                                         *)
(* A call of the solver takes a number of seconds and ends in a verdict, a *)
(* rejection before the solver, an error, or by a hang-up signal.          *)
(***************************************************************************)
EXTENDS Integers, FiniteSets, Sequences

CONSTANTS
    NPolicies,    \* bound: sampled tuples
    Subcommands,  \* a sequence: the order of all_subcommands
    TIMEOUT_S,    \* the constant of the module, default of --timeout
    Timeouts,     \* bound: the values of --timeout
    Durations,    \* bound: the seconds a call may take
    SweepLaunches \* bound: the invocations

Categories == {"VERIFIED", "COUNTEREXAMPLE", "ENCODE_FAIL", "PARSE_FAIL", "ERROR"}
SolverSays == Categories \cup {"SIGHUP"}

ASSUME SweepAssumption ==
    /\ NPolicies \in Nat \ {0} /\ SweepLaunches \in Nat
    /\ Subcommands \in Seq(STRING) /\ Len(Subcommands) > 0
    /\ \A a, b \in 1 .. Len(Subcommands) : Subcommands[a] = Subcommands[b] => a = b
    /\ TIMEOUT_S \in Nat /\ Timeouts \subseteq Nat /\ Durations \subseteq Nat

\* The calls in order: policy by policy, subcommand by subcommand.
NCalls == NPolicies * Len(Subcommands)
SubcommandOf(c) == Subcommands[((c - 1) % Len(Subcommands)) + 1]

VARIABLES
    sweepPc,      \* "idle", "sample", "sweep", "write", "tables", or how the last one ended
    timeout,      \* --timeout
    inContainer,  \* is_in_container()
    rows,         \* results so far: a sequence of [cat, says, took]
    counts,       \* counts: <<subcommand, category>> -> how often, a partial function
    resultsJson,  \* results.json: whose it is, the rows in it, whether it is whole
    sweeps        \* invocations so far

sweepVars == <<sweepPc, timeout, inContainer, rows, counts, resultsJson, sweeps>>

SweepBusy  == {"sample", "sweep", "write", "tables"}
SweepEnded == {"idle", "exit0", "exit1", "raised", "killed"}

NoResults == [of |-> 0, rows |-> <<>>, whole |-> FALSE]

SweepInit ==
    /\ sweepPc = "idle" /\ timeout \in Timeouts /\ inContainer \in BOOLEAN
    /\ rows = <<>> /\ counts = <<>> /\ resultsJson = NoResults /\ sweeps = 0

SweepStart ==
    /\ sweepPc \in SweepEnded /\ sweeps < SweepLaunches
    /\ sweepPc' = "sample" /\ sweeps' = sweeps + 1
    /\ timeout' \in Timeouts
    /\ rows' = <<>> /\ counts' = <<>>
    /\ UNCHANGED <<inContainer, resultsJson>>

\* sample_tuples returns none when measure-diff fails or times out: exit 1.
SampleForSweep ==
    /\ sweepPc = "sample" /\ sweepPc' \in {"sweep", "exit1"}
    /\ UNCHANGED <<timeout, inContainer, rows, counts, resultsJson, sweeps>>

\* run_cmd: subprocess.run stops the call after its timeout.
Took(seconds) == IF seconds < timeout THEN seconds ELSE timeout

\* Variant: only the constant counts.
ClassifyByConstant(says, seconds) == IF Took(seconds) >= TIMEOUT_S THEN "TIMEOUT" ELSE says

\* classify_output: late for the constant, or exit code -1, which run_cmd makes
\* of its timeout and Python of a process that a hang-up ended.
ClassifyOutput(says, seconds) ==
    IF Took(seconds) >= TIMEOUT_S \/ seconds >= timeout \/ says = "SIGHUP"
    THEN "TIMEOUT" ELSE says

\* run_symcc: outside the container the files it writes to its temporary
\* directory are not where the container looks for them.
Reachable(says) == IF inContainer THEN says ELSE "ERROR"

\* Variant: the first of a kind counts twice.
BumpTwice(f, k) == [j \in DOMAIN f \cup {k} |->
                        IF j = k THEN (IF k \in DOMAIN f THEN f[k] ELSE 1) + 1 ELSE f[j]]

Bump(f, k) == [j \in DOMAIN f \cup {k} |-> IF j = k THEN (IF k \in DOMAIN f THEN f[k] ELSE 0) + 1
                                             ELSE f[j]]

SymccCall ==
    LET c == Len(rows) + 1
    IN /\ sweepPc = "sweep" /\ c <= NCalls
       /\ \E says \in SolverSays, seconds \in Durations :
            LET cat == ClassifyOutput(Reachable(says), seconds)
            IN /\ rows' = Append(rows, [cat |-> cat, says |-> Reachable(says), took |-> seconds])
               /\ counts' = Bump(counts, <<SubcommandOf(c), cat>>)
       /\ UNCHANGED <<sweepPc, timeout, inContainer, resultsJson, sweeps>>

\* results.json: open truncates, the dump reaches the disk piece by piece.
OpenSweep ==
    /\ sweepPc = "sweep" /\ Len(rows) = NCalls
    /\ sweepPc' = "write"
    /\ resultsJson' = [of |-> sweeps, rows |-> <<>>, whole |-> FALSE]
    /\ UNCHANGED <<timeout, inContainer, rows, counts, sweeps>>

FlushSweep ==
    /\ sweepPc = "write"
    /\ \E k \in Len(resultsJson.rows) + 1 .. NCalls :
        resultsJson' = [resultsJson EXCEPT !.rows = SubSeq(rows, 1, k)]
    /\ UNCHANGED <<sweepPc, timeout, inContainer, rows, counts, sweeps>>

CloseSweep ==
    /\ sweepPc = "write"
    /\ sweepPc' = "tables"
    /\ resultsJson' = [of |-> sweeps, rows |-> rows, whole |-> TRUE]
    /\ UNCHANGED <<timeout, inContainer, rows, counts, sweeps>>

SweepExit ==
    /\ sweepPc = "tables" /\ sweepPc' = "exit0"
    /\ UNCHANGED <<timeout, inContainer, rows, counts, resultsJson, sweeps>>

\* Nothing handles an exception (docker is missing, the disk is full).
SweepStops ==
    /\ sweepPc \in SweepBusy /\ sweepPc' \in {"raised", "killed"}
    /\ UNCHANGED <<timeout, inContainer, rows, counts, resultsJson, sweeps>>

SweepNext ==
    \/ SweepStart \/ SampleForSweep \/ SymccCall
    \/ OpenSweep \/ FlushSweep \/ CloseSweep \/ SweepExit \/ SweepStops

SweepSpec == SweepInit /\ [][SweepNext]_sweepVars

-----------------------------------------------------------------------------
\* Properties

SweepTypeOK ==
    /\ sweepPc \in SweepBusy \cup SweepEnded
    /\ timeout \in Timeouts /\ inContainer \in BOOLEAN
    /\ Len(rows) <= NCalls
    /\ \A c \in 1 .. Len(rows) :
        rows[c] \in [cat : Categories \cup {"TIMEOUT"}, says : SolverSays, took : Durations]
    /\ \A k \in DOMAIN counts : counts[k] \in 1 .. NPolicies
    /\ sweeps \in 0 .. SweepLaunches

\* The file is of the sweep that is running or was the last to run.
Ours == resultsJson.of = sweeps /\ sweepPc # "idle"

\* results.json holds one sweep's calls from the first one on, never calls of
\* two sweeps: all of them when it can be parsed, and then, if the sweep is the
\* last one, they are what its tables count.  A sweep that exits 0 has left
\* such a file, and only one that was stopped while it wrote leaves a piece.  A
\* call stands there for what it said, but for those stopped by --timeout, all
\* of them, and those that ran as long as the constant or ended by a hang-up.
SweepReportTruthful ==
    /\ resultsJson.whole => Len(resultsJson.rows) = NCalls
    /\ Ours => /\ resultsJson.rows = SubSeq(rows, 1, Len(resultsJson.rows))
               /\ ~resultsJson.whole => sweepPc \in {"write", "raised", "killed"}
    /\ Ours /\ resultsJson.whole => \A k \in DOMAIN counts :
        counts[k] = Cardinality({c \in 1 .. NCalls :
                        <<SubcommandOf(c), resultsJson.rows[c].cat>> = k})
    /\ sweepPc = "exit0" => Ours /\ resultsJson.whole
    /\ \A c \in 1 .. Len(rows) :
        /\ rows[c].took >= timeout => rows[c].cat = "TIMEOUT"
        /\ rows[c].cat \in {"TIMEOUT", rows[c].says}
        /\ rows[c].cat = "TIMEOUT" =>
              \/ rows[c].took >= timeout \/ rows[c].took >= TIMEOUT_S
              \/ rows[c].says = "SIGHUP"

\* [Violated] "Per-invocation timeout (s)" (run_symcc.py:260): a call that no
\* signal ended is a timeout only if it took as long as --timeout.
TimeoutIsTheOption ==
    \A c \in 1 .. Len(rows) :
        rows[c].cat = "TIMEOUT" /\ rows[c].says # "SIGHUP" => rows[c].took >= timeout
=============================================================================
