------------------------------- MODULE CmDiff -------------------------------
(***************************************************************************)
(* The CedarMicro driver experiments/phase_c_cm_diff/run_cm_diff.py: every *)
(* sampled expression is put to the Rust CLI under two probe contexts.  A  *)
(* thread pool runs the calls; a call hands its policy and its request to  *)
(* the container through the files of a scratch directory, chosen by the   *)
(* thread.  The main thread collects the answers in job order.             *)
(***************************************************************************)
EXTENDS Integers, FiniteSets, Sequences

CONSTANTS
    Threads,     \* the workers of the pool
    Slots,       \* the scratch directories
    ScratchOf,   \* threading.get_ident() % 64 of each worker
    NSamples,    \* the expressions MeasureAll.lean printed
    Says         \* what the CLI answers to each expression under each probe

Probes  == {0, 1}
Samples == 0 .. NSamples - 1
Answer  == {"Allow", "Deny", "ERROR"}

ASSUME NSamplesAssumption == NSamples \in Nat
ASSUME ScratchAssumption == ScratchOf \in [Threads -> Slots]
ASSUME SaysAssumption == Says \in [Samples \X Probes -> Answer]

VARIABLES
    main,      \* where the main thread is
    results,   \* the answers it has collected
    future,    \* state of each job's future
    answer,    \* the answer a finished job holds
    job,       \* the job each worker runs
    at,        \* where each worker is in _rust_authorize
    policyRead,\* the policy the worker's container has read
    policy,    \* p.cedar of each scratch directory
    static,    \* s.cedarschema and e.json, the same text in every call
    request,   \* r.json
    tsv,       \* samples.tsv
    summary    \* summary.json

workers == <<job, at, policyRead, policy, static, request>>
futures == <<future, answer>>
outputs == <<tsv, summary>>
vars == <<main, results, future, answer, job, at, policyRead, policy, static,
          request, tsv, summary>>

-----------------------------------------------------------------------------
\* Jobs in the order of the job list: both probes of a sample, then the next.
NJobs == 2 * NSamples
Jobs  == 0 .. NJobs - 1
SampleOf(j) == j \div 2
ProbeOf(j)  == j % 2
Idle == -1
Torn == -1      \* content of a policy or request file that is being written

Ended == {"exit0", "exit1", "raised", "killed"}

\* What the container prints for the files it reads.  An empty policy file is
\* a policy set that permits nothing; an empty request, schema or entity file
\* is an error.
Authorize(p, s, q) ==
    IF s = "torn" \/ q = Torn THEN "ERROR"
    ELSE IF p = Torn THEN "Deny"
    ELSE Says[p, q]

Init ==
    /\ main = "sampling"
    /\ results = <<>>
    /\ future = [j \in Jobs |-> "none"]
    /\ answer = [j \in Jobs |-> "none"]
    /\ job = [t \in Threads |-> Idle]
    /\ at = [t \in Threads |-> "idle"]
    /\ policyRead = [t \in Threads |-> Torn]
    /\ policy = [d \in Slots |-> Torn]
    /\ static = [d \in Slots |-> "torn"]
    /\ request = [d \in Slots |-> Torn]
    /\ tsv = "old"
    /\ summary = "old"

-----------------------------------------------------------------------------
\* Main thread

\* sample_cm_bool_exprs, then the job list is submitted as a whole.
Submit ==
    /\ main = "sampling"
    /\ main' = "collecting"
    /\ future' = [j \in Jobs |-> "pending"]
    /\ UNCHANGED <<results, answer, workers, outputs>>

SampleRaises ==
    /\ main = "sampling"
    /\ main' = "raised"
    /\ UNCHANGED <<results, futures, workers, outputs>>

Collect ==
    /\ main = "collecting"
    /\ Len(results) < NJobs
    /\ future[Len(results)] = "done"
    /\ results' = Append(results, answer[Len(results)])
    /\ UNCHANGED <<main, futures, workers, outputs>>

Cancelled == [j \in Jobs |-> IF future[j] = "pending" THEN "cancelled" ELSE future[j]]

\* The next result is an exception: pool.map cancels what has not started.
CollectRaises ==
    /\ main = "collecting"
    /\ Len(results) < NJobs
    /\ future[Len(results)] = "failed"
    /\ main' = "unwinding"
    /\ future' = Cancelled
    /\ UNCHANGED <<results, answer, workers, outputs>>

\* Leaving the with block waits for the workers, with or without an exception.
AllIdle == \A t \in Threads : job[t] = Idle

\* Variant: the pool is abandoned, not awaited, when a result raises.
LeavePoolAtOnce ==
    \/ /\ main = "collecting"
       /\ Len(results) = NJobs
       /\ AllIdle
       /\ main' = "write_tsv"
       /\ UNCHANGED <<results, futures, workers, outputs>>
    \/ /\ main = "unwinding"
       /\ main' = "raised"
       /\ UNCHANGED <<results, futures, workers, outputs>>

LeavePool ==
    /\ AllIdle
    /\ \/ main = "collecting" /\ Len(results) = NJobs /\ main' = "write_tsv"
       \/ main = "unwinding" /\ main' = "raised"
    /\ UNCHANGED <<results, futures, workers, outputs>>

OpenTsv ==
    /\ main = "write_tsv"
    /\ tsv' = "torn"
    /\ main' = "fill_tsv"
    /\ UNCHANGED <<results, futures, workers, summary>>

FillTsv ==
    /\ main = "fill_tsv"
    /\ tsv' = "new"
    /\ main' = "write_summary"
    /\ UNCHANGED <<results, futures, workers, summary>>

NErrors == Cardinality({i \in 1 .. Len(results) : results[i] = "ERROR"})

\* Variant: the exit code does not look at the errors.
WriteSummaryExitZero ==
    /\ main = "write_summary"
    /\ summary' = "new"
    /\ main' = "exit0"
    /\ UNCHANGED <<results, futures, workers, tsv>>

WriteSummary ==
    /\ main = "write_summary"
    /\ summary' = "new"
    /\ main' = IF NErrors = 0 THEN "exit0" ELSE "exit1"
    /\ UNCHANGED <<results, futures, workers, tsv>>

\* The process is killed, with all its threads.
Kill ==
    /\ main \notin Ended
    /\ main' = "killed"
    /\ job' = [t \in Threads |-> Idle]
    /\ at' = [t \in Threads |-> "idle"]
    /\ UNCHANGED <<results, futures, policyRead, policy, static, request, outputs>>

-----------------------------------------------------------------------------
\* Worker threads

Take(t) ==
    /\ main # "killed" /\ job[t] = Idle
    /\ \E j \in Jobs :
        /\ future[j] = "pending"
        /\ \A i \in Jobs : future[i] = "pending" => j <= i
        /\ job' = [job EXCEPT ![t] = j]
        /\ future' = [future EXCEPT ![j] = "running"]
    /\ at' = [at EXCEPT ![t] = "open_policy"]
    /\ UNCHANGED <<main, results, answer, policyRead, policy, static, request, outputs>>

\* Each write_text truncates the file and then fills it.
Advance(t, here, there) == at[t] = here /\ at' = [at EXCEPT ![t] = there]

Put(file, t, content) == [file EXCEPT ![ScratchOf[t]] = content]

WritePolicy(t) ==
    /\ \/ Advance(t, "open_policy", "fill_policy") /\ policy' = Put(policy, t, Torn)
       \/ Advance(t, "fill_policy", "open_static") /\ policy' = Put(policy, t, SampleOf(job[t]))
    /\ UNCHANGED <<main, results, futures, job, policyRead, static, request, outputs>>

WriteStatic(t) ==
    /\ \/ Advance(t, "open_static", "fill_static") /\ static' = Put(static, t, "torn")
       \/ Advance(t, "fill_static", "open_request") /\ static' = Put(static, t, "text")
    /\ UNCHANGED <<main, results, futures, job, policyRead, policy, request, outputs>>

WriteRequest(t) ==
    /\ \/ Advance(t, "open_request", "fill_request") /\ request' = Put(request, t, Torn)
       \/ Advance(t, "fill_request", "read_policy") /\ request' = Put(request, t, ProbeOf(job[t]))
    /\ UNCHANGED <<main, results, futures, job, policyRead, policy, static, outputs>>

\* The container reads the policy, then the other files, and answers.
ReadPolicy(t) ==
    /\ Advance(t, "read_policy", "read_request")
    /\ policyRead' = [policyRead EXCEPT ![t] = policy[ScratchOf[t]]]
    /\ UNCHANGED <<main, results, futures, job, policy, static, request, outputs>>

\* Variant: an error line is read as a denial.
ReadRequestErrorDenies(t) ==
    /\ Advance(t, "read_request", "idle")
    /\ LET says == Authorize(policyRead[t], static[ScratchOf[t]], request[ScratchOf[t]])
       IN answer' = [answer EXCEPT ![job[t]] = IF says = "ERROR" THEN "Deny" ELSE says]
    /\ future' = [future EXCEPT ![job[t]] = "done"]
    /\ job' = [job EXCEPT ![t] = Idle]
    /\ UNCHANGED <<main, results, policyRead, policy, static, request, outputs>>

ReadRequest(t) ==
    /\ Advance(t, "read_request", "idle")
    /\ answer' = [answer EXCEPT ![job[t]] =
            Authorize(policyRead[t], static[ScratchOf[t]], request[ScratchOf[t]])]
    /\ future' = [future EXCEPT ![job[t]] = "done"]
    /\ job' = [job EXCEPT ![t] = Idle]
    /\ UNCHANGED <<main, results, policyRead, policy, static, request, outputs>>

\* Variant: the exception is swallowed and the worker goes on, its future
\* never completed.
CallRaisesSilently(t) ==
    /\ at[t] \in {"read_policy", "read_request"}
    /\ at' = [at EXCEPT ![t] = "idle"]
    /\ job' = [job EXCEPT ![t] = Idle]
    /\ UNCHANGED <<main, results, futures, policyRead, policy, static, request, outputs>>

\* Variant: the exception is caught and the call returns no answer.
CallRaisesNoAnswer(t) ==
    /\ at[t] \in {"read_policy", "read_request"}
    /\ at' = [at EXCEPT ![t] = "idle"]
    /\ future' = [future EXCEPT ![job[t]] = "done"]
    /\ job' = [job EXCEPT ![t] = Idle]
    /\ UNCHANGED <<main, results, answer, policyRead, policy, static, request, outputs>>

\* TimeoutExpired: the future holds the exception, the worker goes on.
CallRaises(t) ==
    /\ at[t] \in {"read_policy", "read_request"}
    /\ at' = [at EXCEPT ![t] = "idle"]
    /\ future' = [future EXCEPT ![job[t]] = "failed"]
    /\ job' = [job EXCEPT ![t] = Idle]
    /\ UNCHANGED <<main, results, answer, policyRead, policy, static, request, outputs>>

Work(t) ==
    \/ Take(t) \/ WritePolicy(t) \/ WriteStatic(t) \/ WriteRequest(t)
    \/ ReadPolicy(t) \/ ReadRequest(t) \/ CallRaises(t)

MainStep ==
    \/ Submit \/ SampleRaises \/ Collect \/ CollectRaises \/ LeavePool
    \/ OpenTsv \/ FillTsv \/ WriteSummary

Next == MainStep \/ (\E t \in Threads : Work(t)) \/ Kill

Spec == Init /\ [][Next]_vars

\* A call that hangs is ended by its timeout, so workers and the main thread
\* keep moving.
FairSpec == Spec /\ WF_vars(MainStep) /\ \A t \in Threads : WF_vars(Work(t))

-----------------------------------------------------------------------------
\* Properties

\* Every variable has its type, a finished job holds an answer, and a worker is
\* between two jobs when it holds none.
TypeOK ==
    /\ main \in {"sampling", "collecting", "unwinding", "write_tsv", "fill_tsv",
                 "write_summary"} \cup Ended
    /\ results \in Seq(Answer) /\ Len(results) <= NJobs
    /\ future \in [Jobs -> {"none", "pending", "running", "done", "failed", "cancelled"}]
    /\ answer \in [Jobs -> Answer \cup {"none"}]
    /\ \A j \in Jobs : future[j] = "done" => answer[j] \in Answer
    /\ job \in [Threads -> Jobs \cup {Idle}]
    /\ at \in [Threads -> {"idle", "open_policy", "fill_policy", "open_static",
           "fill_static", "open_request", "fill_request", "read_policy", "read_request"}]
    /\ \A t \in Threads : at[t] = "idle" <=> job[t] = Idle
    /\ policyRead \in [Threads -> Samples \cup {Torn}]
    /\ policy \in [Slots -> Samples \cup {Torn}]
    /\ static \in [Slots -> {"text", "torn"}]
    /\ request \in [Slots -> Probes \cup {Torn}]
    /\ tsv \in {"old", "torn", "new"}
    /\ summary \in {"old", "new"}

\* A recorded decision is the CLI's decision on that expression under that
\* probe: whatever the workers interleave, a container never answers for a
\* half-written file or for another worker's job.  ("each thread pins to a
\* unique worker_id so scratch dirs don't collide", run_cm_diff.py:190.)
DecisionsFaithful ==
    \A i \in 1 .. Len(results) : results[i] = Says[SampleOf(i - 1), ProbeOf(i - 1)]

\* The driver does not come back from the pool, nor write its outputs, nor end
\* while a worker still writes scratch files or may yet start a job.
StopsCleanly ==
    main \in {"write_tsv", "fill_tsv", "write_summary"} \cup Ended =>
        /\ AllIdle
        /\ main # "killed" => \A j \in Jobs : future[j] # "pending"

\* Exit 0 means every call was made and none was an error, and both outputs
\* are this run's; a run that raises has left both outputs as they were.
ExitCodeHonest ==
    /\ main = "exit0" =>
        /\ \A j \in Jobs : future[j] = "done" /\ answer[j] # "ERROR"
        /\ tsv = "new" /\ summary = "new"
    /\ main = "raised" => tsv = "old" /\ summary = "old"

\* A run that has its samples comes to an end, with every call it is waiting for
\* answered, timed out or cancelled.
Terminates == main = "collecting" ~> main \in Ended

\* Every worker has a scratch directory of its own; two that share one are never
\* busy at the same time.
Unshared == \A t, u \in Threads : ScratchOf[t] = ScratchOf[u] => t = u

Apart ==
    \A t, u \in Threads :
        ScratchOf[t] = ScratchOf[u] /\ job[t] # Idle /\ job[u] # Idle => t = u

\* Inductive strengthening of DecisionsFaithful, as long as the workers stay
\* apart: what a worker has written is still there when its container reads it.

OwnFiles(t) ==
    /\ at[t] \in {"open_static", "fill_static", "open_request", "fill_request", "read_policy"}
          => policy[ScratchOf[t]] = SampleOf(job[t])
    /\ at[t] \in {"open_request", "fill_request", "read_policy", "read_request"}
          => static[ScratchOf[t]] = "text"
    /\ at[t] \in {"read_policy", "read_request"} => request[ScratchOf[t]] = ProbeOf(job[t])
    /\ at[t] = "read_request" => policyRead[t] = SampleOf(job[t])

AnswersFaithful ==
    \A j \in Jobs : future[j] = "done" => answer[j] = Says[SampleOf(j), ProbeOf(j)]

FaithfulInv ==
    /\ \A t \in Threads : OwnFiles(t)
    /\ AnswersFaithful
    /\ DecisionsFaithful

\* Inductive strengthening of StopsCleanly: a worker's job is running, no other
\* worker has it, and it is not one main has the answer of.
Working ==
    \A t \in Threads : job[t] # Idle =>
        /\ future[job[t]] = "running"
        /\ \A u \in Threads : job[u] = job[t] => u = t

CleanInv ==
    /\ StopsCleanly
    /\ Working
    /\ main = "sampling" =>
          AllIdle /\ results = <<>> /\ \A j \in Jobs : future[j] # "pending"
    /\ main = "unwinding" => \A j \in Jobs : future[j] # "pending"
    /\ \A i \in 1 .. Len(results) : future[i - 1] = "done"
=============================================================================
