---------------------------- MODULE CmDiffProofs ----------------------------
(* Theorems of CmDiff, for any pool, sample and assignment of scratch        *)
(* directories.                                                              *)
EXTENDS CmDiff, TLAPS, FiniteSetTheorems

LEMMA JobData ==
  /\ Jobs \subseteq Int /\ NJobs \in Nat /\ Idle \notin Jobs
  /\ \A j \in Jobs : SampleOf(j) \in Samples /\ ProbeOf(j) \in Probes
  <1>1. NJobs \in Nat /\ Jobs \subseteq Int /\ Idle \notin Jobs
    BY NSamplesAssumption DEF NJobs, Jobs, Idle
  <1>2. ASSUME NEW j \in Jobs PROVE SampleOf(j) \in Samples /\ ProbeOf(j) \in Probes
    BY NSamplesAssumption DEF NJobs, Jobs, Samples, Probes, SampleOf, ProbeOf
  <1> QED
    BY <1>1, <1>2

LEMMA TornIsNoContent == Torn \notin Samples /\ Torn \notin Probes
  <1>1. Torn \notin Samples
    BY NSamplesAssumption DEF Samples, Torn
  <1>2. Torn \notin Probes
    BY DEF Probes, Torn
  <1> QED
    BY <1>1, <1>2

LEMMA AuthorizeType ==
  ASSUME NEW p \in Samples \cup {Torn}, NEW s \in {"text", "torn"}, NEW q \in Probes \cup {Torn}
  PROVE  Authorize(p, s, q) \in Answer
  <1>1. CASE s = "torn" \/ q = Torn
    BY <1>1 DEF Authorize, Answer
  <1>2. CASE ~(s = "torn" \/ q = Torn) /\ p = Torn
    BY <1>2 DEF Authorize, Answer
  <1>3. CASE ~(s = "torn" \/ q = Torn) /\ p # Torn
    <2>1. <<p, q>> \in Samples \X Probes
      BY <1>3
    <2> QED
      BY <1>3, <2>1, SaysAssumption DEF Authorize
  <1> QED
    BY <1>1, <1>2, <1>3

\* Every variable has its type in every reachable state.
THEOREM TypeCorrect == Spec => []TypeOK
  <1>1. Init => TypeOK
    BY JobData DEF Init, TypeOK, Answer
  <1>2. TypeOK /\ [Next]_vars => TypeOK'
    <2> SUFFICES ASSUME TypeOK, [Next]_vars PROVE TypeOK'
      OBVIOUS
    <2> USE DEF TypeOK
    <2>1. CASE MainStep
      <3> USE DEF workers, futures, outputs
      <3>1. CASE Collect
        <4>1. Len(results) \in Jobs /\ answer[Len(results)] \in Answer
          BY <3>1, JobData DEF Collect, Jobs
        <4> QED
          BY <3>1, <4>1, JobData DEF Collect
      <3>2. CASE Submit \/ SampleRaises \/ CollectRaises
        BY <2>1, <3>2 DEF Submit, SampleRaises, CollectRaises, Cancelled, Ended
      <3>3. CASE LeavePool \/ OpenTsv \/ FillTsv \/ WriteSummary
        BY <2>1, <3>3 DEF LeavePool, OpenTsv, FillTsv, WriteSummary, Ended
      <3> QED
        BY <2>1, <3>1, <3>2, <3>3 DEF MainStep
    <2>2. ASSUME NEW t \in Threads, Work(t) PROVE TypeOK'
      <3> USE DEF futures, outputs, Advance, Put
      <3>0. ScratchOf[t] \in Slots /\ job[t] \in Jobs \cup {Idle}
        BY ScratchAssumption
      <3>1. CASE Take(t)
        BY <3>1, JobData DEF Take
      <3>2. CASE WritePolicy(t)
        <4>1. at[t] # "idle" /\ job[t] \in Jobs /\ SampleOf(job[t]) \in Samples
          BY <3>0, <3>2, JobData DEF WritePolicy
        <4> QED
          BY <3>0, <3>2, <4>1 DEF WritePolicy
      <3>3. CASE WriteStatic(t)
        BY <3>0, <3>3 DEF WriteStatic
      <3>4. CASE WriteRequest(t)
        <4>1. at[t] # "idle" /\ job[t] \in Jobs /\ ProbeOf(job[t]) \in Probes
          BY <3>0, <3>4, JobData DEF WriteRequest
        <4> QED
          BY <3>0, <3>4, <4>1 DEF WriteRequest
      <3>5. CASE ReadPolicy(t)
        BY <3>0, <3>5 DEF ReadPolicy
      <3>6. CASE ReadRequest(t)
        <4>1. Authorize(policyRead[t], static[ScratchOf[t]], request[ScratchOf[t]]) \in Answer
          BY <3>0, AuthorizeType
        <4> QED
          BY <3>0, <3>6, <4>1, JobData DEF ReadRequest
      <3>7. CASE CallRaises(t)
        BY <3>0, <3>7, JobData DEF CallRaises
      <3> QED
        BY <2>2, <3>1, <3>2, <3>3, <3>4, <3>5, <3>6, <3>7 DEF Work
    <2>3. CASE Kill
      BY <2>3 DEF Kill, futures, outputs, Ended
    <2>4. CASE UNCHANGED vars
      BY <2>4 DEF vars
    <2> QED
      BY <2>1, <2>2, <2>3, <2>4 DEF Next
  <1> QED
    BY <1>1, <1>2, PTL DEF Spec

-----------------------------------------------------------------------------
\* Workers that do not use a directory at the same time

\* A step of thread t changes no job or stage of another thread u, and no file of
\* u's directory as long as u is busy.
LEMMA OthersKeep ==
  ASSUME TypeOK, Apart, Apart', NEW t \in Threads, NEW u \in Threads, u # t, Work(t),
         OwnFiles(u)
  PROVE  OwnFiles(u)'
  <1>0. /\ job'[u] = job[u] /\ at'[u] = at[u]
        /\ job[t] # Idle \/ job'[t] # Idle
    BY JobData DEF TypeOK, Work, Take, WritePolicy, WriteStatic, WriteRequest, ReadPolicy,
       ReadRequest, CallRaises, Advance
  <1>1. CASE ScratchOf[t] = ScratchOf[u]
    <2>1. at'[u] = "idle"
      BY <1>0, <1>1 DEF Apart, TypeOK
    <2> QED
      BY <2>1 DEF OwnFiles
  <1> SUFFICES ASSUME ScratchOf[t] # ScratchOf[u] PROVE OwnFiles(u)'
    BY <1>1
  <1>2. ScratchOf[t] \in Slots /\ ScratchOf[u] \in Slots
    BY ScratchAssumption
  <1>3. /\ policyRead'[u] = policyRead[u]
        /\ policy'[ScratchOf[u]] = policy[ScratchOf[u]]
        /\ static'[ScratchOf[u]] = static[ScratchOf[u]]
        /\ request'[ScratchOf[u]] = request[ScratchOf[u]]
    BY <1>2 DEF TypeOK, Work, Take, WritePolicy, WriteStatic, WriteRequest, ReadPolicy,
       ReadRequest, CallRaises, Advance, Put
  <1> QED
    BY <1>0, <1>3 DEF OwnFiles

\* Its own step leaves a worker's files as its stage says.
LEMMA OwnKeep ==
  ASSUME TypeOK, NEW t \in Threads, Work(t), OwnFiles(t)
  PROVE  OwnFiles(t)'
  <1> USE DEF TypeOK, OwnFiles, Advance, Put
  <1>0. ScratchOf[t] \in Slots
    BY ScratchAssumption
  <1>1. CASE Take(t)
    BY <1>1 DEF Take
  <1>2. CASE WritePolicy(t)
    BY <1>0, <1>2 DEF WritePolicy
  <1>3. CASE WriteStatic(t)
    BY <1>0, <1>3 DEF WriteStatic
  <1>4. CASE WriteRequest(t)
    BY <1>0, <1>4 DEF WriteRequest
  <1>5. CASE ReadPolicy(t)
    BY <1>0, <1>5 DEF ReadPolicy
  <1>6. CASE ReadRequest(t)
    BY <1>6 DEF ReadRequest
  <1>7. CASE CallRaises(t)
    BY <1>7 DEF CallRaises
  <1> QED
    BY <1>1, <1>2, <1>3, <1>4, <1>5, <1>6, <1>7 DEF Work

\* A finished call holds the CLI's answer to its own job.
LEMMA AnswersKeep ==
  ASSUME TypeOK, NEW t \in Threads, Work(t), OwnFiles(t), AnswersFaithful
  PROVE  AnswersFaithful'
  <1> USE DEF TypeOK, AnswersFaithful
  <1>1. CASE ReadRequest(t)
    <2>1. at[t] = "read_request" /\ job[t] \in Jobs
      BY <1>1 DEF ReadRequest, Advance
    <2>2. /\ policyRead[t] = SampleOf(job[t]) /\ static[ScratchOf[t]] = "text"
          /\ request[ScratchOf[t]] = ProbeOf(job[t])
      BY <2>1 DEF OwnFiles
    <2>3. SampleOf(job[t]) # Torn /\ ProbeOf(job[t]) # Torn
      BY <2>1, JobData, TornIsNoContent
    <2>4. Authorize(policyRead[t], static[ScratchOf[t]], request[ScratchOf[t]])
            = Says[SampleOf(job[t]), ProbeOf(job[t])]
      BY <2>2, <2>3 DEF Authorize
    <2> QED
      BY <1>1, <2>1, <2>4 DEF ReadRequest
  <1>2. CASE Take(t) \/ CallRaises(t)
    BY <1>2 DEF Take, CallRaises, outputs
  <1>3. CASE WritePolicy(t) \/ WriteStatic(t) \/ WriteRequest(t) \/ ReadPolicy(t)
    BY <1>3 DEF WritePolicy, WriteStatic, WriteRequest, ReadPolicy, futures
  <1> QED
    BY <1>1, <1>2, <1>3 DEF Work

LEMMA FaithfulStep ==
  TypeOK /\ Apart /\ Apart' /\ FaithfulInv /\ [Next]_vars => FaithfulInv'
  <1> SUFFICES ASSUME TypeOK, Apart, Apart', FaithfulInv, [Next]_vars
               PROVE  /\ \A t \in Threads : OwnFiles(t)'
                      /\ AnswersFaithful'
                      /\ DecisionsFaithful'
    BY DEF FaithfulInv
  <1>0. /\ \A t \in Threads : OwnFiles(t)
        /\ AnswersFaithful /\ DecisionsFaithful
    BY DEF FaithfulInv
  <1>1. ASSUME NEW t \in Threads, Work(t)
        PROVE  /\ \A u \in Threads : OwnFiles(u)'
               /\ AnswersFaithful' /\ DecisionsFaithful'
    <2>1. ASSUME NEW u \in Threads PROVE OwnFiles(u)'
      BY <1>0, <1>1, OthersKeep, OwnKeep
    <2>2. AnswersFaithful'
      BY <1>0, <1>1, AnswersKeep
    <2>3. UNCHANGED results
      BY <1>1 DEF Work, Take, WritePolicy, WriteStatic, WriteRequest, ReadPolicy,
         ReadRequest, CallRaises
    <2> QED
      BY <1>0, <2>1, <2>2, <2>3 DEF DecisionsFaithful
  <1>2. CASE Collect
    <2>1. UNCHANGED <<future, answer, job, at, policyRead, policy, static, request>>
      BY <1>2 DEF Collect, futures, workers
    <2>2. DecisionsFaithful'
      <3>1. Len(results) \in Jobs /\ Len(results) \in Nat /\ results \in Seq(Answer)
        BY <1>2, JobData DEF Collect, Jobs, TypeOK
      <3>2. answer[Len(results)] = Says[SampleOf(Len(results)), ProbeOf(Len(results))]
        BY <1>0, <1>2, <3>1 DEF AnswersFaithful, Collect
      <3>3. /\ Len(results') = Len(results) + 1
            /\ \A i \in 1 .. Len(results) : results'[i] = results[i]
            /\ results'[Len(results) + 1] = answer[Len(results)]
        BY <1>2, <3>1 DEF Collect
      <3> SUFFICES ASSUME NEW i \in 1 .. Len(results')
                   PROVE  results'[i] = Says[SampleOf(i - 1), ProbeOf(i - 1)]
        BY DEF DecisionsFaithful
      <3>4. CASE i = Len(results) + 1
        <4>1. i - 1 = Len(results)
          BY <3>1, <3>4
        <4> QED
          BY <3>2, <3>3, <3>4, <4>1
      <3>5. CASE i \in 1 .. Len(results)
        BY <1>0, <3>3, <3>5 DEF DecisionsFaithful
      <3>6. i = Len(results) + 1 \/ i \in 1 .. Len(results)
        BY <3>1, <3>3
      <3> QED
        BY <3>4, <3>5, <3>6
    <2> QED
      BY <1>0, <2>1, <2>2 DEF OwnFiles, AnswersFaithful
  <1>3. CASE SampleRaises \/ LeavePool \/ OpenTsv \/ FillTsv \/ WriteSummary \/ UNCHANGED vars
    <2>1. UNCHANGED <<results, future, answer, job, at, policyRead, policy, static, request>>
      BY <1>3 DEF SampleRaises, LeavePool, OpenTsv, FillTsv, WriteSummary, vars, futures, workers
    <2> QED
      BY <1>0, <2>1 DEF OwnFiles, AnswersFaithful, DecisionsFaithful
  <1>4. CASE Submit \/ CollectRaises
    <2>1. /\ UNCHANGED <<results, answer, job, at, policyRead, policy, static, request>>
          /\ \A j \in Jobs : future'[j] = "done" => future[j] = "done"
      BY <1>4 DEF Submit, CollectRaises, Cancelled, workers
    <2> QED
      BY <1>0, <2>1 DEF OwnFiles, AnswersFaithful, DecisionsFaithful
  <1>5. CASE Kill
    <2>1. /\ UNCHANGED <<results, future, answer>>
          /\ \A t \in Threads : at'[t] = "idle"
      BY <1>5 DEF Kill, futures
    <2> QED
      BY <1>0, <2>1 DEF OwnFiles, AnswersFaithful, DecisionsFaithful
  <1> QED
    BY <1>1, <1>2, <1>3, <1>4, <1>5 DEF Next, MainStep

\* As long as no two workers use one scratch directory at the same time, every
\* recorded decision is the CLI's decision on its own job, however the workers
\* interleave and whichever calls time out: a collision of thread identifiers
\* modulo 64 does harm only where the two calls overlap.
THEOREM DecisionsAreFaithfulApart ==
  Spec /\ []Apart => []DecisionsFaithful
  <1>1. Init => FaithfulInv
    BY DEF Init, FaithfulInv, OwnFiles, AnswersFaithful, DecisionsFaithful
  <1>2. FaithfulInv => DecisionsFaithful
    BY DEF FaithfulInv
  <1> QED
    BY <1>1, <1>2, FaithfulStep, TypeCorrect, PTL DEF Spec

\* If no two workers share a scratch directory, they are never in each other's
\* way (ThreadPoolExecutor and the worker_id of run_cm_diff.py).
THEOREM DecisionsAreFaithful ==
  ASSUME Unshared
  PROVE  Spec => []DecisionsFaithful
  <1>1. Apart
    BY DEF Unshared, Apart
  <1> QED
    BY <1>1, DecisionsAreFaithfulApart, PTL

-----------------------------------------------------------------------------
\* Coming back from the pool

LEMMA WorkKeepsJobs ==
  ASSUME TypeOK, CleanInv, NEW t \in Threads, Work(t)
  PROVE  CleanInv'
  <1> USE DEF TypeOK
  <1>1. /\ main' = main /\ results' = results /\ (main # "killed" \/ job[t] # Idle)
        /\ job[t] # Idle \/ \E j \in Jobs : future[j] = "pending"
    BY DEF Work, Take, WritePolicy, WriteStatic, WriteRequest, ReadPolicy,
       ReadRequest, CallRaises, Advance
  <1>2. main \in {"collecting", "unwinding"}
    BY <1>1 DEF CleanInv, StopsCleanly, AllIdle, Ended
  <1>3. CASE Take(t)
    <2>1. PICK j \in Jobs : /\ future[j] = "pending" /\ job[t] = Idle
                            /\ job' = [job EXCEPT ![t] = j]
                            /\ future' = [future EXCEPT ![j] = "running"]
      BY <1>3 DEF Take
    <2>2. Working'
      BY <2>1, JobData DEF CleanInv, Working
    <2> QED
      BY <1>1, <1>2, <2>1, <2>2 DEF CleanInv, StopsCleanly, Ended
  <1>4. CASE ReadRequest(t) \/ CallRaises(t)
    <2>1. PICK end \in {"done", "failed"} :
            /\ job[t] \in Jobs /\ future' = [future EXCEPT ![job[t]] = end]
            /\ job' = [job EXCEPT ![t] = Idle]
      BY <1>4 DEF ReadRequest, CallRaises, Advance
    <2>2. Working'
      BY <2>1, JobData DEF CleanInv, Working
    <2>3. \A i \in 1 .. Len(results') : future'[i - 1] = "done"
      BY <1>1, <2>1, JobData DEF CleanInv, Working
    <2> QED
      BY <1>1, <1>2, <2>1, <2>2, <2>3 DEF CleanInv, StopsCleanly, Ended
  <1>5. CASE WritePolicy(t) \/ WriteStatic(t) \/ WriteRequest(t) \/ ReadPolicy(t)
    <2>1. UNCHANGED <<job, future>>
      BY <1>5 DEF WritePolicy, WriteStatic, WriteRequest, ReadPolicy, futures
    <2> QED
      BY <1>1, <1>2, <2>1 DEF CleanInv, StopsCleanly, Working, Ended
  <1> QED
    BY <1>3, <1>4, <1>5 DEF Work

LEMMA CleanStep ==
  TypeOK /\ CleanInv /\ [Next]_vars => CleanInv'
  <1> SUFFICES ASSUME TypeOK, CleanInv, [Next]_vars PROVE CleanInv'
    OBVIOUS
  <1> USE DEF TypeOK, CleanInv, StopsCleanly, AllIdle, Ended, workers, futures
  <1>1. ASSUME NEW t \in Threads, Work(t) PROVE CleanInv'
    BY <1>1, WorkKeepsJobs
  <1>2. CASE Submit
    BY <1>2 DEF Submit, Working
  <1>3. CASE SampleRaises
    BY <1>3 DEF SampleRaises, Working
  <1>4. CASE Collect
    <2>1. /\ Len(results') = Len(results) + 1 /\ future[Len(results)] = "done"
          /\ UNCHANGED <<main, future, job>> /\ main = "collecting" /\ Len(results) \in Nat
      BY <1>4 DEF Collect
    <2>2. ASSUME NEW i \in 1 .. Len(results') PROVE future'[i - 1] = "done"
      <3>1. CASE i \in 1 .. Len(results)
        BY <2>1, <3>1
      <3>2. CASE i = Len(results) + 1
        <4>1. i - 1 = Len(results)
          BY <2>1, <3>2
        <4> QED
          BY <2>1, <4>1
      <3> QED
        BY <2>1, <3>1, <3>2
    <2> QED
      BY <2>1, <2>2 DEF Working
  <1>5. CASE CollectRaises
    <2>1. \A j \in Jobs : future'[j] # "pending" /\ (future'[j] = future[j] \/ future[j] = "pending")
      BY <1>5 DEF CollectRaises, Cancelled
    <2>2. UNCHANGED <<job, results>> /\ main' = "unwinding"
      BY <1>5 DEF CollectRaises
    <2> QED
      BY <2>1, <2>2, JobData DEF Working, Jobs
  <1>6. CASE LeavePool
    <2>1. AllIdle /\ UNCHANGED <<job, future, results>>
      BY <1>6 DEF LeavePool
    <2>2. ASSUME NEW j \in Jobs PROVE future[j] # "pending"
      <3>1. CASE Len(results) = NJobs
        <4>1. j + 1 \in 1 .. Len(results) /\ (j + 1) - 1 = j
          BY <3>1, JobData DEF Jobs
        <4>2. future[(j + 1) - 1] = "done"
          BY <4>1 DEF CleanInv
        <4> QED
          BY <4>1, <4>2
      <3>2. CASE main = "unwinding"
        BY <3>2
      <3> QED
        BY <1>6, <3>1, <3>2 DEF LeavePool
    <2> QED
      BY <1>6, <2>1, <2>2 DEF LeavePool, Working
  <1>7. CASE OpenTsv \/ FillTsv \/ WriteSummary
    BY <1>7 DEF OpenTsv, FillTsv, WriteSummary, Working
  <1>8. CASE Kill
    BY <1>8 DEF Kill, Working
  <1>9. CASE UNCHANGED vars
    BY <1>9 DEF vars, Working
  <1> QED
    BY <1>1, <1>2, <1>3, <1>4, <1>5, <1>6, <1>7, <1>8, <1>9 DEF Next, MainStep

\* Whether calls fail or not, the driver is past its pool only when no worker is
\* busy and no job can still start.
THEOREM PoolIsDrained == Spec => []StopsCleanly
  <1>1. Init => CleanInv
    BY DEF Init, CleanInv, StopsCleanly, Working, AllIdle, Ended
  <1>2. CleanInv => StopsCleanly
    BY DEF CleanInv
  <1> QED
    BY <1>1, <1>2, CleanStep, TypeCorrect, PTL DEF Spec

-----------------------------------------------------------------------------
\* Outputs and exit code

\* The answers main has are the ones the jobs hold, it writes only when it has
\* them all, and the outputs are new from where it writes them.
HonestInv ==
  /\ main \in {"sampling", "collecting", "unwinding", "write_tsv", "raised"}
        => tsv = "old" /\ summary = "old"
  /\ main \in {"write_summary", "exit0", "exit1"} => tsv = "new"
  /\ main \in {"exit0", "exit1"} => summary = "new"
  /\ main \in {"write_tsv", "fill_tsv", "write_summary", "exit0", "exit1"} => Len(results) = NJobs
  /\ main = "exit0" => NErrors = 0
  /\ \A i \in 1 .. Len(results) : results[i] = answer[i - 1]

LEMMA HonestStep ==
  TypeOK /\ CleanInv /\ HonestInv /\ [Next]_vars => HonestInv'
  <1> SUFFICES ASSUME TypeOK, CleanInv, HonestInv, [Next]_vars PROVE HonestInv'
    OBVIOUS
  <1> USE DEF HonestInv, Ended
  <1>1. ASSUME NEW t \in Threads, Work(t) PROVE HonestInv'
    <2>1. UNCHANGED <<main, results, tsv, summary>>
      BY <1>1 DEF Work, Take, WritePolicy, WriteStatic, WriteRequest, ReadPolicy,
         ReadRequest, CallRaises, outputs
    <2>2. ASSUME NEW i \in 1 .. Len(results) PROVE answer'[i - 1] = answer[i - 1]
      <3>1. future[i - 1] = "done"
        BY DEF CleanInv
      <3>2. CASE ReadRequest(t)
        <4>1. job[t] # Idle /\ answer' = [answer EXCEPT ![job[t]] =
                  Authorize(policyRead[t], static[ScratchOf[t]], request[ScratchOf[t]])]
          BY <3>2 DEF ReadRequest, Advance, TypeOK
        <4>2. future[job[t]] = "running"
          BY <4>1 DEF CleanInv, Working
        <4> QED
          BY <3>1, <4>1, <4>2 DEF TypeOK
      <3>3. CASE ~ReadRequest(t)
        BY <1>1, <3>3 DEF Work, Take, WritePolicy, WriteStatic, WriteRequest, ReadPolicy,
           CallRaises, futures
      <3> QED
        BY <3>2, <3>3
    <2> QED
      BY <2>1, <2>2 DEF NErrors
  <1>2. CASE Submit \/ SampleRaises \/ CollectRaises
    <2>1. UNCHANGED <<results, answer, tsv, summary>>
      BY <1>2 DEF Submit, SampleRaises, CollectRaises, futures, outputs
    <2>2. main \in {"sampling", "collecting"} /\ main' \in {"collecting", "raised", "unwinding"}
      BY <1>2 DEF Submit, SampleRaises, CollectRaises
    <2> QED
      BY <2>1, <2>2
  <1>3. CASE Collect
    <2>1. /\ Len(results) \in Nat /\ results' = Append(results, answer[Len(results)])
          /\ UNCHANGED <<main, answer, tsv, summary>> /\ main = "collecting"
      BY <1>3 DEF Collect, TypeOK, futures, outputs
    <2>2. /\ Len(results') = Len(results) + 1
          /\ \A i \in 1 .. Len(results) : results'[i] = results[i]
          /\ results'[Len(results) + 1] = answer[Len(results)]
      BY <2>1 DEF TypeOK
    <2>3. ASSUME NEW i \in 1 .. Len(results') PROVE results'[i] = answer'[i - 1]
      <3>1. CASE i = Len(results) + 1
        <4>1. i - 1 = Len(results)
          BY <2>1, <3>1
        <4> QED
          BY <2>1, <2>2, <3>1, <4>1
      <3>2. CASE i \in 1 .. Len(results)
        BY <2>1, <2>2, <3>2
      <3> QED
        BY <2>1, <2>2, <3>1, <3>2
    <2> QED
      BY <2>1, <2>3
  <1>4. CASE LeavePool \/ OpenTsv \/ FillTsv
    BY <1>4 DEF LeavePool, OpenTsv, FillTsv, futures, outputs
  <1>5. CASE WriteSummary
    <2>1. main' \in {"exit0", "exit1"} /\ (main' = "exit0" => NErrors = 0)
      BY <1>5 DEF WriteSummary
    <2> QED
      BY <1>5, <2>1 DEF WriteSummary, futures, NErrors
  <1>6. CASE Kill
    BY <1>6 DEF Kill, futures, outputs
  <1>7. CASE UNCHANGED vars
    BY <1>7 DEF vars, NErrors
  <1> QED
    BY <1>1, <1>2, <1>3, <1>4, <1>5, <1>6, <1>7 DEF Next, MainStep

LEMMA HonestSuffices == TypeOK /\ CleanInv /\ HonestInv => ExitCodeHonest
  <1> SUFFICES ASSUME TypeOK, CleanInv, HonestInv PROVE ExitCodeHonest
    OBVIOUS
  <1>1. ASSUME main = "exit0", NEW j \in Jobs PROVE future[j] = "done" /\ answer[j] # "ERROR"
    <2>1. j + 1 \in 1 .. Len(results) /\ (j + 1) - 1 = j /\ Len(results) \in Nat
      BY <1>1, JobData DEF HonestInv, Jobs
    <2>2. future[j] = "done" /\ results[j + 1] = answer[j]
      <3>1. future[(j + 1) - 1] = "done" /\ results[j + 1] = answer[(j + 1) - 1]
        BY <2>1 DEF CleanInv, HonestInv
      <3> QED
        BY <2>1, <3>1
    <2>3. results[j + 1] # "ERROR"
      <3> DEFINE E == {i \in 1 .. Len(results) : results[i] = "ERROR"}
      <3>1. IsFiniteSet(1 .. Len(results))
        BY <2>1, FS_Interval
      <3>2. IsFiniteSet(E) /\ Cardinality(E) = 0
        BY <1>1, <3>1, FS_Subset DEF HonestInv, NErrors
      <3>3. E = {}
        BY <3>2, FS_EmptySet
      <3> QED
        BY <2>1, <3>3
    <2> QED
      BY <2>2, <2>3
  <1> QED
    BY <1>1 DEF HonestInv, ExitCodeHonest

\* Exit 0 means that every call of the pool was answered without an error and
\* that both outputs are this run's; a run that raises leaves both alone.
THEOREM ExitCodeIsHonest == Spec => []ExitCodeHonest
  <1>1. Init => CleanInv /\ HonestInv
    BY DEF Init, CleanInv, StopsCleanly, Working, AllIdle, Ended, HonestInv
  <1>2. TypeOK /\ CleanInv /\ HonestInv /\ [Next]_vars => CleanInv' /\ HonestInv'
    BY CleanStep, HonestStep
  <1> QED
    BY <1>1, <1>2, HonestSuffices, TypeCorrect, PTL DEF Spec

-----------------------------------------------------------------------------
\* The run runs out of steps

\* The steps a busy worker has left of its call.
StageSteps(t) ==
    CASE at[t] = "open_policy" -> 8
      [] at[t] = "fill_policy" -> 7
      [] at[t] = "open_static" -> 6
      [] at[t] = "fill_static" -> 5
      [] at[t] = "open_request" -> 4
      [] at[t] = "fill_request" -> 3
      [] at[t] = "read_policy" -> 2
      [] at[t] = "read_request" -> 1
      [] OTHER -> 0

\* The steps of the workers that are still to come: nine for a job nobody has
\* taken, and what its worker has left for one that is running.
CallsLeft == {c \in Jobs \X (1 .. 9) :
    \/ future[c[1]] \in {"none", "pending"}
    \/ \E t \in Threads : job[t] = c[1] /\ c[2] <= StageSteps(t)}

\* The steps of the main thread that are still to come.
MainLeft ==
    CASE main = "sampling" -> NJobs + 5
      [] main = "collecting" -> (NJobs - Len(results)) + 4
      [] main \in {"unwinding", "write_summary"} -> 1
      [] main = "write_tsv" -> 3
      [] main = "fill_tsv" -> 2
      [] OTHER -> 0

StepsLeft == MainLeft + Cardinality(CallsLeft)

Bounded == StepsLeft \in 0 .. 10 * NJobs + 5

CountsDown == StepsLeft' < StepsLeft

LEMMA CallsFinite ==
  /\ IsFiniteSet(CallsLeft) /\ Cardinality(CallsLeft) \in 0 .. 9 * NJobs
  <1>1. NJobs \in Nat
    BY JobData
  <1>2. IsFiniteSet(Jobs) /\ Cardinality(Jobs) = NJobs
    <2>1. 0 \in Int /\ NJobs - 1 \in Int
      BY <1>1
    <2>2. IsFiniteSet(0 .. NJobs - 1)
            /\ Cardinality(0 .. NJobs - 1) = IF 0 > NJobs - 1 THEN 0 ELSE (NJobs - 1) - 0 + 1
      BY <2>1, FS_Interval
    <2> QED
      BY <1>1, <2>2 DEF Jobs
  <1>3. IsFiniteSet(1 .. 9) /\ Cardinality(1 .. 9) = 9
    <2>1. 1 \in Int /\ 9 \in Int
      OBVIOUS
    <2>2. IsFiniteSet(1 .. 9) /\ Cardinality(1 .. 9) = IF 1 > 9 THEN 0 ELSE 9 - 1 + 1
      BY <2>1, FS_Interval
    <2> QED
      BY <2>2
  <1>4. IsFiniteSet(Jobs \X (1 .. 9)) /\ Cardinality(Jobs \X (1 .. 9)) = NJobs * 9
    BY <1>2, <1>3, FS_Product
  <1>5. CallsLeft \subseteq Jobs \X (1 .. 9)
    BY DEF CallsLeft
  <1>6. IsFiniteSet(CallsLeft) /\ Cardinality(CallsLeft) <= Cardinality(Jobs \X (1 .. 9))
    BY <1>4, <1>5, FS_Subset
  <1> QED
    BY <1>1, <1>4, <1>6, FS_CardinalityType

\* What is to come of the workers shrinks with a step of one of them, and with
\* those of the main thread it does not grow.
LEMMA CallsShrink ==
  ASSUME TypeOK, Working, TypeOK', NEW t \in Threads, Work(t)
  PROVE  CallsLeft' \subseteq CallsLeft /\ CallsLeft' # CallsLeft
  <1> USE DEF TypeOK
  <1>1. CASE Take(t)
    <2>1. PICK j \in Jobs : /\ future[j] = "pending"
                            /\ job' = [job EXCEPT ![t] = j]
                            /\ future' = [future EXCEPT ![j] = "running"]
      BY <1>1 DEF Take
    <2>2. job[t] = Idle /\ at' = [at EXCEPT ![t] = "open_policy"]
      BY <1>1 DEF Take
    <2>3. \A u \in Threads : u # t => StageSteps(u)' = StageSteps(u) /\ job'[u] = job[u]
      BY <2>1, <2>2 DEF StageSteps
    <2>4. StageSteps(t)' = 8 /\ job'[t] = j
      BY <2>1, <2>2 DEF StageSteps
    <2>5. \A u \in Threads : job[u] # j
      BY <2>1, JobData DEF Working
    <2>6. <<j, 9>> \in CallsLeft
      BY <2>1 DEF CallsLeft
    <2>7. <<j, 9>> \notin CallsLeft'
      <3>1. \A u \in Threads : job'[u] = j => u = t
        BY <2>3, <2>5
      <3> QED
        BY <2>1, <2>4, <3>1 DEF CallsLeft
    <2>8. ASSUME NEW c \in CallsLeft' PROVE c \in CallsLeft
      <3>1. c \in Jobs \X (1 .. 9)
        BY DEF CallsLeft
      <3>2. CASE c[1] = j
        BY <2>1, <3>1, <3>2 DEF CallsLeft
      <3>3. CASE c[1] # j /\ future'[c[1]] \in {"none", "pending"}
        BY <2>1, <3>1, <3>3 DEF CallsLeft
      <3>4. ASSUME c[1] # j, NEW u \in Threads, job'[u] = c[1], c[2] <= StageSteps(u)'
            PROVE  c \in CallsLeft
        BY <2>3, <2>4, <3>1, <3>4 DEF CallsLeft
      <3> QED
        BY <3>2, <3>3, <3>4 DEF CallsLeft
    <2> QED
      BY <2>6, <2>7, <2>8
  <1>2. CASE ~Take(t)
    <2> DEFINE j == job[t]
    <2>1. /\ j \in Jobs /\ future[j] = "running"
          /\ \A u \in Threads : job[u] = j => u = t
          /\ \A i \in Jobs : i # j => future'[i] = future[i]
          /\ future'[j] \in {"running", "done", "failed"}
          /\ \A u \in Threads : u # t => job'[u] = job[u] /\ at'[u] = at[u]
          /\ job'[t] \in {j, Idle}
      <3>1. /\ at[t] # "idle"
            /\ \/ future' = future /\ job' = job
               \/ /\ future' = [future EXCEPT ![j] = "done"]
                  /\ job' = [job EXCEPT ![t] = Idle]
               \/ /\ future' = [future EXCEPT ![j] = "failed"]
                  /\ job' = [job EXCEPT ![t] = Idle]
            /\ \A u \in Threads : u # t => at'[u] = at[u]
        BY <1>2 DEF Work, WritePolicy, WriteStatic, WriteRequest, ReadPolicy, ReadRequest,
           CallRaises, Advance, futures
      <3>2. j \in Jobs /\ future[j] = "running" /\ \A u \in Threads : job[u] = j => u = t
        BY <3>1 DEF Working
      <3> QED
        BY <3>1, <3>2
    <2>2. /\ StageSteps(t) \in 1 .. 8 /\ StageSteps(t)' \in 0 .. 8
          /\ StageSteps(t)' < StageSteps(t)
      <3>1. \/ at[t] = "open_policy" /\ at'[t] = "fill_policy"
            \/ at[t] = "fill_policy" /\ at'[t] = "open_static"
            \/ at[t] = "open_static" /\ at'[t] = "fill_static"
            \/ at[t] = "fill_static" /\ at'[t] = "open_request"
            \/ at[t] = "open_request" /\ at'[t] = "fill_request"
            \/ at[t] = "fill_request" /\ at'[t] = "read_policy"
            \/ at[t] = "read_policy" /\ at'[t] \in {"read_request", "idle"}
            \/ at[t] = "read_request" /\ at'[t] = "idle"
        BY <1>2 DEF Work, WritePolicy, WriteStatic, WriteRequest, ReadPolicy, ReadRequest,
           CallRaises, Advance
      <3> QED
        BY <3>1 DEF StageSteps
    <2>3. \A u \in Threads : u # t => StageSteps(u)' = StageSteps(u)
      BY <2>1 DEF StageSteps
    <2> DEFINE last == <<j, StageSteps(t)>>
    <2>4. last \in CallsLeft
      BY <2>1, <2>2 DEF CallsLeft
    <2>5. last \notin CallsLeft'
      <3>1. \A u \in Threads : job'[u] = j => u = t
        BY <2>1
      <3> QED
        BY <2>1, <2>2, <3>1 DEF CallsLeft
    <2>6. ASSUME NEW c \in CallsLeft' PROVE c \in CallsLeft
      <3>1. c \in Jobs \X (1 .. 9)
        BY DEF CallsLeft
      <3>2. CASE future'[c[1]] \in {"none", "pending"}
        BY <2>1, <3>1, <3>2 DEF CallsLeft
      <3>3. ASSUME NEW u \in Threads, job'[u] = c[1], c[2] <= StageSteps(u)'
            PROVE  c \in CallsLeft
        <4>1. job[u] = c[1]
          BY <2>1, <3>1, <3>3, JobData
        <4>2. c[2] <= StageSteps(u)
          BY <2>2, <2>3, <3>1, <3>3
        <4> QED
          BY <3>1, <4>1, <4>2 DEF CallsLeft
      <3> QED
        BY <3>2, <3>3 DEF CallsLeft
    <2> QED
      BY <2>4, <2>5, <2>6
  <1> QED
    BY <1>1, <1>2

\* Before the jobs are submitted none has been.
NoneSubmitted == main = "sampling" => \A j \in Jobs : future[j] = "none"

LEMMA CallsStay ==
  ASSUME TypeOK, NoneSubmitted, MainStep \/ Kill
  PROVE  CallsLeft' \subseteq CallsLeft
  <1> USE DEF TypeOK
  <1>1. CASE MainStep
    <2>1. UNCHANGED <<job, at>>
      BY <1>1 DEF MainStep, Submit, SampleRaises, Collect, CollectRaises, LeavePool, OpenTsv,
         FillTsv, WriteSummary, workers
    <2>2. \A t \in Threads : StageSteps(t)' = StageSteps(t)
      BY <2>1 DEF StageSteps
    <2>3. \A i \in Jobs : future'[i] \in {"none", "pending"} => future[i] \in {"none", "pending"}
      <3>1. CASE Submit
        BY <3>1 DEF Submit, NoneSubmitted
      <3>2. CASE CollectRaises
        BY <3>2 DEF CollectRaises, Cancelled
      <3>3. CASE ~Submit /\ ~CollectRaises
        BY <1>1, <3>3 DEF MainStep, SampleRaises, Collect, LeavePool, OpenTsv, FillTsv,
           WriteSummary, futures
      <3> QED
        BY <3>1, <3>2, <3>3
    <2> QED
      BY <2>1, <2>2, <2>3 DEF CallsLeft
  <1>2. CASE Kill
    BY <1>2, JobData DEF Kill, CallsLeft, futures
  <1> QED
    BY <1>1, <1>2

LEMMA NoneSubmittedStep ==
  ASSUME TypeOK, CleanInv, NoneSubmitted, [Next]_vars
  PROVE  NoneSubmitted'
  <1> USE DEF NoneSubmitted
  <1>1. ASSUME NEW t \in Threads, Work(t) PROVE NoneSubmitted'
    <2>1. main' = main
      BY <1>1 DEF Work, Take, WritePolicy, WriteStatic, WriteRequest, ReadPolicy, ReadRequest,
         CallRaises
    <2>2. main # "sampling"
      <3>1. job[t] # Idle \/ \E j \in Jobs : future[j] = "pending"
        BY <1>1 DEF TypeOK, Work, Take, WritePolicy, WriteStatic, WriteRequest, ReadPolicy,
           ReadRequest, CallRaises, Advance
      <3> QED
        BY <3>1 DEF CleanInv, AllIdle
    <2> QED
      BY <2>1, <2>2
  <1>2. CASE MainStep
    <2>1. main' # "sampling"
      BY <1>2 DEF MainStep, Submit, SampleRaises, Collect, CollectRaises, LeavePool, OpenTsv,
         FillTsv, WriteSummary
    <2> QED
      BY <2>1
  <1>3. CASE Kill \/ UNCHANGED vars
    BY <1>3 DEF Kill, vars
  <1> QED
    BY <1>1, <1>2, <1>3 DEF Next

\* The main thread's steps count down, and those of the others leave them be.
LEMMA MainShrinks ==
  ASSUME TypeOK, CleanInv, Next
  PROVE  /\ MainLeft \in 0 .. NJobs + 5
         /\ MainStep \/ Kill => MainLeft' < MainLeft /\ MainLeft' \in Int
         /\ ~(MainStep \/ Kill) => MainLeft' = MainLeft
  <1>1. NJobs \in Nat /\ Len(results) \in 0 .. NJobs
    BY JobData DEF TypeOK
  <1>2. MainLeft \in 0 .. NJobs + 5 /\ (main \notin Ended => MainLeft > 0)
    BY <1>1 DEF MainLeft, TypeOK
  <1>3. ASSUME Kill PROVE MainLeft' < MainLeft /\ MainLeft' \in Int
    BY <1>2, <1>3 DEF Kill, MainLeft
  <1>4. ASSUME Submit PROVE MainLeft' < MainLeft /\ MainLeft' \in Int
    <2>1. main = "sampling" /\ main' = "collecting" /\ results' = results /\ results = <<>>
      BY <1>4 DEF Submit, CleanInv
    <2> QED
      BY <1>1, <2>1 DEF MainLeft
  <1>5. ASSUME Collect PROVE MainLeft' < MainLeft /\ MainLeft' \in Int
    <2>1. /\ main = "collecting" /\ main' = "collecting"
          /\ Len(results') = Len(results) + 1 /\ Len(results) < NJobs
      BY <1>5 DEF Collect, TypeOK
    <2> QED
      BY <1>1, <2>1 DEF MainLeft
  <1>6. ASSUME CollectRaises \/ LeavePool
        PROVE  MainLeft' < MainLeft /\ MainLeft' \in Int
    <2>1. \/ main = "collecting" /\ main' \in {"unwinding", "write_tsv"}
          \/ main = "unwinding" /\ main' = "raised"
      BY <1>6 DEF CollectRaises, LeavePool
    <2>2. results' = results
      BY <1>6 DEF CollectRaises, LeavePool
    <2> QED
      BY <1>1, <2>1, <2>2 DEF MainLeft
  <1>7. ASSUME SampleRaises \/ OpenTsv \/ FillTsv \/ WriteSummary
        PROVE  MainLeft' < MainLeft /\ MainLeft' \in Int
    <2>1. \/ main = "sampling" /\ main' = "raised"
          \/ main = "write_tsv" /\ main' = "fill_tsv"
          \/ main = "fill_tsv" /\ main' = "write_summary"
          \/ main = "write_summary" /\ main' \in {"exit0", "exit1"}
      BY <1>7 DEF SampleRaises, OpenTsv, FillTsv, WriteSummary
    <2>2. results' = results
      BY <1>7 DEF SampleRaises, OpenTsv, FillTsv, WriteSummary
    <2> QED
      BY <1>1, <2>1, <2>2 DEF MainLeft
  <1>8. ASSUME NEW t \in Threads, Work(t) PROVE MainLeft' = MainLeft
    <2>1. UNCHANGED <<main, results>>
      BY <1>8 DEF Work, Take, WritePolicy, WriteStatic, WriteRequest, ReadPolicy, ReadRequest,
         CallRaises
    <2> QED
      BY <2>1 DEF MainLeft
  <1> QED
    BY <1>2, <1>3, <1>4, <1>5, <1>6, <1>7, <1>8 DEF Next, MainStep

\* Every step of the run, a worker's or the main thread's, is one of at most
\* 10 * NJobs + 5: no interleaving of calls, timeouts and exceptions keeps
\* run_cm_diff.py busy for ever.
THEOREM RunIsBounded == Spec => []Bounded /\ [][CountsDown]_vars
  <1>1. Init => CleanInv /\ NoneSubmitted
    BY DEF Init, CleanInv, StopsCleanly, Working, AllIdle, Ended, NoneSubmitted
  <1>2. TypeOK /\ CleanInv => Bounded
    <2> SUFFICES ASSUME TypeOK, CleanInv PROVE Bounded
      OBVIOUS
    <2>1. NJobs \in Nat /\ Len(results) \in 0 .. NJobs
      BY JobData DEF TypeOK
    <2>2. MainLeft \in 0 .. NJobs + 5
      BY <2>1 DEF MainLeft
    <2> QED
      BY <2>1, <2>2, CallsFinite DEF Bounded, StepsLeft
  <1>3. TypeOK /\ TypeOK' /\ CleanInv /\ NoneSubmitted /\ [Next]_vars
          => NoneSubmitted' /\ [CountsDown]_vars
    <2> SUFFICES ASSUME TypeOK, TypeOK', CleanInv, NoneSubmitted, Next PROVE CountsDown
      BY NoneSubmittedStep
    <2> DEFINE n == Cardinality(CallsLeft)
               m == Cardinality(CallsLeft)'
    <2>1. n \in Nat /\ IsFiniteSet(CallsLeft)
      BY CallsFinite, JobData
    <2>2. CallsLeft' \subseteq CallsLeft => m \in Nat /\ m <= n /\ (m = n => CallsLeft' = CallsLeft)
      <3> SUFFICES ASSUME CallsLeft' \subseteq CallsLeft
                   PROVE  m \in Nat /\ m <= n /\ (m = n => CallsLeft' = CallsLeft)
        OBVIOUS
      <3>1. /\ IsFiniteSet(CallsLeft') /\ Cardinality(CallsLeft') <= Cardinality(CallsLeft)
            /\ Cardinality(CallsLeft) = Cardinality(CallsLeft') => CallsLeft = CallsLeft'
        BY <2>1, FS_Subset
      <3>2. Cardinality(CallsLeft') \in Nat
        BY <3>1, FS_CardinalityType
      <3> QED
        BY <3>1, <3>2
    <2>3. CASE MainStep \/ Kill
      <3>1. MainLeft' < MainLeft /\ MainLeft \in Int /\ MainLeft' \in Int
        BY <2>3, MainShrinks, JobData
      <3>2. m \in Nat /\ m <= n
        BY <2>2, <2>3, CallsStay
      <3> HIDE DEF n, m
      <3>3. \A a, b, c, d \in Int : a < b /\ c <= d => a + c < b + d
        OBVIOUS
      <3>4. m \in Int /\ n \in Int
        BY <2>1, <3>2
      <3>5. MainLeft' + m < MainLeft + n
        BY <3>1, <3>2, <3>3, <3>4
      <3> QED
        BY <3>5 DEF CountsDown, StepsLeft, n, m
    <2>4. CASE ~(MainStep \/ Kill)
      <3>1. PICK t \in Threads : Work(t)
        BY <2>4 DEF Next
      <3>2. MainLeft' = MainLeft /\ MainLeft \in Int /\ MainLeft' \in Int
        BY <2>4, MainShrinks, JobData
      <3>3. m \in Nat /\ m < n
        BY <2>1, <2>2, <3>1, CallsShrink DEF CleanInv
      <3> HIDE DEF n, m
      <3>4. MainLeft' + m < MainLeft + n
        BY <2>1, <3>2, <3>3
      <3> QED
        BY <3>4 DEF CountsDown, StepsLeft, n, m
    <2> QED
      BY <2>3, <2>4
  <1> QED
    BY <1>1, <1>2, <1>3, TypeCorrect, CleanStep, PTL DEF Spec

-----------------------------------------------------------------------------
\* Nobody waits for nobody

\* Main does not wait, or what it waits for is there, or a worker is busy, or
\* there is a job and a worker to take it: the guards of MainStep and Work.
SomebodyCanMove ==
  \/ main \in {"sampling", "write_tsv", "fill_tsv", "write_summary"}
  \/ main = "collecting" /\ Len(results) < NJobs /\ future[Len(results)] \in {"done", "failed"}
  \/ main = "collecting" /\ Len(results) = NJobs /\ AllIdle
  \/ main = "unwinding" /\ AllIdle
  \/ \E t \in Threads : at[t] # "idle"
  \/ main # "killed" /\ (\E t \in Threads : job[t] = Idle) /\ \E j \in Jobs : future[j] = "pending"

\* A job is running in somebody's hands, and while main collects each has been
\* submitted and none is cancelled.
Carried ==
  /\ \A j \in Jobs : future[j] = "running" /\ main # "killed" => \E t \in Threads : job[t] = j
  /\ main = "collecting" => \A j \in Jobs : future[j] \notin {"none", "cancelled"}

LEMMA CarriedStep ==
  ASSUME TypeOK, Working, Carried, [Next]_vars
  PROVE  Carried'
  <1> USE DEF TypeOK, Carried
  <1>1. ASSUME NEW t \in Threads, Take(t) PROVE Carried'
    <2>1. PICK j \in Jobs : /\ future[j] = "pending" /\ job[t] = Idle
                            /\ job' = [job EXCEPT ![t] = j]
                            /\ future' = [future EXCEPT ![j] = "running"]
      BY <1>1 DEF Take
    <2>2. main' = main
      BY <1>1 DEF Take
    <2>3. ASSUME NEW i \in Jobs, future'[i] = "running", main # "killed"
          PROVE  \E u \in Threads : job'[u] = i
      BY <2>1, <2>3, JobData
    <2> QED
      BY <2>1, <2>2, <2>3
  <1>2. ASSUME NEW t \in Threads, ReadRequest(t) \/ CallRaises(t) PROVE Carried'
    <2>1. PICK end \in {"done", "failed"} :
            /\ job[t] \in Jobs /\ future' = [future EXCEPT ![job[t]] = end]
            /\ job' = [job EXCEPT ![t] = Idle] /\ main' = main
      BY <1>2 DEF ReadRequest, CallRaises, Advance
    <2>2. ASSUME NEW i \in Jobs, future'[i] = "running", main # "killed"
          PROVE  \E u \in Threads : job'[u] = i
      <3>1. i # job[t] /\ future[i] = "running"
        BY <2>1, <2>2
      <3>2. PICK u \in Threads : job[u] = i
        BY <2>2, <3>1
      <3> QED
        BY <2>1, <3>1, <3>2
    <2> QED
      BY <2>1, <2>2
  <1>3. ASSUME NEW t \in Threads,
               WritePolicy(t) \/ WriteStatic(t) \/ WriteRequest(t) \/ ReadPolicy(t)
        PROVE  Carried'
    <2>1. UNCHANGED <<main, job, future>>
      BY <1>3 DEF WritePolicy, WriteStatic, WriteRequest, ReadPolicy, futures
    <2> QED
      BY <2>1
  <1>4. CASE MainStep
    <2>1. job' = job /\ main' # "killed" /\ main # "killed"
      BY <1>4 DEF MainStep, Submit, SampleRaises, Collect, CollectRaises, LeavePool, OpenTsv,
         FillTsv, WriteSummary, workers
    <2>2. \A j \in Jobs : future'[j] = "running" => future[j] = "running"
      BY <1>4 DEF MainStep, Submit, SampleRaises, Collect, CollectRaises, LeavePool, OpenTsv,
         FillTsv, WriteSummary, futures, Cancelled
    <2>3. \/ main' # "collecting"
          \/ main = "collecting" /\ future' = future
          \/ future' = [j \in Jobs |-> "pending"]
      BY <1>4 DEF MainStep, Submit, SampleRaises, Collect, CollectRaises, LeavePool, OpenTsv,
         FillTsv, WriteSummary, futures
    <2> QED
      BY <2>1, <2>2, <2>3
  <1>5. CASE Kill \/ UNCHANGED vars
    BY <1>5 DEF Kill, vars
  <1> QED
    BY <1>1, <1>2, <1>3, <1>4, <1>5 DEF Next, Work

\* With a worker at all, the pool and the main thread never wait for each other
\* for ever: whatever has timed out, raised or been cancelled, until the run has
\* ended one of them has a step to take.
THEOREM NobodyWaitsForNobody ==
  ASSUME Threads # {}
  PROVE  Spec => [](main \notin Ended => SomebodyCanMove)
  <1>1. Init => CleanInv /\ Carried
    BY DEF Init, CleanInv, StopsCleanly, Working, AllIdle, Ended, Carried
  <1>2. TypeOK /\ CleanInv /\ Carried => (main \notin Ended => SomebodyCanMove)
    <2> SUFFICES ASSUME TypeOK, Carried, main \notin Ended, ~SomebodyCanMove PROVE FALSE
      OBVIOUS
    <2>1. \A t \in Threads : job[t] = Idle
      BY DEF TypeOK, SomebodyCanMove
    <2>2. main = "collecting" /\ Len(results) # NJobs
      BY <2>1 DEF TypeOK, SomebodyCanMove, AllIdle
    <2>3. Len(results) \in Jobs /\ Len(results) < NJobs
      BY <2>2, JobData DEF TypeOK, Jobs
    <2>4. future[Len(results)] \in {"pending", "running"}
      BY <2>2, <2>3 DEF TypeOK, Carried, SomebodyCanMove
    <2>5. future[Len(results)] # "pending"
      BY <2>1, <2>2, <2>3 DEF SomebodyCanMove
    <2>6. \E t \in Threads : job[t] = Len(results)
      BY <2>2, <2>3, <2>4, <2>5 DEF Carried
    <2> QED
      BY <2>1, <2>3, <2>6, JobData
  <1>3. TypeOK /\ CleanInv /\ Carried /\ [Next]_vars => Carried'
    BY CarriedStep DEF CleanInv
  <1> QED
    BY <1>1, <1>2, <1>3, TypeCorrect, CleanStep, PTL DEF Spec
=============================================================================
