--------------------------- MODULE DiffRunProofs ---------------------------
(***************************************************************************)
(* Theorems about the differential driver, for every number of runs, every *)
(* sample size and every pair of engines.                                  *)
(***************************************************************************)
EXTENDS DiffRun, TLAPS, FiniteSetTheorems

LEMMA PayloadOfType == \A i \in Nat : PayloadOf(i) \in Payload
  BY SupportAssumption, SMT DEF PayloadOf, Payload

\* What a run samples are indices some run may ask for.
LEMMA SampledIndices ==
  ASSUME TypeOK, NEW r \in Runs
  PROVE  /\ sampled[r] \subseteq Indices /\ sampled[r] \subseteq Nat
         /\ \A i \in sampled[r] : i < NTarget[r]
         /\ IsFiniteSet(sampled[r])
  <1>1. NTarget[r] \in Nat /\ NTarget[r] <= MaxTarget /\ MaxTarget \in Nat
    BY NTargetAssumption
  <1>2. sampled[r] \subseteq 0 .. NTarget[r] - 1
    BY DEF TypeOK
  <1>3. 0 \in Int /\ NTarget[r] - 1 \in Int
    BY <1>1
  <1>4. IsFiniteSet(0 .. NTarget[r] - 1)
    BY <1>3, FS_Interval
  <1>5. IsFiniteSet(sampled[r])
    BY <1>2, <1>4, FS_Subset
  <1> QED
    BY <1>1, <1>2, <1>5 DEF Indices

\* The lines of some of a run's tuples are well-typed and name, for each
\* index, the generator's tuple.
LEMMA LinesType ==
  ASSUME NEW S \in SUBSET Indices
  PROVE  /\ IsPartial(Lines(S), Indices, Payload)
         /\ DOMAIN Lines(S) = S
         /\ \A i \in S : Lines(S)[i] = PayloadOf(i)
  <1>1. \A i \in S : PayloadOf(i) \in Payload
    BY PayloadOfType, NTargetAssumption DEF Indices
  <1> QED
    BY <1>1 DEF Lines, IsPartial

\* Emitting well-formed events keeps the trace and the counter well-typed.
LEMMA EmitType ==
  ASSUME NEW r \in Runs, NEW evs \in Seq(Event), Emit(r, evs),
         trace \in [Runs -> SUBSET Row], seq \in [Runs -> Nat]
  PROVE  /\ trace' \in [Runs -> SUBSET Row]
         /\ seq' \in [Runs -> Nat]
  <1>1. CASE ~HasSink[r]
    BY <1>1 DEF Emit
  <1>2. CASE HasSink[r]
    <2>1. PICK lost \in SUBSET (1 .. Len(evs)) :
            /\ trace' = [trace EXCEPT ![r] = @ \cup
                  {[n |-> seq[r] + i, ev |-> evs[i]] : i \in (1 .. Len(evs)) \ lost}]
            /\ seq' = [seq EXCEPT ![r] = @ + Len(evs)]
      BY <1>2 DEF Emit
    <2>2. \A i \in 1 .. Len(evs) : [n |-> seq[r] + i, ev |-> evs[i]] \in Row
      BY DEF Row
    <2>3. {[n |-> seq[r] + i, ev |-> evs[i]] : i \in (1 .. Len(evs)) \ lost} \subseteq Row
      BY <2>2
    <2> QED
      BY <2>1, <2>3
  <1> QED
    BY <1>1, <1>2

LEMMA EventTypes ==
  /\ RunStart \in Event
  /\ \A p \in Phases : /\ PhaseStart(p) \in Event
                       /\ PhaseError(p) \in Event
                       /\ PhaseDone(p) \in Event
  /\ \A s \in {"succeeded", "failed"} : RunComplete(s) \in Event
  /\ \A i \in Nat, d \in BOOLEAN : TupleEvent(i, d) \in Event
  BY DEF Event, RunStart, PhaseStart, PhaseError, PhaseDone, RunComplete, TupleEvent

\* Type correctness of the driver: verdicts stay verdicts of the right engine,
\* indices stay within what some run asked for, trace rows are well-formed.
THEOREM TypeCorrect == Spec => []TypeOK
  <1>1. Init => TypeOK
    <2> SUFFICES ASSUME Init PROVE TypeOK
      OBVIOUS
    <2>1. \A S, T : IsPartial(<<>>, S, T)
      BY DEF IsPartial
    <2>2. NoReport \in [goValid : Nat, compared : SUBSET Nat,
                        agreements : SUBSET Nat, disagreements : SUBSET Nat]
      BY DEF NoReport
    <2>3. \A r \in Runs : 0 <= NTarget[r]
      BY NTargetAssumption
    <2>4. rustSem \in [Payload -> RustOutcome] /\ goSem \in [Payload -> GoOutcome]
      BY AnswersAssumption DEF Init
    <2> QED
      BY <2>1, <2>2, <2>3, <2>4 DEF Init, TypeOK, Stage, engines
  <1>2. TypeOK /\ [Next]_vars => TypeOK'
    <2> SUFFICES ASSUME TypeOK, [Next]_vars PROVE TypeOK'
      OBVIOUS
    <2> USE DEF TypeOK, Goto, checkout, verdicts, engines, summary, Stage, Ended
    <2>1. ASSUME NEW r \in Runs, Start(r) PROVE TypeOK'
      <3>1. <<RunStart, PhaseStart("fixtures")>> \in Seq(Event)
        BY EventTypes DEF Phases
      <3> QED
        BY <2>1, <3>1, EmitType DEF Start
    <2>2. ASSUME NEW r \in Runs, TruncateFixtures(r) PROVE TypeOK'
      BY <2>2 DEF TruncateFixtures
    <2>3. ASSUME NEW r \in Runs, WriteFixtures(r) PROVE TypeOK'
      <3>1. <<PhaseDone("fixtures"), PhaseStart("sample_tuples")>> \in Seq(Event)
        BY EventTypes DEF Phases
      <3> QED
        BY <2>3, <3>1, EmitType DEF WriteFixtures
    <2>4. ASSUME NEW r \in Runs, FixturesRaise(r) PROVE TypeOK'
      <3>1. <<PhaseError("fixtures")>> \in Seq(Event)
        BY EventTypes DEF Phases
      <3> QED
        BY <2>4, <3>1, EmitType DEF FixturesRaise
    <2>5. ASSUME NEW r \in Runs, SampleTuples(r) PROVE TypeOK'
      <3>1. <<PhaseDone("sample_tuples"), PhaseStart("build_go_harness")>> \in Seq(Event)
        BY EventTypes DEF Phases
      <3>2. PICK parsed \in SUBSET (0 .. NTarget[r] - 1) :
              sampled' = [sampled EXCEPT ![r] = parsed]
        BY <2>5 DEF SampleTuples
      <3>3. trace' \in [Runs -> SUBSET Row] /\ seq' \in [Runs -> Nat]
        BY <2>5, <3>1, EmitType DEF SampleTuples
      <3>4. /\ sampled' \in [Runs -> SUBSET Nat]
            /\ \A q \in Runs : sampled'[q] \subseteq 0 .. NTarget[q] - 1
        <4>1. parsed \in SUBSET Nat
          BY NTargetAssumption
        <4>2. sampled \in [Runs -> SUBSET Nat]
          OBVIOUS
        <4> QED
          BY <3>2, <4>1, <4>2
      <3> QED
        BY <2>5, <3>3, <3>4 DEF SampleTuples
    <2>6. ASSUME NEW r \in Runs, NoTuples(r) PROVE TypeOK'
      <3>1. <<PhaseError("sample_tuples")>> \in Seq(Event)
        BY EventTypes DEF Phases
      <3> QED
        BY <2>6, <3>1, EmitType DEF NoTuples
    <2>7. ASSUME NEW r \in Runs, SampleRaise(r) PROVE TypeOK'
      <3>1. <<PhaseError("sample_tuples")>> \in Seq(Event)
        BY EventTypes DEF Phases
      <3> QED
        BY <2>7, <3>1, EmitType DEF SampleRaise
    <2>8. ASSUME NEW r \in Runs, BuildGoHarness(r) PROVE TypeOK'
      <3>1. <<PhaseDone("build_go_harness"), PhaseStart("go_batch")>> \in Seq(Event)
        BY EventTypes DEF Phases
      <3> QED
        BY <2>8, <3>1, EmitType DEF BuildGoHarness
    <2>9. ASSUME NEW r \in Runs, BuildFails(r) PROVE TypeOK'
      <3>1. <<PhaseError("build_go_harness")>> \in Seq(Event)
        BY EventTypes DEF Phases
      <3> QED
        BY <2>9, <3>1, EmitType DEF BuildFails
    <2>10. ASSUME NEW r \in Runs, RaiseUncaught(r) PROVE TypeOK'
      BY <2>10 DEF RaiseUncaught
    <2>26. ASSUME NEW r \in Runs, CloseFailed(r) PROVE TypeOK'
      <3>1. <<RunComplete("failed")>> \in Seq(Event)
        BY EventTypes
      <3> QED
        BY <2>26, <3>1, EmitType DEF CloseFailed
    <2>27. ASSUME NEW r \in Runs, ExitFailed(r) PROVE TypeOK'
      BY <2>27 DEF ExitFailed
    <2>11. ASSUME NEW r \in Runs, WriteGoInput(r) PROVE TypeOK'
      <3>1. PICK k \in sampled[r] : goInput' = Lines(UpTo(sampled[r], k))
        BY <2>11 DEF WriteGoInput
      <3>2. UpTo(sampled[r], k) \subseteq Indices
        BY SampledIndices DEF UpTo
      <3>3. IsPartial(goInput', Indices, Payload)
        BY <3>1, <3>2, LinesType
      <3> QED
        BY <2>11, <3>3 DEF WriteGoInput
    <2>12. ASSUME NEW r \in Runs, FlushGoInput(r) PROVE TypeOK'
      BY <2>12, SampledIndices, LinesType DEF FlushGoInput
    <2>13. ASSUME NEW r \in Runs, RunGoBatch(r) PROVE TypeOK'
      <3>1. PICK k \in 0 .. MaxTarget, says \in GoVerdicts :
              goDec' = [goDec EXCEPT ![r] =
                  [i \in UpTo(DOMAIN goInput, k) |-> says[goInput[i]]]]
        BY <2>13 DEF RunGoBatch
      <3>2. says \in [Payload -> GoOutcome]
        BY DEF GoVerdicts
      <3>3. IsPartial([i \in UpTo(DOMAIN goInput, k) |-> says[goInput[i]]],
                      Indices, GoOutcome)
        BY <3>2 DEF IsPartial, UpTo
      <3>4. IsPartial([i \in sampled[r] |-> "skipped"], Indices, Verdict)
        <4>2. sampled[r] \subseteq Indices
          BY SampledIndices
        <4> QED
          BY <4>2 DEF IsPartial, Verdict
      <3>5. /\ <<PhaseDone("go_batch")>> \in Seq(Event)
            /\ <<PhaseDone("go_batch"), PhaseStart("rust_per_tuple")>> \in Seq(Event)
        BY EventTypes DEF Phases
      <3>6. trace' \in [Runs -> SUBSET Row] /\ seq' \in [Runs -> Nat]
        BY <2>13, <3>5, EmitType DEF RunGoBatch
      <3>7. \A q \in Runs : IsPartial(goDec'[q], Indices, GoOutcome)
        BY <3>1, <3>3
      <3>8. /\ DOMAIN rustDec' = Runs
            /\ \A q \in Runs : IsPartial(rustDec'[q], Indices, Verdict)
        BY <2>13, <3>4 DEF RunGoBatch
      <3>9. pc' \in [Runs -> Stage] /\ tornRead' \in [Runs -> BOOLEAN]
        BY <2>13 DEF RunGoBatch
      <3> QED
        BY <2>13, <3>1, <3>6, <3>7, <3>8, <3>9 DEF RunGoBatch
    <2>14. ASSUME NEW r \in Runs, WriteRustInput(r) PROVE TypeOK'
      <3>1. PICK k \in sampled[r] : rustInput' = Lines(UpTo(sampled[r], k))
        BY <2>14 DEF WriteRustInput
      <3>2. UpTo(sampled[r], k) \subseteq Indices
        BY SampledIndices DEF UpTo
      <3>3. IsPartial(rustInput', Indices, Payload)
        BY <3>1, <3>2, LinesType
      <3> QED
        BY <2>14, <3>3 DEF WriteRustInput
    <2>15. ASSUME NEW r \in Runs, FlushRustInput(r) PROVE TypeOK'
      BY <2>15, SampledIndices, LinesType DEF FlushRustInput
    <2>16. ASSUME NEW r \in Runs, RunRustBatch(r) PROVE TypeOK'
      <3>1. PICK k \in 0 .. MaxTarget :
              rustDec' = [rustDec EXCEPT ![r] =
                [i \in UpTo(DOMAIN rustInput, k) |-> RustVerdict(rustInput[i])]]
        BY <2>16 DEF RunRustBatch
      <3>2. IsPartial([i \in UpTo(DOMAIN rustInput, k) |-> RustVerdict(rustInput[i])],
                      Indices, Verdict)
        BY DEF IsPartial, RustVerdict, RustDecision, Verdict, UpTo
      <3>3. <<PhaseDone("rust_per_tuple")>> \in Seq(Event)
        BY EventTypes DEF Phases
      <3>4. trace' \in [Runs -> SUBSET Row] /\ seq' \in [Runs -> Nat]
        BY <2>16, <3>3, EmitType DEF RunRustBatch
      <3>5. \A q \in Runs : IsPartial(rustDec'[q], Indices, Verdict)
        BY <3>1, <3>2
      <3> QED
        BY <2>16, <3>1, <3>4, <3>5 DEF RunRustBatch
    <2>17. ASSUME NEW r \in Runs, Summarise(r) PROVE TypeOK'
      <3>1. Compared(r) \subseteq Nat
        BY SampledIndices DEF Compared
      <3>2. IsFiniteSet(Indices)
        <4>1. 0 \in Int /\ MaxTarget - 1 \in Int
          BY NTargetAssumption
        <4> QED
          BY <4>1, FS_Interval DEF Indices
      <3>3. {i \in DOMAIN goDec[r] : goDec[r][i] # "ERROR"} \subseteq Indices
        BY DEF IsPartial
      <3>4. Cardinality({i \in DOMAIN goDec[r] : goDec[r][i] # "ERROR"}) \in Nat
        BY <3>2, <3>3, FS_Subset, FS_CardinalityType
      <3>5. report' \in [Runs -> [goValid : Nat, compared : SUBSET Nat,
                                  agreements : SUBSET Nat, disagreements : SUBSET Nat]]
        BY <2>17, <3>1, <3>4 DEF Summarise
      <3> QED
        BY <2>17, <3>5 DEF Summarise
    <2>18. ASSUME NEW r \in Runs, EmitTuple(r) PROVE TypeOK'
      <3>1. ASSUME Emitted(r, cursor[r])
            PROVE  <<TupleEvent(cursor[r], DiffFound(r, cursor[r]))>> \in Seq(Event)
        <4>1. DiffFound(r, cursor[r]) \in BOOLEAN
          BY DEF DiffFound
        <4>2. cursor[r] \in Nat
          OBVIOUS
        <4>3. TupleEvent(cursor[r], DiffFound(r, cursor[r])) \in Event
          BY <4>1, <4>2, EventTypes
        <4> QED
          BY <4>3
      <3>2. trace' \in [Runs -> SUBSET Row] /\ seq' \in [Runs -> Nat]
        <4>1. CASE Emitted(r, cursor[r])
          <5>1. Emit(r, <<TupleEvent(cursor[r], DiffFound(r, cursor[r]))>>)
            BY <2>18, <4>1 DEF EmitTuple
          <5> QED
            BY <3>1, <4>1, <5>1, EmitType
        <4>2. CASE ~Emitted(r, cursor[r])
          BY <2>18, <4>2 DEF EmitTuple
        <4> QED
          BY <4>1, <4>2
      <3>3. /\ cursor' = [cursor EXCEPT ![r] = @ + 1]
            /\ UNCHANGED <<pc, report, verdicts, checkout, engines>>
        BY <2>18, Zenon DEF EmitTuple
      <3> QED
        BY <3>2, <3>3
    <2>19. ASSUME NEW r \in Runs, EmitTuplesDone(r) PROVE TypeOK'
      BY <2>19 DEF EmitTuplesDone
    <2>20. ASSUME NEW r \in Runs, Complete(r) PROVE TypeOK'
      <3>1. <<RunComplete("succeeded")>> \in Seq(Event)
        BY EventTypes
      <3> QED
        BY <2>20, <3>1, EmitType DEF Complete
    <2>21. ASSUME NEW r \in Runs, WriteCorpus(r) PROVE TypeOK'
      <3>1. report[r].disagreements \in SUBSET Nat
        OBVIOUS
      <3>2. corpus' = TornCorpus \/ corpus' \in [run : Runs, tuples : SUBSET Nat]
        BY <2>21, <3>1 DEF WriteCorpus
      <3> QED
        BY <2>21, <3>2 DEF WriteCorpus
    <2>22. ASSUME NEW r \in Runs, Kill(r) PROVE TypeOK'
      BY <2>22 DEF Kill
    <2>23. ASSUME NEW r \in Runs, NoCorpus(r) PROVE TypeOK'
      BY <2>23 DEF NoCorpus
    <2>24. ASSUME NEW r \in Runs, TruncateCorpus(r) PROVE TypeOK'
      BY <2>24 DEF TruncateCorpus
    <2>25. CASE UNCHANGED vars
      BY <2>25 DEF vars
    <2> QED
      BY <2>1, <2>2, <2>3, <2>4, <2>5, <2>6, <2>7, <2>8, <2>9, <2>10, <2>11, <2>12,
         <2>13, <2>14, <2>15, <2>16, <2>17, <2>18, <2>19, <2>20, <2>21, <2>22, <2>23,
         <2>24, <2>25, <2>26, <2>27
         DEF Next, Step
  <1> QED
    BY <1>1, <1>2, PTL DEF Spec

-----------------------------------------------------------------------------
\* Faithful verdicts and real disagreements

Late == {"tuple_events", "run_complete", "corpus", "corpus_torn", "exit0"}
RustStages == {"rust_write", "rust_flush", "rust_per_tuple"}

\* No run enters the Rust batch or the late stages in this step.
NoneEnters == \A q \in Runs : /\ pc'[q] \in Late => pc[q] \in Late
                              /\ pc'[q] \in RustStages => pc[q] \in RustStages

\* A step that leaves verdicts, reports and input files alone and takes no run
\* into the late stages preserves the invariant.
LEMMA QuietStep ==
  ASSUME FaithfulInv,
         UNCHANGED <<sampled, goDec, rustDec, tornRead, report, goInput, rustInput,
                     rustSem, goSem>>,
         NoneEnters
  PROVE  FaithfulInv'
  BY DEF FaithfulInv, InputsFaithful, VerdictsFaithful, SkippedTogether,
         DisagreementsReal, Differ, RustFailsOnAllow, Summarised, NoneEnters, Late,
         RustStages

\* Replacing an input file by a prefix of the generator's lines is harmless.
LEMMA InputStep ==
  ASSUME FaithfulInv, TypeOK, NEW r \in Runs,
         UNCHANGED <<sampled, goDec, rustDec, tornRead, report, rustSem, goSem>>,
         NoneEnters,
         goInput' = goInput \/ \E S : goInput' = Lines(S),
         rustInput' = rustInput \/ \E S : rustInput' = Lines(S)
  PROVE  FaithfulInv'
  <1>1. InputsFaithful'
    BY DEF FaithfulInv, InputsFaithful, Lines
  <1>2. (VerdictsFaithful /\ SkippedTogether /\ DisagreementsReal)'
    BY DEF FaithfulInv, VerdictsFaithful, SkippedTogether,
           DisagreementsReal, Differ, RustFailsOnAllow, Summarised, NoneEnters, Late,
           RustStages
  <1> QED
    BY <1>1, <1>2 DEF FaithfulInv

LEMMA FaithfulStep == TypeOK /\ FaithfulInv /\ [Next]_vars => FaithfulInv'
  <1> SUFFICES ASSUME TypeOK, FaithfulInv, [Next]_vars PROVE FaithfulInv'
    OBVIOUS
  <1> USE DEF checkout, verdicts, engines, summary
  <1> DEFINE Quiet == /\ UNCHANGED <<sampled, goDec, rustDec, tornRead, report, goInput,
                                     rustInput, rustSem, goSem>>
                      /\ NoneEnters
  <1>0. pc \in [Runs -> Stage]
    BY DEF TypeOK
  <1>1. ASSUME NEW r \in Runs,
               \/ Start(r) \/ TruncateFixtures(r) \/ WriteFixtures(r) \/ FixturesRaise(r)
               \/ NoTuples(r) \/ SampleRaise(r) \/ BuildGoHarness(r) \/ BuildFails(r)
               \/ CloseFailed(r) \/ ExitFailed(r)
               \/ RaiseUncaught(r) \/ EmitTuple(r) \/ EmitTuplesDone(r) \/ Complete(r)
               \/ NoCorpus(r) \/ TruncateCorpus(r) \/ WriteCorpus(r) \/ Kill(r)
        PROVE  FaithfulInv'
    <2>1. Quiet
      BY <1>0, <1>1 DEF Start, TruncateFixtures, WriteFixtures, FixturesRaise, NoTuples,
           SampleRaise, BuildGoHarness, BuildFails, CloseFailed, ExitFailed,
           RaiseUncaught, EmitTuple,
           EmitTuplesDone, Complete, NoCorpus, TruncateCorpus, WriteCorpus, Kill, Goto,
           NoneEnters, Late, RustStages,
           Ended
    <2> QED
      BY <2>1, QuietStep
  <1>2. ASSUME NEW r \in Runs, SampleTuples(r) PROVE FaithfulInv'
    <2>1. /\ pc[r] \notin Late /\ pc'[r] \notin Late \cup RustStages
          /\ \A q \in Runs \ {r} : pc'[q] = pc[q] /\ sampled'[q] = sampled[q]
          /\ UNCHANGED <<goDec, rustDec, tornRead, report, goInput, rustInput, rustSem, goSem>>
      BY <1>0, <1>2 DEF SampleTuples, Goto, Late, RustStages, TypeOK
    <2>2. (InputsFaithful /\ VerdictsFaithful /\ SkippedTogether)'
      BY <2>1 DEF FaithfulInv, InputsFaithful, VerdictsFaithful, SkippedTogether, RustStages
    <2>3. DisagreementsReal'
      BY <2>1 DEF FaithfulInv, DisagreementsReal, Differ, RustFailsOnAllow, Summarised, Late
    <2> QED
      BY <2>2, <2>3 DEF FaithfulInv
  <1>3. ASSUME NEW r \in Runs,
               WriteGoInput(r) \/ FlushGoInput(r) \/ WriteRustInput(r) \/ FlushRustInput(r)
        PROVE  FaithfulInv'
    <2>2. /\ goInput' = goInput \/ \E S : goInput' = Lines(S)
          /\ rustInput' = rustInput \/ \E S : rustInput' = Lines(S)
      BY <1>3 DEF WriteGoInput, FlushGoInput, WriteRustInput, FlushRustInput
    <2>3. /\ UNCHANGED <<sampled, goDec, rustDec, tornRead, report, rustSem, goSem>>
          /\ NoneEnters
      BY <1>0, <1>3 DEF WriteGoInput, FlushGoInput, WriteRustInput, FlushRustInput, Goto,
           NoneEnters, Late, RustStages
    <2> QED
      BY <2>2, <2>3, InputStep
  <1>4. ASSUME NEW r \in Runs, RunGoBatch(r) PROVE FaithfulInv'
    <2>1. PICK k \in 0 .. MaxTarget, says \in GoVerdicts :
            goDec' = [goDec EXCEPT ![r] =
                [i \in UpTo(DOMAIN goInput, k) |-> says[goInput[i]]]]
      BY <1>4 DEF RunGoBatch
    <2>2. /\ pc[r] \notin Late /\ pc'[r] \notin Late
          /\ \A q \in Runs \ {r} : /\ pc'[q] = pc[q] /\ rustDec'[q] = rustDec[q]
                                   /\ goDec'[q] = goDec[q] /\ tornRead'[q] = tornRead[q]
          /\ tornRead'[r] = (tornRead[r] \/ fixtures # "written")
          /\ UNCHANGED <<sampled, report, goInput, rustInput, rustSem, goSem>>
      BY <1>0, <1>4 DEF RunGoBatch, Goto, Late, TypeOK
    <2>3. \/ /\ SkipRust[r] /\ pc'[r] \notin RustStages
             /\ rustDec'[r] = [i \in sampled[r] |-> "skipped"]
          \/ ~SkipRust[r] /\ rustDec'[r] = rustDec[r]
      BY <1>0, <1>4 DEF RunGoBatch, TypeOK, Goto, RustStages
    <2>4. goDec'[r] = [i \in UpTo(DOMAIN goInput, k) |-> says[goInput[i]]]
      BY <2>1 DEF TypeOK
    <2>5. ~tornRead'[r] => says = goSem
      BY <2>2 DEF GoVerdicts
    <2>6. ~tornRead'[r] => \A i \in DOMAIN goDec'[r] : goDec'[r][i] = goSem[PayloadOf(i)]
      BY <2>4, <2>5 DEF FaithfulInv, InputsFaithful, UpTo
    <2>7. VerdictsFaithful'
      <3>1. ASSUME ~tornRead'[r], NEW i \in DOMAIN rustDec'[r]
            PROVE  rustDec'[r][i] \in {"skipped", RustDecision(rustSem[PayloadOf(i)])}
        <4>1. CASE SkipRust[r]
          BY <2>3, <3>1, <4>1
        <4>2. CASE ~SkipRust[r]
          <5>1. rustDec'[r] = rustDec[r] /\ rustSem' = rustSem
            BY <2>2, <2>3, <4>2
          <5>2. ~tornRead[r]
            BY <2>2, <3>1
          <5> QED
            BY <3>1, <5>1, <5>2 DEF FaithfulInv, VerdictsFaithful
        <4> QED
          BY <4>1, <4>2
      <3> QED
        BY <2>2, <2>6, <3>1 DEF FaithfulInv, VerdictsFaithful
    <2>8. (InputsFaithful /\ SkippedTogether)'
      BY <2>2, <2>3 DEF FaithfulInv, InputsFaithful, SkippedTogether, RustStages
    <2>9. DisagreementsReal'
      BY <2>2 DEF FaithfulInv, DisagreementsReal, Differ, RustFailsOnAllow, Summarised, Late
    <2> QED
      BY <2>7, <2>8, <2>9 DEF FaithfulInv
  <1>5. ASSUME NEW r \in Runs, RunRustBatch(r) PROVE FaithfulInv'
    <2>1. PICK k \in 0 .. MaxTarget :
            rustDec' = [rustDec EXCEPT ![r] =
              [i \in UpTo(DOMAIN rustInput, k) |-> RustVerdict(rustInput[i])]]
      BY <1>5 DEF RunRustBatch
    <2>2. /\ pc[r] = "rust_per_tuple" /\ pc'[r] = "summary"
          /\ \A q \in Runs \ {r} : /\ pc'[q] = pc[q] /\ rustDec'[q] = rustDec[q]
                                   /\ tornRead'[q] = tornRead[q]
          /\ tornRead'[r] = (tornRead[r] \/ fixtures # "written")
          /\ UNCHANGED <<sampled, goDec, report, goInput, rustInput, rustSem, goSem>>
      BY <1>0, <1>5 DEF RunRustBatch, Goto, TypeOK
    <2>3. rustDec'[r] = [i \in UpTo(DOMAIN rustInput, k) |-> RustVerdict(rustInput[i])]
      BY <2>1 DEF TypeOK
    <2>4. ~SkipRust[r]
      BY <2>2 DEF FaithfulInv, SkippedTogether
    <2>5. \A i \in DOMAIN rustDec'[r] : rustDec'[r][i] # "skipped"
      BY <2>3 DEF RustVerdict, RustDecision
    <2>6. ~tornRead'[r] => \A i \in DOMAIN rustDec'[r] :
              rustDec'[r][i] = RustDecision(rustSem[PayloadOf(i)])
      BY <2>2, <2>3 DEF RustVerdict, FaithfulInv, InputsFaithful, UpTo
    <2>7. VerdictsFaithful'
      BY <2>2, <2>6 DEF FaithfulInv, VerdictsFaithful
    <2>8. (InputsFaithful /\ SkippedTogether)'
      BY <2>2, <2>4, <2>5 DEF FaithfulInv, InputsFaithful, SkippedTogether
    <2>9. DisagreementsReal'
      BY <2>2 DEF FaithfulInv, DisagreementsReal, Differ, RustFailsOnAllow, Summarised
    <2> QED
      BY <2>7, <2>8, <2>9 DEF FaithfulInv
  <1>6. ASSUME NEW r \in Runs, Summarise(r) PROVE FaithfulInv'
    <2>1. /\ pc[r] = "summary" /\ pc'[r] \in {"tuple_events", "run_complete"}
          /\ \A q \in Runs \ {r} : pc'[q] = pc[q] /\ report'[q] = report[q]
          /\ report'[r].disagreements = {i \in Compared(r) : rustDec[r][i] # goDec[r][i]}
          /\ UNCHANGED <<sampled, goDec, rustDec, tornRead, goInput, rustInput, rustSem, goSem>>
      BY <1>0, <1>6 DEF Summarise, Goto, TypeOK
    <2>2. (InputsFaithful /\ VerdictsFaithful /\ SkippedTogether)'
      BY <2>1 DEF FaithfulInv, InputsFaithful, VerdictsFaithful, SkippedTogether
    <2>3. ASSUME ~tornRead[r]
          PROVE  {i \in Compared(r) : rustDec[r][i] # goDec[r][i]} =
                   {i \in sampled[r] \cap DOMAIN goDec[r] \cap DOMAIN rustDec[r] :
                        ~SkipRust[r] /\ (Differ(i) \/ RustFailsOnAllow(i))}
      <3>1. ASSUME NEW i \in sampled[r], i \in DOMAIN goDec[r], i \in DOMAIN rustDec[r]
            PROVE  i \in Compared(r) /\ rustDec[r][i] # goDec[r][i]
                      <=> ~SkipRust[r] /\ (Differ(i) \/ RustFailsOnAllow(i))
        <4>1. goDec[r][i] = goSem[PayloadOf(i)] /\ goDec[r][i] \in GoOutcome
          BY <2>3, <3>1 DEF FaithfulInv, VerdictsFaithful, TypeOK, IsPartial
        <4>2. CASE SkipRust[r]
          <5>1. rustDec[r][i] = "skipped"
            BY <3>1, <4>2 DEF FaithfulInv, SkippedTogether
          <5> QED
            BY <4>2, <5>1, <3>1 DEF Compared, IsDecision, Get
        <4>3. CASE ~SkipRust[r]
          <5>1. rustDec[r][i] = RustDecision(rustSem[PayloadOf(i)])
            BY <2>3, <3>1, <4>3 DEF FaithfulInv, VerdictsFaithful, SkippedTogether
          <5>2. rustDec[r][i] \in {"Allow", "Deny"}
            BY <5>1 DEF RustDecision
          <5>3. rustSem[PayloadOf(i)] \in RustOutcome
            <6>1. PayloadOf(i) \in Payload
              BY <3>1, SampledIndices, PayloadOfType
            <6> QED
              BY <6>1 DEF TypeOK
          <5>4. i \in Compared(r) /\ rustDec[r][i] # goDec[r][i] <=>
                  goDec[r][i] \in {"Allow", "Deny"} /\ rustDec[r][i] # goDec[r][i]
            BY <3>1, <4>1, <5>2 DEF Compared, IsDecision, Get, GoOutcome
          <5>5. Differ(i) \/ RustFailsOnAllow(i) <=>
                  goDec[r][i] \in {"Allow", "Deny"} /\ rustDec[r][i] # goDec[r][i]
            BY <4>1, <5>1, <5>3 DEF Differ, RustFailsOnAllow, RustDecision, RustOutcome
          <5> QED
            BY <4>3, <5>4, <5>5
        <4> QED
          BY <4>2, <4>3
      <3>2. Compared(r) \subseteq sampled[r] \cap DOMAIN goDec[r] \cap DOMAIN rustDec[r]
        BY DEF Compared, Get, IsDecision
      <3> QED
        BY <3>1, <3>2
    <2>4. DisagreementsReal'
      BY <2>1, <2>3 DEF FaithfulInv, DisagreementsReal, Differ, RustFailsOnAllow, Summarised
    <2> QED
      BY <2>2, <2>4 DEF FaithfulInv
  <1>7. CASE UNCHANGED vars
    <2>1. Quiet
      BY <1>7 DEF vars, NoneEnters
    <2> QED
      BY <2>1, QuietStep
  <1> QED
    BY <1>1, <1>2, <1>3, <1>4, <1>5, <1>6, <1>7 DEF Next, Step

LEMMA FaithfulInit == Init => FaithfulInv
  <1> SUFFICES ASSUME Init PROVE FaithfulInv
    OBVIOUS
  <1>1. \A r \in Runs : pc[r] = "idle"
    BY DEF Init
  <1>2. \A r \in Runs : goDec[r] = <<>> /\ rustDec[r] = <<>>
    BY DEF Init
  <1>3. goInput = <<>> /\ rustInput = <<>>
    BY DEF Init
  <1> QED
    BY <1>1, <1>2, <1>3 DEF FaithfulInv, InputsFaithful, VerdictsFaithful,
       SkippedTogether, DisagreementsReal, Summarised

LEMMA FaithfulAlways == Spec => []FaithfulInv
  BY FaithfulInit, FaithfulStep, TypeCorrect, PTL DEF Spec

\* However many runs share the checkout, and whatever they do to each other's
\* input files, a recorded verdict is the engine's verdict on the tuple of its
\* index (torn fixtures apart).
THEOREM VerdictsAreFaithful == Spec => []VerdictsFaithful
  BY FaithfulAlways, PTL DEF FaithfulInv

\* The disagreements of a summary are exactly the answered tuples that both
\* engines decide and decide differently, and those that cedar-go allows and
\* the Rust CLI cannot decide; no other engine error is called one.
THEOREM DisagreementsAreReal == Spec => []DisagreementsReal
  BY FaithfulAlways, PTL DEF FaithfulInv

-----------------------------------------------------------------------------
\* Runs that have measured nothing

Unmeasured == {"idle", "fixtures", "fixtures_torn", "sample_tuples", "build_go_harness",
               "go_write", "go_flush", "go_batch", "failing", "failed_closed", "exit1"}

NothingYet ==
  \A r \in Runs : pc[r] \in Unmeasured =>
      goDec[r] = <<>> /\ rustDec[r] = <<>> /\ report[r] = NoReport

LEMMA NothingYetStep == TypeOK /\ NothingYet /\ [Next]_vars => NothingYet'
  <1> SUFFICES ASSUME TypeOK, NothingYet, [Next]_vars PROVE NothingYet'
    OBVIOUS
  <1> USE DEF checkout, verdicts, engines, summary, Goto
  <1>0. /\ pc \in [Runs -> Stage] /\ DOMAIN goDec = Runs /\ DOMAIN rustDec = Runs
        /\ DOMAIN report = Runs
    BY DEF TypeOK
  <1>1. ASSUME NEW r \in Runs, RunGoBatch(r) \/ RunRustBatch(r) \/ Summarise(r)
        PROVE  NothingYet'
    <2>1. /\ pc'[r] \notin Unmeasured
          /\ \A q \in Runs \ {r} : /\ pc'[q] = pc[q] /\ goDec'[q] = goDec[q]
                                   /\ rustDec'[q] = rustDec[q] /\ report'[q] = report[q]
      BY <1>0, <1>1 DEF RunGoBatch, RunRustBatch, Summarise, Unmeasured
    <2> QED
      BY <2>1 DEF NothingYet
  <1>2. ASSUME NEW r \in Runs, Start(r) \/ Step(r) \/ Kill(r),
               ~RunGoBatch(r), ~RunRustBatch(r), ~Summarise(r), ~EmitTuple(r)
        PROVE  NothingYet'
    <2>1. UNCHANGED <<goDec, rustDec, report>>
      BY <1>2 DEF Step, Start, TruncateFixtures, WriteFixtures, FixturesRaise, SampleTuples,
         NoTuples, SampleRaise, BuildGoHarness, BuildFails, CloseFailed, ExitFailed,
         RaiseUncaught, WriteGoInput, FlushGoInput, WriteRustInput, FlushRustInput,
         EmitTuplesDone, Complete, NoCorpus, TruncateCorpus, WriteCorpus, Kill
    <2>2. /\ pc'[r] \in Unmeasured => pc[r] \in Unmeasured
          /\ \A q \in Runs \ {r} : pc'[q] = pc[q]
      BY <1>0, <1>2 DEF Step, Start, TruncateFixtures, WriteFixtures, FixturesRaise,
         SampleTuples, NoTuples, SampleRaise, BuildGoHarness, BuildFails, CloseFailed,
         ExitFailed, RaiseUncaught, WriteGoInput, FlushGoInput, WriteRustInput,
         FlushRustInput, EmitTuplesDone, Complete, NoCorpus, TruncateCorpus, WriteCorpus,
         Kill, Unmeasured
    <2> QED
      BY <2>1, <2>2 DEF NothingYet
  <1>3. ASSUME NEW r \in Runs, EmitTuple(r) PROVE NothingYet'
    <2>1. UNCHANGED <<pc, goDec, rustDec, report>>
      BY <1>3, Zenon DEF EmitTuple
    <2> QED
      BY <2>1 DEF NothingYet
  <1>4. CASE UNCHANGED vars
    BY <1>4 DEF vars, NothingYet
  <1> QED
    BY <1>1, <1>2, <1>3, <1>4 DEF Next, Step

LEMMA NothingYetAlways == Spec => []NothingYet
  <1>1. Init => NothingYet
    BY DEF Init, NothingYet
  <1> QED
    BY <1>1, NothingYetStep, TypeCorrect, PTL DEF Spec

-----------------------------------------------------------------------------
\* Runs that do not overlap

LEMMA ExclusiveInit == Init => ExclusiveInv
  BY DEF Init, ExclusiveInv, OneActive, Active, FilesInPlace, NoLeftovers

LEMMA ExclusiveStep == TypeOK /\ NothingYet /\ ExclusiveInv /\ [Next]_vars => ExclusiveInv'
  <1> SUFFICES ASSUME TypeOK, NothingYet, ExclusiveInv, [Next]_vars, ~Overlap PROVE ExclusiveInv'
    BY DEF ExclusiveInv
  <1> USE DEF checkout, verdicts, engines, summary
  <1>0. /\ pc \in [Runs -> Stage] /\ sampled \in [Runs -> SUBSET Nat]
        /\ DOMAIN goDec = Runs /\ DOMAIN rustDec = Runs
        /\ tornRead \in [Runs -> BOOLEAN]
    BY DEF TypeOK
  <1>1. OneActive'
    <2>1. ASSUME NEW r \in Runs, Start(r) PROVE OneActive'
      <3>1. \A q \in Runs : ~Active(q)
        BY <2>1 DEF Start, Active
      <3>2. \A q \in Runs \ {r} : ~Active(q)'
        BY <1>0, <2>1, <3>1 DEF Start, Goto, Active
      <3> QED
        BY <3>2 DEF OneActive
    <2>2. ASSUME NEW r \in Runs, Step(r) \/ Kill(r) PROVE OneActive'
      <3>1. Active(r) /\ \A q \in Runs \ {r} : pc'[q] = pc[q]
        BY <1>0, <2>2 DEF Step, TruncateFixtures, WriteFixtures, FixturesRaise, SampleTuples,
           NoTuples, SampleRaise, BuildGoHarness, BuildFails, CloseFailed, ExitFailed,
           RaiseUncaught,
           WriteGoInput, FlushGoInput, RunGoBatch, WriteRustInput, FlushRustInput,
           RunRustBatch, Summarise, EmitTuple, EmitTuplesDone, Complete, NoCorpus,
           TruncateCorpus, WriteCorpus, Kill, Goto, Active, Ended
      <3> QED
        BY <3>1 DEF ExclusiveInv, OneActive, Active
    <2>3. CASE UNCHANGED vars
      BY <2>3 DEF vars, ExclusiveInv, OneActive, Active
    <2> QED
      BY <2>1, <2>2, <2>3 DEF Next
  <1>2. ASSUME NEW r \in Runs, Start(r) \/ Step(r) \/ Kill(r), NEW q \in Runs \ {r}
        PROVE  /\ ~Active(q) /\ pc'[q] = pc[q] /\ sampled'[q] = sampled[q]
               /\ goDec'[q] = goDec[q] /\ rustDec'[q] = rustDec[q]
               /\ tornRead'[q] = tornRead[q]
    <2>1. CASE Start(r)
      BY <1>0, <2>1 DEF Start, Goto, Active
    <2>2. CASE Step(r) \/ Kill(r)
      <3> USE <1>0, <2>2 DEF Step, TruncateFixtures, WriteFixtures, FixturesRaise, SampleTuples,
           NoTuples, SampleRaise, BuildGoHarness, BuildFails, CloseFailed, ExitFailed,
           RaiseUncaught,
           WriteGoInput, FlushGoInput, RunGoBatch, WriteRustInput, FlushRustInput,
           RunRustBatch, Summarise, EmitTuple, EmitTuplesDone, Complete, NoCorpus,
           TruncateCorpus, WriteCorpus, Kill, Goto
      <3>1. Active(r) /\ pc'[q] = pc[q]
        BY DEF Active, Ended
      <3>2. sampled'[q] = sampled[q]
        OBVIOUS
      <3>3. goDec'[q] = goDec[q]
        OBVIOUS
      <3>4. rustDec'[q] = rustDec[q]
        OBVIOUS
      <3>5. tornRead'[q] = tornRead[q]
        OBVIOUS
      <3> QED
        BY <3>1, <3>2, <3>3, <3>4, <3>5 DEF ExclusiveInv, OneActive
    <2> QED
      BY <1>2, <2>1, <2>2
  <1>3. ASSUME NEW r \in Runs, Start(r) \/ Step(r) \/ Kill(r)
        PROVE  FilesInPlace'
    <2>1. ASSUME NEW q \in Runs \ {r}
          PROVE  pc'[q] \in {"idle"} \cup Ended
      BY <1>2, <1>3 DEF Active
    <2>2. FilesInPlace!(r)'
      <3> USE <1>0 DEF Goto
      <3>1. CASE Start(r) \/ TruncateFixtures(r) \/ FixturesRaise(r) \/ NoTuples(r)
                 \/ SampleRaise(r) \/ BuildFails(r) \/ CloseFailed(r) \/ ExitFailed(r)
                 \/ RaiseUncaught(r) \/ Summarise(r)
                 \/ EmitTuplesDone(r) \/ Complete(r) \/ WriteCorpus(r) \/ Kill(r)
                 \/ WriteFixtures(r) \/ NoCorpus(r) \/ TruncateCorpus(r)
        BY <3>1 DEF Start, TruncateFixtures, FixturesRaise, NoTuples, SampleRaise,
           BuildFails, CloseFailed, ExitFailed, RaiseUncaught, Summarise, EmitTuplesDone,
           Complete, NoCorpus,
           TruncateCorpus, WriteCorpus, Kill, WriteFixtures
      <3>2. CASE SampleTuples(r) \/ BuildGoHarness(r) \/ WriteGoInput(r) \/ EmitTuple(r)
                 \/ WriteRustInput(r) \/ RunGoBatch(r) \/ RunRustBatch(r)
        BY <3>2 DEF SampleTuples, BuildGoHarness, WriteGoInput, WriteRustInput, RunGoBatch,
           RunRustBatch, EmitTuple, ExclusiveInv, FilesInPlace
      <3>3. CASE FlushGoInput(r) \/ FlushRustInput(r)
        BY <3>3 DEF FlushGoInput, FlushRustInput, ExclusiveInv, FilesInPlace, Lines
      <3> QED
        BY <1>3, <3>1, <3>2, <3>3 DEF Step
    <2> QED
      BY <2>1, <2>2 DEF FilesInPlace, Ended
  <1>4. ASSUME NEW r \in Runs, Start(r) \/ Step(r) \/ Kill(r)
        PROVE  NoLeftovers'
    <2>1. NoLeftovers!2!(r)'
      <3>1. CASE SampleTuples(r)
        <4>1. /\ goDec'[r] = <<>> /\ rustDec'[r] = <<>> /\ tornRead'[r] = tornRead[r]
          BY <3>1 DEF SampleTuples, NothingYet, Unmeasured
        <4> QED
          BY <4>1 DEF ExclusiveInv, NoLeftovers
      <3>2. CASE RunGoBatch(r)
        <4>1. fixtures = "written" /\ DOMAIN goInput \subseteq sampled[r]
          BY <3>2 DEF RunGoBatch, ExclusiveInv, FilesInPlace
        <4>2. sampled'[r] = sampled[r] /\ tornRead'[r] = (tornRead[r] \/ fixtures # "written")
          BY <3>2, <1>0 DEF RunGoBatch
        <4>3. DOMAIN goDec'[r] \subseteq sampled[r]
          BY <3>2, <4>1, <1>0 DEF RunGoBatch, UpTo
        <4>4. DOMAIN rustDec'[r] \subseteq sampled[r]
          BY <3>2, <1>0 DEF RunGoBatch, ExclusiveInv, NoLeftovers
        <4> QED
          BY <4>1, <4>2, <4>3, <4>4 DEF ExclusiveInv, NoLeftovers
      <3>3. CASE RunRustBatch(r)
        <4>1. fixtures = "written" /\ DOMAIN rustInput \subseteq sampled[r]
          BY <3>3 DEF RunRustBatch, ExclusiveInv, FilesInPlace
        <4>2. /\ sampled'[r] = sampled[r] /\ goDec'[r] = goDec[r]
              /\ tornRead'[r] = (tornRead[r] \/ fixtures # "written")
          BY <3>3, <1>0 DEF RunRustBatch
        <4>3. DOMAIN rustDec'[r] \subseteq sampled[r]
          BY <3>3, <4>1, <1>0 DEF RunRustBatch, UpTo
        <4> QED
          BY <4>1, <4>2, <4>3 DEF ExclusiveInv, NoLeftovers
      <3>4. CASE ~SampleTuples(r) /\ ~RunGoBatch(r) /\ ~RunRustBatch(r)
        <4>1. UNCHANGED <<sampled, goDec, rustDec, tornRead>>
          BY <1>4, <3>4 DEF Start, Step, TruncateFixtures, WriteFixtures, FixturesRaise,
           NoTuples, SampleRaise, BuildGoHarness, BuildFails, CloseFailed, ExitFailed,
           RaiseUncaught,
           WriteGoInput, FlushGoInput, WriteRustInput, FlushRustInput,
           Summarise, EmitTuple, EmitTuplesDone, Complete, NoCorpus, TruncateCorpus,
           WriteCorpus, Kill
        <4> QED
          BY <4>1 DEF ExclusiveInv, NoLeftovers
      <3> QED
        BY <3>1, <3>2, <3>3, <3>4
    <2> QED
      BY <1>2, <1>4, <2>1 DEF ExclusiveInv, NoLeftovers
  <1>5. CASE UNCHANGED vars
    BY <1>5 DEF vars, ExclusiveInv, OneActive, Active, FilesInPlace, NoLeftovers
  <1> QED
    BY <1>1, <1>3, <1>4, <1>5 DEF Next, ExclusiveInv

\* Runs that do not overlap never read what a crashed run left torn or
\* half-written, and keep no verdict about a tuple they did not sample.
THEOREM NothingLeftOver == Spec => []NoLeftovers
  <1>1. Spec => []ExclusiveInv
    BY ExclusiveInit, ExclusiveStep, NothingYetAlways, TypeCorrect, PTL DEF Spec
  <1>2. ExclusiveInv => NoLeftovers
    BY DEF ExclusiveInv, NoLeftovers
  <1> QED
    BY <1>1, <1>2, PTL

-----------------------------------------------------------------------------
\* Refinement

AbstractPhase(stage) ==
    IF stage = "idle" THEN "waiting"
    ELSE IF stage = "exit0" THEN "published"
    ELSE IF stage \in Ended THEN "abandoned"
    ELSE IF stage = "corpus_torn" THEN "publishing"
    ELSE "working"

\* The contract's variables, as functions of the driver's.
Phase == [q \in Runs |-> AbstractPhase(pc[q])]
Found == [q \in Runs |-> IF pc[q] = "exit0" THEN report[q].disagreements ELSE {}]
Differing == {i \in Indices : Differ(i) \/ RustFailsOnAllow(i)}

LEMMA Mapping ==
  /\ UNCHANGED <<Phase, Found, corpus, Differing>> => UNCHANGED Contract!contractVars
  /\ \A r \in Runs :
        /\ Contract!Begin(r) <=>
              /\ Phase[r] = "waiting" /\ Phase' = [Phase EXCEPT ![r] = "working"]
              /\ UNCHANGED <<Found, corpus, Differing>>
        /\ Contract!Clear(r) <=>
              /\ Phase[r] = "working" /\ Phase' = [Phase EXCEPT ![r] = "publishing"]
              /\ corpus' = TornCorpus
              /\ UNCHANGED <<Found, Differing>>
        /\ Contract!PublishNothing(r) <=>
              /\ Phase[r] = "working" /\ Phase' = [Phase EXCEPT ![r] = "published"]
              /\ UNCHANGED <<Found, corpus, Differing>>
        /\ Contract!Abandon(r) <=>
              /\ Phase[r] \in {"working", "publishing"}
              /\ Phase' = [Phase EXCEPT ![r] = "abandoned"]
              /\ UNCHANGED <<Found, corpus, Differing>>
        /\ \A D : Contract!Publish(r, D) <=>
              /\ Phase[r] = "publishing" /\ D # {}
              /\ Phase' = [Phase EXCEPT ![r] = "published"]
              /\ Found' = [Found EXCEPT ![r] = D]
              /\ corpus' = [run |-> r, tuples |-> D]
              /\ UNCHANGED Differing
  BY DEF Phase, Found, Differing, AbstractPhase, TornCorpus, Contract!contractVars,
     Contract!Begin, Contract!Clear, Contract!PublishNothing, Contract!Abandon,
     Contract!Publish

\* A step that moves one run and leaves the engines alone moves one phase, and
\* publishes nothing unless the run goes to exit 0.
LEMMA PhaseMove ==
  ASSUME TypeOK, NEW r \in Runs, NEW stage \in Stage,
         pc[r] # "exit0", pc' = [pc EXCEPT ![r] = stage],
         \A q \in Runs \ {r} : report'[q] = report[q],
         UNCHANGED <<rustSem, goSem>>
  PROVE  /\ Phase' = [Phase EXCEPT ![r] = AbstractPhase(stage)]
         /\ Phase[r] = AbstractPhase(pc[r])
         /\ Found' = [Found EXCEPT ![r] = IF stage = "exit0" THEN report'[r].disagreements
                                                           ELSE {}]
         /\ Found[r] = {}
         /\ Differing' = Differing
  <1>0. pc \in [Runs -> Stage]
    BY DEF TypeOK
  <1>1. Phase' = [Phase EXCEPT ![r] = AbstractPhase(stage)] /\ Phase[r] = AbstractPhase(pc[r])
    BY <1>0 DEF Phase
  <1>2. /\ Found[r] = {}
        /\ Found' = [Found EXCEPT ![r] = IF stage = "exit0" THEN report'[r].disagreements
                                                           ELSE {}]
    BY <1>0 DEF Found
  <1>3. Differing' = Differing
    BY DEF Differing, Differ, RustFailsOnAllow
  <1> QED
    BY <1>1, <1>2, <1>3

\* A move of a run that publishes nothing and leaves the corpus alone.
LEMMA SilentStep ==
  ASSUME TypeOK, NEW r \in Runs, NEW stage \in Stage \ {"exit0"},
         pc[r] # "exit0", pc' = [pc EXCEPT ![r] = stage],
         \A q \in Runs \ {r} : report'[q] = report[q],
         UNCHANGED <<corpus, rustSem, goSem>>,
         \/ AbstractPhase(pc[r]) = AbstractPhase(stage)
         \/ AbstractPhase(pc[r]) = "waiting" /\ AbstractPhase(stage) = "working"
         \/ /\ AbstractPhase(pc[r]) \in {"working", "publishing"}
            /\ AbstractPhase(stage) = "abandoned"
  PROVE  [Contract!Next]_(Contract!contractVars)
  <1>0. /\ Phase' = [Phase EXCEPT ![r] = AbstractPhase(stage)]
        /\ Phase[r] = AbstractPhase(pc[r])
        /\ Found' = [Found EXCEPT ![r] = {}] /\ Found[r] = {}
        /\ Differing' = Differing
    BY PhaseMove
  <1>1. Found' = Found
    BY <1>0 DEF Found
  <1>2. CASE AbstractPhase(pc[r]) = AbstractPhase(stage)
    <2>1. Phase' = Phase
      BY <1>0, <1>2 DEF Phase
    <2> QED
      BY <1>0, <1>1, <2>1, Mapping
  <1>3. CASE AbstractPhase(pc[r]) = "waiting" /\ AbstractPhase(stage) = "working"
    <2>1. Contract!Begin(r)
      BY <1>0, <1>1, <1>3, Mapping
    <2> QED
      BY <2>1 DEF Contract!Next
  <1>4. CASE /\ AbstractPhase(pc[r]) \in {"working", "publishing"}
             /\ AbstractPhase(stage) = "abandoned"
    <2>1. Contract!Abandon(r)
      BY <1>0, <1>1, <1>4, Mapping
    <2> QED
      BY <2>1 DEF Contract!Next
  <1> QED
    BY <1>2, <1>3, <1>4

\* Exit 0 with nothing to report, and the truncation of the old list.
LEMMA NothingStep ==
  ASSUME TypeOK, NEW r \in Runs, NoCorpus(r)
  PROVE  Contract!Next
  <1>0. /\ pc[r] = "corpus" /\ pc' = [pc EXCEPT ![r] = "exit0"]
        /\ UNCHANGED <<report, corpus, rustSem, goSem>>
        /\ report[r].disagreements = {} /\ "exit0" \in Stage
    BY DEF NoCorpus, Goto, summary, checkout, engines, Stage, Ended
  <1>1. /\ Phase' = [Phase EXCEPT ![r] = "published"] /\ Phase[r] = "working"
        /\ Found' = [Found EXCEPT ![r] = {}] /\ Found[r] = {}
        /\ Differing' = Differing
    BY <1>0, PhaseMove DEF AbstractPhase, Ended
  <1>2. Found' = Found
    BY <1>1 DEF Found
  <1>3. Contract!PublishNothing(r)
    BY <1>0, <1>1, <1>2, Mapping
  <1> QED
    BY <1>3 DEF Contract!Next

LEMMA ClearStep ==
  ASSUME TypeOK, NEW r \in Runs, TruncateCorpus(r)
  PROVE  Contract!Next
  <1>0. /\ pc[r] = "corpus" /\ pc' = [pc EXCEPT ![r] = "corpus_torn"]
        /\ UNCHANGED <<report, rustSem, goSem>>
        /\ corpus' = TornCorpus /\ "corpus_torn" \in Stage
    BY DEF TruncateCorpus, Goto, summary, engines, Stage
  <1>1. /\ Phase' = [Phase EXCEPT ![r] = "publishing"] /\ Phase[r] = "working"
        /\ Found' = [Found EXCEPT ![r] = {}] /\ Found[r] = {}
        /\ Differing' = Differing
    BY <1>0, PhaseMove DEF AbstractPhase, Ended
  <1>2. Found' = Found
    BY <1>1 DEF Found
  <1>3. Contract!Clear(r)
    BY <1>0, <1>1, <1>2, Mapping
  <1> QED
    BY <1>3 DEF Contract!Next

\* Exit 0 publishes disagreements that are real ones of the run's own sample.
LEMMA PublishStep ==
  ASSUME TypeOK, FaithfulInv, ExclusiveInv, ~Overlap, NEW r \in Runs, WriteCorpus(r)
  PROVE  Contract!Next
  <1> DEFINE D == report[r].disagreements
  <1>0. /\ pc[r] = "corpus_torn" /\ pc' = [pc EXCEPT ![r] = "exit0"]
        /\ UNCHANGED <<report, rustSem, goSem>> /\ "exit0" \in Stage
    BY DEF WriteCorpus, Goto, summary, engines, Stage, Ended
  <1>1. corpus' = [run |-> r, tuples |-> D] /\ D # {}
    BY <1>0 DEF WriteCorpus, ExclusiveInv, FilesInPlace
  <1>2. /\ Phase' = [Phase EXCEPT ![r] = "published"] /\ Phase[r] = "publishing"
        /\ Found' = [Found EXCEPT ![r] = D]
        /\ Differing' = Differing
    BY <1>0, PhaseMove DEF AbstractPhase, Ended
  <1>3. ~tornRead[r]
    BY DEF ExclusiveInv, NoLeftovers
  <1>4. D \subseteq sampled[r] /\ \A i \in D : Differ(i) \/ RustFailsOnAllow(i)
    BY <1>0, <1>3 DEF FaithfulInv, DisagreementsReal, Summarised
  <1>5. \A i \in sampled[r] : i \in Indices /\ i < NTarget[r]
    BY SampledIndices
  <1>6. D \in SUBSET {i \in Differing : i < NTarget[r]}
    BY <1>4, <1>5 DEF Differing
  <1>7. PICK S : S = D
    OBVIOUS
  <1> HIDE DEF D
  <1>8. Contract!Publish(r, S)
    BY <1>1, <1>2, <1>7, Mapping
  <1>9. S \in SUBSET {i \in Differing : i < NTarget[r]}
    BY <1>6, <1>7
  <1> QED
    BY <1>8, <1>9 DEF Contract!Next, Differing

\* Runs that do not overlap implement DiffContract: what they publish and keep
\* in the corpus are tuples of their own samples on which the engines differ.
THEOREM DriverImplementsContract ==
  ASSUME ~Overlap
  PROVE  Spec => ImplementsContract
  <1>1. Init => Contract!Init
    <2> SUFFICES ASSUME Init PROVE Contract!Init
      OBVIOUS
    <2>1. {i \in Indices : Differ(i) \/ RustFailsOnAllow(i)} \in SUBSET (0 .. MaxTarget - 1)
      BY DEF Indices
    <2> QED
      BY <2>1 DEF Init, Contract!Init, NoCorpusYet
  <1>2. TypeOK /\ FaithfulInv /\ ExclusiveInv /\ [Next]_vars
          => [Contract!Next]_(Contract!contractVars)
    <2> SUFFICES ASSUME TypeOK, FaithfulInv, ExclusiveInv, [Next]_vars
                 PROVE  [Contract!Next]_(Contract!contractVars)
      OBVIOUS
    <2> USE DEF checkout, verdicts, engines, summary, Goto
    <2>0. /\ pc \in [Runs -> Stage]
          /\ report \in [Runs -> [goValid : Nat, compared : SUBSET Nat,
                                  agreements : SUBSET Nat, disagreements : SUBSET Nat]]
      BY DEF TypeOK
    <2>1. ASSUME NEW r \in Runs, NoCorpus(r) \/ TruncateCorpus(r) \/ WriteCorpus(r)
          PROVE  [Contract!Next]_(Contract!contractVars)
      BY <2>1, NothingStep, ClearStep, PublishStep
    <2>2. ASSUME NEW r \in Runs, EmitTuple(r)
          PROVE  [Contract!Next]_(Contract!contractVars)
      <3>1. UNCHANGED <<pc, report, corpus, rustSem, goSem>>
        BY <2>2, Zenon DEF EmitTuple
      <3> QED
        BY <3>1 DEF Contract!contractVars, Differ, RustFailsOnAllow
    <2>3. ASSUME NEW r \in Runs,
                 \/ Start(r) \/ TruncateFixtures(r) \/ WriteFixtures(r) \/ FixturesRaise(r)
                 \/ SampleTuples(r) \/ NoTuples(r) \/ SampleRaise(r) \/ BuildGoHarness(r)
                 \/ BuildFails(r) \/ CloseFailed(r) \/ ExitFailed(r)
                 \/ RaiseUncaught(r) \/ WriteGoInput(r) \/ FlushGoInput(r)
                 \/ RunGoBatch(r) \/ WriteRustInput(r) \/ FlushRustInput(r)
                 \/ RunRustBatch(r) \/ Summarise(r) \/ EmitTuplesDone(r) \/ Complete(r)
                 \/ Kill(r)
          PROVE  [Contract!Next]_(Contract!contractVars)
      <3>1. /\ \A q \in Runs \ {r} : report'[q] = report[q]
            /\ UNCHANGED <<corpus, rustSem, goSem>>
        BY <2>0, <2>3 DEF Start, TruncateFixtures, WriteFixtures, FixturesRaise, SampleTuples,
           NoTuples, SampleRaise, BuildGoHarness, BuildFails, CloseFailed, ExitFailed,
           RaiseUncaught,
           WriteGoInput, FlushGoInput, RunGoBatch, WriteRustInput, FlushRustInput,
           RunRustBatch, Summarise, EmitTuplesDone, Complete, Kill
      <3>2. PICK stage \in Stage \ {"exit0"} :
              /\ pc[r] # "exit0" /\ pc' = [pc EXCEPT ![r] = stage]
              /\ \/ AbstractPhase(pc[r]) = AbstractPhase(stage)
                 \/ AbstractPhase(pc[r]) = "waiting" /\ AbstractPhase(stage) = "working"
                 \/ /\ AbstractPhase(pc[r]) \in {"working", "publishing"}
                    /\ AbstractPhase(stage) = "abandoned"
        <4>1. CASE \/ Start(r) \/ TruncateFixtures(r) \/ WriteFixtures(r) \/ FixturesRaise(r)
                   \/ SampleTuples(r) \/ NoTuples(r) \/ SampleRaise(r)
          BY <2>0, <4>1 DEF Start, TruncateFixtures, WriteFixtures, FixturesRaise,
             SampleTuples, NoTuples, SampleRaise, AbstractPhase, Stage, Ended
        <4>2. CASE \/ BuildGoHarness(r) \/ BuildFails(r) \/ CloseFailed(r) \/ ExitFailed(r)
                   \/ RaiseUncaught(r)
                   \/ WriteGoInput(r) \/ FlushGoInput(r) \/ RunGoBatch(r)
          BY <2>0, <4>2 DEF BuildGoHarness, BuildFails, CloseFailed, ExitFailed, RaiseUncaught, WriteGoInput,
             FlushGoInput, RunGoBatch, AbstractPhase, Stage, Ended
        <4>3. CASE \/ WriteRustInput(r) \/ FlushRustInput(r) \/ RunRustBatch(r)
                   \/ Summarise(r) \/ EmitTuplesDone(r) \/ Complete(r)
          BY <2>0, <4>3 DEF WriteRustInput, FlushRustInput, RunRustBatch, Summarise,
             EmitTuplesDone, Complete, AbstractPhase, Stage, Ended
        <4>4. CASE Kill(r)
          BY <2>0, <4>4 DEF Kill, AbstractPhase, Stage, Ended
        <4> QED
          BY <2>3, <4>1, <4>2, <4>3, <4>4
      <3> QED
        BY <3>1, <3>2, SilentStep
    <2>4. CASE UNCHANGED vars
      BY <2>4 DEF vars, Contract!contractVars, Differ, RustFailsOnAllow
    <2> QED
      BY <2>1, <2>2, <2>3, <2>4 DEF Next, Step
  <1>3. Spec => []ExclusiveInv
    BY ExclusiveInit, ExclusiveStep, NothingYetAlways, TypeCorrect, PTL DEF Spec
  <1> QED
    BY <1>1, <1>2, <1>3, FaithfulAlways, TypeCorrect, PTL
       DEF Spec, ImplementsContract, Contract!Spec

\* What belongs to the other runs: a step of run r leaves it alone.
LEMMA OthersStay ==
  ASSUME TypeOK, NEW r \in Runs, Start(r) \/ Step(r) \/ Kill(r), NEW q \in Runs \ {r}
  PROVE  /\ pc'[q] = pc[q] /\ sampled'[q] = sampled[q] /\ goDec'[q] = goDec[q]
         /\ rustDec'[q] = rustDec[q] /\ report'[q] = report[q] /\ cursor'[q] = cursor[q]
  <1> USE DEF TypeOK, checkout, verdicts, engines, summary, Goto
  <1>1. CASE Start(r) \/ TruncateFixtures(r) \/ WriteFixtures(r) \/ FixturesRaise(r)
             \/ SampleTuples(r) \/ NoTuples(r) \/ SampleRaise(r) \/ Kill(r)
    BY <1>1 DEF Start, TruncateFixtures, WriteFixtures, FixturesRaise, SampleTuples, NoTuples,
       SampleRaise, Kill
  <1>2. CASE BuildGoHarness(r) \/ BuildFails(r) \/ CloseFailed(r) \/ ExitFailed(r)
                               \/ RaiseUncaught(r) \/ WriteGoInput(r)
             \/ FlushGoInput(r) \/ WriteRustInput(r) \/ FlushRustInput(r)
    BY <1>2 DEF BuildGoHarness, BuildFails, CloseFailed, ExitFailed, RaiseUncaught, WriteGoInput, FlushGoInput,
       WriteRustInput, FlushRustInput
  <1>3. CASE RunGoBatch(r) \/ RunRustBatch(r)
    BY <1>3 DEF RunGoBatch, RunRustBatch
  <1>4. CASE Summarise(r) \/ EmitTuplesDone(r) \/ Complete(r) \/ NoCorpus(r)
             \/ TruncateCorpus(r) \/ WriteCorpus(r)
    BY <1>4 DEF Summarise, EmitTuplesDone, Complete, NoCorpus, TruncateCorpus, WriteCorpus
  <1>5. CASE EmitTuple(r)
    <2>1. cursor' = [cursor EXCEPT ![r] = @ + 1] /\ UNCHANGED <<pc, report, verdicts>>
      BY <1>5, Zenon DEF EmitTuple
    <2> QED
      BY <2>1
  <1> QED
    BY <1>1, <1>2, <1>3, <1>4, <1>5 DEF Step

\* Only its summary changes the report of a run.
LEMMA ReportStays ==
  ASSUME TypeOK, NEW r \in Runs, Start(r) \/ Step(r) \/ Kill(r), ~Summarise(r)
  PROVE  report' = report
  <1>1. CASE EmitTuple(r)
    BY <1>1, Zenon DEF EmitTuple
  <1>2. CASE ~EmitTuple(r)
    BY <1>2 DEF Step, Start, TruncateFixtures, WriteFixtures, FixturesRaise, SampleTuples,
       NoTuples, SampleRaise, BuildGoHarness, BuildFails, CloseFailed, ExitFailed,
       RaiseUncaught, WriteGoInput,
       FlushGoInput, RunGoBatch, WriteRustInput, FlushRustInput, RunRustBatch,
       EmitTuplesDone, Complete, NoCorpus, TruncateCorpus, WriteCorpus, Kill, summary
  <1> QED
    BY <1>1, <1>2

\* Only sampling changes the sample.
LEMMA SampleStays ==
  ASSUME NEW r \in Runs, Start(r) \/ Step(r) \/ Kill(r), ~SampleTuples(r)
  PROVE  sampled' = sampled
  <1>1. CASE EmitTuple(r)
    BY <1>1, Zenon DEF EmitTuple, verdicts
  <1>2. CASE ~EmitTuple(r)
    BY <1>2 DEF Step, Start, TruncateFixtures, WriteFixtures, FixturesRaise,
       NoTuples, SampleRaise, BuildGoHarness, BuildFails, CloseFailed, ExitFailed,
       RaiseUncaught, WriteGoInput, FlushGoInput, RunGoBatch, WriteRustInput,
       FlushRustInput, RunRustBatch, Summarise, EmitTuplesDone, Complete, NoCorpus,
       TruncateCorpus, WriteCorpus, Kill, verdicts
  <1> QED
    BY <1>1, <1>2

-----------------------------------------------------------------------------
\* The summary's rates

LEMMA RatesStep ==
  TypeOK /\ NothingYet /\ ExclusiveInv /\ RatesAreProportions /\ [Next]_vars
    => RatesAreProportions'
  <1> SUFFICES ASSUME TypeOK, NothingYet, ExclusiveInv, RatesAreProportions, [Next]_vars
               PROVE  RatesAreProportions'
    OBVIOUS
  <1>0. report \in [Runs -> [goValid : Nat, compared : SUBSET Nat,
                             agreements : SUBSET Nat, disagreements : SUBSET Nat]]
    BY DEF TypeOK
  <1>1. ASSUME NEW r \in Runs, Start(r) \/ Step(r) \/ Kill(r), ~Summarise(r), ~SampleTuples(r)
        PROVE  RatesAreProportions'
    <2>1. report' = report /\ sampled' = sampled
      BY <1>1, ReportStays, SampleStays
    <2> QED
      BY <2>1 DEF RatesAreProportions
  <1>4. ASSUME NEW r \in Runs, SampleTuples(r) PROVE RatesAreProportions'
    <2>1. report' = report /\ \A q \in Runs \ {r} : sampled'[q] = sampled[q]
      BY <1>4, ReportStays, OthersStay DEF Step, SampleTuples, summary
    <2>2. report[r] = NoReport
      BY <1>4 DEF SampleTuples, NothingYet, Unmeasured
    <2>3. IsFiniteSet(sampled'[r])
      <3>1. sampled'[r] \subseteq 0 .. NTarget[r] - 1
        BY <1>4 DEF SampleTuples, TypeOK
      <3>2. 0 \in Int /\ NTarget[r] - 1 \in Int
        BY NTargetAssumption
      <3>3. IsFiniteSet(0 .. NTarget[r] - 1)
        BY <3>2, FS_Interval
      <3> QED
        BY <3>1, <3>3, FS_Subset
    <2>4. report[r].goValid = 0 /\ Cardinality(sampled'[r]) \in Nat
      BY <2>2, <2>3, FS_CardinalityType DEF NoReport
    <2> SUFFICES ASSUME NEW q \in Runs
                 PROVE  /\ report'[q].agreements \cap report'[q].disagreements = {}
                        /\ report'[q].agreements \cup report'[q].disagreements = report'[q].compared
                        /\ ~Overlap => /\ Cardinality(report'[q].compared) <= report'[q].goValid
                                       /\ report'[q].goValid <= Cardinality(sampled'[q])
      BY DEF RatesAreProportions
    <2>5. CASE q = r
      BY <2>1, <2>4, <2>5 DEF RatesAreProportions
    <2>6. CASE q # r
      BY <2>1, <2>6 DEF RatesAreProportions
    <2> QED
      BY <2>5, <2>6
  <1>2. ASSUME NEW r \in Runs, Summarise(r) PROVE RatesAreProportions'
    <2> DEFINE valid == {i \in DOMAIN goDec[r] : goDec[r][i] # "ERROR"}
    <2>1. /\ report'[r] = [goValid |-> Cardinality(valid),
                           compared |-> Compared(r),
                           agreements |-> {i \in Compared(r) : rustDec[r][i] = goDec[r][i]},
                           disagreements |-> {i \in Compared(r) : rustDec[r][i] # goDec[r][i]}]
          /\ \A q \in Runs \ {r} : report'[q] = report[q]
          /\ sampled' = sampled
      BY <1>0, <1>2 DEF Summarise, verdicts
    <2>2. ~Overlap => /\ Cardinality(Compared(r)) <= Cardinality(valid)
                      /\ Cardinality(valid) <= Cardinality(sampled[r])
      <3> SUFFICES ASSUME ~Overlap PROVE /\ Cardinality(Compared(r)) <= Cardinality(valid)
                                         /\ Cardinality(valid) <= Cardinality(sampled[r])
        OBVIOUS
      <3>1. valid \subseteq sampled[r]
        BY DEF ExclusiveInv, NoLeftovers
      <3>2. Compared(r) \subseteq valid
        BY DEF Compared, Get, IsDecision
      <3>3. IsFiniteSet(sampled[r])
        BY SampledIndices
      <3>4. IsFiniteSet(valid)
        BY <3>1, <3>3, FS_Subset
      <3> QED
        BY <3>1, <3>2, <3>3, <3>4, FS_Subset
    <2>3. /\ report'[r].goValid = Cardinality(valid)
          /\ report'[r].compared = Compared(r)
          /\ report'[r].agreements = {i \in Compared(r) : rustDec[r][i] = goDec[r][i]}
          /\ report'[r].disagreements = {i \in Compared(r) : rustDec[r][i] # goDec[r][i]}
      BY <2>1
    <2>4. /\ report'[r].agreements \cap report'[r].disagreements = {}
          /\ report'[r].agreements \cup report'[r].disagreements = report'[r].compared
      BY <2>3
    <2> SUFFICES ASSUME NEW q \in Runs
                 PROVE  /\ report'[q].agreements \cap report'[q].disagreements = {}
                        /\ report'[q].agreements \cup report'[q].disagreements = report'[q].compared
                        /\ ~Overlap => /\ Cardinality(report'[q].compared) <= report'[q].goValid
                                       /\ report'[q].goValid <= Cardinality(sampled'[q])
      BY DEF RatesAreProportions
    <2>5. CASE q = r
      BY <2>1, <2>2, <2>3, <2>4, <2>5
    <2>6. CASE q # r
      BY <2>1, <2>6 DEF RatesAreProportions
    <2> QED
      BY <2>5, <2>6
  <1>3. CASE UNCHANGED vars
    BY <1>3 DEF vars, RatesAreProportions
  <1> QED
    BY <1>1, <1>2, <1>3, <1>4 DEF Next, Step

\* Agreements and disagreements split the compared pairs; without overlap no
\* run compares more than it has valid samples, nor has more than it sampled.
THEOREM RatesAreRates == Spec => []RatesAreProportions
  <1>1. Init => RatesAreProportions
    <2> SUFFICES ASSUME Init, NEW r \in Runs
                 PROVE  /\ report[r].agreements \cap report[r].disagreements = {}
                        /\ report[r].agreements \cup report[r].disagreements = report[r].compared
                        /\ Cardinality(report[r].compared) <= report[r].goValid
                        /\ report[r].goValid <= Cardinality(sampled[r])
      BY DEF RatesAreProportions
    <2>1. report[r] = NoReport /\ sampled[r] = {} /\ Cardinality({}) = 0
      BY FS_EmptySet DEF Init
    <2> QED
      BY <2>1 DEF NoReport
  <1>2. Spec => []ExclusiveInv
    BY ExclusiveInit, ExclusiveStep, NothingYetAlways, TypeCorrect, PTL DEF Spec
  <1> QED
    BY <1>1, <1>2, RatesStep, NothingYetAlways, TypeCorrect, PTL DEF Spec

-----------------------------------------------------------------------------
\* The corpus on disk

LEMMA CorpusStep ==
  ASSUME TypeOK, ExclusiveInv, ~Overlap, CorpusIsOneRuns, [Next]_vars
  PROVE  CorpusIsOneRuns'
  <1>0. /\ pc \in [Runs -> Stage] /\ DOMAIN report = Runs
        /\ corpus \in {NoCorpusYet, TornCorpus} \/ corpus \in [run : Runs, tuples : SUBSET Nat]
        /\ NoCorpusYet.run = "none" /\ TornCorpus.run = "torn"
        /\ "none" \notin Runs /\ "torn" \notin Runs
    BY RunsAssumption DEF TypeOK, NoCorpusYet, TornCorpus
  <1>1. ASSUME NEW r \in Runs, TruncateCorpus(r) PROVE CorpusIsOneRuns'
    <2>1. /\ corpus' = TornCorpus /\ pc'[r] = "corpus_torn" /\ report'[r].disagreements # {}
      BY <1>0, <1>1 DEF TruncateCorpus, Goto, summary
    <2>2. corpus'.run = "torn"
      BY <1>0, <2>1
    <2> QED
      BY <1>0, <2>1, <2>2 DEF CorpusIsOneRuns
  <1>2. ASSUME NEW r \in Runs, WriteCorpus(r) PROVE CorpusIsOneRuns'
    <2>1. corpus = TornCorpus /\ report[r].disagreements # {}
      BY <1>2 DEF WriteCorpus, ExclusiveInv, FilesInPlace
    <2>2. /\ corpus' = [run |-> r, tuples |-> report[r].disagreements]
          /\ pc'[r] = "exit0" /\ report' = report
      BY <1>0, <1>2, <2>1 DEF WriteCorpus, Goto, summary
    <2>3. corpus'.run = r /\ corpus'.tuples = report'[r].disagreements
      BY <2>2
    <2> QED
      BY <1>0, <2>1, <2>2, <2>3 DEF CorpusIsOneRuns
  <1>3. ASSUME NEW r \in Runs, corpus' = corpus, pc[r] \notin Ended,
               \A q \in Runs \ {r} : pc'[q] = pc[q] /\ report'[q] = report[q],
               pc'[r] = "exit0" => report'[r].disagreements = {},
               pc[r] = "corpus_torn" => pc'[r] \in {"raised", "killed"} /\ report'[r] = report[r]
        PROVE  CorpusIsOneRuns'
    <2>1. ASSUME corpus.run \in Runs
          PROVE  /\ corpus.tuples # {} /\ corpus.tuples = report'[corpus.run].disagreements
                 /\ pc'[corpus.run] = "exit0"
      <3>1. corpus.run # r
        BY <1>3, <2>1 DEF CorpusIsOneRuns, Ended
      <3> QED
        BY <1>3, <2>1, <3>1 DEF CorpusIsOneRuns
    <2>2. ASSUME corpus.run = "torn"
          PROVE  \E q \in Runs : /\ pc'[q] \in {"corpus_torn", "raised", "killed"}
                                 /\ report'[q].disagreements # {}
      <3>1. PICK q \in Runs : /\ pc[q] \in {"corpus_torn", "raised", "killed"}
                              /\ report[q].disagreements # {}
        BY <2>2 DEF CorpusIsOneRuns
      <3>2. CASE q = r
        BY <1>3, <3>1, <3>2 DEF Ended
      <3>3. CASE q # r
        BY <1>3, <3>1, <3>3
      <3> QED
        BY <3>2, <3>3
    <2>3. ASSUME corpus.run = "none", NEW q \in Runs, pc'[q] = "exit0"
          PROVE  report'[q].disagreements = {}
      <3>1. CASE q = r
        BY <1>3, <2>3, <3>1
      <3>2. CASE q # r
        BY <1>3, <2>3, <3>2 DEF CorpusIsOneRuns
      <3> QED
        BY <3>1, <3>2
    <2> QED
      BY <1>3, <2>1, <2>2, <2>3 DEF CorpusIsOneRuns
  <1>4. ASSUME NEW r \in Runs, Start(r) \/ Step(r) \/ Kill(r),
               ~TruncateCorpus(r), ~WriteCorpus(r)
        PROVE  CorpusIsOneRuns'
    <2> USE DEF Goto, Ended, checkout, summary
    <2>1. \A q \in Runs \ {r} : pc'[q] = pc[q] /\ report'[q] = report[q]
      BY <1>4, OthersStay
    <2>2. CASE EmitTuple(r)
      <3>1. UNCHANGED <<pc, report, corpus>> /\ pc[r] = "tuple_events"
        BY <2>2, Zenon DEF EmitTuple
      <3> QED
        BY <1>3, <2>1, <3>1
    <2>3. CASE NoCorpus(r)
      <3>1. /\ corpus' = corpus /\ pc[r] = "corpus" /\ report'[r].disagreements = {}
        BY <2>3 DEF NoCorpus
      <3> QED
        BY <1>3, <2>1, <3>1
    <2>4. CASE RaiseUncaught(r) \/ Kill(r)
      <3>1. /\ corpus' = corpus /\ report' = report /\ pc[r] \notin Ended
            /\ pc'[r] \in {"raised", "killed"}
        BY <1>0, <2>4 DEF RaiseUncaught, Kill
      <3> QED
        BY <1>3, <2>1, <3>1
    <2>5. CASE ~EmitTuple(r) /\ ~NoCorpus(r) /\ ~RaiseUncaught(r) /\ ~Kill(r)
      <3>1. corpus' = corpus
        BY <1>4, <2>5 DEF Step, Start, TruncateFixtures, WriteFixtures, FixturesRaise,
           SampleTuples, NoTuples, SampleRaise, BuildGoHarness, BuildFails, CloseFailed,
           ExitFailed, WriteGoInput,
           FlushGoInput, RunGoBatch, WriteRustInput, FlushRustInput, RunRustBatch,
           Summarise, EmitTuplesDone, Complete
      <3>2. pc[r] \notin Ended \cup {"corpus_torn"}
        BY <1>4, <2>5 DEF Step, Start, TruncateFixtures, WriteFixtures, FixturesRaise,
           SampleTuples, NoTuples, SampleRaise, BuildGoHarness, BuildFails, CloseFailed,
           ExitFailed, WriteGoInput,
           FlushGoInput, RunGoBatch, WriteRustInput, FlushRustInput, RunRustBatch,
           Summarise, EmitTuplesDone, Complete
      <3>3. pc'[r] # "exit0"
        BY <1>0, <1>4, <2>5 DEF Step, Start, TruncateFixtures, WriteFixtures, FixturesRaise,
           SampleTuples, NoTuples, SampleRaise, BuildGoHarness, BuildFails, CloseFailed,
           ExitFailed, WriteGoInput,
           FlushGoInput, RunGoBatch, WriteRustInput, FlushRustInput, RunRustBatch,
           Summarise, EmitTuplesDone, Complete
      <3> QED
        BY <1>3, <2>1, <3>1, <3>2, <3>3
    <2> QED
      BY <2>2, <2>3, <2>4, <2>5
  <1>5. CASE UNCHANGED vars
    BY <1>5 DEF vars, CorpusIsOneRuns
  <1> QED
    BY <1>1, <1>2, <1>4, <1>5 DEF Next

\* Without overlap disagreements.jsonl is the whole list of one run that exited
\* 0, or cut short by a run that ended while it was writing.
THEOREM CorpusHasOneOwner ==
  ASSUME ~Overlap
  PROVE  Spec => []CorpusIsOneRuns
  <1>1. Init => CorpusIsOneRuns
    <2> SUFFICES ASSUME Init PROVE CorpusIsOneRuns
      OBVIOUS
    <2>1. corpus.run = "none" /\ \A r \in Runs : pc[r] = "idle"
      BY DEF Init, NoCorpusYet
    <2> QED
      BY <2>1, RunsAssumption DEF CorpusIsOneRuns
  <1>2. Spec => []ExclusiveInv
    BY ExclusiveInit, ExclusiveStep, NothingYetAlways, TypeCorrect, PTL DEF Spec
  <1> QED
    BY <1>1, <1>2, CorpusStep, TypeCorrect, PTL DEF Spec

-----------------------------------------------------------------------------
\* The rows of the trace store

TupleType == "differential_test_tuple"

\* The rank of the last event a run has emitted when it is at a stage, at most.
StageRank(stage) ==
    IF stage = "idle" THEN -1
    ELSE IF stage \in {"fixtures", "fixtures_torn"} THEN 2
    ELSE IF stage = "sample_tuples" THEN 4
    ELSE IF stage = "build_go_harness" THEN 6
    ELSE IF stage = "failing" THEN 7
    ELSE IF stage \in {"go_write", "go_flush", "go_batch"} THEN 8
    ELSE IF stage \in RustStages THEN 10
    ELSE IF stage = "summary" THEN 11
    ELSE IF stage \in {"tuple_events", "run_complete"} THEN 12
    ELSE 13

LEMMA Ranks ==
  /\ Rank(RunStart) = 0
  /\ Rank(PhaseStart("fixtures")) = 2 /\ Rank(PhaseStart("sample_tuples")) = 4
  /\ Rank(PhaseStart("build_go_harness")) = 6 /\ Rank(PhaseStart("go_batch")) = 8
  /\ Rank(PhaseStart("rust_per_tuple")) = 10
  /\ Rank(PhaseDone("fixtures")) = 3 /\ Rank(PhaseDone("sample_tuples")) = 5
  /\ Rank(PhaseDone("build_go_harness")) = 7 /\ Rank(PhaseDone("go_batch")) = 9
  /\ Rank(PhaseDone("rust_per_tuple")) = 11
  /\ Rank(PhaseError("fixtures")) = 3 /\ Rank(PhaseError("sample_tuples")) = 5
  /\ Rank(PhaseError("build_go_harness")) = 7
  /\ \A s : Rank(RunComplete(s)) = 13
  /\ \A i, d : Rank(TupleEvent(i, d)) = 12
  BY DEF Rank, RunStart, PhaseStart, PhaseDone, PhaseError, RunComplete, TupleEvent

LEMMA RankTypes ==
  \A ev \in Event : Rank(ev) \in 0 .. 13 /\ (Rank(ev) = 12 <=> ev.type = TupleType)
  <1> SUFFICES ASSUME NEW ev \in Event
               PROVE  Rank(ev) \in 0 .. 13 /\ (Rank(ev) = 12 <=> ev.type = TupleType)
    OBVIOUS
  <1>1. CASE ev = RunStart
    BY <1>1 DEF Rank, RunStart, TupleType
  <1>2. CASE ev \in [type: {"phase_start", "phase_error", "phase_complete"}, phase: Phases]
    BY <1>2 DEF Rank, Phases, TupleType
  <1>3. CASE ev \in [type: {"run_complete"}, status: {"succeeded", "failed"}]
    BY <1>3 DEF Rank, TupleType
  <1>4. CASE ev \in [type: {"differential_test_tuple"}, idx: Nat, diff_found: BOOLEAN]
    BY <1>4 DEF Rank, TupleType
  <1> QED
    BY <1>1, <1>2, <1>3, <1>4 DEF Event

\* The events of one step, between the ranks low and high: none is a tuple's, they
\* are in order, and they close the run exactly when it goes to the stage to.
Forward(evs, low, high, to) ==
  /\ \A i \in 1 .. Len(evs) : low < Rank(evs[i]) /\ Rank(evs[i]) <= high /\ Rank(evs[i]) # 12
  /\ \A i, j \in 1 .. Len(evs) : i < j => Rank(evs[i]) < Rank(evs[j])
  /\ \A i \in 1 .. Len(evs) : /\ evs[i] = RunComplete("succeeded") => to = "corpus"
                              /\ evs[i] = RunComplete("failed") => to = "failed_closed"
  /\ to = "corpus" => \E i \in 1 .. Len(evs) : evs[i] = RunComplete("succeeded")
  /\ to = "failed_closed" => \E i \in 1 .. Len(evs) : evs[i] = RunComplete("failed")

LEMMA ForwardOne ==
  ASSUME NEW e \in Event, NEW low \in Int, NEW high \in Int, NEW to,
         low < Rank(e), Rank(e) <= high, Rank(e) # 12,
         to = "failed_closed" <=> e = RunComplete("failed"),
         to = "corpus" <=> e = RunComplete("succeeded")
  PROVE  <<e>> \in Seq(Event) /\ Forward(<<e>>, low, high, to)
  <1>1. <<e>> \in Seq(Event) /\ Len(<<e>>) = 1 /\ <<e>>[1] = e /\ 1 .. 1 = {1}
    OBVIOUS
  <1> QED
    BY <1>1 DEF Forward

LEMMA ForwardTwo ==
  ASSUME NEW e \in Event, NEW f \in Event, NEW low \in Int, NEW high \in Int, NEW to,
         low < Rank(e), Rank(e) < Rank(f), Rank(f) <= high, Rank(e) # 12, Rank(f) # 12,
         to \notin {"corpus", "failed_closed"}, Rank(e) # 13, Rank(f) # 13
  PROVE  <<e, f>> \in Seq(Event) /\ Forward(<<e, f>>, low, high, to)
  <1>1. /\ <<e, f>> \in Seq(Event) /\ Len(<<e, f>>) = 2
        /\ <<e, f>>[1] = e /\ <<e, f>>[2] = f /\ 1 .. 2 = {1, 2}
    OBVIOUS
  <1>2. /\ e # RunComplete("succeeded") /\ e # RunComplete("failed")
        /\ f # RunComplete("succeeded") /\ f # RunComplete("failed")
    BY Ranks
  <1>3. Rank(e) \in Int /\ Rank(f) \in Int
    BY RankTypes
  <1> QED
    BY <1>1, <1>2, <1>3 DEF Forward

\* A step of run r other than a turn of the event loop: without an event it is
\* neither an end nor the start of the corpus, with events it is not in the corpus.
Closed == {"corpus", "corpus_torn", "failed_closed"}

Silent(r) ==
  /\ UNCHANGED <<trace, seq>>
  /\ StageRank(pc[r]) <= StageRank(pc'[r])
  /\ pc'[r] \notin {"corpus", "failed_closed"}
  /\ pc'[r] \in {"corpus_torn", "exit0"} => pc[r] \in {"corpus", "corpus_torn"}
  /\ pc'[r] = "exit1" => pc[r] = "failed_closed"
  /\ pc[r] = "failed_closed" => pc'[r] \in {"exit1", "raised", "killed"}
  /\ pc[r] \in {"corpus", "corpus_torn"} => pc'[r] \in {"corpus_torn", "exit0", "raised", "killed"}

Speaking(r) ==
  /\ \E evs \in Seq(Event) : Emit(r, evs) /\ Forward(evs, StageRank(pc[r]), StageRank(pc'[r]), pc'[r])
  /\ StageRank(pc[r]) <= StageRank(pc'[r])
  /\ pc[r] \notin Closed
  /\ pc'[r] \notin {"corpus_torn", "exit0", "exit1"}

LEMMA SpeakOne ==
  ASSUME NEW r \in Runs, NEW e \in Event, Emit(r, <<e>>),
         StageRank(pc[r]) < Rank(e), Rank(e) <= StageRank(pc'[r]), Rank(e) # 12,
         pc'[r] = "failed_closed" <=> e = RunComplete("failed"),
         pc'[r] = "corpus" <=> e = RunComplete("succeeded"),
         pc[r] \notin Closed, pc'[r] \notin {"corpus_torn", "exit0", "exit1"}
  PROVE  Speaking(r)
  <1>1. StageRank(pc[r]) \in Int /\ StageRank(pc'[r]) \in Int /\ Rank(e) \in Int
    BY RankTypes DEF StageRank
  <1>2. <<e>> \in Seq(Event) /\ Forward(<<e>>, StageRank(pc[r]), StageRank(pc'[r]), pc'[r])
    BY <1>1, ForwardOne
  <1>3. StageRank(pc[r]) <= StageRank(pc'[r])
    BY <1>1
  <1> QED
    BY <1>2, <1>3, Zenon DEF Speaking

LEMMA SpeakTwo ==
  ASSUME NEW r \in Runs, NEW e \in Event, NEW f \in Event, Emit(r, <<e, f>>),
         StageRank(pc[r]) < Rank(e), Rank(e) < Rank(f), Rank(f) <= StageRank(pc'[r]),
         Rank(e) # 12, Rank(f) # 12, Rank(e) # 13, Rank(f) # 13,
         pc'[r] \notin {"corpus", "failed_closed"},
         pc[r] \notin Closed, pc'[r] \notin {"corpus_torn", "exit0", "exit1"}
  PROVE  Speaking(r)
  <1>1. /\ StageRank(pc[r]) \in Int /\ StageRank(pc'[r]) \in Int
        /\ Rank(e) \in Int /\ Rank(f) \in Int
    BY RankTypes DEF StageRank
  <1>2. <<e, f>> \in Seq(Event) /\ Forward(<<e, f>>, StageRank(pc[r]), StageRank(pc'[r]), pc'[r])
    BY <1>1, ForwardTwo
  <1>3. StageRank(pc[r]) <= StageRank(pc'[r])
    BY <1>1
  <1> QED
    BY <1>2, <1>3, Zenon DEF Speaking

LEMMA StepSpeaks ==
  ASSUME TypeOK, NEW r \in Runs, Start(r) \/ Step(r) \/ Kill(r), ~EmitTuple(r)
  PROVE  cursor' = cursor /\ (Silent(r) \/ Speaking(r))
  <1> USE DEF Goto, Phases, Closed
  <1>0. pc \in [Runs -> Stage]
    BY DEF TypeOK
  <1>a. \A s : RunComplete(s).type = "run_complete"
    BY DEF RunComplete
  <1>b. \A p : /\ PhaseStart(p).type # "run_complete" /\ PhaseDone(p).type # "run_complete"
               /\ PhaseError(p).type # "run_complete"
    BY DEF PhaseStart, PhaseDone, PhaseError
  <1>c. RunComplete("failed") # RunComplete("succeeded")
    <2>1. RunComplete("failed").status = "failed" /\ RunComplete("succeeded").status = "succeeded"
      BY DEF RunComplete
    <2> QED
      BY <2>1
  <1>1. cursor' = cursor
    BY DEF Step, Start, TruncateFixtures, WriteFixtures, FixturesRaise, SampleTuples,
       NoTuples, SampleRaise, BuildGoHarness, BuildFails, CloseFailed, ExitFailed,
       RaiseUncaught, WriteGoInput,
       FlushGoInput, RunGoBatch, WriteRustInput, FlushRustInput, RunRustBatch, Summarise,
       EmitTuplesDone, Complete, NoCorpus, TruncateCorpus, WriteCorpus, Kill, summary
  <1>2. CASE \/ TruncateFixtures(r) \/ ExitFailed(r) \/ RaiseUncaught(r) \/ WriteGoInput(r) \/ FlushGoInput(r)
             \/ WriteRustInput(r) \/ FlushRustInput(r) \/ Summarise(r) \/ EmitTuplesDone(r)
             \/ NoCorpus(r) \/ TruncateCorpus(r) \/ WriteCorpus(r) \/ Kill(r)
    <2>1. UNCHANGED <<trace, seq>>
      BY <1>2 DEF TruncateFixtures, ExitFailed, RaiseUncaught, WriteGoInput, FlushGoInput, WriteRustInput,
         FlushRustInput, Summarise, EmitTuplesDone, NoCorpus, TruncateCorpus,
         WriteCorpus, Kill
    <2>2. Silent(r)
      BY <1>0, <1>2, <2>1 DEF TruncateFixtures, ExitFailed, RaiseUncaught, WriteGoInput, FlushGoInput,
         WriteRustInput, FlushRustInput, Summarise, EmitTuplesDone, NoCorpus,
         TruncateCorpus,
         WriteCorpus, Kill, Silent, StageRank, RustStages, Ended, Stage
    <2> QED
      BY <1>1, <2>2
  <1>3. CASE Start(r)
    <2>1. pc[r] = "idle" /\ pc'[r] = "fixtures" /\ Emit(r, <<RunStart, PhaseStart("fixtures")>>)
      BY <1>0, <1>3 DEF Start
    <2>2. StageRank(pc[r]) = -1 /\ StageRank(pc'[r]) = 2
      BY <2>1 DEF StageRank
    <2> QED
      BY <1>1, <1>a, <1>b, <2>1, <2>2, SpeakTwo, Ranks, EventTypes
  <1>4. CASE WriteFixtures(r)
    <2>1. /\ pc[r] = "fixtures_torn" /\ pc'[r] = "sample_tuples"
          /\ Emit(r, <<PhaseDone("fixtures"), PhaseStart("sample_tuples")>>)
      BY <1>0, <1>4 DEF WriteFixtures
    <2>2. StageRank(pc[r]) = 2 /\ StageRank(pc'[r]) = 4
      BY <2>1 DEF StageRank
    <2> QED
      BY <1>1, <1>a, <1>b, <2>1, <2>2, SpeakTwo, Ranks, EventTypes
  <1>5. CASE FixturesRaise(r)
    <2>1. /\ pc[r] \in {"fixtures", "fixtures_torn"} /\ pc'[r] = "raised"
          /\ Emit(r, <<PhaseError("fixtures")>>)
      BY <1>0, <1>5 DEF FixturesRaise
    <2>2. StageRank(pc[r]) = 2 /\ StageRank(pc'[r]) = 13
      BY <2>1 DEF StageRank, RustStages
    <2> QED
      BY <1>1, <1>a, <1>b, <2>1, <2>2, SpeakOne, Ranks, EventTypes
  <1>6. CASE SampleTuples(r)
    <2>1. /\ pc[r] = "sample_tuples" /\ pc'[r] = "build_go_harness"
          /\ Emit(r, <<PhaseDone("sample_tuples"), PhaseStart("build_go_harness")>>)
      BY <1>0, <1>6 DEF SampleTuples
    <2>2. StageRank(pc[r]) = 4 /\ StageRank(pc'[r]) = 6
      BY <2>1 DEF StageRank
    <2> QED
      BY <1>1, <1>a, <1>b, <2>1, <2>2, SpeakTwo, Ranks, EventTypes
  <1>7. CASE NoTuples(r)
    <2>1. /\ pc[r] = "sample_tuples" /\ pc'[r] = "failing"
          /\ Emit(r, <<PhaseError("sample_tuples")>>)
      BY <1>0, <1>7 DEF NoTuples
    <2>2. StageRank(pc[r]) = 4 /\ StageRank(pc'[r]) = 7
      BY <2>1 DEF StageRank, RustStages
    <2> QED
      BY <1>1, <1>a, <1>b, <2>1, <2>2, SpeakOne, Ranks, EventTypes
  <1>8. CASE SampleRaise(r)
    <2>1. /\ pc[r] = "sample_tuples" /\ pc'[r] = "raised"
          /\ Emit(r, <<PhaseError("sample_tuples")>>)
      BY <1>0, <1>8 DEF SampleRaise
    <2>2. StageRank(pc[r]) = 4 /\ StageRank(pc'[r]) = 13
      BY <2>1 DEF StageRank, RustStages
    <2> QED
      BY <1>1, <1>a, <1>b, <2>1, <2>2, SpeakOne, Ranks, EventTypes
  <1>9. CASE BuildGoHarness(r)
    <2>1. /\ pc[r] = "build_go_harness" /\ pc'[r] = "go_write"
          /\ Emit(r, <<PhaseDone("build_go_harness"), PhaseStart("go_batch")>>)
      BY <1>0, <1>9 DEF BuildGoHarness
    <2>2. StageRank(pc[r]) = 6 /\ StageRank(pc'[r]) = 8
      BY <2>1 DEF StageRank
    <2> QED
      BY <1>1, <1>a, <1>b, <2>1, <2>2, SpeakTwo, Ranks, EventTypes
  <1>10. CASE BuildFails(r)
    <2>1. /\ pc[r] = "build_go_harness" /\ pc'[r] = "failing"
          /\ Emit(r, <<PhaseError("build_go_harness")>>)
      BY <1>0, <1>10 DEF BuildFails
    <2>2. StageRank(pc[r]) = 6 /\ StageRank(pc'[r]) = 7
      BY <2>1 DEF StageRank, RustStages
    <2> QED
      BY <1>1, <1>a, <1>b, <2>1, <2>2, SpeakOne, Ranks, EventTypes
  <1>11. CASE RunGoBatch(r)
    <2>1. pc[r] = "go_batch" /\ StageRank(pc[r]) = 8
      BY <1>11 DEF RunGoBatch, StageRank
    <2>2. CASE SkipRust[r]
      <3>1. pc'[r] = "summary" /\ Emit(r, <<PhaseDone("go_batch")>>)
        BY <1>0, <1>11, <2>2 DEF RunGoBatch
      <3>2. StageRank(pc'[r]) = 11
        BY <3>1 DEF StageRank, RustStages
      <3> QED
        BY <1>1, <1>a, <1>b, <2>1, <3>1, <3>2, SpeakOne, Ranks, EventTypes
    <2>3. CASE ~SkipRust[r]
      <3>1. pc'[r] = "rust_write" /\ Emit(r, <<PhaseDone("go_batch"), PhaseStart("rust_per_tuple")>>)
        BY <1>0, <1>11, <2>3 DEF RunGoBatch
      <3>2. StageRank(pc'[r]) = 10
        BY <3>1 DEF StageRank, RustStages
      <3> QED
        BY <1>1, <1>a, <1>b, <2>1, <3>1, <3>2, SpeakTwo, Ranks, EventTypes
    <2> QED
      BY <2>2, <2>3
  <1>12. CASE RunRustBatch(r)
    <2>1. /\ pc[r] = "rust_per_tuple" /\ pc'[r] = "summary"
          /\ Emit(r, <<PhaseDone("rust_per_tuple")>>)
      BY <1>0, <1>12 DEF RunRustBatch
    <2>2. StageRank(pc[r]) = 10 /\ StageRank(pc'[r]) = 11
      BY <2>1 DEF StageRank, RustStages
    <2> QED
      BY <1>1, <1>a, <1>b, <2>1, <2>2, SpeakOne, Ranks, EventTypes
  <1>13. CASE Complete(r)
    <2>1. /\ pc[r] = "run_complete" /\ pc'[r] = "corpus"
          /\ Emit(r, <<RunComplete("succeeded")>>)
      BY <1>0, <1>13 DEF Complete
    <2>2. StageRank(pc[r]) = 12 /\ StageRank(pc'[r]) = 13
      BY <2>1 DEF StageRank, RustStages
    <2> QED
      BY <1>1, <1>c, <2>1, <2>2, SpeakOne, Ranks, EventTypes
  <1>14. CASE CloseFailed(r)
    <2>1. /\ pc[r] = "failing" /\ pc'[r] = "failed_closed"
          /\ Emit(r, <<RunComplete("failed")>>)
      BY <1>0, <1>14 DEF CloseFailed
    <2>2. StageRank(pc[r]) = 7 /\ StageRank(pc'[r]) = 13
      BY <2>1 DEF StageRank, RustStages
    <2> QED
      BY <1>1, <1>c, <2>1, <2>2, SpeakOne, Ranks, EventTypes
  <1> QED
    BY <1>2, <1>3, <1>4, <1>5, <1>6, <1>7, <1>8, <1>9, <1>10, <1>11, <1>12, <1>13, <1>14 DEF Step

Before(e, f) ==
  \/ Rank(e) < Rank(f)
  \/ e.type = f.type /\ e.type = TupleType /\ e.idx < f.idx

Ordered(T, s) ==
  \A a, b \in T : /\ a.n <= s
                  /\ a.n = b.n => a = b
                  /\ a.n < b.n => Before(a.ev, b.ev)

\* The rows of the events of a step that the sink did not lose.
NewRows(evs, s, lost) == {[n |-> s + i, ev |-> evs[i]] : i \in (1 .. Len(evs)) \ lost}

LEMMA RowsAppended ==
  ASSUME NEW T \in SUBSET Row, NEW s \in Nat, NEW evs \in Seq(Event), NEW lost,
         Ordered(T, s),
         \A a \in T : \A i \in 1 .. Len(evs) : Before(a.ev, evs[i]),
         \A i, j \in 1 .. Len(evs) : i < j => Before(evs[i], evs[j])
  PROVE  Ordered(T \cup NewRows(evs, s, lost), s + Len(evs))
  <1>1. \A a \in T : a.n \in Nat /\ a.n <= s
    BY DEF Ordered, Row
  <1>2. \A b \in NewRows(evs, s, lost) :
          \E i \in 1 .. Len(evs) : b = [n |-> s + i, ev |-> evs[i]] /\ b.n = s + i /\ b.ev = evs[i]
    BY DEF NewRows
  <1>3. Len(evs) \in Nat
    OBVIOUS
  <1> SUFFICES ASSUME NEW a \in T \cup NewRows(evs, s, lost),
                      NEW b \in T \cup NewRows(evs, s, lost)
               PROVE  /\ a.n <= s + Len(evs)
                      /\ a.n = b.n => a = b
                      /\ a.n < b.n => Before(a.ev, b.ev)
    BY DEF Ordered
  <1>4. CASE a \in T /\ b \in T
    BY <1>1, <1>3, <1>4 DEF Ordered
  <1>5. CASE a \in T /\ b \in NewRows(evs, s, lost)
    <2>1. PICK i \in 1 .. Len(evs) : b.n = s + i /\ b.ev = evs[i]
      BY <1>2, <1>5
    <2>2. a.n < b.n /\ Before(a.ev, b.ev) /\ a.n <= s + Len(evs) /\ a.n # b.n
      BY <1>1, <1>3, <1>5, <2>1
    <2> QED
      BY <2>2
  <1>6. CASE a \in NewRows(evs, s, lost) /\ b \in T
    <2>1. PICK i \in 1 .. Len(evs) : a.n = s + i /\ a.ev = evs[i]
      BY <1>2, <1>6
    <2>2. b.n \in Nat /\ b.n <= s
      BY <1>1, <1>6
    <2> QED
      BY <1>3, <2>1, <2>2
  <1>7. CASE a \in NewRows(evs, s, lost) /\ b \in NewRows(evs, s, lost)
    <2>1. PICK i \in 1 .. Len(evs) : a = [n |-> s + i, ev |-> evs[i]] /\ a.n = s + i /\ a.ev = evs[i]
      BY <1>2, <1>7
    <2>2. PICK j \in 1 .. Len(evs) : b = [n |-> s + j, ev |-> evs[j]] /\ b.n = s + j /\ b.ev = evs[j]
      BY <1>2, <1>7
    <2>3. a.n <= s + Len(evs)
      BY <1>3, <2>1
    <2>4. a.n = b.n => a = b
      <3>1. a.n = b.n => i = j
        BY <2>1, <2>2
      <3> QED
        BY <2>1, <2>2, <3>1
    <2>5. a.n < b.n => Before(a.ev, b.ev)
      <3>1. a.n < b.n => i < j
        BY <2>1, <2>2
      <3> QED
        BY <2>1, <2>2, <3>1
    <2> QED
      BY <2>3, <2>4, <2>5
  <1> QED
    BY <1>4, <1>5, <1>6, <1>7

\* Whatever the sink loses of the events of a step: the rows stay in order, a new
\* row is one of the events, and nothing happens to the rows of other runs.
LEMMA EmitOrdered ==
  ASSUME trace \in [Runs -> SUBSET Row], seq \in [Runs -> Nat],
         NEW r \in Runs, NEW evs \in Seq(Event), Emit(r, evs), Ordered(trace[r], seq[r]),
         \A a \in trace[r] : \A i \in 1 .. Len(evs) : Before(a.ev, evs[i]),
         \A i, j \in 1 .. Len(evs) : i < j => Before(evs[i], evs[j])
  PROVE  /\ Ordered(trace'[r], seq'[r])
         /\ \A row \in trace'[r] : row \in trace[r] \/ \E i \in 1 .. Len(evs) : row.ev = evs[i]
         /\ \A q \in Runs \ {r} : trace'[q] = trace[q] /\ seq'[q] = seq[q]
  <1>1. CASE ~HasSink[r]
    BY <1>1 DEF Emit
  <1>2. CASE HasSink[r]
    <2>1. PICK lost \in SUBSET (1 .. Len(evs)) :
            /\ trace' = [trace EXCEPT ![r] = @ \cup NewRows(evs, seq[r], lost)]
            /\ seq' = [seq EXCEPT ![r] = @ + Len(evs)]
      BY <1>2 DEF Emit, NewRows
    <2>2. trace'[r] = trace[r] \cup NewRows(evs, seq[r], lost) /\ seq'[r] = seq[r] + Len(evs)
      BY <2>1
    <2>3. Ordered(trace'[r], seq'[r])
      BY <2>2, RowsAppended
    <2>4. \A row \in NewRows(evs, seq[r], lost) : \E i \in 1 .. Len(evs) : row.ev = evs[i]
      BY DEF NewRows
    <2> QED
      BY <2>1, <2>2, <2>3, <2>4
  <1> QED
    BY <1>1, <1>2

\* What the rows of a run that is at a stage, and at tuple c of its loop, can be.
Past(T, stage, c) ==
  \A a \in T : /\ Rank(a.ev) <= StageRank(stage)
               /\ a.ev.type = TupleType => a.ev.idx < c

RowsInv == \A r \in Runs : Ordered(trace[r], seq[r]) /\ Past(trace[r], pc[r], cursor[r])

LEMMA RankInt == /\ \A ev \in Event : Rank(ev) \in Int
                 /\ \A stage : StageRank(stage) \in Int
  BY RankTypes DEF StageRank

\* A step of run r that leaves the other runs alone.
LEMMA RowsOfOne ==
  ASSUME RowsInv, NEW r \in Runs, Ordered(trace'[r], seq'[r]), Past(trace'[r], pc'[r], cursor'[r]),
         \A q \in Runs \ {r} : /\ trace'[q] = trace[q] /\ seq'[q] = seq[q]
                               /\ pc'[q] = pc[q] /\ cursor'[q] = cursor[q]
  PROVE  RowsInv'
  BY DEF RowsInv

LEMMA RowsStep == TypeOK /\ RowsInv /\ [Next]_vars => RowsInv'
  <1> SUFFICES ASSUME TypeOK, RowsInv, [Next]_vars PROVE RowsInv'
    OBVIOUS
  <1>0. /\ trace \in [Runs -> SUBSET Row] /\ seq \in [Runs -> Nat] /\ cursor \in [Runs -> Nat]
        /\ pc \in [Runs -> Stage]
    BY DEF TypeOK
  <1>1. ASSUME NEW r \in Runs, Start(r) \/ Step(r) \/ Kill(r), ~EmitTuple(r) PROVE RowsInv'
    <2>1. /\ cursor' = cursor /\ (Silent(r) \/ Speaking(r))
          /\ \A q \in Runs \ {r} : pc'[q] = pc[q]
      BY <1>1, StepSpeaks, OthersStay
    <2>2. /\ Ordered(trace[r], seq[r]) /\ Past(trace[r], pc[r], cursor[r])
          /\ \A a \in trace[r] : a.ev \in Event
      BY <1>0 DEF RowsInv, Row
    <2>3. CASE Silent(r)
      <3>1. Past(trace[r], pc'[r], cursor[r])
        BY <2>2, <2>3, RankInt DEF Past, Silent
      <3> QED
        BY <2>1, <2>2, <2>3, <3>1, RowsOfOne DEF Silent
    <2>4. CASE Speaking(r)
      <3>1. PICK evs \in Seq(Event) :
              Emit(r, evs) /\ Forward(evs, StageRank(pc[r]), StageRank(pc'[r]), pc'[r])
        BY <2>4 DEF Speaking
      <3>2. \A i \in 1 .. Len(evs) : evs[i] \in Event /\ evs[i].type # TupleType
        <4> SUFFICES ASSUME NEW i \in 1 .. Len(evs) PROVE evs[i] \in Event /\ evs[i].type # TupleType
          OBVIOUS
        <4>1. evs[i] \in Event
          OBVIOUS
        <4>2. Rank(evs[i]) # 12
          BY <3>1 DEF Forward
        <4> QED
          BY <4>1, <4>2, RankTypes
      <3>3. \A a \in trace[r] : \A i \in 1 .. Len(evs) : Before(a.ev, evs[i])
        <4> SUFFICES ASSUME NEW a \in trace[r], NEW i \in 1 .. Len(evs) PROVE Rank(a.ev) < Rank(evs[i])
          BY DEF Before
        <4>1. Rank(a.ev) <= StageRank(pc[r]) /\ StageRank(pc[r]) < Rank(evs[i])
          BY <2>2, <3>1 DEF Past, Forward
        <4> QED
          BY <2>2, <3>2, <4>1, RankInt
      <3>4. \A i, j \in 1 .. Len(evs) : i < j => Before(evs[i], evs[j])
        BY <3>1 DEF Forward, Before
      <3>5. /\ Ordered(trace'[r], seq'[r])
            /\ \A row \in trace'[r] : row \in trace[r] \/ \E i \in 1 .. Len(evs) : row.ev = evs[i]
            /\ \A q \in Runs \ {r} : trace'[q] = trace[q] /\ seq'[q] = seq[q]
        BY <1>0, <2>2, <3>1, <3>3, <3>4, EmitOrdered
      <3>6. Past(trace'[r], pc'[r], cursor'[r])
        <4> SUFFICES ASSUME NEW a \in trace'[r]
                     PROVE  /\ Rank(a.ev) <= StageRank(pc'[r])
                            /\ a.ev.type = TupleType => a.ev.idx < cursor'[r]
          BY DEF Past
        <4>1. CASE a \in trace[r]
          <5>1. /\ Rank(a.ev) <= StageRank(pc[r])
                /\ a.ev.type = TupleType => a.ev.idx < cursor'[r]
            BY <2>1, <2>2, <4>1 DEF Past
          <5> QED
            BY <2>2, <2>4, <4>1, <5>1, RankInt DEF Speaking
        <4>2. CASE \E i \in 1 .. Len(evs) : a.ev = evs[i]
          <5>1. PICK i \in 1 .. Len(evs) : a.ev = evs[i]
            BY <4>2
          <5>2. Rank(evs[i]) <= StageRank(pc'[r])
            BY <3>1 DEF Forward
          <5> QED
            BY <3>2, <5>1, <5>2
        <4> QED
          BY <3>5, <4>1, <4>2
      <3> QED
        BY <2>1, <3>5, <3>6, RowsOfOne
    <2> QED
      BY <2>1, <2>3, <2>4
  <1>2. ASSUME NEW r \in Runs, EmitTuple(r) PROVE RowsInv'
    <2> DEFINE c == cursor[r]
               ev == TupleEvent(c, DiffFound(r, c))
    <2>1. /\ pc[r] = "tuple_events" /\ cursor' = [cursor EXCEPT ![r] = @ + 1]
          /\ pc' = pc
          /\ \/ Emitted(r, c) /\ Emit(r, <<ev>>)
             \/ UNCHANGED <<trace, seq>>
      BY <1>2, Zenon DEF EmitTuple
    <2>2. c \in Nat /\ cursor'[r] = c + 1 /\ \A q \in Runs \ {r} : cursor'[q] = cursor[q]
      BY <1>0, <2>1
    <2>3. /\ Ordered(trace[r], seq[r]) /\ Past(trace[r], pc[r], c)
          /\ \A a \in trace[r] : a.ev \in Event
      BY <1>0 DEF RowsInv, Row
    <2>4. \A a \in trace[r] : a.ev.type = TupleType => a.ev.idx \in Nat
      <3>1. \A e \in Event : e.type = TupleType => e.idx \in Nat
        BY DEF Event, RunStart, TupleType
      <3> QED
        BY <2>3, <3>1
    <2>5. Past(trace[r], pc'[r], c + 1)
      BY <2>1, <2>2, <2>3, <2>4 DEF Past
    <2>6. CASE UNCHANGED <<trace, seq>>
      BY <2>1, <2>2, <2>3, <2>5, <2>6, RowsOfOne
    <2>7. CASE Emit(r, <<ev>>)
      <3>1. ev \in Event /\ Rank(ev) = 12 /\ ev.type = TupleType /\ ev.idx = c
        <4>1. DiffFound(r, c) \in BOOLEAN
          BY DEF DiffFound
        <4>2. TupleEvent(c, DiffFound(r, c)) \in Event
          BY <2>2, <4>1, EventTypes
        <4>3. Rank(ev) = 12
          BY Ranks
        <4> QED
          BY <4>2, <4>3 DEF TupleEvent, TupleType
      <3> HIDE DEF ev
      <3>2. <<ev>> \in Seq(Event) /\ Len(<<ev>>) = 1 /\ <<ev>>[1] = ev /\ 1 .. 1 = {1}
        BY <3>1
      <3>3. \A a \in trace[r] : Before(a.ev, ev)
        <4> SUFFICES ASSUME NEW a \in trace[r] PROVE Before(a.ev, ev)
          OBVIOUS
        <4>1. /\ Rank(a.ev) \in Int /\ Rank(a.ev) <= 12
              /\ a.ev.type = TupleType => a.ev.idx < c
              /\ Rank(a.ev) = 12 => a.ev.type = TupleType
          BY <2>1, <2>3, RankTypes DEF Past, StageRank, RustStages
        <4> QED
          BY <3>1, <4>1 DEF Before
      <3>4. /\ Ordered(trace'[r], seq'[r])
            /\ \A row \in trace'[r] : row \in trace[r] \/ row.ev = ev
            /\ \A q \in Runs \ {r} : trace'[q] = trace[q] /\ seq'[q] = seq[q]
        <4>1. /\ \A a \in trace[r] : \A i \in 1 .. Len(<<ev>>) : Before(a.ev, <<ev>>[i])
              /\ \A i, j \in 1 .. Len(<<ev>>) : i < j => Before(<<ev>>[i], <<ev>>[j])
          BY <3>2, <3>3
        <4>2. /\ Ordered(trace'[r], seq'[r])
              /\ \A row \in trace'[r] : row \in trace[r] \/ \E i \in 1 .. Len(<<ev>>) : row.ev = <<ev>>[i]
              /\ \A q \in Runs \ {r} : trace'[q] = trace[q] /\ seq'[q] = seq[q]
          BY <1>0, <2>3, <2>7, <3>2, <4>1, EmitOrdered
        <4> QED
          BY <3>2, <4>2
      <3>5. Past(trace'[r], pc'[r], c + 1)
        BY <2>1, <2>2, <2>5, <3>1, <3>4 DEF Past, StageRank, RustStages
      <3> QED
        BY <2>1, <2>2, <3>4, <3>5, RowsOfOne
    <2> QED
      BY <2>1, <2>6, <2>7
  <1>3. CASE UNCHANGED vars
    BY <1>3 DEF vars, RowsInv
  <1> QED
    BY <1>1, <1>2, <1>3 DEF Next, Step

LEMMA RowsAlways == Spec => []RowsInv
  <1>1. Init => RowsInv
    BY DEF Init, RowsInv, Ordered, Past
  <1> QED
    BY <1>1, RowsStep, TypeCorrect, PTL DEF Spec

\* Whatever events the sink loses, the rows it has, read by their numbers, tell
\* the run in its order, and no number is used twice.
THEOREM RowsAreInOrder == Spec => []RowsInOrder
  <1>1. RowsInv => RowsInOrder
    BY DEF RowsInv, Ordered, Before, RowsInOrder, TupleType
  <1> QED
    BY <1>1, RowsAlways, PTL

-----------------------------------------------------------------------------
\* The events the sink lost, and the end the rows show

Loss(T, s) == s - Cardinality(T)

Shows(T, ev) == \E row \in T : row.ev = ev

LEMMA NewRowsFew ==
  ASSUME NEW evs \in Seq(Event), NEW s \in Nat, NEW lost \in SUBSET (1 .. Len(evs))
  PROVE  /\ IsFiniteSet(NewRows(evs, s, lost)) /\ IsFiniteSet(lost)
         /\ Cardinality(NewRows(evs, s, lost)) <= Len(evs) - Cardinality(lost)
  <1> DEFINE S == (1 .. Len(evs)) \ lost
             T == NewRows(evs, s, lost)
             f == [i \in S |-> [n |-> s + i, ev |-> evs[i]]]
  <1>1. Len(evs) \in Nat /\ 1 \in Int /\ Len(evs) \in Int
    OBVIOUS
  <1>2. IsFiniteSet(1 .. Len(evs)) /\ Cardinality(1 .. Len(evs)) = Len(evs)
    <2>1. /\ IsFiniteSet(1 .. Len(evs))
          /\ Cardinality(1 .. Len(evs)) = IF 1 > Len(evs) THEN 0 ELSE Len(evs) - 1 + 1
      BY <1>1, FS_Interval
    <2> QED
      BY <1>1, <2>1
  <1>3. (1 .. Len(evs)) \cap lost = lost
    OBVIOUS
  <1>4. IsFiniteSet(S) /\ Cardinality(S) = Len(evs) - Cardinality(lost)
    BY <1>2, <1>3, FS_Difference
  <1>5. IsFiniteSet(lost)
    BY <1>2, FS_Subset
  <1>6. f \in Surjection(S, T)
    <2>1. f \in [S -> T]
      BY DEF NewRows
    <2>2. \A t \in T : \E i \in S : f[i] = t
      BY DEF NewRows
    <2> QED
      BY <2>1, <2>2 DEF Surjection
  <1> HIDE DEF S, T, f
  <1>7. IsFiniteSet(T) /\ Cardinality(T) <= Cardinality(S)
    BY <1>4, <1>6, FS_Surjection
  <1> QED
    BY <1>4, <1>5, <1>7 DEF T

\* A row is missing only where an event is counted as lost.
LEMMA EmitLoses ==
  ASSUME trace \in [Runs -> SUBSET Row], seq \in [Runs -> Nat],
         NEW r \in Runs, NEW evs \in Seq(Event), Emit(r, evs), IsFiniteSet(trace[r])
  PROVE  /\ IsFiniteSet(trace'[r]) /\ trace[r] \subseteq trace'[r]
         /\ Loss(trace[r], seq[r]) \in Int /\ Loss(trace'[r], seq'[r]) \in Int
         /\ Loss(trace[r], seq[r]) <= Loss(trace'[r], seq'[r])
         /\ \A row \in trace'[r] : row \in trace[r] \/ \E i \in 1 .. Len(evs) : row.ev = evs[i]
         /\ HasSink[r] => \A i \in 1 .. Len(evs) :
              Shows(trace'[r], evs[i]) \/ Loss(trace[r], seq[r]) < Loss(trace'[r], seq'[r])
         /\ \A q \in Runs \ {r} : trace'[q] = trace[q] /\ seq'[q] = seq[q]
  <1>0. Cardinality(trace[r]) \in Nat /\ seq[r] \in Nat
    BY FS_CardinalityType
  <1>1. CASE ~HasSink[r]
    BY <1>0, <1>1 DEF Emit, Loss
  <1>2. CASE HasSink[r]
    <2>1. PICK lost \in SUBSET (1 .. Len(evs)) :
            /\ trace' = [trace EXCEPT ![r] = @ \cup NewRows(evs, seq[r], lost)]
            /\ seq' = [seq EXCEPT ![r] = @ + Len(evs)]
      BY <1>2 DEF Emit, NewRows
    <2> DEFINE new == NewRows(evs, seq[r], lost)
    <2>2. /\ trace'[r] = trace[r] \cup new /\ seq'[r] = seq[r] + Len(evs)
          /\ \A q \in Runs \ {r} : trace'[q] = trace[q] /\ seq'[q] = seq[q]
      BY <2>1
    <2>3. /\ IsFiniteSet(new) /\ IsFiniteSet(lost)
          /\ Cardinality(new) <= Len(evs) - Cardinality(lost)
      BY <1>0, NewRowsFew
    <2>4. /\ \A row \in new : \E i \in 1 .. Len(evs) : row.ev = evs[i]
          /\ \A i \in (1 .. Len(evs)) \ lost : \E row \in new : row.ev = evs[i]
      <3>1. \A row \in new : \E i \in 1 .. Len(evs) : row.ev = evs[i]
        BY DEF NewRows
      <3>2. ASSUME NEW i \in (1 .. Len(evs)) \ lost PROVE \E row \in new : row.ev = evs[i]
        <4>1. [n |-> seq[r] + i, ev |-> evs[i]] \in new
          BY DEF NewRows
        <4>2. [n |-> seq[r] + i, ev |-> evs[i]].ev = evs[i]
          OBVIOUS
        <4> QED
          BY <4>1, <4>2
      <3> QED
        BY <3>1, <3>2
    <2> HIDE DEF new
    <2>5. /\ IsFiniteSet(trace[r] \cup new)
          /\ Cardinality(trace[r] \cup new)
               = Cardinality(trace[r]) + Cardinality(new) - Cardinality(trace[r] \cap new)
      BY <2>3, FS_Union
    <2>6. IsFiniteSet(trace[r] \cap new)
      BY FS_Subset
    <2>7. /\ Cardinality(trace[r] \cup new) \in Nat /\ Cardinality(trace[r] \cap new) \in Nat
          /\ Cardinality(new) \in Nat /\ Cardinality(lost) \in Nat
      BY <2>3, <2>5, <2>6, FS_CardinalityType
    <2>8. /\ Loss(trace[r], seq[r]) \in Int /\ Loss(trace'[r], seq'[r]) \in Int
          /\ Loss(trace[r], seq[r]) + Cardinality(lost) <= Loss(trace'[r], seq'[r])
      BY <1>0, <2>2, <2>3, <2>5, <2>7 DEF Loss
    <2>9. ASSUME NEW i \in 1 .. Len(evs)
          PROVE  Shows(trace'[r], evs[i]) \/ Loss(trace[r], seq[r]) < Loss(trace'[r], seq'[r])
      <3>1. CASE i \in lost
        <4>1. Cardinality(lost) # 0
          BY <2>3, <3>1, FS_EmptySet
        <4> QED
          BY <2>7, <2>8, <4>1
      <3>2. CASE i \notin lost
        BY <2>2, <2>4, <3>2 DEF Shows
      <3> QED
        BY <3>1, <3>2
    <2>10. /\ IsFiniteSet(trace'[r]) /\ trace[r] \subseteq trace'[r]
           /\ \A row \in trace'[r] : row \in trace[r] \/ \E i \in 1 .. Len(evs) : row.ev = evs[i]
      BY <2>2, <2>4, <2>5
    <2>11. Loss(trace[r], seq[r]) <= Loss(trace'[r], seq'[r])
      BY <2>7, <2>8
    <2> QED
      BY <2>2, <2>8, <2>9, <2>10, <2>11
  <1> QED
    BY <1>1, <1>2

\* A run that has ended takes no step.
LEMMA StepsAreActive ==
  ASSUME NEW r \in Runs, Start(r) \/ Step(r) \/ Kill(r), ~EmitTuple(r)
  PROVE  pc[r] \notin Ended
  BY DEF Ended, Step, Start, TruncateFixtures, WriteFixtures, FixturesRaise, SampleTuples,
     NoTuples, SampleRaise, BuildGoHarness, BuildFails, CloseFailed, ExitFailed,
     RaiseUncaught, WriteGoInput,
     FlushGoInput, RunGoBatch, WriteRustInput, FlushRustInput, RunRustBatch, Summarise,
     EmitTuplesDone, Complete, NoCorpus, TruncateCorpus, WriteCorpus, Kill

\* What the rows T of a run at a stage, with a sink or without, show of its end.
EndShown(T, s, stage, sink) ==
  /\ IsFiniteSet(T) /\ Loss(T, s) >= 0
  /\ Shows(T, RunComplete("succeeded")) =>
        stage \in {"corpus", "corpus_torn", "exit0", "raised", "killed"}
  /\ Shows(T, RunComplete("failed")) =>
        stage \in {"failed_closed", "exit1", "raised", "killed"}
  /\ sink /\ stage \in {"corpus", "corpus_torn", "exit0"} =>
        Shows(T, RunComplete("succeeded")) \/ Loss(T, s) > 0
  /\ sink /\ stage \in {"failed_closed", "exit1"} =>
        Shows(T, RunComplete("failed")) \/ Loss(T, s) > 0

EndsInv == \A r \in Runs : EndShown(trace[r], seq[r], pc[r], HasSink[r])

LEMMA EndsStep == TypeOK /\ EndsInv /\ [Next]_vars => EndsInv'
  <1> SUFFICES ASSUME TypeOK, EndsInv, [Next]_vars PROVE EndsInv'
    OBVIOUS
  <1>0. trace \in [Runs -> SUBSET Row] /\ seq \in [Runs -> Nat]
    BY DEF TypeOK
  <1>1. ASSUME NEW r \in Runs, EndShown(trace'[r], seq'[r], pc'[r], HasSink[r]),
               \A q \in Runs \ {r} : trace'[q] = trace[q] /\ seq'[q] = seq[q] /\ pc'[q] = pc[q]
        PROVE  EndsInv'
    <2> SUFFICES ASSUME NEW q \in Runs PROVE EndShown(trace'[q], seq'[q], pc'[q], HasSink[q])
      BY DEF EndsInv
    <2>1. CASE q = r
      BY <1>1, <2>1
    <2>2. CASE q # r
      <3>1. trace'[q] = trace[q] /\ seq'[q] = seq[q] /\ pc'[q] = pc[q]
        BY <1>1, <2>2
      <3> QED
        BY <3>1 DEF EndsInv
    <2> QED
      BY <2>1, <2>2
  <1>2. ASSUME NEW r \in Runs, Start(r) \/ Step(r) \/ Kill(r), ~EmitTuple(r), Silent(r) PROVE EndsInv'
    <2>1. EndShown(trace[r], seq[r], pc[r], HasSink[r])
      BY DEF EndsInv
    <2>2. /\ trace' = trace /\ seq' = seq /\ pc'[r] \notin {"corpus", "failed_closed"}
          /\ pc'[r] \in {"corpus_torn", "exit0"} => pc[r] \in {"corpus", "corpus_torn"}
          /\ pc'[r] = "exit1" => pc[r] = "failed_closed"
          /\ pc[r] = "failed_closed" => pc'[r] \in {"exit1", "raised", "killed"}
          /\ pc[r] \in {"corpus", "corpus_torn"} => pc'[r] \in {"corpus_torn", "exit0", "raised", "killed"}
      BY <1>2 DEF Silent
    <2>3. pc[r] \notin Ended
      BY <1>2, StepsAreActive
    <2>4. EndShown(trace[r], seq[r], pc'[r], HasSink[r])
      BY <2>1, <2>2, <2>3 DEF EndShown, Ended
    <2> QED
      BY <1>1, <1>2, <2>2, <2>4, OthersStay
  <1>3. ASSUME NEW r \in Runs, Start(r) \/ Step(r) \/ Kill(r), ~EmitTuple(r), Speaking(r) PROVE EndsInv'
    <2>1. EndShown(trace[r], seq[r], pc[r], HasSink[r])
      BY DEF EndsInv
    <2>2. PICK evs \in Seq(Event) :
            Emit(r, evs) /\ Forward(evs, StageRank(pc[r]), StageRank(pc'[r]), pc'[r])
      BY <1>3 DEF Speaking
    <2>3. /\ IsFiniteSet(trace'[r]) /\ trace[r] \subseteq trace'[r]
          /\ Loss(trace[r], seq[r]) \in Int /\ Loss(trace'[r], seq'[r]) \in Int
          /\ Loss(trace[r], seq[r]) <= Loss(trace'[r], seq'[r])
          /\ \A row \in trace'[r] : row \in trace[r] \/ \E i \in 1 .. Len(evs) : row.ev = evs[i]
          /\ HasSink[r] => \A i \in 1 .. Len(evs) :
               Shows(trace'[r], evs[i]) \/ Loss(trace[r], seq[r]) < Loss(trace'[r], seq'[r])
          /\ \A q \in Runs \ {r} : trace'[q] = trace[q] /\ seq'[q] = seq[q]
      <3>1. IsFiniteSet(trace[r])
        BY <2>1 DEF EndShown
      <3> QED
        BY <1>0, <2>2, <3>1, EmitLoses
    <2>4. /\ pc[r] \notin Closed /\ pc[r] \notin Ended
          /\ pc'[r] \notin {"corpus_torn", "exit0", "exit1"}
      BY <1>3, StepsAreActive DEF Speaking
    <2>5. ~Shows(trace[r], RunComplete("succeeded")) /\ ~Shows(trace[r], RunComplete("failed"))
      BY <2>1, <2>4 DEF EndShown, Ended, Closed
    <2>6. /\ Shows(trace'[r], RunComplete("succeeded")) => pc'[r] = "corpus"
          /\ Shows(trace'[r], RunComplete("failed")) => pc'[r] = "failed_closed"
      BY <2>2, <2>3, <2>5 DEF Shows, Forward
    <2>7. Loss(trace[r], seq[r]) >= 0
      BY <2>1 DEF EndShown
    <2>8. /\ HasSink[r] /\ pc'[r] = "corpus" =>
               Shows(trace'[r], RunComplete("succeeded")) \/ Loss(trace'[r], seq'[r]) > 0
          /\ HasSink[r] /\ pc'[r] = "failed_closed" =>
               Shows(trace'[r], RunComplete("failed")) \/ Loss(trace'[r], seq'[r]) > 0
      <3>1. HasSink[r] => \A i \in 1 .. Len(evs) :
               Shows(trace'[r], evs[i]) \/ Loss(trace'[r], seq'[r]) > 0
        BY <2>3, <2>7
      <3> QED
        BY <2>2, <3>1 DEF Forward
    <2>9. Loss(trace'[r], seq'[r]) >= 0
      BY <2>3, <2>7
    <2>10. EndShown(trace'[r], seq'[r], pc'[r], HasSink[r])
      BY <2>3, <2>4, <2>6, <2>8, <2>9 DEF EndShown
    <2> QED
      BY <1>1, <1>3, <2>3, <2>10, OthersStay
  <1>4. ASSUME NEW r \in Runs, EmitTuple(r) PROVE EndsInv'
    <2> DEFINE ev == TupleEvent(cursor[r], DiffFound(r, cursor[r]))
    <2>1. /\ pc[r] = "tuple_events" /\ pc' = pc
          /\ \/ Emit(r, <<ev>>)
             \/ UNCHANGED <<trace, seq>>
      BY <1>4, Zenon DEF EmitTuple
    <2>2. EndShown(trace[r], seq[r], pc[r], HasSink[r])
      BY DEF EndsInv
    <2>3. CASE UNCHANGED <<trace, seq>>
      BY <1>1, <2>1, <2>2, <2>3
    <2>4. CASE Emit(r, <<ev>>)
      <3>1. ev \in Event /\ ev # RunComplete("succeeded") /\ ev # RunComplete("failed")
        <4>1. DiffFound(r, cursor[r]) \in BOOLEAN /\ cursor[r] \in Nat
          BY DEF DiffFound, TypeOK
        <4>2. TupleEvent(cursor[r], DiffFound(r, cursor[r])) \in Event
          BY <4>1, EventTypes
        <4>3. Rank(ev) = 12
          BY Ranks
        <4> QED
          BY <4>2, <4>3, Ranks
      <3> HIDE DEF ev
      <3>2. <<ev>> \in Seq(Event) /\ Len(<<ev>>) = 1 /\ <<ev>>[1] = ev /\ 1 .. 1 = {1}
        BY <3>1
      <3>3. IsFiniteSet(trace[r]) /\ Loss(trace[r], seq[r]) >= 0
        BY <2>2 DEF EndShown
      <3>4. /\ IsFiniteSet(trace'[r]) /\ trace[r] \subseteq trace'[r]
            /\ Loss(trace[r], seq[r]) \in Int /\ Loss(trace'[r], seq'[r]) \in Int
            /\ Loss(trace[r], seq[r]) <= Loss(trace'[r], seq'[r])
            /\ \A row \in trace'[r] : row \in trace[r] \/ \E i \in 1 .. Len(<<ev>>) : row.ev = <<ev>>[i]
            /\ \A q \in Runs \ {r} : trace'[q] = trace[q] /\ seq'[q] = seq[q]
        BY <1>0, <2>4, <3>2, <3>3, EmitLoses
      <3>5. \A row \in trace'[r] : row \in trace[r] \/ row.ev = ev
        BY <3>2, <3>4
      <3>6. ~Shows(trace[r], RunComplete("succeeded")) /\ ~Shows(trace[r], RunComplete("failed"))
        BY <2>1, <2>2 DEF EndShown
      <3>7. ~Shows(trace'[r], RunComplete("succeeded")) /\ ~Shows(trace'[r], RunComplete("failed"))
        BY <3>1, <3>5, <3>6 DEF Shows
      <3>8. Loss(trace'[r], seq'[r]) >= 0
        BY <3>3, <3>4
      <3>9. EndShown(trace'[r], seq'[r], pc'[r], HasSink[r])
        BY <2>1, <3>4, <3>7, <3>8 DEF EndShown
      <3> QED
        BY <1>1, <2>1, <3>4, <3>9
    <2> QED
      BY <2>1, <2>3, <2>4
  <1>5. CASE UNCHANGED vars
    BY <1>5 DEF vars, EndsInv
  <1> QED
    BY <1>2, <1>3, <1>4, <1>5, StepSpeaks DEF Next, Step

LEMMA EndsAlways == Spec => []EndsInv
  <1>1. Init => EndsInv
    <2> SUFFICES ASSUME Init, NEW r \in Runs PROVE EndShown(trace[r], seq[r], pc[r], HasSink[r])
      BY DEF EndsInv
    <2>1. trace[r] = {} /\ seq[r] = 0 /\ pc[r] = "idle" /\ IsFiniteSet({}) /\ Cardinality({}) = 0
      BY FS_EmptySet DEF Init
    <2> QED
      BY <2>1 DEF EndShown, Shows, Loss
  <1> QED
    BY <1>1, EndsStep, TypeCorrect, PTL DEF Spec

\* A run that shows a failed end has measured nothing.
FailedInv ==
  \A r \in Runs : Shows(trace[r], RunComplete("failed")) =>
      goDec[r] = <<>> /\ report[r] = NoReport

\* A step that takes a run to its death from a stage where it has measured
\* something, or has closed its trace, leaves all it has as it is.
LEMMA DeathsAreStill ==
  ASSUME TypeOK, NEW r \in Runs, Start(r) \/ Step(r) \/ Kill(r), pc'[r] \in {"raised", "killed"}
  PROVE  /\ goDec' = goDec /\ report' = report
         /\ trace' = trace \/ pc[r] \in Unmeasured
  <1> USE DEF TypeOK, Goto, verdicts, summary, Ended, Unmeasured
  <1>1. CASE RaiseUncaught(r) \/ Kill(r) \/ FixturesRaise(r) \/ SampleRaise(r)
    BY <1>1 DEF RaiseUncaught, Kill, FixturesRaise, SampleRaise
  <1>2. CASE EmitTuple(r)
    <2>1. pc' = pc /\ pc[r] = "tuple_events"
      BY <1>2, Zenon DEF EmitTuple
    <2> QED
      BY <2>1
  <1>3. CASE Start(r) \/ TruncateFixtures(r) \/ WriteFixtures(r) \/ SampleTuples(r)
             \/ NoTuples(r) \/ BuildGoHarness(r) \/ BuildFails(r) \/ CloseFailed(r)
             \/ ExitFailed(r) \/ WriteGoInput(r) \/ FlushGoInput(r)
    BY <1>3 DEF Start, TruncateFixtures, WriteFixtures, SampleTuples, NoTuples,
       BuildGoHarness, BuildFails, CloseFailed, ExitFailed, WriteGoInput, FlushGoInput
  <1>4. CASE RunGoBatch(r) \/ WriteRustInput(r) \/ FlushRustInput(r) \/ RunRustBatch(r)
             \/ Summarise(r) \/ EmitTuplesDone(r) \/ Complete(r) \/ NoCorpus(r)
             \/ TruncateCorpus(r) \/ WriteCorpus(r)
    BY <1>4 DEF RunGoBatch, WriteRustInput, FlushRustInput, RunRustBatch, Summarise,
       EmitTuplesDone, Complete, NoCorpus, TruncateCorpus, WriteCorpus
  <1> QED
    BY <1>1, <1>2, <1>3, <1>4 DEF Step

\* Only its own steps add to the rows of a run.
LEMMA RowsStay ==
  ASSUME TypeOK, NEW r \in Runs, Start(r) \/ Step(r) \/ Kill(r), NEW q \in Runs \ {r}
  PROVE  trace'[q] = trace[q]
  <1>1. ASSUME NEW evs, Emit(r, evs) PROVE trace'[q] = trace[q]
    <2>1. CASE HasSink[r]
      <3>1. PICK lost \in SUBSET (1 .. Len(evs)) :
              trace' = [trace EXCEPT ![r] = @ \cup NewRows(evs, seq[r], lost)]
        BY <1>1, <2>1 DEF Emit, NewRows
      <3> QED
        BY <3>1 DEF TypeOK
    <2>2. CASE ~HasSink[r]
      BY <1>1, <2>2 DEF Emit
    <2> QED
      BY <2>1, <2>2
  <1>2. CASE EmitTuple(r)
    <2>1. \/ Emit(r, <<TupleEvent(cursor[r], DiffFound(r, cursor[r]))>>)
          \/ UNCHANGED <<trace, seq>>
      BY <1>2, Zenon DEF EmitTuple
    <2> QED
      BY <1>1, <2>1
  <1>3. CASE ~EmitTuple(r)
    <2>1. Silent(r) \/ Speaking(r)
      BY <1>3, StepSpeaks
    <2>2. trace' = trace \/ \E evs : Emit(r, evs)
      BY <2>1, Zenon DEF Silent, Speaking
    <2> QED
      BY <1>1, <2>2
  <1> QED
    BY <1>2, <1>3

LEMMA FailedStep ==
  TypeOK /\ NothingYet /\ NothingYet' /\ EndsInv' /\ FailedInv /\ [Next]_vars => FailedInv'
  <1> SUFFICES ASSUME TypeOK, NothingYet, NothingYet', EndsInv', FailedInv, [Next]_vars
               PROVE  FailedInv'
    OBVIOUS
  <1>1. ASSUME NEW r \in Runs, Start(r) \/ Step(r) \/ Kill(r), NEW q \in Runs,
               Shows(trace'[q], RunComplete("failed"))
        PROVE  goDec'[q] = <<>> /\ report'[q] = NoReport
    <2>1. CASE q # r
      BY <1>1, <2>1, OthersStay, RowsStay DEF FailedInv
    <2>2. CASE q = r /\ pc'[r] \in {"failed_closed", "exit1"}
      BY <2>2 DEF NothingYet, Unmeasured
    <2>3. CASE q = r /\ pc'[r] \in {"raised", "killed"}
      BY <1>1, <2>3, DeathsAreStill DEF FailedInv, NothingYet
    <2>4. pc'[q] \in {"failed_closed", "exit1", "raised", "killed"}
      BY <1>1 DEF EndsInv, EndShown
    <2> QED
      BY <2>1, <2>2, <2>3, <2>4
  <1>2. CASE UNCHANGED vars
    BY <1>2 DEF vars, FailedInv
  <1> QED
    BY <1>1, <1>2 DEF Next, FailedInv

\* The end the trace store shows is the end the process has or had coming,
\* wherever it is cut short; a run shown as failed has measured nothing; and
\* with no event lost a run that returned an exit code shows the end that goes
\* with it.
THEOREM TraceEndsTell == Spec => []TraceEndsHonest
  <1>1. Init => FailedInv
    BY DEF Init, FailedInv, Shows
  <1>2. Spec => []FailedInv
    BY <1>1, FailedStep, NothingYetAlways, EndsAlways, TypeCorrect, PTL DEF Spec
  <1>3. EndsInv /\ FailedInv => TraceEndsHonest
    BY DEF EndsInv, FailedInv, EndShown, Shows, Loss, TraceEndsHonest, Closes, Lost
  <1> QED
    BY <1>2, <1>3, EndsAlways, PTL

-----------------------------------------------------------------------------
\* The disagreements in the rows and in the summary

FoundIn(T) == {row.ev.idx : row \in {x \in T : x.ev.type = TupleType /\ x.ev.diff_found}}

\* The tuples the event loop finds to disagree.
DiffSet(r) == {i \in Compared(r) : rustDec[r][i] # goDec[r][i]}

AfterLoop == {"run_complete", "corpus", "corpus_torn", "exit0"}

\* At tuple c of its loop a run, with disagreements D in its summary, has shown
\* them in its rows T up to that tuple, but for what the sink lost.
TuplesShown(T, s, stage, sink, c, D) ==
  /\ IsFiniteSet(D) /\ FoundIn(T) \subseteq D
  /\ StageRank(stage) <= 11 => c = 0
  /\ stage = "tuple_events" => Cardinality({i \in D : i < c} \ FoundIn(T)) <= Loss(T, s)
  /\ sink /\ stage \in AfterLoop => Cardinality(D \ FoundIn(T)) <= Loss(T, s)

TuplesInv ==
  \A r \in Runs :
    /\ TuplesShown(trace[r], seq[r], pc[r], HasSink[r], cursor[r], report[r].disagreements)
    /\ pc[r] = "tuple_events" => HasSink[r] /\ report[r].disagreements = DiffSet(r)

\* Only the summary leads into the loop, only the loop, or the summary of a run
\* without a sink, to the end of the run.
LEMMA IntoLoop ==
  ASSUME TypeOK, NEW r \in Runs, Start(r) \/ Step(r) \/ Kill(r), ~EmitTuple(r), ~Summarise(r)
  PROVE  /\ pc'[r] # "tuple_events"
         /\ pc'[r] = "run_complete" => EmitTuplesDone(r)
         /\ pc'[r] = "corpus" => pc[r] = "run_complete"
  BY DEF TypeOK, Goto, Step, Start, TruncateFixtures, WriteFixtures, FixturesRaise, SampleTuples,
     NoTuples, SampleRaise, BuildGoHarness, BuildFails, CloseFailed, ExitFailed,
     RaiseUncaught, WriteGoInput,
     FlushGoInput, RunGoBatch, WriteRustInput, FlushRustInput, RunRustBatch,
     EmitTuplesDone, Complete, NoCorpus, TruncateCorpus, WriteCorpus, Kill

LEMMA DiffSetFinite ==
  ASSUME TypeOK, NEW r \in Runs
  PROVE  /\ IsFiniteSet(DiffSet(r)) /\ DiffSet(r) \subseteq Nat
         /\ \A i \in DiffSet(r) : i < NTarget[r]
  <1>1. DiffSet(r) \subseteq sampled[r]
    BY DEF DiffSet, Compared
  <1>2. IsFiniteSet(DiffSet(r))
    BY <1>1, SampledIndices, FS_Subset
  <1> QED
    BY <1>1, <1>2, SampledIndices

\* A tuple is in that set exactly when the loop says so.
LEMMA LoopFindsDiffSet ==
  ASSUME TypeOK, NEW r \in Runs, NEW i
  PROVE  i \in DiffSet(r) <=> Emitted(r, i) /\ DiffFound(r, i)
  <1>1. Get(rustDec[r], i) # "missing" => i \in DOMAIN rustDec[r] /\ Get(rustDec[r], i) = rustDec[r][i]
    BY DEF Get
  <1>2. Get(goDec[r], i) # "missing" =>
          /\ i \in DOMAIN goDec[r] /\ Get(goDec[r], i) = goDec[r][i]
          /\ goDec[r][i] \in GoOutcome
    BY DEF Get, TypeOK, IsPartial
  <1>3. i \in DiffSet(r) <=>
          /\ i \in sampled[r]
          /\ IsDecision(Get(rustDec[r], i)) /\ IsDecision(Get(goDec[r], i))
          /\ rustDec[r][i] # goDec[r][i]
    BY DEF DiffSet, Compared
  <1>4. i \in sampled[r] /\ IsDecision(Get(rustDec[r], i)) /\ IsDecision(Get(goDec[r], i)) <=>
          Emitted(r, i) /\ "ERROR" \notin {rustDec[r][i], goDec[r][i]}
    BY <1>1, <1>2 DEF Emitted, IsDecision, GoOutcome
  <1> QED
    BY <1>3, <1>4 DEF DiffFound

\* Rows of the same tuples find the same.
LEMMA FoundSame ==
  ASSUME NEW T, NEW U, T \subseteq U, \A a \in U : a \in T \/ a.ev.type # TupleType
  PROVE  FoundIn(U) = FoundIn(T)
  BY DEF FoundIn

LEMMA FoundOne ==
  ASSUME NEW T, NEW U, NEW ev, T \subseteq U, \A a \in U : a \in T \/ a.ev = ev,
         ev.type = TupleType
  PROVE  /\ FoundIn(T) \subseteq FoundIn(U)
         /\ FoundIn(U) \subseteq FoundIn(T) \cup {ev.idx}
         /\ ~ev.diff_found => FoundIn(U) = FoundIn(T)
         /\ Shows(U, ev) /\ ev.diff_found => ev.idx \in FoundIn(U)
  BY DEF FoundIn, Shows

\* A set that is one element smaller or as large as another one.
LEMMA FewerThan ==
  ASSUME NEW S, IsFiniteSet(S), NEW x, NEW V, V \subseteq S \cup {x}
  PROVE  /\ Cardinality(S) \in Nat /\ Cardinality(V) \in Nat
         /\ Cardinality(V) <= Cardinality(S) + 1
         /\ x \notin V => Cardinality(V) <= Cardinality(S)
  <1>1. /\ IsFiniteSet(S \cup {x})
        /\ Cardinality(S \cup {x}) = IF x \in S THEN Cardinality(S) ELSE Cardinality(S) + 1
    BY FS_AddElement
  <1>2. IsFiniteSet(V) /\ Cardinality(V) <= Cardinality(S \cup {x})
    BY <1>1, FS_Subset
  <1>3. Cardinality(S) \in Nat /\ Cardinality(V) \in Nat
    BY <1>2, FS_CardinalityType
  <1>4. ASSUME x \notin V PROVE Cardinality(V) <= Cardinality(S)
    <2>1. V \subseteq S
      BY <1>4
    <2> QED
      BY <2>1, FS_Subset
  <1> QED
    BY <1>1, <1>2, <1>3, <1>4

LEMMA TuplesStep == TypeOK /\ RowsInv /\ EndsInv /\ TuplesInv /\ [Next]_vars => TuplesInv'
  <1> SUFFICES ASSUME TypeOK, RowsInv, EndsInv, TuplesInv, [Next]_vars PROVE TuplesInv'
    OBVIOUS
  <1>0. /\ trace \in [Runs -> SUBSET Row] /\ seq \in [Runs -> Nat] /\ cursor \in [Runs -> Nat]
        /\ pc \in [Runs -> Stage]
    BY DEF TypeOK
  <1>1. ASSUME NEW r \in Runs, Start(r) \/ Step(r) \/ Kill(r),
               \A q \in Runs \ {r} : trace'[q] = trace[q] /\ seq'[q] = seq[q],
               TuplesShown(trace'[r], seq'[r], pc'[r], HasSink[r], cursor'[r],
                           report'[r].disagreements),
               pc'[r] = "tuple_events" => HasSink[r] /\ report'[r].disagreements = DiffSet(r)'
        PROVE  TuplesInv'
    <2> SUFFICES ASSUME NEW q \in Runs
                 PROVE  /\ TuplesShown(trace'[q], seq'[q], pc'[q], HasSink[q], cursor'[q],
                                       report'[q].disagreements)
                        /\ pc'[q] = "tuple_events" =>
                              HasSink[q] /\ report'[q].disagreements = DiffSet(q)'
      BY DEF TuplesInv
    <2>1. CASE q = r
      BY <1>1, <2>1
    <2>2. CASE q # r
      <3>1. /\ trace'[q] = trace[q] /\ seq'[q] = seq[q] /\ pc'[q] = pc[q]
            /\ cursor'[q] = cursor[q] /\ report'[q] = report[q] /\ sampled'[q] = sampled[q]
            /\ goDec'[q] = goDec[q] /\ rustDec'[q] = rustDec[q]
        BY <1>1, <2>2, OthersStay
      <3>2. DiffSet(q)' = DiffSet(q)
        BY <3>1 DEF DiffSet, Compared, Get
      <3>3. /\ TuplesShown(trace[q], seq[q], pc[q], HasSink[q], cursor[q], report[q].disagreements)
            /\ pc[q] = "tuple_events" => HasSink[q] /\ report[q].disagreements = DiffSet(q)
        BY DEF TuplesInv
      <3> QED
        BY <3>1, <3>2, <3>3
    <2> QED
      BY <2>1, <2>2
  <1>2. ASSUME NEW r \in Runs, Summarise(r) PROVE TuplesInv'
    <2>1. /\ pc[r] = "summary" /\ trace' = trace /\ seq' = seq /\ cursor' = cursor
          /\ sampled' = sampled /\ goDec' = goDec /\ rustDec' = rustDec
          /\ pc'[r] = IF HasSink[r] THEN "tuple_events" ELSE "run_complete"
      BY <1>0, <1>2 DEF Summarise, Goto, verdicts
    <2>2. report'[r].disagreements = DiffSet(r)
      BY <1>2 DEF Summarise, DiffSet, TypeOK
    <2>3. DiffSet(r)' = DiffSet(r)
      BY <2>1 DEF DiffSet, Compared, Get
    <2>4. IsFiniteSet(DiffSet(r)) /\ DiffSet(r) \subseteq Nat
      BY DiffSetFinite
    <2>5. FoundIn(trace[r]) = {}
      <3>1. \A a \in trace[r] : a.ev \in Event /\ Rank(a.ev) <= 11
        BY <1>0, <2>1 DEF RowsInv, Past, StageRank, RustStages, Row
      <3>2. \A a \in trace[r] : a.ev.type # TupleType
        BY <3>1, RankTypes
      <3> QED
        BY <3>2 DEF FoundIn
    <2>6. cursor[r] = 0 /\ Loss(trace[r], seq[r]) >= 0
      <3>1. StageRank(pc[r]) <= 11
        BY <2>1 DEF StageRank, RustStages
      <3>2. TuplesShown(trace[r], seq[r], pc[r], HasSink[r], cursor[r], report[r].disagreements)
        BY DEF TuplesInv
      <3>3. EndShown(trace[r], seq[r], pc[r], HasSink[r])
        BY DEF EndsInv
      <3> QED
        BY <3>1, <3>2, <3>3 DEF TuplesShown, EndShown
    <2>7. {i \in DiffSet(r) : i < 0} = {} /\ Cardinality({}) = 0
      BY <2>4, FS_EmptySet
    <2>8. TuplesShown(trace[r], seq[r], pc'[r], HasSink[r], 0, DiffSet(r))
      <3>1. Cardinality({i \in DiffSet(r) : i < 0} \ FoundIn(trace[r])) <= Loss(trace[r], seq[r])
        <4>1. {i \in DiffSet(r) : i < 0} \ FoundIn(trace[r]) = {}
          BY <2>7
        <4> QED
          BY <2>6, <2>7, <4>1
      <3> QED
        BY <2>1, <2>4, <2>5, <3>1 DEF TuplesShown, AfterLoop
    <2> QED
      BY <1>1, <1>2, <2>1, <2>2, <2>3, <2>6, <2>8 DEF Step
  <1>3. ASSUME NEW r \in Runs, Start(r) \/ Step(r) \/ Kill(r), ~EmitTuple(r), ~Summarise(r)
        PROVE  TuplesInv'
    <2> DEFINE D == report[r].disagreements
    <2>1. TuplesShown(trace[r], seq[r], pc[r], HasSink[r], cursor[r], D)
      BY DEF TuplesInv
    <2>2. cursor' = cursor /\ report' = report /\ (Silent(r) \/ Speaking(r))
      BY <1>3, StepSpeaks, ReportStays
    <2>3. /\ pc'[r] # "tuple_events"
          /\ pc'[r] = "run_complete" => EmitTuplesDone(r)
          /\ pc'[r] = "corpus" => pc[r] = "run_complete"
      BY <1>3, IntoLoop
    <2>4. StageRank(pc'[r]) <= 11 => cursor[r] = 0
      <3>1. StageRank(pc[r]) <= StageRank(pc'[r])
        BY <2>2 DEF Silent, Speaking
      <3> QED
        BY <2>1, <3>1, RankInt DEF TuplesShown
    <2>5. IsFiniteSet(trace[r]) /\ Loss(trace[r], seq[r]) >= 0
      BY DEF EndsInv, EndShown
    <2>6. CASE EmitTuplesDone(r)
      <3>1. /\ pc[r] = "tuple_events" /\ cursor[r] = NTarget[r] /\ trace' = trace /\ seq' = seq
            /\ pc'[r] = "run_complete"
        BY <1>0, <2>6 DEF EmitTuplesDone, Goto
      <3>2. D = DiffSet(r)
        BY <3>1 DEF TuplesInv
      <3>3. {i \in D : i < cursor[r]} = D
        BY <3>1, <3>2, DiffSetFinite
      <3>4. TuplesShown(trace[r], seq[r], pc'[r], HasSink[r], cursor[r], D)
        BY <2>1, <2>4, <3>1, <3>3 DEF TuplesShown
      <3> QED
        BY <1>1, <1>3, <2>2, <2>3, <3>1, <3>4
    <2>7. CASE ~EmitTuplesDone(r) /\ Silent(r)
      <3>1. trace' = trace /\ seq' = seq
            /\ (pc'[r] \in AfterLoop => pc[r] \in AfterLoop)
        BY <2>3, <2>7 DEF Silent, AfterLoop
      <3>2. TuplesShown(trace[r], seq[r], pc'[r], HasSink[r], cursor[r], D)
        BY <2>1, <2>3, <2>4, <3>1 DEF TuplesShown
      <3> QED
        BY <1>1, <1>3, <2>2, <2>3, <3>1, <3>2
    <2>8. CASE ~EmitTuplesDone(r) /\ Speaking(r)
      <3>1. PICK evs \in Seq(Event) :
              Emit(r, evs) /\ Forward(evs, StageRank(pc[r]), StageRank(pc'[r]), pc'[r])
        BY <2>8 DEF Speaking
      <3>2. /\ trace[r] \subseteq trace'[r]
            /\ Loss(trace[r], seq[r]) \in Int /\ Loss(trace'[r], seq'[r]) \in Int
            /\ Loss(trace[r], seq[r]) <= Loss(trace'[r], seq'[r])
            /\ \A row \in trace'[r] : row \in trace[r] \/ \E i \in 1 .. Len(evs) : row.ev = evs[i]
            /\ \A q \in Runs \ {r} : trace'[q] = trace[q] /\ seq'[q] = seq[q]
        BY <1>0, <2>5, <3>1, EmitLoses
      <3>3. \A i \in 1 .. Len(evs) : evs[i].type # TupleType
        <4> SUFFICES ASSUME NEW i \in 1 .. Len(evs) PROVE evs[i].type # TupleType
          OBVIOUS
        <4>1. evs[i] \in Event /\ Rank(evs[i]) # 12
          BY <3>1 DEF Forward
        <4> QED
          BY <4>1, RankTypes
      <3>4. FoundIn(trace'[r]) = FoundIn(trace[r])
        <4>1. \A a \in trace'[r] : a \in trace[r] \/ a.ev.type # TupleType
          BY <3>2, <3>3
        <4> QED
          BY <3>2, <4>1, FoundSame
      <3>5. pc'[r] \in AfterLoop => pc[r] \in AfterLoop
        BY <2>3, <2>8 DEF Speaking, AfterLoop
      <3>6. HasSink[r] /\ pc'[r] \in AfterLoop =>
              Cardinality(D \ FoundIn(trace'[r])) <= Loss(trace'[r], seq'[r])
        <4> SUFFICES ASSUME HasSink[r], pc'[r] \in AfterLoop
                     PROVE  Cardinality(D \ FoundIn(trace'[r])) <= Loss(trace'[r], seq'[r])
          OBVIOUS
        <4>1. IsFiniteSet(D)
          BY <2>1 DEF TuplesShown
        <4>2. IsFiniteSet(D \ FoundIn(trace[r]))
          BY <4>1, FS_Subset
        <4>3. Cardinality(D \ FoundIn(trace[r])) \in Nat
          BY <4>2, FS_CardinalityType
        <4>4. Cardinality(D \ FoundIn(trace[r])) <= Loss(trace[r], seq[r])
          BY <2>1, <3>5 DEF TuplesShown
        <4> QED
          BY <3>2, <3>4, <4>3, <4>4
      <3>7. TuplesShown(trace'[r], seq'[r], pc'[r], HasSink[r], cursor[r], D)
        BY <2>1, <2>3, <2>4, <3>4, <3>6 DEF TuplesShown
      <3> QED
        BY <1>1, <1>3, <2>2, <2>3, <3>2, <3>7
    <2> QED
      BY <2>2, <2>6, <2>7, <2>8
  <1>4. ASSUME NEW r \in Runs, EmitTuple(r) PROVE TuplesInv'
    <2> DEFINE c == cursor[r]
               d == DiffFound(r, c)
               ev == TupleEvent(c, d)
               D == report[r].disagreements
               T == trace[r]
               S == {i \in D : i < c} \ FoundIn(T)
    <2>1. /\ pc[r] = "tuple_events" /\ c < NTarget[r] /\ cursor' = [cursor EXCEPT ![r] = @ + 1]
          /\ pc' = pc /\ report' = report /\ UNCHANGED verdicts
          /\ \/ Emitted(r, c) /\ Emit(r, <<ev>>)
             \/ ~Emitted(r, c) /\ UNCHANGED <<trace, seq>>
      BY <1>4, Zenon DEF EmitTuple
    <2>2. c \in Nat /\ cursor'[r] = c + 1
      BY <1>0, <2>1
    <2>4. /\ TuplesShown(T, seq[r], pc[r], HasSink[r], c, D)
          /\ HasSink[r] /\ D = DiffSet(r)
      BY <2>1 DEF TuplesInv
    <2>5. /\ IsFiniteSet(T) /\ Loss(T, seq[r]) >= 0
      BY DEF EndsInv, EndShown
    <2>6. DiffSet(r)' = DiffSet(r)
      BY <2>1 DEF DiffSet, Compared, Get, verdicts
    <2>7. /\ IsFiniteSet(D) /\ D \subseteq Nat /\ IsFiniteSet(S)
          /\ Cardinality(S) <= Loss(T, seq[r]) /\ FoundIn(T) \subseteq D
      <3>1. IsFiniteSet(D) /\ D \subseteq Nat
        BY <2>4, DiffSetFinite
      <3>2. IsFiniteSet(S)
        BY <3>1, FS_Subset
      <3> QED
        BY <2>1, <2>4, <3>1, <3>2 DEF TuplesShown
    <2>8. c \in D <=> Emitted(r, c) /\ d
      BY <2>4, LoopFindsDiffSet
    <2>9. ASSUME NEW U \in SUBSET Row, NEW s \in Nat, FoundIn(T) \subseteq FoundIn(U),
                 FoundIn(U) \subseteq D,
                 Loss(T, seq[r]) \in Int, Loss(U, s) \in Int, Loss(T, seq[r]) <= Loss(U, s),
                 c \in D => c \in FoundIn(U) \/ Loss(T, seq[r]) < Loss(U, s)
          PROVE  TuplesShown(U, s, "tuple_events", HasSink[r], c + 1, D)
      <3> DEFINE V == {i \in D : i < c + 1} \ FoundIn(U)
      <3>1. V \subseteq S \cup {c}
        BY <2>2, <2>7, <2>9
      <3> HIDE DEF S
      <3>2. /\ Cardinality(S) \in Nat /\ Cardinality(V) \in Nat
            /\ Cardinality(V) <= Cardinality(S) + 1
            /\ c \notin V => Cardinality(V) <= Cardinality(S)
        BY <2>7, <3>1, FewerThan
      <3>3. c \in V => Loss(T, seq[r]) < Loss(U, s)
        BY <2>9
      <3> HIDE DEF V, D
      <3>4. Cardinality(V) <= Loss(U, s)
        BY <2>7, <2>9, <3>2, <3>3
      <3> QED
        BY <2>7, <2>9, <3>4 DEF TuplesShown, StageRank, RustStages, AfterLoop, V
    <2>10. CASE ~Emitted(r, c) /\ UNCHANGED <<trace, seq>>
      <3>1. c \notin D
        BY <2>8, <2>10
      <3>2. Loss(T, seq[r]) \in Int
        <4>1. Cardinality(T) \in Nat /\ seq[r] \in Nat
          BY <1>0, <2>5, FS_CardinalityType
        <4> QED
          BY <4>1 DEF Loss
      <3>3. T \in SUBSET Row /\ seq[r] \in Nat
        BY <1>0
      <3>4. TuplesShown(T, seq[r], "tuple_events", HasSink[r], c + 1, D)
        BY <2>7, <2>9, <3>1, <3>2, <3>3
      <3> QED
        BY <1>1, <1>4, <2>1, <2>2, <2>4, <2>6, <2>10, <3>4 DEF Step
    <2>11. CASE Emitted(r, c) /\ Emit(r, <<ev>>)
      <3>1. /\ ev \in Event /\ ev.type = TupleType /\ ev.idx = c
        <4>1. d \in BOOLEAN
          BY DEF DiffFound
        <4>2. TupleEvent(c, DiffFound(r, c)) \in Event
          BY <2>2, <4>1, EventTypes
        <4> QED
          BY <4>2 DEF TupleEvent, TupleType
      <3>a. ev.diff_found <=> d
        <4>1. ev.diff_found = d
          BY DEF TupleEvent
        <4> QED
          BY <4>1, Zenon
      <3> HIDE DEF ev, d, T, D
      <3>2. <<ev>> \in Seq(Event) /\ Len(<<ev>>) = 1 /\ <<ev>>[1] = ev /\ 1 .. 1 = {1}
        BY <3>1
      <3>3. /\ T \subseteq trace'[r]
            /\ Loss(T, seq[r]) \in Int /\ Loss(trace'[r], seq'[r]) \in Int
            /\ Loss(T, seq[r]) <= Loss(trace'[r], seq'[r])
            /\ \A row \in trace'[r] : row \in T \/ \E i \in 1 .. Len(<<ev>>) : row.ev = <<ev>>[i]
            /\ HasSink[r] => \A i \in 1 .. Len(<<ev>>) :
                 Shows(trace'[r], <<ev>>[i]) \/ Loss(T, seq[r]) < Loss(trace'[r], seq'[r])
            /\ \A q \in Runs \ {r} : trace'[q] = trace[q] /\ seq'[q] = seq[q]
        BY <1>0, <2>5, <2>11, <3>2, EmitLoses DEF T
      <3>4. /\ \A a \in trace'[r] : a \in T \/ a.ev = ev
            /\ Shows(trace'[r], ev) \/ Loss(T, seq[r]) < Loss(trace'[r], seq'[r])
        BY <2>4, <3>2, <3>3
      <3>5. /\ FoundIn(T) \subseteq FoundIn(trace'[r])
            /\ FoundIn(trace'[r]) \subseteq FoundIn(T) \cup {c}
            /\ ~ev.diff_found => FoundIn(trace'[r]) = FoundIn(T)
            /\ Shows(trace'[r], ev) /\ ev.diff_found => c \in FoundIn(trace'[r])
        <4> DEFINE U == trace'[r]
        <4>1. /\ T \subseteq U /\ ev.type = TupleType /\ ev.idx = c
              /\ \A a \in U : a \in T \/ a.ev = ev
          BY <3>1, <3>3, <3>4
        <4> HIDE DEF U, c
        <4>2. /\ FoundIn(T) \subseteq FoundIn(U)
              /\ FoundIn(U) \subseteq FoundIn(T) \cup {ev.idx}
              /\ ~ev.diff_found => FoundIn(U) = FoundIn(T)
              /\ Shows(U, ev) /\ ev.diff_found => ev.idx \in FoundIn(U)
          BY <4>1, FoundOne, ZenonT(60)
        <4> QED
          BY <4>1, <4>2, Zenon DEF U
      <3>6. c \in D => c \in FoundIn(trace'[r]) \/ Loss(T, seq[r]) < Loss(trace'[r], seq'[r])
        <4>1. c \in D => ev.diff_found
          BY <2>8, <3>a, ZenonT(30)
        <4> QED
          BY <3>4, <3>5, <4>1, ZenonT(30)
      <3>7. FoundIn(trace'[r]) \subseteq D
        <4>1. CASE ~ev.diff_found
          BY <2>7, <3>5, <4>1
        <4>2. CASE ev.diff_found
          <5>1. c \in D
            BY <2>8, <2>11, <3>a, <4>2, Zenon
          <5> QED
            BY <2>7, <3>5, <5>1
        <4> QED
          BY <4>1, <4>2
      <3>8. trace'[r] \in SUBSET Row /\ seq'[r] \in Nat
        <4>1. trace' \in [Runs -> SUBSET Row] /\ seq' \in [Runs -> Nat]
          BY <1>0, <2>11, <3>2, EmitType
        <4> QED
          BY <4>1
      <3>9. TuplesShown(trace'[r], seq'[r], "tuple_events", HasSink[r], c + 1, D)
        BY <2>9, <3>3, <3>5, <3>6, <3>7, <3>8
      <3> QED
        BY <1>1, <1>4, <2>1, <2>2, <2>4, <2>6, <3>3, <3>9 DEF Step, D
    <2> QED
      BY <2>1, <2>10, <2>11
  <1>5. CASE UNCHANGED vars
    <2>1. \A r \in Runs : DiffSet(r)' = DiffSet(r)
      BY <1>5 DEF vars, DiffSet, Compared, Get
    <2> QED
      BY <1>5, <2>1 DEF vars, TuplesInv
  <1> QED
    BY <1>2, <1>3, <1>4, <1>5 DEF Next, Step

\* The disagreements the trace store shows and those of the summary, which two
\* different loops compute, are the same but for the events the sink lost.
THEOREM TupleRowsMatch == Spec => []TupleRowsMatchSummary
  <1>1. Init => TuplesInv
    <2> SUFFICES ASSUME Init, NEW r \in Runs
                 PROVE  /\ TuplesShown(trace[r], seq[r], pc[r], HasSink[r], cursor[r],
                                       report[r].disagreements)
                        /\ pc[r] # "tuple_events"
      BY DEF TuplesInv
    <2>1. /\ trace[r] = {} /\ pc[r] = "idle" /\ cursor[r] = 0 /\ report[r].disagreements = {}
          /\ IsFiniteSet({}) /\ FoundIn({}) = {}
      BY FS_EmptySet DEF Init, NoReport, FoundIn
    <2> QED
      BY <2>1 DEF TuplesShown, AfterLoop
  <1>2. TuplesInv => TupleRowsMatchSummary
    BY DEF TuplesInv, TuplesShown, FoundIn, Loss, Lost, AfterLoop, TupleType, TupleRowsMatchSummary
  <1> QED
    BY <1>1, <1>2, TuplesStep, RowsAlways, EndsAlways, TypeCorrect, PTL DEF Spec


-----------------------------------------------------------------------------
\* A run runs out of steps

\* The most steps a run at a stage has left that asked for n tuples and whose
\* event loop has passed c of them.
StepsFrom(stage, c, n) ==
    CASE stage = "idle" -> n + 16
      [] stage = "fixtures" -> n + 15
      [] stage = "fixtures_torn" -> n + 14
      [] stage = "sample_tuples" -> n + 13
      [] stage = "build_go_harness" -> n + 12
      [] stage = "go_write" -> n + 11
      [] stage = "go_flush" -> n + 10
      [] stage = "go_batch" -> n + 9
      [] stage = "rust_write" -> n + 8
      [] stage = "rust_flush" -> n + 7
      [] stage = "rust_per_tuple" -> n + 6
      [] stage = "summary" -> n + 5
      [] stage = "tuple_events" -> (n - c) + 4
      [] stage = "run_complete" -> 3
      [] stage = "corpus" -> 2
      [] stage = "failing" -> 2
      [] stage = "failed_closed" -> 1
      [] stage = "corpus_torn" -> 1
      [] OTHER -> 0

StepsLeft(r) == StepsFrom(pc[r], cursor[r], NTarget[r])

Bounded == \A r \in Runs : StepsLeft(r) \in 0 .. NTarget[r] + 16

\* One run has fewer steps left, the others as many as before.
CountsDown == \E r \in Runs : /\ StepsLeft(r)' < StepsLeft(r)
                              /\ \A q \in Runs \ {r} : StepsLeft(q)' = StepsLeft(q)

\* The event loop passes no tuple that was not asked for.
LoopStops == \A r \in Runs : cursor[r] <= NTarget[r]

\* Where each step leads to; only a turn of the event loop moves the cursor.
LEMMA StageMoves ==
  ASSUME TypeOK, NEW r \in Runs, Start(r) \/ Step(r) \/ Kill(r)
  PROVE  \/ /\ cursor' = cursor
            /\ \/ pc[r] = "idle" /\ pc'[r] = "fixtures"
               \/ pc[r] = "fixtures" /\ pc'[r] = "fixtures_torn"
               \/ pc[r] = "fixtures_torn" /\ pc'[r] = "sample_tuples"
               \/ pc[r] = "sample_tuples" /\ pc'[r] = "build_go_harness"
               \/ pc[r] = "build_go_harness" /\ pc'[r] = "go_write"
               \/ pc[r] \in {"sample_tuples", "build_go_harness"} /\ pc'[r] = "failing"
               \/ pc[r] = "failing" /\ pc'[r] = "failed_closed"
               \/ pc[r] = "go_write" /\ pc'[r] = "go_flush"
               \/ pc[r] = "go_flush" /\ pc'[r] = "go_batch"
               \/ pc[r] = "go_batch" /\ pc'[r] \in {"rust_write", "summary"}
               \/ pc[r] = "rust_write" /\ pc'[r] = "rust_flush"
               \/ pc[r] = "rust_flush" /\ pc'[r] = "rust_per_tuple"
               \/ pc[r] = "rust_per_tuple" /\ pc'[r] = "summary"
               \/ pc[r] = "summary" /\ pc'[r] \in {"tuple_events", "run_complete"}
               \/ pc[r] = "tuple_events" /\ pc'[r] = "run_complete"
               \/ pc[r] = "run_complete" /\ pc'[r] = "corpus"
               \/ pc[r] = "corpus" /\ pc'[r] \in {"exit0", "corpus_torn"}
               \/ pc[r] = "corpus_torn" /\ pc'[r] = "exit0"
               \/ pc[r] \notin {"idle"} \cup Ended /\ pc'[r] \in Ended
         \/ /\ pc[r] = "tuple_events" /\ pc'[r] = "tuple_events"
            /\ cursor[r] < NTarget[r] /\ cursor'[r] = cursor[r] + 1
  <1> USE DEF TypeOK, summary, Goto, Ended
  <1>1. CASE Start(r) \/ TruncateFixtures(r) \/ WriteFixtures(r) \/ FixturesRaise(r)
             \/ SampleTuples(r) \/ NoTuples(r) \/ SampleRaise(r) \/ Kill(r)
    BY <1>1 DEF Start, TruncateFixtures, WriteFixtures, FixturesRaise, SampleTuples, NoTuples,
       SampleRaise, Kill
  <1>2. CASE BuildGoHarness(r) \/ BuildFails(r) \/ CloseFailed(r) \/ ExitFailed(r)
                               \/ RaiseUncaught(r) \/ WriteGoInput(r)
             \/ FlushGoInput(r) \/ WriteRustInput(r) \/ FlushRustInput(r)
    BY <1>2 DEF BuildGoHarness, BuildFails, CloseFailed, ExitFailed, RaiseUncaught, WriteGoInput, FlushGoInput,
       WriteRustInput, FlushRustInput
  <1>3. CASE RunGoBatch(r) \/ RunRustBatch(r) \/ Summarise(r) \/ EmitTuplesDone(r)
             \/ Complete(r) \/ NoCorpus(r) \/ TruncateCorpus(r) \/ WriteCorpus(r)
    BY <1>3 DEF RunGoBatch, RunRustBatch, Summarise, EmitTuplesDone, Complete, NoCorpus,
       TruncateCorpus, WriteCorpus
  <1>4. CASE EmitTuple(r)
    <2>1. /\ pc[r] = "tuple_events" /\ pc' = pc /\ cursor[r] < NTarget[r]
          /\ cursor' = [cursor EXCEPT ![r] = @ + 1]
      BY <1>4, Zenon DEF EmitTuple
    <2> QED
      BY <2>1
  <1> QED
    BY <1>1, <1>2, <1>3, <1>4 DEF Step

\* StepsFrom, stage by stage.
LEMMA StepsOfStages ==
  ASSUME NEW c, NEW n
  PROVE  /\ StepsFrom("idle", c, n) = n + 16
         /\ StepsFrom("fixtures", c, n) = n + 15
         /\ StepsFrom("fixtures_torn", c, n) = n + 14
         /\ StepsFrom("sample_tuples", c, n) = n + 13
         /\ StepsFrom("build_go_harness", c, n) = n + 12
         /\ StepsFrom("go_write", c, n) = n + 11
         /\ StepsFrom("go_flush", c, n) = n + 10
         /\ StepsFrom("go_batch", c, n) = n + 9
         /\ StepsFrom("rust_write", c, n) = n + 8
         /\ StepsFrom("rust_flush", c, n) = n + 7
         /\ StepsFrom("rust_per_tuple", c, n) = n + 6
         /\ StepsFrom("summary", c, n) = n + 5
         /\ StepsFrom("tuple_events", c, n) = (n - c) + 4
         /\ StepsFrom("run_complete", c, n) = 3
         /\ StepsFrom("corpus", c, n) = 2
         /\ StepsFrom("failing", c, n) = 2
         /\ StepsFrom("failed_closed", c, n) = 1
         /\ StepsFrom("corpus_torn", c, n) = 1
         /\ \A stage \in Ended : StepsFrom(stage, c, n) = 0
  BY DEF StepsFrom, Ended

\* Each stage outside the event loop has fewer steps left than the one before.
LEMMA StagesDescend ==
  ASSUME NEW c, NEW n \in Nat, NEW a, NEW b,
         \/ a = "idle" /\ b = "fixtures"
         \/ a = "fixtures" /\ b = "fixtures_torn"
         \/ a = "fixtures_torn" /\ b = "sample_tuples"
         \/ a = "sample_tuples" /\ b = "build_go_harness"
         \/ a = "build_go_harness" /\ b = "go_write"
         \/ a \in {"sample_tuples", "build_go_harness"} /\ b = "failing"
         \/ a = "failing" /\ b = "failed_closed"
         \/ a = "go_write" /\ b = "go_flush"
         \/ a = "go_flush" /\ b = "go_batch"
         \/ a = "go_batch" /\ b \in {"rust_write", "summary"}
         \/ a = "rust_write" /\ b = "rust_flush"
         \/ a = "rust_flush" /\ b = "rust_per_tuple"
         \/ a = "rust_per_tuple" /\ b = "summary"
         \/ a = "summary" /\ b = "run_complete"
         \/ a = "run_complete" /\ b = "corpus"
         \/ a = "corpus" /\ b \in {"exit0", "corpus_torn"}
         \/ a = "corpus_torn" /\ b = "exit0"
         \/ a \in Stage \ ({"idle", "tuple_events"} \cup Ended) /\ b \in Ended
  PROVE  StepsFrom(b, c, n) < StepsFrom(a, c, n)
  <1>1. CASE b \in Ended
    <2>1. a \in {"fixtures", "fixtures_torn", "sample_tuples", "build_go_harness", "go_write",
                 "go_flush", "go_batch", "rust_write", "rust_flush", "rust_per_tuple",
                 "summary", "run_complete", "corpus", "corpus_torn", "failing", "failed_closed"}
      BY <1>1 DEF Stage, Ended
    <2>2. StepsFrom(b, c, n) = 0
      BY <1>1, StepsOfStages
    <2>3. StepsFrom(a, c, n) \in Nat \ {0}
      BY <2>1, StepsOfStages
    <2> QED
      BY <2>2, <2>3
  <1>2. CASE b \notin Ended
    BY <1>2, StepsOfStages DEF Ended
  <1> QED
    BY <1>1, <1>2

LEMMA StepsShrink ==
  ASSUME TypeOK, LoopStops, NEW r \in Runs, Start(r) \/ Step(r) \/ Kill(r)
  PROVE  StepsLeft(r)' < StepsLeft(r) /\ cursor'[r] <= NTarget[r]
  <1> USE StepsOfStages
  <1>1. cursor[r] \in Nat /\ NTarget[r] \in Nat /\ cursor[r] <= NTarget[r]
    BY NTargetAssumption DEF TypeOK, LoopStops
  <1>2. CASE cursor' = cursor
    <2>1. CASE pc[r] = "tuple_events" /\ pc'[r] \in {"run_complete"} \cup Ended
      BY <1>1, <1>2, <2>1 DEF StepsLeft, Ended
    <2>2. CASE pc[r] = "summary" /\ pc'[r] = "tuple_events"
      BY <1>1, <1>2, <2>2 DEF StepsLeft
    <2>3. CASE pc[r] # "tuple_events" /\ pc'[r] # "tuple_events"
      <3>1. StepsFrom(pc'[r], cursor[r], NTarget[r]) < StepsFrom(pc[r], cursor[r], NTarget[r])
        <4>1. pc[r] \in Stage
          BY DEF TypeOK
        <4> HIDE StepsOfStages
        <4> QED
          BY <1>1, <1>2, <2>3, <4>1, StageMoves, StagesDescend DEF Ended
      <3> QED
        BY <1>1, <1>2, <3>1 DEF StepsLeft
    <2> QED
      BY <1>1, <1>2, <2>1, <2>2, <2>3, StageMoves DEF Ended
  <1>3. CASE cursor' # cursor
    <2>1. /\ pc[r] = "tuple_events" /\ pc'[r] = "tuple_events"
          /\ cursor[r] < NTarget[r] /\ cursor'[r] = cursor[r] + 1
      BY <1>3, StageMoves
    <2> QED
      BY <1>1, <2>1 DEF StepsLeft
  <1> QED
    BY <1>2, <1>3

\* Every step of an invocation is one of at most its --n + 16, its start and
\* its death included, and no step of another invocation in the same checkout
\* gives it more: overlapping runs cannot keep each other going.
THEOREM RunsAreBounded == Spec => []Bounded /\ [][CountsDown]_vars
  <1>1. Init => LoopStops
    BY NTargetAssumption DEF Init, LoopStops
  <1>2. TypeOK /\ LoopStops => Bounded
    <2> SUFFICES ASSUME TypeOK, LoopStops, NEW r \in Runs
                 PROVE  StepsLeft(r) \in 0 .. NTarget[r] + 16
      BY DEF Bounded
    <2>1. cursor[r] \in Nat /\ NTarget[r] \in Nat /\ cursor[r] <= NTarget[r]
      BY NTargetAssumption DEF TypeOK, LoopStops
    <2> USE StepsOfStages
    <2>2. CASE pc[r] = "tuple_events"
      BY <2>1, <2>2 DEF StepsLeft
    <2>3. CASE pc[r] \in {"idle", "fixtures", "fixtures_torn", "sample_tuples",
                          "build_go_harness", "go_write", "go_flush", "go_batch"}
      BY <2>1, <2>3 DEF StepsLeft
    <2>4. CASE pc[r] \in {"rust_write", "rust_flush", "rust_per_tuple", "summary"}
      BY <2>1, <2>4 DEF StepsLeft
    <2>5. CASE pc[r] \in {"run_complete", "corpus", "corpus_torn", "failing", "failed_closed"}
                       \cup Ended
      BY <2>1, <2>5 DEF StepsLeft, Ended
    <2> QED
      BY <2>2, <2>3, <2>4, <2>5 DEF TypeOK, Stage
  <1>3. TypeOK /\ LoopStops /\ [Next]_vars => LoopStops' /\ [CountsDown]_vars
    <2> SUFFICES ASSUME TypeOK, LoopStops, [Next]_vars
                 PROVE  LoopStops' /\ [CountsDown]_vars
      OBVIOUS
    <2>1. ASSUME NEW r \in Runs, Start(r) \/ Step(r) \/ Kill(r)
          PROVE  LoopStops' /\ CountsDown
      <3>1. StepsLeft(r)' < StepsLeft(r) /\ cursor'[r] <= NTarget[r]
        BY <2>1, StepsShrink
      <3>2. \A q \in Runs \ {r} : pc'[q] = pc[q] /\ cursor'[q] = cursor[q]
        BY <2>1, OthersStay
      <3>3. \A q \in Runs \ {r} : StepsLeft(q)' = StepsLeft(q)
        BY <3>2 DEF StepsLeft
      <3> QED
        BY <3>1, <3>2, <3>3 DEF LoopStops, CountsDown
    <2>2. CASE UNCHANGED vars
      BY <2>2 DEF vars, LoopStops
    <2> QED
      BY <2>1, <2>2 DEF Next
  <1> QED
    BY <1>1, <1>2, <1>3, TypeCorrect, PTL DEF Spec
=============================================================================
