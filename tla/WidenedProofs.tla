--------------------------- MODULE WidenedProofs ---------------------------
(* Theorems of Widened, for any tuples, engines and number of invocations.  *)
EXTENDS Widened, TLAPS

\* The disagreements of an invocation are its own: they only depend on what it
\* asked for and was answered.
LEMMA DisagreementsAreOwn ==
  ASSUME NEW d,
         wanted'[d] = wanted[d], goOut'[d] = goOut[d], rustOut'[d] = rustOut[d]
  PROVE  Disagreements(d)' = Disagreements(d)
  BY DEF Disagreements, Classification

LEMMA DisagreementsAreWanted ==
  ASSUME NEW d
  PROVE  /\ Disagreements(d) \subseteq wanted[d]
         /\ \A t \in wanted[d] :
              t \in Disagreements(d) <=>
                /\ t \in DOMAIN rustOut[d] \cap DOMAIN goOut[d]
                /\ Label(rustOut[d][t], goOut[d][t])
                      \in {"semantic_disagreement", "evaluator_disagreement"}
  BY DEF Disagreements, Classification

\* classify calls two answers a disagreement when one of them allows and the
\* other does not, whatever errors they came with.
LEMMA LabelComparesOutcomes ==
  ASSUME NEW r \in WideAnswer, NEW g \in WideAnswer,
         r.err => r.dec # "Allow", r.dec = "ERROR" => r.err,
         g.err => g.dec # "Allow", g.dec = "ERROR" => g.err
  PROVE  Label(r, g) \in {"semantic_disagreement", "evaluator_disagreement"}
            <=> Allows(r) # Allows(g)
  <1>1. /\ r.dec \in {"Allow", "Deny", "ERROR"} /\ r.err \in BOOLEAN
        /\ g.dec \in {"Allow", "Deny", "ERROR"} /\ g.err \in BOOLEAN
    BY DEF WideAnswer
  <1>2. CASE r.err /\ g.err
    <2>1. Label(r, g) = "agreement_both_reject"
      BY <1>2 DEF Label
    <2> QED
      BY <2>1, <1>2 DEF Allows
  <1>3. CASE r.err /\ ~g.err
    <2>1. Label(r, g) = IF g.dec = "Deny" THEN "asymmetric_path_both_deny"
                        ELSE "evaluator_disagreement"
      BY <1>3 DEF Label
    <2> QED
      BY <2>1, <1>1, <1>3 DEF Allows
  <1>4. CASE ~r.err /\ g.err
    <2>1. Label(r, g) = IF r.dec = "Deny" THEN "asymmetric_path_both_deny"
                        ELSE "evaluator_disagreement"
      BY <1>4 DEF Label
    <2> QED
      BY <2>1, <1>1, <1>4 DEF Allows
  <1>5. CASE ~r.err /\ ~g.err
    <2>1. Label(r, g) = IF r.dec = g.dec THEN "agreement" ELSE "semantic_disagreement"
      BY <1>5 DEF Label
    <2> QED
      BY <2>1, <1>1, <1>5 DEF Allows
  <1> QED
    BY <1>1, <1>2, <1>3, <1>4, <1>5

\* What the engines say of a tuple is one of the answers they may give.
LEMMA TruthsAreAnswers ==
  ASSUME NEW Says, NEW f \in AnswersFrom(Says), NEW t \in WideTuples,
         \A u \in WideTuples : \A a \in Says[u] :
            a \in WideAnswer /\ (a.err => a.dec # "Allow") /\ (a.dec = "ERROR" => a.err)
  PROVE  f[t] \in WideAnswer /\ (f[t].err => f[t].dec # "Allow") /\ (f[t].dec = "ERROR" => f[t].err)
  BY DEF AnswersFrom

-----------------------------------------------------------------------------
\* Types

LEMMA WideEndTyped ==
  ASSUME WideTypeOK, NEW d \in WideRuns, NEW stage \in WideEnded, WideEnd(d, stage),
         UNCHANGED <<inputFiles, truths>>,
         UNCHANGED outputFiles \/ (\E S \in SUBSET WideTuples :
            summaryMd' = Written(S) /\ UNCHANGED <<results, disagreeDir>>)
  PROVE  WideTypeOK'
  <1> USE DEF WideEnd, WideGoto, WideTypeOK, inputFiles, outputFiles, truths
  <1>1. /\ widePc' \in [WideRuns -> {"idle"} \cup WideStages \cup WideEnded]
        /\ wanted' \in [WideRuns -> SUBSET WideTuples]
        /\ toFile' \in [WideRuns -> SUBSET WideTuples] /\ spoiled' \in [WideRuns -> SUBSET WideTuples]
    OBVIOUS
  <1>2. /\ DOMAIN goOut' = WideRuns /\ DOMAIN rustOut' = WideRuns
        /\ \A e \in WideRuns : /\ DOMAIN goOut'[e] \subseteq WideTuples
                               /\ DOMAIN rustOut'[e] \subseteq WideTuples
    <2>1. DOMAIN <<>> = {}
      OBVIOUS
    <2> QED
      BY <2>1
  <1>3. results' \in WideOutput /\ summaryMd' \in WideOutput
    BY DEF WideOutput, Written
  <1> QED
    BY <1>1, <1>2, <1>3

\* Every variable has its type in every reachable state.
THEOREM WideTypeCorrect == WideSpec => []WideTypeOK
  <1>1. WideInit => WideTypeOK
    <2> SUFFICES ASSUME WideInit PROVE WideTypeOK
      OBVIOUS
    <2>1. DOMAIN <<>> = {} /\ Nothing \in WideOutput
      BY DEF Nothing, WideOutput
    <2> QED
      BY <2>1 DEF WideInit, WideTypeOK
  <1>2. WideTypeOK /\ [WideNext]_wideVars => WideTypeOK'
    <2> SUFFICES ASSUME WideTypeOK, [WideNext]_wideVars PROVE WideTypeOK'
      OBVIOUS
    <2> USE DEF WideStages, inputFiles, outputFiles, truths, ownState
    <2>1. ASSUME NEW d \in WideRuns, WideStart(d) PROVE WideTypeOK'
      <3>1. wanted' \in [WideRuns -> SUBSET WideTuples]
        BY <2>1 DEF WideStart, WideTypeOK
      <3> QED
        BY <2>1, <3>1 DEF WideStart, WideGoto, WideTypeOK
    <2>2. ASSUME NEW d \in WideRuns, WideGiveUp(d) PROVE WideTypeOK'
      BY <2>2, WideEndTyped DEF WideGiveUp, WideEnded
    <2>3. ASSUME NEW d \in WideRuns, WideBuild(d) PROVE WideTypeOK'
      BY <2>3 DEF WideBuild, WideGoto, WideTypeOK
    <2>4. ASSUME NEW d \in WideRuns, WriteInput(d) PROVE WideTypeOK'
      <3>1. /\ wanted[d] \subseteq WideTuples
            /\ \A S \in Some(d) : S \subseteq WideTuples
        BY DEF Some, WideTypeOK
      <3>2. goFile' \subseteq WideTuples /\ rustFile' \subseteq WideTuples
        BY <2>4, <3>1 DEF WriteInput, WideTypeOK
      <3> QED
        BY <2>4, <3>2 DEF WriteInput, WideGoto, WideTypeOK
    <2>5. ASSUME NEW d \in WideRuns, GoBatch(d) PROVE WideTypeOK'
      <3>1. PICK k \in 0 .. NWide :
              LET answered == {t \in goFile : t <= k}
              IN /\ goOut' = [goOut EXCEPT ![d] = [t \in answered |-> goTruth[t]]]
                 /\ spoiled' = [spoiled EXCEPT ![d] = @ \cup Torn(answered)]
        BY <2>5 DEF GoBatch
      <3> DEFINE answered == {t \in goFile : t <= k}
      <3>2. answered \subseteq WideTuples /\ Torn(answered) \subseteq WideTuples
        BY DEF WideTypeOK, Torn
      <3>3. /\ goOut' = [goOut EXCEPT ![d] = [t \in answered |-> goTruth[t]]]
            /\ spoiled' = [spoiled EXCEPT ![d] = @ \cup Torn(answered)]
        BY <3>1
      <3> HIDE DEF answered
      <3>4. /\ DOMAIN goOut' = WideRuns
            /\ \A e \in WideRuns : DOMAIN goOut'[e] \subseteq WideTuples
            /\ spoiled' \in [WideRuns -> SUBSET WideTuples]
        BY <3>2, <3>3 DEF WideTypeOK
      <3> QED
        BY <2>5, <3>4 DEF GoBatch, WideGoto, WideTypeOK
    <2>6. ASSUME NEW d \in WideRuns, RustBatch(d) PROVE WideTypeOK'
      <3> DEFINE answered(k) == {t \in rustFile : t <= k}
                 Says(t, dead) == IF t \in dead THEN [dec |-> "ERROR", err |-> TRUE] ELSE rustTruth[t]
      <3>0. PICK k \in 0 .. NWide : \E dead \in SUBSET answered(k) :
              /\ rustOut' = [rustOut EXCEPT ![d] = [t \in answered(k) |-> Says(t, dead)]]
              /\ spoiled' = [spoiled EXCEPT ![d] = @ \cup dead \cup Torn(answered(k))]
        BY <2>6 DEF RustBatch
      <3>1. PICK dead \in SUBSET answered(k) :
              /\ rustOut' = [rustOut EXCEPT ![d] = [t \in answered(k) |-> Says(t, dead)]]
              /\ spoiled' = [spoiled EXCEPT ![d] = @ \cup dead \cup Torn(answered(k))]
        BY <3>0
      <3>2. answered(k) \subseteq WideTuples /\ Torn(answered(k)) \subseteq WideTuples
        BY DEF WideTypeOK, Torn
      <3> HIDE DEF answered, Says
      <3>3. /\ DOMAIN rustOut' = WideRuns
            /\ \A e \in WideRuns : DOMAIN rustOut'[e] \subseteq WideTuples
            /\ spoiled' \in [WideRuns -> SUBSET WideTuples]
        BY <3>1, <3>2 DEF WideTypeOK
      <3> QED
        BY <2>6, <3>3 DEF RustBatch, WideGoto, WideTypeOK
    <2>7. ASSUME NEW d \in WideRuns, WriteResults(d) PROVE WideTypeOK'
      <3>1. Disagreements(d) \subseteq WideTuples
        BY DisagreementsAreWanted DEF WideTypeOK
      <3>2. results' \in WideOutput /\ toFile' \in [WideRuns -> SUBSET WideTuples]
        BY <2>7, <3>1 DEF WriteResults, WideTypeOK, WideOutput, Written, TornOutput
      <3> QED
        BY <2>7, <3>2 DEF WriteResults, WideGoto, WideTypeOK
    <2>8. ASSUME NEW d \in WideRuns, WriteDisagreement(d) PROVE WideTypeOK'
      <3>1. PICK t \in toFile[d] :
              /\ disagreeDir' = [u \in DOMAIN disagreeDir \cup {t} |->
                                    IF u = t THEN t \in spoiled[d] ELSE disagreeDir[u]]
              /\ toFile' = [toFile EXCEPT ![d] = @ \ {t}]
        BY <2>8 DEF WriteDisagreement
      <3>2. t \in WideTuples /\ (t \in spoiled[d]) \in BOOLEAN
        BY DEF WideTypeOK
      <3>3. /\ DOMAIN disagreeDir' \subseteq WideTuples
            /\ \A u \in DOMAIN disagreeDir' : disagreeDir'[u] \in BOOLEAN
        BY <3>1, <3>2, Zenon DEF WideTypeOK
      <3>4. toFile' \in [WideRuns -> SUBSET WideTuples]
        BY <3>1 DEF WideTypeOK
      <3> QED
        BY <2>8, <3>3, <3>4 DEF WriteDisagreement, WideTypeOK
    <2>9. ASSUME NEW d \in WideRuns, WriteSummaryMd(d) PROVE WideTypeOK'
      <3>1. CASE widePc[d] = "files"
        <4>1. summaryMd' \in WideOutput
          BY <2>9, <3>1 DEF WriteSummaryMd, WideOutput, TornOutput
        <4> QED
          BY <2>9, <3>1, <4>1 DEF WriteSummaryMd, WideGoto, WideTypeOK
      <3>2. CASE widePc[d] = "summary"
        <4>1. Disagreements(d) \in SUBSET WideTuples
          BY DisagreementsAreWanted DEF WideTypeOK
        <4> QED
          BY <2>9, <3>2, <4>1, WideEndTyped DEF WriteSummaryMd, WideEnded
      <3> QED
        BY <2>9, <3>1, <3>2 DEF WriteSummaryMd
    <2>10. ASSUME NEW d \in WideRuns, WideKill(d) PROVE WideTypeOK'
      BY <2>10, WideEndTyped DEF WideKill, WideEnded
    <2>11. CASE UNCHANGED wideVars
      BY <2>11 DEF wideVars, WideTypeOK
    <2> QED
      BY <2>1, <2>2, <2>3, <2>4, <2>5, <2>6, <2>7, <2>8, <2>9, <2>10, <2>11
         DEF WideNext, WideStep
  <1> QED
    BY <1>1, <1>2, PTL DEF WideSpec

-----------------------------------------------------------------------------
\* What is called a disagreement

\* What an invocation holds of a tuple that was not spoiled is what the engine
\* says of it.
AnswersTruthful ==
  \A d \in WideRuns :
    /\ \A t \in DOMAIN goOut[d] \ spoiled[d] : goOut[d][t] = goTruth[t]
    /\ \A t \in DOMAIN rustOut[d] \ spoiled[d] : rustOut[d][t] = rustTruth[t]

LEMMA TruthfulAnswersSuffice == WideTypeOK /\ AnswersTruthful => DisagreementsTruthful
  <1> SUFFICES ASSUME WideTypeOK, AnswersTruthful, NEW d \in WideRuns,
                      NEW t \in wanted[d] \ spoiled[d]
               PROVE  t \in Disagreements(d) <=>
                        /\ t \in DOMAIN rustOut[d] \cap DOMAIN goOut[d]
                        /\ Allows(rustTruth[t]) # Allows(goTruth[t])
    BY DEF DisagreementsTruthful
  <1> DEFINE both == t \in DOMAIN rustOut[d] \cap DOMAIN goOut[d]
  <1>1. t \in Disagreements(d) <=>
          /\ both
          /\ Label(rustOut[d][t], goOut[d][t])
                \in {"semantic_disagreement", "evaluator_disagreement"}
    BY DisagreementsAreWanted
  <1>2. both => rustOut[d][t] = rustTruth[t] /\ goOut[d][t] = goTruth[t]
    BY DEF AnswersTruthful
  <1>3. t \in WideTuples
    BY DEF WideTypeOK
  <1>4. /\ rustTruth[t] \in WideAnswer
        /\ rustTruth[t].err => rustTruth[t].dec # "Allow"
        /\ rustTruth[t].dec = "ERROR" => rustTruth[t].err
    BY <1>3, TruthsAreAnswers, SinglePolicyAssumption DEF WideTypeOK
  <1>5. /\ goTruth[t] \in WideAnswer
        /\ goTruth[t].err => goTruth[t].dec # "Allow"
        /\ goTruth[t].dec = "ERROR" => goTruth[t].err
    BY <1>3, TruthsAreAnswers, SinglePolicyAssumption DEF WideTypeOK
  <1>6. Label(rustTruth[t], goTruth[t]) \in {"semantic_disagreement", "evaluator_disagreement"}
          <=> Allows(rustTruth[t]) # Allows(goTruth[t])
    BY <1>4, <1>5, LabelComparesOutcomes
  <1> QED
    BY <1>1, <1>2, <1>6

LEMMA AnswersTruthfulInit == WideInit => AnswersTruthful
  <1>1. DOMAIN <<>> = {}
    OBVIOUS
  <1> QED
    BY <1>1 DEF WideInit, AnswersTruthful

LEMMA AnswersTruthfulStep ==
  ASSUME WideTypeOK, AnswersTruthful, [WideNext]_wideVars
  PROVE  AnswersTruthful'
  <1> USE DEF truths, ownState
  <1>1. ASSUME NEW d \in WideRuns, NEW stage, WideEnd(d, stage), UNCHANGED truths
        PROVE  AnswersTruthful'
    <2>1. DOMAIN <<>> = {}
      OBVIOUS
    <2> QED
      BY <1>1, <2>1 DEF WideEnd, WideTypeOK, AnswersTruthful
  <1>2. ASSUME UNCHANGED <<goOut, rustOut, spoiled, truths>> PROVE AnswersTruthful'
    BY <1>2 DEF AnswersTruthful
  <1>3. ASSUME NEW d \in WideRuns, GoBatch(d) PROVE AnswersTruthful'
    <2> DEFINE answered(k) == {t \in goFile : t <= k}
    <2>1. PICK k \in 0 .. NWide :
            /\ goOut' = [goOut EXCEPT ![d] = [t \in answered(k) |-> goTruth[t]]]
            /\ spoiled' = [spoiled EXCEPT ![d] = @ \cup Torn(answered(k))]
      BY <1>3 DEF GoBatch
    <2>2. UNCHANGED <<rustOut, truths>>
      BY <1>3 DEF GoBatch
    <2> HIDE DEF answered
    <2> QED
      BY <2>1, <2>2 DEF AnswersTruthful, WideTypeOK
  <1>4. ASSUME NEW d \in WideRuns, RustBatch(d) PROVE AnswersTruthful'
    <2> DEFINE answered(k) == {t \in rustFile : t <= k}
               Says(t, dead) == IF t \in dead THEN [dec |-> "ERROR", err |-> TRUE] ELSE rustTruth[t]
    <2>1. PICK k \in 0 .. NWide : \E dead \in SUBSET answered(k) :
            /\ rustOut' = [rustOut EXCEPT ![d] = [t \in answered(k) |-> Says(t, dead)]]
            /\ spoiled' = [spoiled EXCEPT ![d] = @ \cup dead \cup Torn(answered(k))]
      BY <1>4 DEF RustBatch
    <2>2. PICK dead \in SUBSET answered(k) :
            /\ rustOut' = [rustOut EXCEPT ![d] = [t \in answered(k) |-> Says(t, dead)]]
            /\ spoiled' = [spoiled EXCEPT ![d] = @ \cup dead \cup Torn(answered(k))]
      BY <2>1
    <2>3. UNCHANGED <<goOut, truths>>
      BY <1>4 DEF RustBatch
    <2>4. \A t : t \notin dead => Says(t, dead) = rustTruth[t]
      OBVIOUS
    <2> HIDE DEF answered, Says
    <2> QED
      BY <2>2, <2>3, <2>4 DEF AnswersTruthful, WideTypeOK
  <1>5. ASSUME NEW d \in WideRuns, WideGiveUp(d) \/ WideKill(d) \/ WriteSummaryMd(d)
        PROVE  AnswersTruthful'
    BY <1>1, <1>2, <1>5 DEF WideGiveUp, WideKill, WriteSummaryMd
  <1>6. ASSUME NEW d \in WideRuns,
               WideStart(d) \/ WideBuild(d) \/ WriteInput(d) \/ WriteResults(d)
                 \/ WriteDisagreement(d)
        PROVE  AnswersTruthful'
    BY <1>2, <1>6 DEF WideStart, WideBuild, WriteInput, WriteResults, WriteDisagreement
  <1>7. CASE UNCHANGED wideVars
    BY <1>2, <1>7 DEF wideVars
  <1> QED
    BY <1>3, <1>4, <1>5, <1>6, <1>7 DEF WideNext, WideStep

\* However invocations overlap in the directory and wherever they are killed,
\* classify and the join by idx make a disagreement of exactly the tuples on which
\* one engine allows and the other does not, unless the answers were spoiled.
THEOREM DisagreementsAreTruthful == WideSpec => []DisagreementsTruthful
  <1>1. WideTypeOK /\ AnswersTruthful /\ [WideNext]_wideVars => AnswersTruthful'
    BY AnswersTruthfulStep
  <1> QED
    BY <1>1, WideTypeCorrect, AnswersTruthfulInit, TruthfulAnswersSuffice, PTL DEF WideSpec

-----------------------------------------------------------------------------
\* The files behind the summary

\* What an invocation lists it has filed, or is about to.
FilesCover ==
  \A d \in WideRuns :
    /\ widePc[d] # "files" => toFile[d] = {}
    /\ toFile[d] \subseteq Disagreements(d)
    /\ widePc[d] = "files" => Disagreements(d) \subseteq DOMAIN disagreeDir \cup toFile[d]
    /\ widePc[d] = "summary" => Disagreements(d) \subseteq DOMAIN disagreeDir

LEMMA FilesCoverInit == WideInit => FilesCover /\ FilesBackSummary
  BY DEF WideInit, FilesCover, FilesBackSummary, Nothing

\* What becomes of the others when invocation d makes a step.
LEMMA OthersKeepCover ==
  ASSUME WideTypeOK, FilesCover, NEW d \in WideRuns, DOMAIN disagreeDir \subseteq DOMAIN disagreeDir',
         \A e \in WideRuns \ {d} :
            /\ widePc'[e] = widePc[e] /\ toFile'[e] = toFile[e]
            /\ wanted'[e] = wanted[e] /\ goOut'[e] = goOut[e] /\ rustOut'[e] = rustOut[e],
         widePc'[d] # "files" => toFile'[d] = {},
         toFile'[d] \subseteq Disagreements(d)',
         widePc'[d] = "files" => Disagreements(d)' \subseteq DOMAIN disagreeDir' \cup toFile'[d],
         widePc'[d] = "summary" => Disagreements(d)' \subseteq DOMAIN disagreeDir'
  PROVE  FilesCover'
  <1>1. \A e \in WideRuns \ {d} : Disagreements(e)' = Disagreements(e)
    BY DisagreementsAreOwn
  <1> SUFFICES ASSUME NEW e \in WideRuns
               PROVE  /\ widePc'[e] # "files" => toFile'[e] = {}
                      /\ toFile'[e] \subseteq Disagreements(e)'
                      /\ widePc'[e] = "files" =>
                            Disagreements(e)' \subseteq DOMAIN disagreeDir' \cup toFile'[e]
                      /\ widePc'[e] = "summary" => Disagreements(e)' \subseteq DOMAIN disagreeDir'
    BY DEF FilesCover
  <1>2. CASE e = d
    BY <1>2
  <1>3. CASE e # d
    BY <1>1, <1>3 DEF FilesCover
  <1> QED
    BY <1>2, <1>3

LEMMA FilesStep ==
  ASSUME WideTypeOK, DisagreementsTruthful, FilesCover, FilesBackSummary, [WideNext]_wideVars
  PROVE  FilesCover' /\ FilesBackSummary'
  <1> USE DEF truths, ownState, inputFiles, outputFiles
  <1>1. ASSUME NEW d \in WideRuns, NEW stage \in WideEnded, WideEnd(d, stage),
               UNCHANGED disagreeDir
        PROVE  FilesCover'
    <2>1. /\ widePc'[d] = stage /\ toFile'[d] = {}
          /\ \A e \in WideRuns \ {d} :
                /\ widePc'[e] = widePc[e] /\ toFile'[e] = toFile[e]
                /\ wanted'[e] = wanted[e] /\ goOut'[e] = goOut[e] /\ rustOut'[e] = rustOut[e]
      BY <1>1 DEF WideEnd, WideGoto, WideTypeOK
    <2>2. stage # "files" /\ stage # "summary"
      BY DEF WideEnded
    <2> QED
      BY <1>1, <2>1, <2>2, OthersKeepCover
  <1>2. ASSUME NEW d \in WideRuns, NEW stage, WideGoto(d, stage), widePc[d] # "files",
               stage # "files", stage # "summary", UNCHANGED <<toFile, disagreeDir>>,
               \A e \in WideRuns \ {d} :
                  wanted'[e] = wanted[e] /\ goOut'[e] = goOut[e] /\ rustOut'[e] = rustOut[e]
        PROVE  FilesCover'
    <2>1. /\ widePc'[d] = stage /\ toFile'[d] = {}
          /\ \A e \in WideRuns \ {d} : widePc'[e] = widePc[e] /\ toFile'[e] = toFile[e]
      BY <1>2 DEF WideGoto, WideTypeOK, FilesCover
    <2> QED
      BY <1>2, <2>1, OthersKeepCover
  <1>3. ASSUME UNCHANGED <<disagreeDir, summaryMd, truths>> PROVE FilesBackSummary'
    BY <1>3 DEF FilesBackSummary
  <1>4. ASSUME NEW d \in WideRuns, WideStart(d) \/ WideBuild(d) \/ WriteInput(d)
                                     \/ GoBatch(d) \/ RustBatch(d)
        PROVE  FilesCover' /\ FilesBackSummary'
    <2>1. FilesBackSummary'
      BY <1>3, <1>4 DEF WideStart, WideBuild, WriteInput, GoBatch, RustBatch
    <2>2. CASE WideStart(d)
      <3>1. \A e \in WideRuns \ {d} : wanted'[e] = wanted[e]
        BY <2>2 DEF WideStart, WideTypeOK
      <3> QED
        BY <1>2, <2>1, <2>2, <3>1 DEF WideStart
    <2>3. CASE WideBuild(d)
      BY <1>2, <2>1, <2>3 DEF WideBuild
    <2>4. CASE WriteInput(d)
      BY <1>2, <2>1, <2>4 DEF WriteInput
    <2>5. CASE GoBatch(d)
      <3>1. \A e \in WideRuns \ {d} : goOut'[e] = goOut[e]
        BY <2>5 DEF GoBatch, WideTypeOK
      <3> QED
        BY <1>2, <2>1, <2>5, <3>1 DEF GoBatch
    <2>6. CASE RustBatch(d)
      <3>1. \A e \in WideRuns \ {d} : rustOut'[e] = rustOut[e]
        BY <2>6 DEF RustBatch, WideTypeOK
      <3> QED
        BY <1>2, <2>1, <2>6, <3>1 DEF RustBatch
    <2> QED
      BY <1>4, <2>2, <2>3, <2>4, <2>5, <2>6
  <1>5. ASSUME NEW d \in WideRuns, WideGiveUp(d) \/ WideKill(d)
        PROVE  FilesCover' /\ FilesBackSummary'
    <2>1. UNCHANGED <<disagreeDir, summaryMd, truths>>
      BY <1>5 DEF WideGiveUp, WideKill
    <2>2. \E stage \in WideEnded : WideEnd(d, stage)
      BY <1>5 DEF WideGiveUp, WideKill, WideEnded
    <2> QED
      BY <1>1, <1>3, <2>1, <2>2
  <1>6. ASSUME NEW d \in WideRuns, WriteResults(d) PROVE FilesCover' /\ FilesBackSummary'
    <2>1. FilesBackSummary'
      BY <1>3, <1>6 DEF WriteResults
    <2>2. CASE widePc[d] = "results"
      BY <1>2, <1>6, <2>1, <2>2 DEF WriteResults
    <2>3. CASE widePc[d] = "results_torn"
      <3>1. /\ widePc'[d] = "files" /\ toFile'[d] = Disagreements(d)
            /\ \A e \in WideRuns \ {d} : widePc'[e] = widePc[e] /\ toFile'[e] = toFile[e]
            /\ UNCHANGED <<wanted, goOut, rustOut, disagreeDir>>
        BY <1>6, <2>3 DEF WriteResults, WideGoto, WideTypeOK
      <3>2. Disagreements(d)' = Disagreements(d)
        BY <3>1, DisagreementsAreOwn
      <3> QED
        BY <2>1, <3>1, <3>2, OthersKeepCover
    <2> QED
      BY <1>6, <2>2, <2>3 DEF WriteResults
  <1>7. ASSUME NEW d \in WideRuns, WriteDisagreement(d) PROVE FilesCover' /\ FilesBackSummary'
    <2>1. PICK t \in toFile[d] :
            /\ disagreeDir' = [u \in DOMAIN disagreeDir \cup {t} |->
                                  IF u = t THEN t \in spoiled[d] ELSE disagreeDir[u]]
            /\ toFile' = [toFile EXCEPT ![d] = @ \ {t}]
      BY <1>7 DEF WriteDisagreement
    <2>2. widePc[d] = "files" /\ UNCHANGED <<widePc, wanted, goOut, rustOut, summaryMd, truths>>
      BY <1>7 DEF WriteDisagreement
    <2>3. DOMAIN disagreeDir' = DOMAIN disagreeDir \cup {t}
      BY <2>1
    <2>4. /\ toFile'[d] = toFile[d] \ {t}
          /\ \A e \in WideRuns \ {d} : toFile'[e] = toFile[e]
      BY <2>1 DEF WideTypeOK
    <2>5. Disagreements(d)' = Disagreements(d)
      BY <2>2, DisagreementsAreOwn
    <2>6. /\ toFile[d] \subseteq Disagreements(d)
          /\ Disagreements(d) \subseteq DOMAIN disagreeDir \cup toFile[d]
      BY <2>2 DEF FilesCover
    <2>7. FilesCover'
      BY <2>2, <2>3, <2>4, <2>5, <2>6, OthersKeepCover
    <2>8. t \in spoiled[d] \/ Allows(rustTruth[t]) # Allows(goTruth[t])
      <3>1. t \in Disagreements(d) /\ t \in wanted[d]
        BY <2>6, DisagreementsAreWanted
      <3> QED
        BY <3>1 DEF DisagreementsTruthful
    <2>9. \A u \in DOMAIN disagreeDir' :
            disagreeDir'[u] \/ Allows(rustTruth[u]) # Allows(goTruth[u])
      <3> SUFFICES ASSUME NEW u \in DOMAIN disagreeDir'
                   PROVE  disagreeDir'[u] \/ Allows(rustTruth[u]) # Allows(goTruth[u])
        OBVIOUS
      <3>1. CASE u = t
        <4>1. disagreeDir'[u] = (t \in spoiled[d])
          BY <2>1, <3>1, Zenon
        <4> QED
          BY <2>8, <3>1, <4>1
      <3>2. CASE u # t
        <4>1. u \in DOMAIN disagreeDir
          BY <2>3, <3>2
        <4>2. disagreeDir'[u] = disagreeDir[u]
          BY <2>1, <3>2, <4>1, Zenon
        <4> QED
          BY <4>1, <4>2 DEF FilesBackSummary
      <3> QED
        BY <3>1, <3>2
    <2>10. FilesBackSummary'
      BY <2>2, <2>3, <2>9 DEF FilesBackSummary
    <2> QED
      BY <2>7, <2>10
  <1>8. ASSUME NEW d \in WideRuns, WriteSummaryMd(d) PROVE FilesCover' /\ FilesBackSummary'
    <2>1. UNCHANGED <<disagreeDir, truths>>
      BY <1>8 DEF WriteSummaryMd
    <2>2. CASE widePc[d] = "files"
      <3>1. /\ toFile[d] = {} /\ WideGoto(d, "summary") /\ summaryMd' = TornOutput
            /\ UNCHANGED <<wanted, goOut, rustOut, toFile>>
        BY <1>8, <2>2 DEF WriteSummaryMd
      <3>2. /\ widePc'[d] = "summary"
            /\ \A e \in WideRuns \ {d} : widePc'[e] = widePc[e]
        BY <3>1 DEF WideGoto, WideTypeOK
      <3>3. Disagreements(d)' = Disagreements(d) /\ Disagreements(d) \subseteq DOMAIN disagreeDir
        BY <2>2, <3>1, DisagreementsAreOwn DEF FilesCover
      <3>4. FilesCover'
        BY <2>1, <3>1, <3>2, <3>3, OthersKeepCover
      <3>5. FilesBackSummary'
        BY <2>1, <3>1 DEF FilesBackSummary, TornOutput
      <3> QED
        BY <3>4, <3>5
    <2>3. CASE widePc[d] = "summary"
      <3>1. WideEnd(d, "exit0") /\ summaryMd' = Written(Disagreements(d))
        BY <1>8, <2>3 DEF WriteSummaryMd
      <3>2. FilesCover'
        BY <1>1, <2>1, <3>1 DEF WideEnded
      <3>3. summaryMd'.lists \subseteq DOMAIN disagreeDir
        BY <2>3, <3>1 DEF FilesCover, Written
      <3> QED
        BY <2>1, <3>2, <3>3 DEF FilesBackSummary
    <2> QED
      BY <1>8, <2>2, <2>3 DEF WriteSummaryMd
  <1>9. CASE UNCHANGED wideVars
    <2>1. \A d \in WideRuns : Disagreements(d)' = Disagreements(d)
      BY <1>9, DisagreementsAreOwn DEF wideVars
    <2> QED
      BY <1>3, <1>9, <2>1 DEF wideVars, FilesCover
  <1> QED
    BY <1>4, <1>5, <1>6, <1>7, <1>8, <1>9 DEF WideNext, WideStep

\* SUMMARY.md never lists a disagreement without its file, and no file is about
\* a tuple on which the engines agree, unless its answers were spoiled.
THEOREM SummaryIsBacked == WideSpec => []FilesBackSummary
  <1>1. WideTypeOK /\ DisagreementsTruthful /\ FilesCover /\ FilesBackSummary
          /\ [WideNext]_wideVars => FilesCover' /\ FilesBackSummary'
    BY FilesStep
  <1> QED
    BY <1>1, WideTypeCorrect, DisagreementsAreTruthful, FilesCoverInit, PTL DEF WideSpec
=============================================================================
