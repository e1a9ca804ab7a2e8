--------------------------- MODULE ProposerProofs ---------------------------
(* Theorems of Proposer, for any number of attempts, answers, invocations.  *)
EXTENDS Proposer, TLAPS

LEMMA SlotsTyped ==
  /\ \A s \in Slots : s = <<s[1], s[2]>> /\ s[1] \in {"loop", "iter"} /\ s[2] \in Nat \ {0}
  /\ \A s \in Slots : s[1] = "loop" => s[2] \in 1 .. MAX_ITERS
  /\ \A k \in 1 .. MAX_ITERS : <<"loop", k>> \in Slots
  /\ \A k \in 1 .. 3 : <<"iter", k>> \in Slots
  BY ProposerAssumption DEF Slots

\* The attempts fed back so far are the loop's attempts before this one; at the
\* end the last one may be among them.  What is written and built was answered.
AttemptsFed ==
  /\ slot[1] = "loop" /\ prPc \in {"ask", "write", "build"} => Len(messages) = slot[2] - 1
  /\ prPc = "summary" => slot[1] = "loop" /\ Len(messages) \in {slot[2] - 1, slot[2]}
  /\ prPc \in {"write", "build"} => source \in Sources

PrInv == PrTypeOK /\ AttemptsFed

\* A log tells of the source that was compiled, and of a success only when it
\* compiles.
LEMMA LogTyped ==
  ASSUME PrTypeOK, NEW printed \in {FALSE, (genLLM \in compiles)}
  PROVE  /\ [about |-> genLLM, ok |-> BuildOk(printed)] \in Log
         /\ BuildOk(printed) => genLLM \in compiles
  <1>1. printed = FALSE \/ printed = (genLLM \in compiles)
    BY Zenon
  <1>2. printed => genLLM \in compiles
    BY <1>1, Zenon
  <1>3. printed \in BOOLEAN
    <2>1. FALSE \in BOOLEAN /\ (genLLM \in compiles) \in BOOLEAN
      OBVIOUS
    <2> DEFINE built == genLLM \in compiles
    <2>2. built \in BOOLEAN /\ (printed = FALSE \/ printed = built)
      BY <1>1, <2>1
    <2> HIDE DEF built
    <2> QED
      BY <2>1, <2>2, Zenon
  <1> QED
    BY <1>2, <1>3 DEF BuildOk, Log, PrTypeOK

\* Build, case by case: the log of this attempt is written, and then an
\* attempt of run_iter ends, or the loop is done, or it goes on.
Logged(log) ==
  /\ log \in Log /\ log.about = genLLM /\ (log.ok => genLLM \in compiles)
  /\ outLog' = [outLog EXCEPT ![slot] = log]

LEMMA BuildCases ==
  ASSUME PrTypeOK, Build
  PROVE  /\ prPc = "build"
         /\ UNCHANGED <<source, genLLM, outSrc, loopSummary, drawn, launched, compiles>>
         /\ \/ prPc' = "raised" /\ UNCHANGED <<slot, messages, outLog>>
            \/ \E log \in Log :
                /\ Logged(log)
                /\ \/ /\ slot[1] = "iter" /\ UNCHANGED <<slot, messages>>
                      /\ prPc' = (IF log.ok THEN "exit0" ELSE "exit1")
                   \/ /\ slot[1] # "iter" /\ log.ok /\ prPc' = "summary"
                      /\ UNCHANGED <<slot, messages>>
                   \/ /\ slot[1] # "iter" /\ ~log.ok
                      /\ messages' = Append(messages, <<source, log>>)
                      /\ \/ slot[2] < MAX_ITERS /\ prPc' = "ask" /\ slot' = <<"loop", slot[2] + 1>>
                         \/ ~(slot[2] < MAX_ITERS) /\ prPc' = "summary" /\ slot' = slot
  <1>1. prPc = "build" /\ UNCHANGED <<source, genLLM, outSrc, loopSummary, drawn, launched, compiles>>
    BY DEF Build
  <1>2. CASE prPc' = "raised" /\ UNCHANGED <<slot, messages, outLog>>
    BY <1>1, <1>2
  <1>3. ASSUME NEW printed \in {FALSE, (genLLM \in compiles)},
               LET log == [about |-> genLLM, ok |-> BuildOk(printed)]
               IN /\ outLog' = [outLog EXCEPT ![slot] = log]
                  /\ IF slot[1] = "iter"
                     THEN prPc' = (IF log.ok THEN "exit0" ELSE "exit1") /\ UNCHANGED <<slot, messages>>
                     ELSE IF log.ok THEN prPc' = "summary" /\ UNCHANGED <<slot, messages>>
                     ELSE /\ messages' = Append(messages, <<source, log>>)
                          /\ IF slot[2] < MAX_ITERS
                             THEN prPc' = "ask" /\ slot' = <<"loop", slot[2] + 1>>
                             ELSE prPc' = "summary" /\ UNCHANGED slot
        PROVE  \E log \in Log :
                /\ Logged(log)
                /\ \/ /\ slot[1] = "iter" /\ UNCHANGED <<slot, messages>>
                      /\ prPc' = (IF log.ok THEN "exit0" ELSE "exit1")
                   \/ /\ slot[1] # "iter" /\ log.ok /\ prPc' = "summary"
                      /\ UNCHANGED <<slot, messages>>
                   \/ /\ slot[1] # "iter" /\ ~log.ok
                      /\ messages' = Append(messages, <<source, log>>)
                      /\ \/ slot[2] < MAX_ITERS /\ prPc' = "ask" /\ slot' = <<"loop", slot[2] + 1>>
                         \/ ~(slot[2] < MAX_ITERS) /\ prPc' = "summary" /\ slot' = slot
    <2> DEFINE log == [about |-> genLLM, ok |-> BuildOk(printed)]
    <2>1. log \in Log /\ log.about = genLLM /\ (log.ok => genLLM \in compiles)
      BY <1>3, LogTyped
    <2>2. Logged(log)
      BY <1>3, <2>1 DEF Logged
    <2>3. \/ /\ slot[1] = "iter" /\ UNCHANGED <<slot, messages>>
             /\ prPc' = (IF log.ok THEN "exit0" ELSE "exit1")
          \/ /\ slot[1] # "iter" /\ log.ok /\ prPc' = "summary"
             /\ UNCHANGED <<slot, messages>>
          \/ /\ slot[1] # "iter" /\ ~log.ok
             /\ messages' = Append(messages, <<source, log>>)
             /\ \/ slot[2] < MAX_ITERS /\ prPc' = "ask" /\ slot' = <<"loop", slot[2] + 1>>
                \/ ~(slot[2] < MAX_ITERS) /\ prPc' = "summary" /\ slot' = slot
      BY <1>3, Zenon
    <2> HIDE DEF log
    <2> QED
      BY <2>1, <2>2, <2>3
  <1> QED
    BY <1>1, <1>2, <1>3 DEF Build

-----------------------------------------------------------------------------
\* Types

LEMMA PrInvInit == PrInit => PrInv
  BY ProposerAssumption, SlotsTyped DEF PrInit, PrInv, PrTypeOK, AttemptsFed, Log, NoLog, PrEnded

LEMMA PrInvStep ==
  ASSUME PrInv, [PrNext]_prVars
  PROVE  PrInv'
  <1> USE ProposerAssumption DEF PrInv, PrEnded, PrStages, prFiles
  <1>1. CASE StartLoop
    <2>1. /\ slot' = <<"loop", 1>> /\ prPc' = "ask" /\ messages' = <<>>
          /\ launched' \in 0 .. Launches
          /\ UNCHANGED <<source, genLLM, outSrc, outLog, loopSummary, drawn, compiles>>
      BY <1>1 DEF StartLoop, Launch, PrTypeOK
    <2>2. slot' \in Slots /\ slot'[2] = 1
      BY <2>1, SlotsTyped
    <2>3. messages' \in Seq(Sources \X Log) /\ Len(messages') = 0
      BY <2>1
    <2>4. AttemptsFed'
      BY <2>1, <2>2, <2>3 DEF AttemptsFed
    <2> QED
      BY <2>1, <2>2, <2>3, <2>4 DEF PrTypeOK
  <1>2. ASSUME NEW k \in 1 .. 3, StartIter(k) PROVE PrInv'
    <2> DEFINE prev == <<"iter", k - 1>>
    <2>0. /\ slot' = <<"iter", k>> /\ Launch /\ prPc' \in {"ask", "raised"}
      BY <1>2 DEF StartIter
    <2>1. /\ launched' \in 0 .. Launches
          /\ UNCHANGED <<source, genLLM, outSrc, outLog, loopSummary, drawn, compiles>>
      BY <2>0 DEF Launch, PrTypeOK
    <2>3. slot' \in Slots /\ slot'[1] = "iter"
      BY <2>0, SlotsTyped
    <2>2. messages' \in Seq(Sources \X Log) /\ Len(messages') <= MAX_ITERS
      <3>1. CASE messages' = <<>>
        BY <3>1
      <3>2. CASE k > 1 /\ outSrc[prev] # 0 /\ messages' = <<<<outSrc[prev], outLog[prev]>>>>
        <4>1. k - 1 \in 1 .. 3
          BY <3>2
        <4>2. prev \in Slots
          BY <4>1, SlotsTyped
        <4>3. <<outSrc[prev], outLog[prev]>> \in Sources \X Log
          BY <3>2, <4>2 DEF PrTypeOK, Sources
        <4> QED
          BY <3>2, <4>3
      <3> QED
        BY <1>2, <3>1, <3>2 DEF StartIter
    <2>4. AttemptsFed'
      BY <2>0, <2>3 DEF AttemptsFed
    <2> QED
      BY <2>0, <2>1, <2>2, <2>3, <2>4 DEF PrTypeOK
  <1>3. CASE Ask
    <2>1. /\ prPc = "ask" /\ UNCHANGED <<slot, messages, genLLM, outLog, loopSummary, launched, compiles>>
          /\ prPc' \in {"write", "exit1", "raised"}
      BY <1>3 DEF Ask
    <2>2. /\ drawn' \in 0 .. Answers /\ source' \in 0 .. Answers
          /\ outSrc' \in [Slots -> 0 .. Answers]
      BY <1>3 DEF Ask, PrTypeOK
    <2>3. AttemptsFed'
      <3>1. prPc' = "write" => source' \in Sources
        BY <1>3 DEF Ask, PrTypeOK, Sources
      <3> QED
        BY <2>1, <3>1 DEF AttemptsFed
    <2> QED
      BY <2>1, <2>2, <2>3 DEF PrTypeOK
  <1>4. CASE WriteGenLLM
    BY <1>4 DEF WriteGenLLM, PrTypeOK, AttemptsFed
  <1>5. CASE Build
    <2>0. /\ prPc = "build"
          /\ UNCHANGED <<source, genLLM, outSrc, loopSummary, drawn, launched, compiles>>
      BY <1>5, BuildCases
    <2>1. ASSUME UNCHANGED <<slot, messages>>, outLog' \in [Slots -> Log],
                 \/ prPc' \in {"raised", "exit0", "exit1"}
                 \/ prPc' = "summary" /\ slot[1] # "iter"
          PROVE  PrInv'
      <3>1. slot[1] \in {"loop", "iter"}
        BY SlotsTyped DEF PrTypeOK
      <3>2. AttemptsFed'
        BY <2>0, <2>1, <3>1 DEF AttemptsFed
      <3>3. prPc' \in PrEnded \cup PrStages
        BY <2>1
      <3> QED
        BY <2>0, <2>1, <3>2, <3>3 DEF PrTypeOK
    <2>2. outLog \in [Slots -> Log] /\ \A log \in Log : Logged(log) => outLog' \in [Slots -> Log]
      BY DEF Logged, PrTypeOK
    <2>3. \A log \in Log : log.ok \in BOOLEAN
      BY DEF Log
    <2>4. ASSUME NEW log \in Log, Logged(log), slot[1] # "iter", ~log.ok,
                 messages' = Append(messages, <<source, log>>),
                 \/ slot[2] < MAX_ITERS /\ prPc' = "ask" /\ slot' = <<"loop", slot[2] + 1>>
                 \/ ~(slot[2] < MAX_ITERS) /\ prPc' = "summary" /\ slot' = slot
          PROVE  PrInv'
      <3>1. slot \in Slots /\ slot[1] = "loop" /\ slot[2] \in 1 .. MAX_ITERS
        BY <2>4, SlotsTyped DEF PrTypeOK
      <3>2. Len(messages) = slot[2] - 1
        BY <2>0, <3>1 DEF AttemptsFed
      <3>3. <<source, log>> \in Sources \X Log
        BY <2>0 DEF AttemptsFed
      <3>4. messages' \in Seq(Sources \X Log) /\ Len(messages') = slot[2]
        BY <2>4, <3>1, <3>2, <3>3 DEF PrTypeOK
      <3>5. CASE slot[2] < MAX_ITERS /\ prPc' = "ask" /\ slot' = <<"loop", slot[2] + 1>>
        <4>1. slot[2] + 1 \in 1 .. MAX_ITERS
          BY <3>1, <3>5
        <4>2. slot' \in Slots /\ slot'[2] = slot[2] + 1
          BY <3>5, <4>1, SlotsTyped
        <4>3. AttemptsFed'
          BY <3>1, <3>4, <3>5, <4>2 DEF AttemptsFed
        <4> QED
          BY <2>0, <2>2, <2>4, <3>1, <3>4, <3>5, <4>2, <4>3 DEF PrTypeOK
      <3>6. CASE ~(slot[2] < MAX_ITERS) /\ prPc' = "summary" /\ slot' = slot
        <4>1. AttemptsFed'
          BY <3>1, <3>4, <3>6 DEF AttemptsFed
        <4> QED
          BY <2>0, <2>2, <2>4, <3>1, <3>4, <3>6, <4>1 DEF PrTypeOK
      <3> QED
        BY <2>4, <3>5, <3>6
    <2> QED
      BY <1>5, <2>1, <2>2, <2>4, BuildCases
  <1>6. CASE WriteLoopSummary
    <2>1. slot[2] \in 1 .. MAX_ITERS
      BY <1>6, SlotsTyped DEF WriteLoopSummary, PrTypeOK, AttemptsFed
    <2> QED
      BY <1>6, <2>1 DEF WriteLoopSummary, ConvergedAt, PrTypeOK, AttemptsFed
  <1>7. CASE PrKill
    BY <1>7 DEF PrKill, PrTypeOK, AttemptsFed
  <1>8. CASE UNCHANGED prVars
    BY <1>8 DEF prVars, PrTypeOK, AttemptsFed
  <1> QED
    BY <1>1, <1>2, <1>3, <1>4, <1>5, <1>6, <1>7, <1>8 DEF PrNext

\* Every variable has its type in every reachable state.
THEOREM PrTypeCorrect == PrSpec => []PrTypeOK
  <1>1. PrInv /\ [PrNext]_prVars => PrInv'
    BY PrInvStep
  <1>2. PrInv => PrTypeOK
    BY DEF PrInv
  <1> QED
    BY <1>1, <1>2, PrInvInit, PTL DEF PrSpec

-----------------------------------------------------------------------------
\* The accepted generator

\* From the answer on, the slot has the source; from the write on, so has
\* GenLLM.lean; the log that ends the loop is about it.
SourceOnDisk ==
  /\ prPc \in {"write", "build", "summary"} => outSrc[slot] = source
  /\ prPc \in {"build", "summary"} => genLLM = source
  /\ prPc = "summary" => /\ outLog[slot].about = genLLM
                         /\ outLog[slot].ok => genLLM \in compiles

LEMMA AcceptedInit == PrInit => SourceOnDisk /\ AcceptedGeneratorStays
  BY DEF PrInit, SourceOnDisk, AcceptedGeneratorStays

LEMMA AcceptedStep ==
  ASSUME PrInv, SourceOnDisk, AcceptedGeneratorStays, [PrNext]_prVars
  PROVE  SourceOnDisk' /\ AcceptedGeneratorStays'
  <1>1. CASE StartLoop \/ \E k \in 1 .. 3 : StartIter(k)
    <2>1. prPc' \in {"ask", "raised"}
      BY <1>1 DEF StartLoop, StartIter
    <2> QED
      BY <2>1 DEF SourceOnDisk, AcceptedGeneratorStays
  <1>2. CASE Ask
    <2>1. CASE prPc' = "write"
      <3>1. source' = drawn + 1 /\ outSrc' = [outSrc EXCEPT ![slot] = drawn + 1] /\ slot' = slot
        BY <1>2, <2>1 DEF Ask
      <3> QED
        BY <2>1, <3>1 DEF PrInv, PrTypeOK, SourceOnDisk, AcceptedGeneratorStays
    <2>2. CASE prPc' \in {"exit1", "raised"}
      BY <2>2 DEF SourceOnDisk, AcceptedGeneratorStays
    <2> QED
      BY <1>2, <2>1, <2>2 DEF Ask
  <1>3. CASE WriteGenLLM
    BY <1>3 DEF WriteGenLLM, SourceOnDisk, AcceptedGeneratorStays
  <1>4. CASE Build
    <2>0. /\ prPc = "build" /\ UNCHANGED <<source, genLLM, outSrc, compiles>>
          /\ outSrc[slot] = source /\ genLLM = source
      BY <1>4, BuildCases DEF PrInv, SourceOnDisk
    <2>1. CASE prPc' \in {"raised", "exit1", "ask"}
      BY <2>1 DEF SourceOnDisk, AcceptedGeneratorStays
    <2>2. ASSUME NEW log \in Log, Logged(log), slot' = slot
          PROVE  /\ outLog'[slot'] = log /\ outLog'[slot'].about = genLLM'
                 /\ log.ok => genLLM' \in compiles'
      BY <2>0, <2>2 DEF Logged, PrInv, PrTypeOK
    <2>3. ASSUME NEW log \in Log, Logged(log), slot' = slot, prPc' = "summary"
          PROVE  SourceOnDisk' /\ AcceptedGeneratorStays'
      BY <2>0, <2>2, <2>3 DEF SourceOnDisk, AcceptedGeneratorStays
    <2>4. ASSUME NEW log \in Log, Logged(log), slot' = slot, slot[1] = "iter", log.ok, prPc' = "exit0"
          PROVE  SourceOnDisk' /\ AcceptedGeneratorStays'
      <3>1. log = [about |-> genLLM', ok |-> TRUE]
        <4>1. log = [about |-> log.about, ok |-> log.ok] /\ log.ok \in BOOLEAN
          BY DEF Log
        <4>2. log.about = genLLM' /\ log.ok = TRUE
          BY <2>0, <2>4, <4>1 DEF Logged
        <4> QED
          BY <4>1, <4>2
      <3> QED
        BY <2>0, <2>2, <2>4, <3>1 DEF SourceOnDisk, AcceptedGeneratorStays
    <2>5. \/ prPc' \in {"raised", "exit1", "ask"}
          \/ \E log \in Log :
                /\ Logged(log) /\ slot' = slot
                /\ prPc' = "summary" \/ (slot[1] = "iter" /\ log.ok /\ prPc' = "exit0")
      BY <1>4, BuildCases DEF PrInv
    <2> QED
      BY <2>1, <2>3, <2>4, <2>5
  <1>5. CASE WriteLoopSummary
    <2>1. /\ prPc = "summary" /\ UNCHANGED <<slot, genLLM, outSrc, outLog, compiles>>
          /\ loopSummary' = (IF outLog[slot].ok THEN slot[2] ELSE 0)
          /\ prPc' = (IF loopSummary' > 0 THEN "exit0" ELSE "exit1")
      BY <1>5 DEF WriteLoopSummary, ConvergedAt
    <2>2. outLog[slot] \in Log
      BY DEF PrInv, PrTypeOK
    <2>3. CASE outLog[slot].ok
      <3>1. outLog[slot] = [about |-> genLLM, ok |-> TRUE]
        <4>1. outLog[slot] = [about |-> outLog[slot].about, ok |-> outLog[slot].ok]
          BY <2>2 DEF Log
        <4>2. outLog[slot].about = genLLM /\ outLog[slot].ok = TRUE
          BY <2>1, <2>2, <2>3 DEF SourceOnDisk, Log
        <4> QED
          BY <4>1, <4>2
      <3> QED
        BY <2>1, <2>3, <3>1 DEF SourceOnDisk, AcceptedGeneratorStays
    <2>4. CASE ~outLog[slot].ok
      BY <2>1, <2>4 DEF SourceOnDisk, AcceptedGeneratorStays
    <2> QED
      BY <2>3, <2>4
  <1>6. CASE PrKill
    BY <1>6 DEF PrKill, SourceOnDisk, AcceptedGeneratorStays
  <1>7. CASE UNCHANGED prVars
    BY <1>7 DEF prVars, prFiles, SourceOnDisk, AcceptedGeneratorStays
  <1> QED
    BY <1>1, <1>2, <1>3, <1>4, <1>5, <1>6, <1>7 DEF PrNext

\* Whatever was proposed, killed or left behind before, exit 0 leaves in
\* cedar-micro the source recorded for that attempt, and it compiles.
THEOREM AcceptedStays == PrSpec => []AcceptedGeneratorStays
  <1>1. PrInv /\ SourceOnDisk /\ AcceptedGeneratorStays /\ [PrNext]_prVars
          => PrInv' /\ SourceOnDisk' /\ AcceptedGeneratorStays'
    BY PrInvStep, AcceptedStep
  <1> QED
    BY <1>1, PrInvInit, AcceptedInit, PTL DEF PrSpec

-----------------------------------------------------------------------------
\* The conversation of the loop

LEMMA FedInit == PrInit => LoopFeedsItsErrors
  BY DEF PrInit, LoopFeedsItsErrors, PrStages

\* Nothing that was fed back changes on disk when only the slot of this attempt
\* is written.
LEMMA FedStays ==
  ASSUME PrInv, LoopFeedsItsErrors, prPc \in PrStages, slot[1] = "loop",
         slot' = slot, messages' = messages,
         \A t \in Slots \ {slot} : outSrc'[t] = outSrc[t] /\ outLog'[t] = outLog[t],
         Len(messages) = slot[2] - 1
  PROVE  LoopFeedsItsErrors'
  <1>1. slot \in Slots /\ slot[2] \in 1 .. MAX_ITERS
    BY SlotsTyped DEF PrInv, PrTypeOK
  <1>2. ASSUME NEW k \in 1 .. Len(messages)
        PROVE  /\ outSrc'[<<"loop", k>>] = outSrc[<<"loop", k>>]
               /\ outLog'[<<"loop", k>>] = outLog[<<"loop", k>>]
    <2>1. k \in 1 .. MAX_ITERS /\ k # slot[2]
      BY <1>1, ProposerAssumption
    <2>2. <<"loop", k>> \in Slots /\ <<"loop", k>> # slot
      BY <2>1, SlotsTyped
    <2> QED
      BY <2>2
  <1> QED
    BY <1>1, <1>2 DEF LoopFeedsItsErrors

LEMMA FedStep ==
  ASSUME PrInv, SourceOnDisk, LoopFeedsItsErrors, [PrNext]_prVars
  PROVE  LoopFeedsItsErrors'
  <1>1. CASE StartLoop
    <2>1. slot' = <<"loop", 1>> /\ messages' = <<>>
      BY <1>1 DEF StartLoop
    <2>2. Len(messages') = 0 /\ slot'[2] = 1
      BY <2>1
    <2>3. 1 .. Len(messages') = {} /\ Len(messages') \in {slot'[2] - 1, slot'[2]}
      BY <2>2
    <2> QED
      BY <2>3 DEF LoopFeedsItsErrors
  <1>2. ASSUME NEW k \in 1 .. 3, StartIter(k) PROVE LoopFeedsItsErrors'
    <2>1. slot'[1] = "iter"
      BY <1>2 DEF StartIter
    <2> QED
      BY <2>1 DEF LoopFeedsItsErrors
  <1>3. CASE Ask
    <2>1. prPc = "ask" /\ UNCHANGED <<slot, messages, outLog>>
      BY <1>3 DEF Ask
    <2>2. \A t \in Slots \ {slot} : outSrc'[t] = outSrc[t]
      BY <1>3 DEF Ask, PrInv, PrTypeOK
    <2>3. CASE slot[1] = "loop"
      BY <2>1, <2>2, <2>3, FedStays DEF PrInv, AttemptsFed, PrStages
    <2> QED
      BY <2>1, <2>3 DEF LoopFeedsItsErrors
  <1>4. CASE WriteGenLLM
    BY <1>4 DEF WriteGenLLM, LoopFeedsItsErrors, PrStages
  <1>5. CASE Build
    <2>0. prPc = "build" /\ UNCHANGED <<source, genLLM, outSrc>>
            /\ outSrc[slot] = source /\ genLLM = source
      BY <1>5, BuildCases DEF PrInv, SourceOnDisk
    <2>1. \/ prPc' \in {"raised", "exit0", "exit1"}
          \/ \E log \in Log :
              /\ Logged(log) /\ slot[1] # "iter"
              /\ \/ log.ok /\ UNCHANGED <<slot, messages>>
                 \/ /\ ~log.ok /\ messages' = Append(messages, <<source, log>>)
                    /\ slot' \in {slot, <<"loop", slot[2] + 1>>}
      BY <1>5, BuildCases DEF PrInv
    <2>2. CASE prPc' \in {"raised", "exit0", "exit1"}
      BY <2>2 DEF LoopFeedsItsErrors, PrStages
    <2>3. ASSUME NEW log \in Log, Logged(log), slot[1] # "iter",
                 \/ log.ok /\ UNCHANGED <<slot, messages>>
                 \/ /\ ~log.ok /\ messages' = Append(messages, <<source, log>>)
                    /\ slot' \in {slot, <<"loop", slot[2] + 1>>}
          PROVE  LoopFeedsItsErrors'
      <3>1. slot \in Slots /\ slot[1] = "loop" /\ slot[2] \in 1 .. MAX_ITERS /\ slot = <<"loop", slot[2]>>
        BY <2>3, SlotsTyped DEF PrInv, PrTypeOK
      <3>2. Len(messages) = slot[2] - 1 /\ messages \in Seq(Sources \X Log)
        BY <2>0, <3>1 DEF PrInv, PrTypeOK, AttemptsFed
      <3>3. /\ outLog'[slot] = log
            /\ \A t \in Slots \ {slot} : outLog'[t] = outLog[t]
        BY <2>3, <3>1 DEF Logged, PrInv, PrTypeOK
      <3>4. CASE log.ok /\ UNCHANGED <<slot, messages>>
        BY <2>0, <3>1, <3>2, <3>3, <3>4, FedStays DEF PrStages
      <3>5. CASE /\ ~log.ok /\ messages' = Append(messages, <<source, log>>)
                 /\ slot' \in {slot, <<"loop", slot[2] + 1>>}
        <4>1. Len(messages') = slot[2] /\ messages'[slot[2]] = <<source, log>>
          BY <3>1, <3>2, <3>5
        <4>2. \A k \in 1 .. (slot[2] - 1) : messages'[k] = messages[k]
          BY <3>1, <3>2, <3>5
        <4>3. slot'[2] \in {slot[2], slot[2] + 1}
          BY <3>5
        <4>4. ASSUME NEW k \in 1 .. Len(messages')
              PROVE  /\ messages'[k] = <<outSrc'[<<"loop", k>>], outLog'[<<"loop", k>>]>>
                     /\ messages'[k][2].about = messages'[k][1] /\ ~messages'[k][2].ok
          <5>1. CASE k = slot[2]
            <6>1. <<"loop", k>> = slot
              BY <3>1, <5>1
            <6>2. messages'[k] = <<source, log>> /\ log.about = source /\ ~log.ok
              BY <2>0, <2>3, <3>5, <4>1, <5>1 DEF Logged
            <6>3. messages'[k][1] = source /\ messages'[k][2] = log
              BY <6>2
            <6>4. outSrc'[<<"loop", k>>] = source /\ outLog'[<<"loop", k>>] = log
              BY <2>0, <3>3, <6>1
            <6>5. messages'[k] = <<outSrc'[<<"loop", k>>], outLog'[<<"loop", k>>]>>
              BY <6>2, <6>4
            <6>6. messages'[k][2].about = messages'[k][1] /\ ~messages'[k][2].ok
              BY <6>2, <6>3
            <6> QED
              BY <6>5, <6>6
          <5>2. CASE k # slot[2]
            <6>1. k \in 1 .. Len(messages) /\ messages'[k] = messages[k] /\ k \in 1 .. MAX_ITERS
              BY <3>1, <3>2, <4>1, <4>2, <5>2, ProposerAssumption
            <6>2. <<"loop", k>> \in Slots /\ <<"loop", k>> # slot
              BY <3>1, <5>2, <6>1, SlotsTyped
            <6>3. outLog'[<<"loop", k>>] = outLog[<<"loop", k>>] /\ outSrc' = outSrc
              BY <2>0, <3>3, <6>2
            <6>4. /\ messages[k] = <<outSrc[<<"loop", k>>], outLog[<<"loop", k>>]>>
                  /\ messages[k][2].about = messages[k][1] /\ ~messages[k][2].ok
              BY <2>0, <3>1, <6>1 DEF LoopFeedsItsErrors, PrStages
            <6> QED
              BY <6>1, <6>3, <6>4
          <5> QED
            BY <5>1, <5>2
        <4>5. Len(messages') \in {slot'[2] - 1, slot'[2]}
          BY <3>1, <4>1, <4>3
        <4> QED
          BY <4>4, <4>5 DEF LoopFeedsItsErrors
      <3> QED
        BY <2>3, <3>4, <3>5
    <2> QED
      BY <2>1, <2>2, <2>3
  <1>6. CASE WriteLoopSummary
    BY <1>6 DEF WriteLoopSummary, LoopFeedsItsErrors, PrStages
  <1>7. CASE PrKill
    BY <1>7 DEF PrKill, LoopFeedsItsErrors, PrStages
  <1>8. CASE UNCHANGED prVars
    BY <1>8 DEF prVars, prFiles, LoopFeedsItsErrors
  <1> QED
    BY <1>1, <1>2, <1>3, <1>4, <1>5, <1>6, <1>7, <1>8 DEF PrNext

\* The conversation of run_loop.py is what outputs/ records of it, attempt by
\* attempt, each failure with the log of its own source.
THEOREM LoopConversation == PrSpec => []LoopFeedsItsErrors
  <1>1. PrInv /\ SourceOnDisk /\ AcceptedGeneratorStays /\ LoopFeedsItsErrors /\ [PrNext]_prVars
          => PrInv' /\ SourceOnDisk' /\ AcceptedGeneratorStays' /\ LoopFeedsItsErrors'
    BY PrInvStep, AcceptedStep, FedStep
  <1> QED
    BY <1>1, PrInvInit, AcceptedInit, FedInit, PTL DEF PrSpec

-----------------------------------------------------------------------------
\* What the single attempts feed back

\* An attempt that was answered comes to its compile log.
AttemptCompletes == prPc \in {"write", "build"} => prPc' \notin {"raised", "killed"}

\* But for the attempt in hand, every slot's log is about the slot's source.
LogsMatch ==
  \A s \in Slots : (prPc \in {"write", "build"} => s # slot) => outLog[s].about = outSrc[s]

MatchInv == LogsMatch /\ FeedbackIsExact

LEMMA MatchInit == PrInit => MatchInv
  BY DEF PrInit, MatchInv, LogsMatch, FeedbackIsExact, NoLog, PrStages

LEMMA MatchStep ==
  ASSUME PrInv, SourceOnDisk, MatchInv, [PrNext]_prVars, [AttemptCompletes]_prVars
  PROVE  MatchInv'
  <1> USE DEF MatchInv
  <1>1. CASE StartLoop
    <2>1. /\ prPc \in PrEnded /\ UNCHANGED <<outSrc, outLog>>
          /\ slot' = <<"loop", 1>>
      BY <1>1 DEF StartLoop, Launch, prFiles
    <2> QED
      BY <2>1 DEF LogsMatch, FeedbackIsExact, PrEnded
  <1>2. ASSUME NEW k \in 1 .. 3, StartIter(k) PROVE MatchInv'
    <2>1. prPc \in PrEnded /\ UNCHANGED <<outSrc, outLog>>
      BY <1>2 DEF StartIter, Launch, prFiles
    <2>2. LogsMatch' /\ \A s \in Slots : outLog[s].about = outSrc[s]
      BY <2>1 DEF LogsMatch, PrEnded
    <2>3. CASE messages' = <<>>
      BY <2>2, <2>3 DEF FeedbackIsExact
    <2>4. CASE k > 1 /\ messages' = <<<<outSrc[<<"iter", k - 1>>], outLog[<<"iter", k - 1>>]>>>>
      <3>1. <<"iter", k - 1>> \in Slots
        BY <2>4, SlotsTyped
      <3> QED
        BY <2>2, <2>4, <3>1 DEF FeedbackIsExact
    <2> QED
      BY <1>2, <2>3, <2>4 DEF StartIter
  <1>3. CASE Ask
    <2>1. prPc = "ask" /\ UNCHANGED <<slot, messages, outLog>>
      BY <1>3 DEF Ask
    <2>2. FeedbackIsExact'
      BY <2>1 DEF FeedbackIsExact, PrStages
    <2>3. CASE prPc' = "write"
      <3>1. \A t \in Slots \ {slot} : outSrc'[t] = outSrc[t]
        BY <1>3 DEF Ask, PrInv, PrTypeOK
      <3> QED
        BY <2>1, <2>2, <2>3, <3>1 DEF LogsMatch
    <2>4. CASE prPc' # "write"
      BY <1>3, <2>1, <2>2, <2>4 DEF Ask, LogsMatch
    <2> QED
      BY <2>3, <2>4
  <1>4. CASE WriteGenLLM
    BY <1>4 DEF WriteGenLLM, LogsMatch, FeedbackIsExact, PrStages
  <1>5. CASE Build
    <2>1. /\ prPc = "build" /\ UNCHANGED <<source, genLLM, outSrc>>
          /\ outSrc[slot] = source /\ genLLM = source
      BY <1>5, BuildCases DEF PrInv, SourceOnDisk
    <2>2. prPc' # "raised"
      <3>1. prPc' # prPc
        BY <1>5, <2>1, BuildCases DEF PrInv
      <3> QED
        BY <2>1, <3>1 DEF AttemptCompletes, prVars
    <2>3. PICK log \in Log :
            /\ Logged(log)
            /\ prPc' \notin {"write", "build"}
            /\ slot[1] = "iter" => UNCHANGED <<slot, messages>>
            /\ slot[1] # "iter" => slot'[1] # "iter"
      BY <1>5, <2>2, BuildCases DEF PrInv
    <2>4. /\ slot \in Slots /\ outLog'[slot] = log /\ log.about = source
          /\ \A t \in Slots \ {slot} : outLog'[t] = outLog[t]
      BY <2>1, <2>3 DEF Logged, PrInv, PrTypeOK
    <2>5. LogsMatch'
      BY <2>1, <2>3, <2>4 DEF LogsMatch
    <2> QED
      BY <2>1, <2>3, <2>5 DEF FeedbackIsExact, PrStages
  <1>6. CASE WriteLoopSummary
    BY <1>6 DEF WriteLoopSummary, LogsMatch, FeedbackIsExact, PrStages
  <1>7. CASE PrKill
    <2>1. prPc' = "killed" /\ prPc' # prPc
      BY <1>7 DEF PrKill, PrStages
    <2>2. prPc \notin {"write", "build"}
      BY <2>1 DEF AttemptCompletes, prVars
    <2> QED
      BY <1>7, <2>1, <2>2 DEF PrKill, prFiles, LogsMatch, FeedbackIsExact, PrStages
  <1>8. CASE UNCHANGED prVars
    BY <1>8 DEF prVars, prFiles, LogsMatch, FeedbackIsExact
  <1> QED
    BY <1>1, <1>2, <1>3, <1>4, <1>5, <1>6, <1>7, <1>8 DEF PrNext

\* The log that run_iter_2.py and run_iter_3.py feed back is that of the source
\* beside it, however often and in whatever order the scripts are run, if every
\* attempt that got an answer comes to its log; FeedbackIsExact is lost only by
\* one that is cut short in between.
THEOREM FeedbackIsExactUnlessCutShort ==
  PrSpec /\ [][AttemptCompletes]_prVars => []FeedbackIsExact
  <1>1. PrInv /\ SourceOnDisk /\ AcceptedGeneratorStays /\ MatchInv /\ [PrNext]_prVars
          /\ [AttemptCompletes]_prVars
          => PrInv' /\ SourceOnDisk' /\ AcceptedGeneratorStays' /\ MatchInv'
    BY PrInvStep, AcceptedStep, MatchStep
  <1>2. MatchInv => FeedbackIsExact
    BY DEF MatchInv
  <1> QED
    BY <1>1, <1>2, PrInvInit, AcceptedInit, MatchInit, PTL DEF PrSpec
=============================================================================
