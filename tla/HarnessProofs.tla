--------------------------- MODULE HarnessProofs ---------------------------
(* Theorems of the smaller harnesses and of Experiments, for any constants. *)
EXTENDS Experiments, WidenedProofs, SchemaProbeProofs, ProposerProofs, FiniteSetTheorems, TLAPS

-----------------------------------------------------------------------------
\* The CLI result parser

\* What was printed is what was to be printed, as far as the CLI came.
PrintedSoFar ==
  /\ CliTypeOK
  /\ toPrint \subseteq Pieces(said, names)
  /\ combined = UNION (Pieces(said, names) \ toPrint)
  /\ died = FALSE /\ cliPc # "running" => cliPc # "killed" /\ toPrint = {}
  /\ verdict # "none" => cliPc = "parsed" /\ verdict = ParseCedarCliResult(combined)

LEMMA PiecesTyped ==
  ASSUME NEW o \in CedarOutcome, NEW w \in SUBSET Words
  PROVE  Pieces(o, w) \subseteq SUBSET Words
  BY DEF Pieces, CedarOutcome, Words

LEMMA PrintedInit == CliInit => PrintedSoFar
  BY PiecesTyped DEF CliInit, PrintedSoFar, CliTypeOK

LEMMA PrintedStep ==
  ASSUME PrintedSoFar, [CliNext]_cliVars
  PROVE  PrintedSoFar'
  <1> USE DEF PrintedSoFar, CliTypeOK
  <1>1. CASE PrintPiece
    <2>1. PICK piece \in toPrint :
            /\ combined' = combined \cup piece
            /\ toPrint' = toPrint \ {piece}
            /\ cliPc' = IF toPrint' = {} THEN "done" ELSE "running"
      BY <1>1 DEF PrintPiece
    <2>2. cliPc = "running" /\ UNCHANGED <<said, names, died, verdict>>
      BY <1>1 DEF PrintPiece
    <2>3. /\ toPrint' \subseteq Pieces(said, names) /\ combined' \subseteq Words
          /\ combined' = UNION (Pieces(said, names) \ toPrint')
      BY <2>1
    <2> QED
      BY <2>1, <2>2, <2>3
  <1>2. CASE KillCli
    BY <1>2 DEF KillCli
  <1>3. CASE ParseOutput
    <2>1. ParseCedarCliResult(combined) \in CedarOutcome
      BY DEF ParseCedarCliResult, CedarOutcome
    <2> QED
      BY <1>3, <2>1 DEF ParseOutput
  <1>4. CASE UNCHANGED cliVars
    BY <1>4 DEF cliVars
  <1> QED
    BY <1>1, <1>2, <1>3, <1>4 DEF CliNext

LEMMA PrintedSuffices == PrintedSoFar => VerdictIsCedars
  <1> SUFFICES ASSUME PrintedSoFar, verdict # "none"
               PROVE  /\ verdict = "Allow" => said = "Allow"
                      /\ said = "Allow" /\ verdict # "Allow" => died /\ verdict = "Deny"
                      /\ ~died => \/ verdict = said
                                  \/ said = "EvalError" /\ verdict = "ParseError"
                                       /\ "parse marker" \in names
    BY DEF VerdictIsCedars
  <1> DEFINE all == Pieces(said, names)
  <1>1. /\ verdict = ParseCedarCliResult(combined)
        /\ combined = UNION (all \ toPrint) /\ toPrint \subseteq all
        /\ ~died => toPrint = {}
        /\ said \in CedarOutcome /\ names \subseteq Words /\ died \in BOOLEAN
    BY DEF PrintedSoFar, CliTypeOK
  <1>2. CASE said = "Allow"
    <2>1. all = {{"allow"}}
      BY <1>2 DEF Pieces
    <2>2. combined = {"allow"} \/ (combined = {} /\ died)
      BY <1>1, <2>1
    <2> QED
      BY <1>1, <1>2, <2>2 DEF ParseCedarCliResult
  <1>3. CASE said = "Deny"
    <2>1. all = {{}}
      BY <1>3 DEF Pieces
    <2>2. combined = {}
      BY <1>1, <2>1
    <2> QED
      BY <1>1, <1>3, <2>2 DEF ParseCedarCliResult
  <1>4. CASE said = "ParseError"
    <2>1. all = {{"parse marker"} \cup names}
      BY <1>4 DEF Pieces
    <2>2. "parse marker" \in combined \/ (combined = {} /\ died)
      BY <1>1, <2>1
    <2> QED
      BY <1>1, <1>4, <2>2 DEF ParseCedarCliResult
  <1>5. CASE said = "EvalError"
    <2>1. all = {{}, {"eval marker"} \cup names}
      BY <1>5 DEF Pieces
    <2>2. combined = {"eval marker"} \cup names \/ (combined = {} /\ died)
      <3> DEFINE message == {"eval marker"} \cup names
      <3>1. all = {{}, message}
        BY <2>1
      <3> HIDE DEF message, all
      <3>2. CASE message \in toPrint
        <4>1. \A piece \in all \ toPrint : piece = {}
          BY <3>1, <3>2
        <4>2. combined = {} /\ died
          BY <1>1, <3>2, <4>1
        <4> QED
          BY <4>2
      <3>3. CASE message \notin toPrint
        <4>1. message \in all \ toPrint /\ \A piece \in all \ toPrint : piece \subseteq message
          BY <3>1, <3>3
        <4>2. combined = message
          BY <1>1, <4>1
        <4> QED
          BY <4>2 DEF message
      <3> QED
        BY <3>2, <3>3
    <2> QED
      BY <1>1, <1>5, <2>2 DEF ParseCedarCliResult
  <1> QED
    BY <1>1, <1>2, <1>3, <1>4, <1>5 DEF CedarOutcome

\* Types of the CLI call, a conjunct of its invariant.
THEOREM CliTypeCorrect == CliSpec => []CliTypeOK
  <1>1. PrintedSoFar /\ [CliNext]_cliVars => PrintedSoFar'
    BY PrintedStep
  <1>2. PrintedSoFar => CliTypeOK
    BY DEF PrintedSoFar
  <1> QED
    BY <1>1, <1>2, PrintedInit, PTL DEF CliSpec

\* Whatever names a message repeats and whenever the CLI is killed, the parser
\* never makes an Allow of anything else.
THEOREM VerdictsAreCedars == CliSpec => []VerdictIsCedars
  <1>1. PrintedSoFar /\ [CliNext]_cliVars => PrintedSoFar'
    BY PrintedStep
  <1> QED
    BY <1>1, PrintedInit, PrintedSuffices, PTL DEF CliSpec

-----------------------------------------------------------------------------
\* The OPA differential driver

LEMMA IntervalFacts ==
  ASSUME NEW k \in Nat
  PROVE  IsFiniteSet(1 .. k) /\ Cardinality(1 .. k) = k
  <1>1. IsFiniteSet(1 .. k) /\ Cardinality(1 .. k) = IF 1 > k THEN 0 ELSE k - 1 + 1
    BY FS_Interval
  <1> QED
    BY <1>1

\* After k tuples: an answer is opa's own or a failure, and what does not agree
\* has its label.
OpaInv ==
  /\ opaTruth \in [OpaTuples -> RegoValue]
  /\ \E k \in 0 .. NOpa : DOMAIN opaResult = 1 .. k
  /\ \A t \in DOMAIN opaResult : opaResult[t] \in {opaTruth[t]} \cup OpaFailure
  /\ DOMAIN bugs = {t \in DOMAIN opaResult : ~Agrees(SpecSays[t], opaResult[t])}
  /\ \A t \in DOMAIN bugs : bugs[t] = Classify(SpecSays[t], opaResult[t])
  /\ agreed \in Nat /\ disagreed \in Nat
  /\ disagreed = Cardinality(DOMAIN bugs)
  /\ agreed + disagreed = Cardinality(DOMAIN opaResult)
  /\ oPc = "exit1" => \E t \in DOMAIN bugs : SaysBug(bugs[t])
  /\ oPc = "exit0" => \A t \in DOMAIN bugs : ~SaysBug(bugs[t])

\* Where the file of --output and the sweep are when the driver is at oPc.
OpaFile ==
  /\ output \in BOOLEAN
  /\ oPc \in {"report", "dump", "exit", "exit0", "exit1"} => DOMAIN opaResult = OpaTuples
  /\ oPc \in {"idle", "lean", "sweep", "report"} => outFile = "old"
  /\ oPc \in {"report", "dump"} => output
  /\ oPc \in {"exit", "exit0", "exit1"} => (output <=> outFile = "new")
  /\ outFile = "torn" => oPc \in {"dump", "raised", "killed"}

LEMMA OpaFileInit == OpaInit => OpaFile
  BY DEF OpaInit, OpaFile

LEMMA OpaFileStep ==
  ASSUME OpaFile, [OpaNext]_oVars
  PROVE  OpaFile'
  <1> USE DEF OpaFile
  <1>1. CASE OpaStart
    BY <1>1 DEF OpaStart
  <1>2. CASE OpaTuple
    <2>1. oPc = "sweep" /\ UNCHANGED <<oPc, output, outFile>>
      BY <1>2 DEF OpaTuple
    <2> QED
      BY <2>1
  <1>3. CASE OpaReport
    BY <1>3 DEF OpaReport
  <1>4. CASE OpaWrite
    BY <1>4 DEF OpaWrite
  <1>5. CASE OpaExit
    <2>1. /\ oPc = "exit" /\ oPc' \in {"exit0", "exit1"}
          /\ UNCHANGED <<output, outFile, opaResult>>
      BY <1>5 DEF OpaExit
    <2> QED
      BY <2>1
  <1>6. CASE OpaStops
    BY <1>6 DEF OpaStops
  <1>7. CASE UNCHANGED oVars
    BY <1>7 DEF oVars
  <1> QED
    BY <1>1, <1>2, <1>3, <1>4, <1>5, <1>6, <1>7 DEF OpaNext

LEMMA OpaInvInit == OpaInit => OpaInv
  <1> SUFFICES ASSUME OpaInit PROVE OpaInv
    OBVIOUS
  <1>1. DOMAIN <<>> = {} /\ 1 .. 0 = {} /\ 0 \in 0 .. NOpa /\ Cardinality({}) = 0
    BY OpaAssumption, FS_EmptySet
  <1>2. DOMAIN opaResult = 1 .. 0 /\ DOMAIN bugs = {} /\ oPc = "idle"
    BY <1>1 DEF OpaInit
  <1> QED
    BY <1>1, <1>2 DEF OpaInit, OpaInv

LEMMA OpaTupleStep ==
  ASSUME OpaInv, OpaTuple
  PROVE  OpaInv'
  <1>1. PICK k \in 0 .. NOpa : DOMAIN opaResult = 1 .. k
    BY DEF OpaInv
  <1>2. k \in Nat /\ Cardinality(DOMAIN opaResult) = k
    BY <1>1, IntervalFacts, OpaAssumption
  <1> DEFINE t == k + 1
  <1>3. /\ oPc = "sweep" /\ t \in OpaTuples /\ UNCHANGED <<oPc, opaTruth>>
        /\ \E opa \in {opaTruth[t]} \cup OpaFailure :
            /\ opaResult' = [u \in 1 .. t |-> IF u < t THEN opaResult[u] ELSE opa]
            /\ IF Agrees(SpecSays[t], opa)
               THEN agreed' = agreed + 1 /\ UNCHANGED <<disagreed, bugs>>
               ELSE /\ disagreed' = disagreed + 1 /\ UNCHANGED agreed
                    /\ bugs' = [u \in DOMAIN bugs \cup {t} |->
                                  IF u = t THEN Classify(SpecSays[t], opa) ELSE bugs[u]]
    BY <1>2 DEF OpaTuple
  <1>4. PICK opa \in {opaTruth[t]} \cup OpaFailure :
            /\ opaResult' = [u \in 1 .. t |-> IF u < t THEN opaResult[u] ELSE opa]
            /\ IF Agrees(SpecSays[t], opa)
               THEN agreed' = agreed + 1 /\ UNCHANGED <<disagreed, bugs>>
               ELSE /\ disagreed' = disagreed + 1 /\ UNCHANGED agreed
                    /\ bugs' = [u \in DOMAIN bugs \cup {t} |->
                                  IF u = t THEN Classify(SpecSays[t], opa) ELSE bugs[u]]
    BY <1>3
  <1>5. t \in 0 .. NOpa /\ DOMAIN opaResult' = 1 .. t /\ t \in Nat
    BY <1>2, <1>3, <1>4 DEF OpaTuples
  <1>6. opaResult'[t] = opa /\ \A u \in 1 .. k : opaResult'[u] = opaResult[u]
    BY <1>2, <1>4
  <1>7. 1 .. t = (1 .. k) \cup {t} /\ t \notin 1 .. k
    BY <1>2
  <1>8. Cardinality(DOMAIN opaResult') = k + 1
    BY <1>5, IntervalFacts
  <1>9. /\ DOMAIN bugs \subseteq 1 .. k /\ IsFiniteSet(DOMAIN bugs)
        /\ t \notin DOMAIN bugs
        /\ Cardinality(DOMAIN bugs \cup {t}) = Cardinality(DOMAIN bugs) + 1
    <2>1. DOMAIN bugs \subseteq 1 .. k
      BY <1>1 DEF OpaInv
    <2>2. IsFiniteSet(DOMAIN bugs)
      BY <1>2, <2>1, IntervalFacts, FS_Subset
    <2> QED
      BY <1>7, <2>1, <2>2, FS_AddElement
  <1> HIDE DEF t
  <1>10. \A u \in DOMAIN opaResult' : opaResult'[u] \in {opaTruth'[u]} \cup OpaFailure
    BY <1>1, <1>3, <1>4, <1>5, <1>6, <1>7 DEF OpaInv
  <1>11. CASE Agrees(SpecSays[t], opa)
    <2>1. agreed' = agreed + 1 /\ UNCHANGED <<disagreed, bugs>>
      BY <1>4, <1>11
    <2>0. DOMAIN bugs = {u \in 1 .. k : ~Agrees(SpecSays[u], opaResult[u])}
      BY <1>1 DEF OpaInv
    <2>2. DOMAIN bugs' = {u \in DOMAIN opaResult' : ~Agrees(SpecSays[u], opaResult'[u])}
      BY <1>5, <1>6, <1>7, <1>11, <2>0, <2>1
    <2>3. \A u \in DOMAIN bugs' : bugs'[u] = Classify(SpecSays[u], opaResult'[u])
      <3>1. \A u \in DOMAIN bugs : bugs[u] = Classify(SpecSays[u], opaResult[u])
        BY DEF OpaInv
      <3>2. \A u \in DOMAIN bugs : opaResult'[u] = opaResult[u]
        BY <1>6, <1>9
      <3> QED
        BY <2>1, <3>1, <3>2
    <2>4. agreed' \in Nat /\ agreed' + disagreed' = Cardinality(DOMAIN opaResult')
      BY <1>2, <1>8, <2>1 DEF OpaInv
    <2>6. oPc' # "exit1" /\ oPc' # "exit0" /\ opaTruth' \in [OpaTuples -> RegoValue]
      BY <1>3 DEF OpaInv
    <2>7. \E j \in 0 .. NOpa : DOMAIN opaResult' = 1 .. j
      BY <1>5
    <2>8. agreed' \in Nat /\ disagreed' \in Nat /\ disagreed' = Cardinality(DOMAIN bugs')
      BY <2>1, <2>4 DEF OpaInv
    <2> QED
      BY <1>10, <2>6, <2>7, <2>8, <2>2, <2>3, <2>4 DEF OpaInv
  <1>12. CASE ~Agrees(SpecSays[t], opa)
    <2>1. /\ disagreed' = disagreed + 1 /\ agreed' = agreed
          /\ bugs' = [u \in DOMAIN bugs \cup {t} |->
                        IF u = t THEN Classify(SpecSays[t], opa) ELSE bugs[u]]
      BY <1>4, <1>12
    <2>2. DOMAIN bugs' = DOMAIN bugs \cup {t}
      BY <2>1
    <2>0. DOMAIN bugs = {u \in 1 .. k : ~Agrees(SpecSays[u], opaResult[u])}
      BY <1>1 DEF OpaInv
    <2>3. DOMAIN bugs' = {u \in DOMAIN opaResult' : ~Agrees(SpecSays[u], opaResult'[u])}
      BY <1>5, <1>6, <1>7, <1>12, <2>0, <2>2
    <2>4. \A u \in DOMAIN bugs' : bugs'[u] = Classify(SpecSays[u], opaResult'[u])
      <3>1. \A u \in DOMAIN bugs : bugs[u] = Classify(SpecSays[u], opaResult[u])
        BY DEF OpaInv
      <3>2. \A u \in DOMAIN bugs : opaResult'[u] = opaResult[u]
        BY <1>6, <1>9
      <3> QED
        BY <1>6, <1>9, <2>1, <2>2, <3>1, <3>2
    <2>5. /\ disagreed' \in Nat /\ agreed' \in Nat
          /\ disagreed' = Cardinality(DOMAIN bugs')
          /\ agreed' + disagreed' = Cardinality(DOMAIN opaResult')
      BY <1>2, <1>8, <1>9, <2>1, <2>2 DEF OpaInv
    <2>6. oPc' # "exit1" /\ oPc' # "exit0" /\ opaTruth' \in [OpaTuples -> RegoValue]
      BY <1>3 DEF OpaInv
    <2>7. \E j \in 0 .. NOpa : DOMAIN opaResult' = 1 .. j
      BY <1>5
    <2>8. agreed' \in Nat /\ disagreed' \in Nat /\ disagreed' = Cardinality(DOMAIN bugs')
      BY <2>5 DEF OpaInv
    <2> QED
      BY <1>10, <2>6, <2>7, <2>8, <2>3, <2>4, <2>5 DEF OpaInv
  <1> QED
    BY <1>11, <1>12

LEMMA OpaInvStep ==
  ASSUME OpaInv, [OpaNext]_oVars
  PROVE  OpaInv'
  <1>1. CASE OpaStart
    BY <1>1 DEF OpaStart, OpaInv
  <1>2. CASE OpaReport
    BY <1>2 DEF OpaReport, OpaInv
  <1>3. CASE OpaWrite
    BY <1>3 DEF OpaWrite, OpaInv
  <1>4. CASE OpaExit
    <2>1. /\ UNCHANGED <<opaResult, agreed, disagreed, bugs, opaTruth>>
          /\ oPc' = IF \E t \in DOMAIN bugs : SaysBug(bugs[t]) THEN "exit1" ELSE "exit0"
      BY <1>4 DEF OpaExit
    <2> QED
      BY <2>1 DEF OpaInv
  <1>5. CASE OpaStops
    BY <1>5 DEF OpaStops, OpaInv
  <1>6. CASE UNCHANGED oVars
    BY <1>6 DEF oVars, OpaInv
  <1> QED
    BY <1>1, <1>2, <1>3, <1>4, <1>5, <1>6, OpaTupleStep DEF OpaNext

LEMMA OpaInvSuffices == OpaInv /\ OpaFile => OpaReportTruthful
  <1> SUFFICES ASSUME OpaInv, OpaFile PROVE OpaReportTruthful
    OBVIOUS
  <1>1. \A t \in OpaTuples : SpecSays[t] \in RegoValue /\ opaTruth[t] \in RegoValue
    BY OpaAssumption DEF OpaInv
  <1>2. DOMAIN opaResult \subseteq OpaTuples
    BY OpaAssumption DEF OpaInv, OpaTuples
  <1>3. ASSUME NEW t \in DOMAIN opaResult
        PROVE  t \in DOMAIN bugs <=> Differs(t) /\ ~Disputed(t)
    <2>1. t \in DOMAIN bugs <=> ~Agrees(SpecSays[t], opaResult[t])
      BY DEF OpaInv
    <2> QED
      BY <2>1 DEF Agrees, Differs, Disputed
  <1>4. ASSUME oPc = "exit1"
        PROVE  \E t \in OpaTuples : Differs(t) /\ opaResult[t] # "error"
    <2>1. PICK t \in DOMAIN bugs : SaysBug(bugs[t])
      BY <1>4 DEF OpaInv
    <2>2. /\ t \in DOMAIN opaResult /\ t \in OpaTuples
          /\ bugs[t] = Classify(SpecSays[t], opaResult[t])
      BY <1>2 DEF OpaInv
    <2>3. opaResult[t] # "error"
      <3>1. SpecSays[t] \in RegoValue
        BY <1>1, <2>2
      <3>2. opaResult[t] = "error" => Classify(SpecSays[t], opaResult[t]) = "error"
        BY <3>1 DEF Classify, OpaFailure, RegoValue
      <3> QED
        BY <2>1, <2>2, <3>2 DEF SaysBug
    <2> QED
      BY <1>3, <2>2, <2>3
  <1>5. ASSUME oPc = "exit0", NEW t \in OpaTuples, Differs(t), ~Disputed(t)
        PROVE  opaResult[t] = "error"
    <2>1. t \in DOMAIN opaResult /\ t \in DOMAIN bugs
      BY <1>3, <1>5 DEF OpaFile
    <2>2. ~SaysBug(bugs[t]) /\ bugs[t] = Classify(SpecSays[t], opaResult[t])
      BY <1>5, <2>1 DEF OpaInv
    <2>3. opaResult[t] \in {opaTruth[t]} \cup OpaFailure /\ opaTruth[t] \in RegoValue
            /\ SpecSays[t] \in RegoValue
      BY <1>1, <2>1 DEF OpaInv
    <2>4. opaResult[t] \in RegoValue => SaysBug(Classify(SpecSays[t], opaResult[t]))
      <3>1. opaResult[t] # SpecSays[t]
        BY <1>5 DEF Differs
      <3>2. CASE {SpecSays[t], opaResult[t]} = {"false", "undefined"}
        <4>1. opaResult[t] \notin OpaFailure /\ "true" \notin {SpecSays[t], opaResult[t]}
          BY <3>2 DEF OpaFailure
        <4>2. Classify(SpecSays[t], opaResult[t]) = "POSSIBLE-BUG"
          BY <3>2, <4>1 DEF Classify
        <4> QED
          BY <4>2 DEF SaysBug
      <3>3. CASE opaResult[t] \in RegoValue /\ "true" \in {SpecSays[t], opaResult[t]}
        <4>1. Classify(SpecSays[t], opaResult[t]) = "BUG"
          BY <2>3, <3>1, <3>3 DEF Classify, OpaFailure, RegoValue
        <4> QED
          BY <4>1 DEF SaysBug
      <3> QED
        BY <2>3, <3>1, <3>2, <3>3 DEF RegoValue
    <2>5. opaResult[t] = "error_BUG" => Classify(SpecSays[t], opaResult[t]) = "error_BUG"
      BY <2>3 DEF Classify, OpaFailure, RegoValue
    <2> QED
      BY <2>2, <2>3, <2>4, <2>5 DEF OpaFailure, SaysBug
  <1>6. disagreed = Cardinality(DOMAIN bugs) /\ agreed + disagreed = Cardinality(DOMAIN opaResult)
    BY DEF OpaInv
  <1>7. \A t \in OpaTuples : oPc = "exit0" =>
            ~Differs(t) \/ Disputed(t) \/ opaResult[t] = "error"
    BY <1>5
  <1>8. /\ outFile = "torn" => oPc \in {"dump", "raised", "killed"}
        /\ oPc \in {"exit0", "exit1"} =>
              DOMAIN opaResult = OpaTuples /\ (output <=> outFile = "new")
    BY DEF OpaFile
  <1> QED
    BY <1>3, <1>4, <1>6, <1>7, <1>8 DEF OpaReportTruthful

\* The findings of the OPA driver, its counts, its --output file and its exit
\* code, for any tuples and wherever it is stopped.
THEOREM OpaReportsTruth == OpaSpec => []OpaReportTruthful
  <1>1. OpaInv /\ [OpaNext]_oVars => OpaInv'
    BY OpaInvStep
  <1>2. OpaFile /\ [OpaNext]_oVars => OpaFile'
    BY OpaFileStep
  <1> QED
    BY <1>1, <1>2, OpaInvInit, OpaFileInit, OpaInvSuffices, PTL DEF OpaSpec

\* What a call of opa can come to.
OpaValues == RegoValue \cup OpaFailure
OpaLabels == {"BUG", "POSSIBLE-BUG", "UNEXPECTED-DISAGREEMENT"} \cup OpaFailure

LEMMA OpaTypeStep ==
  ASSUME OpaInv, OpaTypeOK, [OpaNext]_oVars
  PROVE  OpaTypeOK'
  <1> USE DEF OpaTypeOK, OpaEnded, OpaBusy
  <1>1. CASE OpaStart
    BY <1>1 DEF OpaStart
  <1>2. CASE OpaReport
    BY <1>2 DEF OpaReport
  <1>3. CASE OpaWrite \/ OpaExit \/ OpaStops
    BY <1>3 DEF OpaWrite, OpaExit, OpaStops
  <1>4. CASE UNCHANGED oVars
    BY <1>4 DEF oVars
  <1>5. CASE OpaTuple
    <2> DEFINE t == Cardinality(DOMAIN opaResult) + 1
    <2>1. PICK k \in 0 .. NOpa : opaResult \in [1 .. k -> OpaValues]
      BY DEF OpaValues
    <2>2. k \in Nat /\ DOMAIN opaResult = 1 .. k /\ t = k + 1
      BY <2>1, IntervalFacts, OpaAssumption
    <2>3. PICK opa \in {opaTruth[t]} \cup OpaFailure :
            /\ opaResult' = [u \in 1 .. t |-> IF u < t THEN opaResult[u] ELSE opa]
            /\ \/ bugs' = bugs
               \/ bugs' = [u \in DOMAIN bugs \cup {t} |->
                             IF u = t THEN Classify(SpecSays[t], opa) ELSE bugs[u]]
      BY <1>5 DEF OpaTuple
    <2>4. t \in OpaTuples /\ UNCHANGED <<oPc, output, outFile, opaTruth>>
      BY <1>5 DEF OpaTuple
    <2>5. opa \in OpaValues
      BY <2>3, <2>4 DEF OpaValues
    <2>6. opaResult' \in [1 .. t -> OpaValues] /\ t \in 0 .. NOpa
      <3>1. \A u \in 1 .. t : u < t => u \in 1 .. k
        BY <2>2
      <3> HIDE DEF t
      <3>2. \A u \in 1 .. t : u < t => opaResult[u] \in OpaValues
        BY <2>1, <3>1
      <3>3. t \in 0 .. NOpa
        BY <2>2, <2>4, OpaAssumption DEF OpaTuples
      <3> QED
        BY <2>3, <2>5, <3>2, <3>3
    <2> HIDE DEF t
    <2>7. Classify(SpecSays[t], opa) \in OpaLabels
      BY DEF Classify, OpaLabels
    <2>8. DOMAIN bugs' \subseteq DOMAIN opaResult'
      BY <2>2, <2>3, <2>6
    <2>9. \A u \in DOMAIN bugs' : bugs'[u] \in OpaLabels
      BY <2>3, <2>7 DEF OpaLabels
    <2>10. opaResult' \in UNION {[1 .. j -> OpaValues] : j \in 0 .. NOpa}
      BY <2>6
    <2> QED
      BY <2>4, <2>8, <2>9, <2>10 DEF OpaValues, OpaLabels
  <1> QED
    BY <1>1, <1>2, <1>3, <1>4, <1>5 DEF OpaNext

LEMMA OpaTypeInit == OpaInit => OpaTypeOK
  <1> SUFFICES ASSUME OpaInit PROVE OpaTypeOK
    OBVIOUS
  <1>1. opaResult \in [1 .. 0 -> OpaValues] /\ 0 \in 0 .. NOpa
    BY OpaAssumption DEF OpaInit
  <1>2. opaResult \in UNION {[1 .. j -> OpaValues] : j \in 0 .. NOpa}
    BY <1>1
  <1> QED
    BY <1>2 DEF OpaInit, OpaTypeOK, OpaValues

\* Types of the sweep over opa: an entry for the tuples so far, labels among them.
THEOREM OpaTypeCorrect == OpaSpec => []OpaTypeOK
  <1>1. OpaInv /\ [OpaNext]_oVars => OpaInv'
    BY OpaInvStep
  <1>2. OpaInv /\ OpaTypeOK /\ [OpaNext]_oVars => OpaTypeOK'
    BY OpaTypeStep
  <1> QED
    BY <1>1, <1>2, OpaInvInit, OpaTypeInit, PTL DEF OpaSpec

-----------------------------------------------------------------------------
\* The round-trip harness

NumbersOf(f) == {f[p] : p \in DOMAIN f} \ {0}

\* The rows f that were collated from the results g and r: numbered 1, 2, ... in
\* the order of the probes, exactly the findings, each with its file.
RowsFit(g, r, f, dir) ==
  /\ \E k \in 0 .. NProbes : DOMAIN f = 1 .. k
  /\ \E c \in Nat : NumbersOf(f) = 1 .. c
  /\ \A p \in DOMAIN f :
        /\ f[p] \in Nat
        /\ IsFinding(Got(g, p), Got(r, p)) => f[p] > 0
        /\ f[p] > 0 => <<f[p], p>> \in dir
  /\ \A p, q \in DOMAIN f : p < q /\ f[q] > 0 => f[p] < f[q]

\* The results g and r are what the engines make of the probes.
ResultsFit(g, r, goT, rustT, uns) ==
  /\ \A p \in DOMAIN g : p \in Probes /\ g[p] = goT[p]
  /\ \A p \in DOMAIN r : r[p] = rustT[p] \/ p \in uns

StageFits(pc, L, r, f) ==
  /\ pc \notin {"collate", "exit0"} => f = <<>>
  /\ pc \in {"collate", "exit0"} /\ "rust" \in L => DOMAIN r = Probes

RtInv ==
  /\ DOMAIN rtPc = RtRuns /\ DOMAIN legs = RtRuns /\ DOMAIN goResults = RtRuns
  /\ DOMAIN rustResults = RtRuns /\ DOMAIN findingNo = RtRuns
  /\ rtGoTruth \in FatesFrom(RtGoSays) /\ rtRustTruth \in FatesFrom(RtRustSays)
  /\ FindingsAreReal
  /\ \A i \in RtRuns : /\ RowsFit(goResults[i], rustResults[i], findingNo[i], findingDir)
                        /\ ResultsFit(goResults[i], rustResults[i], rtGoTruth, rtRustTruth, unsure)
                        /\ StageFits(rtPc[i], legs[i], rustResults[i], findingNo[i])

LEMMA NoRows == ASSUME NEW g, NEW r, NEW dir PROVE RowsFit(g, r, <<>>, dir)
  <1>1. DOMAIN <<>> = {} /\ 1 .. 0 = {} /\ 0 \in 0 .. NProbes /\ 0 \in Nat
    BY NProbesAssumption
  <1>2. NumbersOf(<<>>) = {}
    BY <1>1 DEF NumbersOf
  <1> QED
    BY <1>1, <1>2 DEF RowsFit

LEMMA EmptyResults ==
  ASSUME NEW goT, NEW rustT, NEW uns
  PROVE  ResultsFit(<<>>, <<>>, goT, rustT, uns)
  <1>1. DOMAIN <<>> = {}
    OBVIOUS
  <1> QED
    BY <1>1 DEF ResultsFit

\* More files do not make rows unfit, nor more late or dead CLIs results.
LEMMA FitsStay ==
  ASSUME NEW g, NEW r, NEW f, NEW dir, NEW dir2, NEW goT, NEW rustT, NEW uns, NEW uns2,
         dir \subseteq dir2, uns \subseteq uns2,
         RowsFit(g, r, f, dir), ResultsFit(g, r, goT, rustT, uns)
  PROVE  RowsFit(g, r, f, dir2) /\ ResultsFit(g, r, goT, rustT, uns2)
  BY DEF RowsFit, ResultsFit

LEMMA RtInvInit == RtInit => RtInv
  BY NoRows, EmptyResults DEF RtInit, RtInv, StageFits, FindingsAreReal

\* A step of invocation i that leaves the others alone.
RtStepOf(i) ==
  /\ DOMAIN rtPc' = RtRuns /\ DOMAIN legs' = RtRuns /\ DOMAIN goResults' = RtRuns
  /\ DOMAIN rustResults' = RtRuns /\ DOMAIN findingNo' = RtRuns
  /\ \A e \in RtRuns \ {i} :
        /\ rtPc'[e] = rtPc[e] /\ legs'[e] = legs[e] /\ goResults'[e] = goResults[e]
        /\ rustResults'[e] = rustResults[e] /\ findingNo'[e] = findingNo[e]
  /\ findingDir \subseteq findingDir' /\ unsure \subseteq unsure'
  /\ rtGoTruth' = rtGoTruth /\ rtRustTruth' = rtRustTruth

LEMMA RtStepKeeps ==
  ASSUME RtInv, NEW i \in RtRuns, RtStepOf(i), FindingsAreReal',
         RowsFit(goResults'[i], rustResults'[i], findingNo'[i], findingDir'),
         ResultsFit(goResults'[i], rustResults'[i], rtGoTruth, rtRustTruth, unsure'),
         StageFits(rtPc'[i], legs'[i], rustResults'[i], findingNo'[i])
  PROVE  RtInv'
  <1>1. ASSUME NEW e \in RtRuns
        PROVE  /\ RowsFit(goResults'[e], rustResults'[e], findingNo'[e], findingDir')
               /\ ResultsFit(goResults'[e], rustResults'[e], rtGoTruth, rtRustTruth, unsure')
               /\ StageFits(rtPc'[e], legs'[e], rustResults'[e], findingNo'[e])
    <2>1. CASE e = i
      BY <2>1
    <2>2. CASE e # i
      <3>1. /\ rtPc'[e] = rtPc[e] /\ legs'[e] = legs[e] /\ goResults'[e] = goResults[e]
            /\ rustResults'[e] = rustResults[e] /\ findingNo'[e] = findingNo[e]
            /\ findingDir \subseteq findingDir' /\ unsure \subseteq unsure'
        BY <2>2 DEF RtStepOf
      <3>2. /\ RowsFit(goResults[e], rustResults[e], findingNo[e], findingDir)
            /\ ResultsFit(goResults[e], rustResults[e], rtGoTruth, rtRustTruth, unsure)
            /\ StageFits(rtPc[e], legs[e], rustResults[e], findingNo[e])
        BY DEF RtInv
      <3> QED
        BY <3>1, <3>2, FitsStay
    <2> QED
      BY <2>1, <2>2
  <1> QED
    BY <1>1 DEF RtInv, RtStepOf

LEMMA FindingsStayReal ==
  ASSUME FindingsAreReal, UNCHANGED <<findingDir, rtTruths>>, unsure \subseteq unsure'
  PROVE  FindingsAreReal'
  BY DEF FindingsAreReal, rtTruths

LEMMA RtEndKeeps ==
  ASSUME RtInv, NEW i \in RtRuns, NEW stage, RtEnd(i, stage),
         UNCHANGED <<findingDir, unsure, rtTruths>>
  PROVE  RtInv'
  <1>1. RtStepOf(i) /\ FindingsAreReal'
    BY FindingsStayReal DEF RtEnd, RtGoto, RtStepOf, RtInv, rtTruths
  <1>2. /\ rtPc'[i] = stage /\ legs'[i] = {} /\ goResults'[i] = <<>> /\ rustResults'[i] = <<>>
        /\ findingNo'[i] = <<>>
    BY DEF RtEnd, RtGoto, RtInv
  <1>3. StageFits(stage, {}, <<>>, <<>>)
    BY DEF StageFits
  <1> QED
    BY <1>1, <1>2, <1>3, NoRows, EmptyResults, RtStepKeeps

\* A step of an invocation that has not collated anything yet.
LEMMA RtEarlyKeeps ==
  ASSUME RtInv, NEW i \in RtRuns, RtStepOf(i), FindingsAreReal', findingNo'[i] = <<>>,
         ResultsFit(goResults'[i], rustResults'[i], rtGoTruth, rtRustTruth, unsure'),
         rtPc'[i] \in {"collate", "exit0"} /\ "rust" \in legs'[i] => DOMAIN rustResults'[i] = Probes
  PROVE  RtInv'
  <1>1. RowsFit(goResults'[i], rustResults'[i], findingNo'[i], findingDir')
    BY NoRows
  <1>2. StageFits(rtPc'[i], legs'[i], rustResults'[i], findingNo'[i])
    BY DEF StageFits
  <1> QED
    BY <1>1, <1>2, RtStepKeeps

LEMMA GoLegKeeps ==
  ASSUME RtInv, NEW i \in RtRuns, GoLeg(i)
  PROVE  RtInv'
  <1>1. CASE RtEnd(i, "raised")
    BY <1>1, RtEndKeeps DEF GoLeg
  <1>2. ASSUME NEW k \in 0 .. NProbes,
               goResults' = [goResults EXCEPT ![i] = [p \in 1 .. k |-> rtGoTruth[p]]],
               RtGoto(i, AfterGo(legs[i])), UNCHANGED <<legs, rustResults, findingNo>>
        PROVE  RtInv'
    <2>1. rtPc[i] = "go" /\ UNCHANGED <<findingDir, unsure, rtTruths>>
      BY DEF GoLeg
    <2>2. RtStepOf(i) /\ FindingsAreReal'
      BY <1>2, <2>1, FindingsStayReal DEF RtGoto, RtStepOf, RtInv, rtTruths
    <2>3. findingNo'[i] = <<>> /\ legs'[i] = legs[i] /\ unsure' = unsure
      BY <1>2, <2>1 DEF RtInv, StageFits
    <2>4. ResultsFit(goResults'[i], rustResults'[i], rtGoTruth, rtRustTruth, unsure')
      <3>1. goResults'[i] = [p \in 1 .. k |-> rtGoTruth[p]] /\ rustResults'[i] = rustResults[i]
        BY <1>2 DEF RtInv
      <3>2. ResultsFit(goResults[i], rustResults[i], rtGoTruth, rtRustTruth, unsure)
        BY DEF RtInv
      <3>3. 1 .. k \subseteq Probes
        BY NProbesAssumption DEF Probes
      <3> QED
        BY <2>3, <3>1, <3>2, <3>3 DEF ResultsFit
    <2>5. rtPc'[i] \in {"collate", "exit0"} => "rust" \notin legs'[i]
      BY <1>2, <2>3 DEF RtGoto, RtInv, AfterGo
    <2> QED
      BY <2>2, <2>3, <2>4, <2>5, RtEarlyKeeps
  <1> QED
    BY <1>1, <1>2 DEF GoLeg

LEMMA RustLegKeeps ==
  ASSUME RtInv, NEW i \in RtRuns, RustLeg(i)
  PROVE  RtInv'
  <1> DEFINE Says(p, late, dead) ==
                CASE p \in late -> "panic" [] p \in dead -> "parse_fail" [] OTHER -> rtRustTruth[p]
  <1>1. PICK late \in SUBSET Probes, dead \in SUBSET Probes :
          /\ rustResults' = [rustResults EXCEPT ![i] = [p \in Probes |-> Says(p, late, dead)]]
          /\ unsure' = unsure \cup late \cup dead
    BY DEF RustLeg
  <1>2. /\ rtPc[i] = "rust" /\ RtGoto(i, "collate")
        /\ UNCHANGED <<legs, goResults, findingNo, findingDir, rtTruths>>
    BY DEF RustLeg
  <1>3. \A p \in Probes : Says(p, late, dead) = rtRustTruth[p] \/ p \in unsure'
    BY <1>1
  <1> HIDE DEF Says
  <1>4. RtStepOf(i) /\ FindingsAreReal'
    BY <1>1, <1>2, FindingsStayReal DEF RtGoto, RtStepOf, RtInv, rtTruths
  <1>5. findingNo'[i] = <<>>
    BY <1>2 DEF RtInv, StageFits
  <1>6. rustResults'[i] = [p \in Probes |-> Says(p, late, dead)] /\ goResults'[i] = goResults[i]
    BY <1>1, <1>2 DEF RtInv
  <1>7. ResultsFit(goResults'[i], rustResults'[i], rtGoTruth, rtRustTruth, unsure')
    BY <1>3, <1>6 DEF ResultsFit, RtInv
  <1> QED
    BY <1>4, <1>5, <1>6, <1>7, RtEarlyKeeps

\* A finding is a probe that Go loses or on which the two differ, or the CLI
\* was late or died.
LEMMA FindingIsReal ==
  ASSUME RtInv, NEW i \in RtRuns, NEW p, IsFinding(Got(goResults[i], p), Got(rustResults[i], p))
  PROVE  rtGoTruth[p] \in {"panic", "silent_diff"} \/ rtGoTruth[p] # rtRustTruth[p] \/ p \in unsure
  <1>1. ResultsFit(goResults[i], rustResults[i], rtGoTruth, rtRustTruth, unsure)
    BY DEF RtInv
  <1>2. p \in DOMAIN goResults[i]
    BY DEF IsFinding, Got
  <1>3. CASE Got(goResults[i], p) \in {"panic", "silent_diff"}
    BY <1>1, <1>2, <1>3 DEF Got, ResultsFit
  <1>4. CASE Got(rustResults[i], p) # "not_run" /\ Got(goResults[i], p) # Got(rustResults[i], p)
    BY <1>1, <1>2, <1>4 DEF Got, ResultsFit
  <1> QED
    BY <1>3, <1>4 DEF IsFinding

LEMMA CollateKeeps ==
  ASSUME RtInv, NEW i \in RtRuns, Collate(i)
  PROVE  RtInv'
  <1> DEFINE f == findingNo[i]
             g == goResults[i]
             r == rustResults[i]
  <1>1. RowsFit(g, r, f, findingDir)
    BY DEF RtInv
  <1>2. PICK k \in 0 .. NProbes : DOMAIN f = 1 .. k
    BY <1>1 DEF RowsFit
  <1>3. PICK c \in Nat : NumbersOf(f) = 1 .. c
    BY <1>1 DEF RowsFit
  <1>4. k \in Nat /\ Cardinality(DOMAIN f) = k
    BY <1>2, IntervalFacts, NProbesAssumption
  <1>5. NextNumber(i) = c + 1
    BY <1>3, IntervalFacts DEF NextNumber, Numbers, NumbersOf
  <1> DEFINE p == k + 1
             no == IF IsFinding(Got(g, p), Got(r, p)) THEN c + 1 ELSE 0
             f2 == [q \in 1 .. p |-> IF q < p THEN f[q] ELSE no]
  <1>6. /\ rtPc[i] = "collate" /\ p \in Probes
        /\ findingNo' = [findingNo EXCEPT ![i] = f2]
        /\ findingDir' = findingDir \cup (IF no > 0 THEN {<<no, p>>} ELSE {})
        /\ UNCHANGED <<rtPc, legs, goResults, rustResults, unsure, rtTruths>>
    BY <1>4, <1>5 DEF Collate
  <1>7. /\ no \in Nat
        /\ no > 0 => no = c + 1
        /\ IsFinding(Got(g, p), Got(r, p)) <=> no > 0
    BY <1>3
  <1>8. /\ DOMAIN f2 = (1 .. k) \cup {p} /\ DOMAIN f2 = 1 .. p /\ p \in 0 .. NProbes
        /\ f2[p] = no /\ \A q \in 1 .. k : f2[q] = f[q]
    BY <1>4, <1>6 DEF Probes
  <1>9. findingDir \subseteq findingDir' /\ (no > 0 => <<no, p>> \in findingDir')
    BY <1>6
  <1> HIDE DEF f2, no
  <1>10. NumbersOf(f2) = NumbersOf(f) \cup ({no} \ {0})
    BY <1>2, <1>8 DEF NumbersOf
  <1>11. \E d \in Nat : NumbersOf(f2) = 1 .. d
    <2>1. CASE no > 0
      <3>1. NumbersOf(f2) = (1 .. c) \cup {c + 1}
        BY <1>3, <1>7, <1>10, <2>1
      <3>2. (1 .. c) \cup {c + 1} = 1 .. (c + 1) /\ c + 1 \in Nat
        BY <1>3
      <3> QED
        BY <3>1, <3>2
    <2>2. CASE no = 0
      BY <1>3, <1>10, <2>2
    <2> QED
      BY <1>7, <2>1, <2>2
  <1>12. \A q \in 1 .. k : f[q] \in Nat /\ (f[q] > 0 => f[q] <= c)
    <2> SUFFICES ASSUME NEW q \in 1 .. k PROVE f[q] \in Nat /\ (f[q] > 0 => f[q] <= c)
      OBVIOUS
    <2>1. f[q] \in Nat
      BY <1>1, <1>2 DEF RowsFit
    <2>2. f[q] > 0 => f[q] \in NumbersOf(f)
      BY <1>2, <2>1 DEF NumbersOf
    <2> QED
      BY <1>3, <2>1, <2>2
  <1>13. \A q \in DOMAIN f2 :
            /\ f2[q] \in Nat
            /\ IsFinding(Got(g, q), Got(r, q)) => f2[q] > 0
            /\ f2[q] > 0 => <<f2[q], q>> \in findingDir'
    <2>1. \A q \in 1 .. k :
            /\ f[q] \in Nat
            /\ IsFinding(Got(g, q), Got(r, q)) => f[q] > 0
            /\ f[q] > 0 => <<f[q], q>> \in findingDir
      BY <1>1, <1>2 DEF RowsFit
    <2> QED
      BY <1>7, <1>8, <1>9, <2>1
  <1>14. \A q, t \in DOMAIN f2 : q < t /\ f2[t] > 0 => f2[q] < f2[t]
    <2> SUFFICES ASSUME NEW q \in DOMAIN f2, NEW t \in DOMAIN f2, q < t, f2[t] > 0
                 PROVE  f2[q] < f2[t]
      OBVIOUS
    <2>1. q \in 1 .. k /\ f2[q] = f[q] /\ f[q] \in Nat
      BY <1>4, <1>8, <1>12
    <2>2. CASE t = p
      BY <1>3, <1>7, <1>8, <1>12, <2>1, <2>2
    <2>3. CASE t # p
      <3>1. t \in 1 .. k /\ f2[t] = f[t]
        BY <1>8, <2>3
      <3> QED
        BY <1>1, <1>2, <2>1, <3>1 DEF RowsFit
    <2> QED
      BY <2>2, <2>3
  <1>15. RowsFit(g, r, f2, findingDir')
    BY <1>8, <1>11, <1>13, <1>14 DEF RowsFit
  <1>16. FindingsAreReal'
    <2>1. no > 0 => \/ rtGoTruth[p] \in {"panic", "silent_diff"}
                    \/ rtGoTruth[p] # rtRustTruth[p] \/ p \in unsure
      BY <1>7, FindingIsReal
    <2>2. \A x \in findingDir' : x \in findingDir \/ (no > 0 /\ x[2] = p)
      BY <1>6
    <2> QED
      BY <1>6, <2>1, <2>2 DEF FindingsAreReal, RtInv, rtTruths
  <1>17. RtStepOf(i) /\ findingNo'[i] = f2
    BY <1>6 DEF RtStepOf, RtInv, rtTruths
  <1>18. goResults'[i] = g /\ rustResults'[i] = r /\ legs'[i] = legs[i] /\ rtPc'[i] = "collate"
            /\ unsure' = unsure
    BY <1>6
  <1>19. ResultsFit(g, r, rtGoTruth, rtRustTruth, unsure)
           /\ StageFits("collate", legs[i], r, f2)
    BY <1>6 DEF RtInv, StageFits
  <1> QED
    BY <1>15, <1>16, <1>17, <1>18, <1>19, RtStepKeeps

LEMMA RtInvStep ==
  ASSUME RtInv, [RtNext]_rtVars
  PROVE  RtInv'
  <1>1. ASSUME NEW i \in RtRuns, RtStart(i) PROVE RtInv'
    <2>1. CASE RtEnd(i, "exit0")
      BY <1>1, <2>1, RtEndKeeps DEF RtStart
    <2>2. ASSUME NEW L \in SUBSET {"go", "rust"}, legs' = [legs EXCEPT ![i] = L],
                 RtGoto(i, IF "go" \in L THEN "build" ELSE AfterGo(L)),
                 UNCHANGED <<goResults, rustResults, findingNo>>
          PROVE  RtInv'
      <3>1. rtPc[i] = "idle" /\ UNCHANGED <<findingDir, unsure, rtTruths>>
        BY <1>1 DEF RtStart
      <3>2. RtStepOf(i) /\ FindingsAreReal'
        BY <2>2, <3>1, FindingsStayReal DEF RtGoto, RtStepOf, RtInv, rtTruths
      <3>3. findingNo'[i] = <<>>
        BY <2>2, <3>1 DEF RtInv, StageFits
      <3>4. rtPc'[i] \in {"collate", "exit0"} => "rust" \notin legs'[i]
        BY <2>2 DEF RtGoto, RtInv, AfterGo
      <3>5. ResultsFit(goResults'[i], rustResults'[i], rtGoTruth, rtRustTruth, unsure')
        BY <2>2, <3>1 DEF RtInv
      <3> QED
        BY <3>2, <3>3, <3>4, <3>5, RtEarlyKeeps
    <2> QED
      BY <1>1, <2>1, <2>2 DEF RtStart
  <1>2. ASSUME NEW i \in RtRuns, RtBuild(i) PROVE RtInv'
    <2>1. CASE RtEnd(i, "exit1")
      BY <1>2, <2>1, RtEndKeeps DEF RtBuild
    <2>2. CASE RtGoto(i, "go") /\ UNCHANGED rtOwn
      <3>1. /\ rtPc[i] = "build" /\ UNCHANGED <<findingDir, unsure, rtTruths>>
            /\ UNCHANGED <<legs, goResults, rustResults, findingNo>>
        BY <1>2, <2>2 DEF RtBuild, rtOwn
      <3>2. RtStepOf(i) /\ FindingsAreReal' /\ rtPc'[i] = "go"
        BY <2>2, <3>1, FindingsStayReal DEF RtGoto, RtStepOf, RtInv, rtTruths
      <3>3. findingNo'[i] = <<>>
        BY <3>1 DEF RtInv, StageFits
      <3>4. ResultsFit(goResults'[i], rustResults'[i], rtGoTruth, rtRustTruth, unsure')
        BY <3>1 DEF RtInv
      <3> QED
        BY <3>2, <3>3, <3>4, RtEarlyKeeps
    <2> QED
      BY <1>2, <2>1, <2>2 DEF RtBuild
  <1>3. ASSUME NEW i \in RtRuns, RtFinish(i) PROVE RtInv'
    <2>1. /\ rtPc[i] = "collate" /\ RtGoto(i, "exit0") /\ UNCHANGED <<findingDir, unsure, rtTruths>>
          /\ UNCHANGED <<legs, goResults, rustResults, findingNo>>
      BY <1>3 DEF RtFinish, rtOwn
    <2>2. RtStepOf(i) /\ FindingsAreReal' /\ rtPc'[i] = "exit0"
      BY <2>1, FindingsStayReal DEF RtGoto, RtStepOf, RtInv, rtTruths
    <2>3. StageFits(rtPc'[i], legs'[i], rustResults'[i], findingNo'[i])
      BY <2>1, <2>2 DEF RtInv, StageFits
    <2>4. /\ RowsFit(goResults'[i], rustResults'[i], findingNo'[i], findingDir')
          /\ ResultsFit(goResults'[i], rustResults'[i], rtGoTruth, rtRustTruth, unsure')
      BY <2>1 DEF RtInv
    <2> QED
      BY <2>2, <2>3, <2>4, RtStepKeeps
  <1>4. ASSUME NEW i \in RtRuns, RtKill(i) PROVE RtInv'
    BY <1>4, RtEndKeeps DEF RtKill
  <1>5. CASE UNCHANGED rtVars
    BY <1>5 DEF rtVars, rtOwn, rtTruths, RtInv, FindingsAreReal
  <1> QED
    BY <1>1, <1>2, <1>3, <1>4, <1>5, GoLegKeeps, RustLegKeeps, CollateKeeps DEF RtNext, RtStep

\* Every file in disagreements/ is about a probe that Go loses or on which the
\* two engines differ, unless a CLI was late or died on it.
THEOREM FindingsReal == RtSpec => []FindingsAreReal
  <1>1. RtInv => FindingsAreReal
    BY DEF RtInv
  <1>2. RtInv /\ [RtNext]_rtVars => RtInv'
    BY RtInvStep
  <1> QED
    BY <1>1, <1>2, RtInvInit, PTL DEF RtSpec

LEMMA RtInvSuffices == RtInv => FindingsComplete
  <1> SUFFICES ASSUME RtInv, NEW i \in RtRuns, rtPc[i] = "exit0", DOMAIN findingNo[i] = Probes
               PROVE
        /\ \A p \in DOMAIN goResults[i] :
            \/ rtGoTruth[p] \in {"panic", "silent_diff"}
            \/ /\ legs[i] = {"go", "rust"} /\ p \notin unsure
               /\ (rtGoTruth[p] = "clean") # (rtRustTruth[p] = "clean")
            => findingNo[i][p] > 0
        /\ \A p \in Probes : findingNo[i][p] > 0 => <<findingNo[i][p], p>> \in findingDir
        /\ Numbers(i) = 1 .. Cardinality(Numbers(i))
        /\ \A p, q \in Probes : p < q /\ findingNo[i][q] > 0 => findingNo[i][p] < findingNo[i][q]
    BY DEF FindingsComplete
  <1>1. /\ RowsFit(goResults[i], rustResults[i], findingNo[i], findingDir)
        /\ ResultsFit(goResults[i], rustResults[i], rtGoTruth, rtRustTruth, unsure)
        /\ StageFits(rtPc[i], legs[i], rustResults[i], findingNo[i])
    BY DEF RtInv
  <1>2. \A p \in Probes : rtGoTruth[p] # "not_run" /\ rtRustTruth[p] # "not_run"
    BY DEF RtInv, FatesFrom, RtOutcome
  <1>3. ASSUME NEW p \in DOMAIN goResults[i], p \in Probes,
               \/ rtGoTruth[p] \in {"panic", "silent_diff"}
               \/ /\ legs[i] = {"go", "rust"} /\ p \notin unsure
                  /\ (rtGoTruth[p] = "clean") # (rtRustTruth[p] = "clean")
        PROVE  findingNo[i][p] > 0
    <2>1. Got(goResults[i], p) = rtGoTruth[p]
      BY <1>1, <1>3 DEF Got, ResultsFit
    <2>2. IsFinding(Got(goResults[i], p), Got(rustResults[i], p)) => findingNo[i][p] > 0
      BY <1>1, <1>3 DEF RowsFit
    <2>3. CASE rtGoTruth[p] \in {"panic", "silent_diff"}
      BY <2>1, <2>2, <2>3 DEF IsFinding
    <2>4. CASE /\ legs[i] = {"go", "rust"} /\ p \notin unsure
               /\ (rtGoTruth[p] = "clean") # (rtRustTruth[p] = "clean")
      <3>1. Got(rustResults[i], p) = rtRustTruth[p]
        BY <1>1, <1>3, <2>4 DEF Got, ResultsFit, StageFits
      <3>2. /\ rtGoTruth[p] # rtRustTruth[p]
            /\ rtGoTruth[p] = "clean" \/ rtRustTruth[p] = "clean"
        BY <2>4
      <3>3. rtGoTruth[p] # "not_run" /\ rtRustTruth[p] # "not_run"
        BY <1>2, <1>3
      <3> QED
        BY <2>1, <2>2, <3>1, <3>2, <3>3 DEF IsFinding
    <2> QED
      BY <1>3, <2>3, <2>4
  <1>4. DOMAIN goResults[i] \subseteq Probes
    BY <1>1 DEF ResultsFit
  <1>5. Numbers(i) = 1 .. Cardinality(Numbers(i))
    <2>1. PICK c \in Nat : NumbersOf(findingNo[i]) = 1 .. c
      BY <1>1 DEF RowsFit
    <2> QED
      BY <2>1, IntervalFacts DEF Numbers, NumbersOf
  <1> QED
    BY <1>1, <1>3, <1>4, <1>5 DEF RowsFit

\* An invocation that gets to its summary has filed, under numbers 1, 2, ... in
\* the order of the probes, everything both harnesses showed it.
THEOREM FindingsAllFiled == RtSpec => []FindingsComplete
  <1>1. RtInv /\ [RtNext]_rtVars => RtInv'
    BY RtInvStep
  <1> QED
    BY <1>1, RtInvInit, RtInvSuffices, PTL DEF RtSpec

\* The types of one invocation.
RtRows(i) ==
  /\ \E k \in 0 .. NProbes : goResults[i] \in [1 .. k -> RtOutcome]
  /\ rustResults[i] \in [Probes -> RtOutcome] \cup {<<>>}
  /\ \E k \in 0 .. NProbes : findingNo[i] \in [1 .. k -> 0 .. k]

\* It is enough that the step keeps the types of the invocation it is of.
LEMMA RtTypeKeeps ==
  ASSUME RtTypeOK, NEW i \in RtRuns,
         rtPc' \in [RtRuns -> {"idle"} \cup RtStages \cup RtEnded],
         legs' \in [RtRuns -> SUBSET {"go", "rust"}],
         RtRows(i)',
         \A e \in RtRuns \ {i} : /\ goResults'[e] = goResults[e] /\ rustResults'[e] = rustResults[e]
                                 /\ findingNo'[e] = findingNo[e],
         findingDir' \subseteq Probes \X Probes, unsure' \subseteq Probes, UNCHANGED rtTruths
  PROVE  RtTypeOK'
  <1>1. \A e \in RtRuns : RtRows(e)'
    <2> SUFFICES ASSUME NEW e \in RtRuns, e # i PROVE RtRows(e)'
      OBVIOUS
    <2>1. RtRows(e)
      BY DEF RtRows, RtTypeOK
    <2> QED
      BY <2>1 DEF RtRows
  <1> QED
    BY <1>1 DEF RtTypeOK, RtRows, rtTruths

\* Nothing yet is well typed.
LEMMA NoRtRows ==
  ASSUME NEW f, f = <<>>
  PROVE  /\ \E k \in 0 .. NProbes : f \in [1 .. k -> RtOutcome]
         /\ \E k \in 0 .. NProbes : f \in [1 .. k -> 0 .. k]
  <1>1. f \in [1 .. 0 -> RtOutcome] /\ f \in [1 .. 0 -> 0 .. 0] /\ 0 \in 0 .. NProbes
    BY NProbesAssumption
  <1> QED
    BY <1>1

\* An invocation that is gone has no rows.
LEMMA RtTypeEnd ==
  ASSUME RtInv, RtTypeOK, NEW i \in RtRuns, NEW stage \in RtEnded, RtEnd(i, stage),
         UNCHANGED <<findingDir, unsure, rtTruths>>
  PROVE  RtTypeOK'
  <1>1. /\ goResults'[i] = <<>> /\ rustResults'[i] = <<>> /\ findingNo'[i] = <<>>
        /\ \A e \in RtRuns \ {i} : /\ goResults'[e] = goResults[e] /\ rustResults'[e] = rustResults[e]
                                   /\ findingNo'[e] = findingNo[e]
    BY DEF RtEnd, RtInv
  <1>2. RtRows(i)'
    BY <1>1, NoRtRows DEF RtRows
  <1>3. /\ rtPc' \in [RtRuns -> {"idle"} \cup RtStages \cup RtEnded]
        /\ legs' \in [RtRuns -> SUBSET {"go", "rust"}]
    BY DEF RtEnd, RtGoto, RtTypeOK
  <1> QED
    BY <1>1, <1>2, <1>3, RtTypeKeeps DEF RtTypeOK

\* A step that leaves the results alone.
LEMMA RtTypeMove ==
  ASSUME RtTypeOK, NEW i \in RtRuns, NEW stage \in RtStages \cup RtEnded, RtGoto(i, stage),
         legs' \in [RtRuns -> SUBSET {"go", "rust"}],
         UNCHANGED <<goResults, rustResults, findingNo, findingDir, unsure, rtTruths>>
  PROVE  RtTypeOK'
  <1>1. rtPc' \in [RtRuns -> {"idle"} \cup RtStages \cup RtEnded]
    BY DEF RtGoto, RtTypeOK
  <1>2. RtRows(i)'
    BY DEF RtRows, RtTypeOK
  <1> QED
    BY <1>1, <1>2, RtTypeKeeps DEF RtTypeOK

LEMMA RtTypeGo ==
  ASSUME RtInv, RtTypeOK, NEW i \in RtRuns, GoLeg(i)
  PROVE  RtTypeOK'
  <1>1. CASE RtEnd(i, "raised")
    BY <1>1, RtTypeEnd DEF GoLeg, RtEnded
  <1>2. ASSUME NEW k \in 0 .. NProbes, \A p \in 1 .. k : rtGoTruth[p] # "fatal",
               goResults' = [goResults EXCEPT ![i] = [p \in 1 .. k |-> rtGoTruth[p]]],
               RtGoto(i, AfterGo(legs[i])), UNCHANGED <<legs, rustResults, findingNo>>
        PROVE  RtTypeOK'
    <2>1. \A p \in 1 .. k : rtGoTruth[p] \in RtOutcome
      <3>1. 1 .. k \subseteq Probes
        BY NProbesAssumption DEF Probes
      <3> QED
        BY <1>2, <3>1 DEF RtTypeOK, FatesFrom
    <2>2. /\ goResults'[i] = [p \in 1 .. k |-> rtGoTruth[p]]
          /\ \A e \in RtRuns \ {i} : goResults'[e] = goResults[e]
      BY <1>2 DEF RtInv
    <2>3. goResults'[i] \in [1 .. k -> RtOutcome]
      BY <2>1, <2>2
    <2>4. RtRows(i)'
      BY <1>2, <2>3 DEF RtRows, RtTypeOK
    <2>5. rtPc' \in [RtRuns -> {"idle"} \cup RtStages \cup RtEnded]
      BY <1>2 DEF RtGoto, AfterGo, RtTypeOK, RtStages
    <2>6. UNCHANGED <<findingDir, unsure, rtTruths>>
      BY DEF GoLeg
    <2> QED
      BY <1>2, <2>2, <2>4, <2>5, <2>6, RtTypeKeeps DEF RtTypeOK
  <1> QED
    BY <1>1, <1>2 DEF GoLeg

LEMMA RtTypeRust ==
  ASSUME RtInv, RtTypeOK, NEW i \in RtRuns, RustLeg(i)
  PROVE  RtTypeOK'
  <1> DEFINE Says(p, late, dead) ==
                CASE p \in late -> "panic" [] p \in dead -> "parse_fail" [] OTHER -> rtRustTruth[p]
  <1>1. PICK late \in SUBSET Probes, dead \in SUBSET Probes :
          /\ rustResults' = [rustResults EXCEPT ![i] = [p \in Probes |-> Says(p, late, dead)]]
          /\ unsure' = unsure \cup late \cup dead
    BY DEF RustLeg
  <1>2. /\ RtGoto(i, "collate") /\ UNCHANGED <<legs, goResults, findingNo, findingDir, rtTruths>>
    BY DEF RustLeg
  <1>3. \A p \in Probes : rtRustTruth[p] \in RtOutcome
    BY RtSaysAssumption DEF RtTypeOK, FatesFrom
  <1>4. \A p \in Probes : Says(p, late, dead) \in RtOutcome
    BY <1>3 DEF RtOutcome
  <1> HIDE DEF Says
  <1>5. /\ rustResults'[i] = [p \in Probes |-> Says(p, late, dead)]
        /\ \A e \in RtRuns \ {i} : rustResults'[e] = rustResults[e]
    BY <1>1 DEF RtInv
  <1>6. RtRows(i)'
    <2>1. rustResults'[i] \in [Probes -> RtOutcome]
      BY <1>4, <1>5
    <2>2. RtRows(i)
      BY DEF RtRows, RtTypeOK
    <2> QED
      BY <1>2, <2>1, <2>2 DEF RtRows
  <1>7. rtPc' \in [RtRuns -> {"idle"} \cup RtStages \cup RtEnded] /\ unsure' \subseteq Probes
    BY <1>1, <1>2 DEF RtGoto, RtTypeOK, RtStages
  <1> QED
    BY <1>2, <1>5, <1>6, <1>7, RtTypeKeeps DEF RtTypeOK

\* As many findings as rows at most: the number of the next one fits its row.
LEMMA NextNumberFits ==
  ASSUME RtTypeOK, NEW i \in RtRuns, NEW k \in Nat, DOMAIN findingNo[i] = 1 .. k,
         \A p \in 1 .. k : findingNo[i][p] \in 0 .. k
  PROVE  Cardinality(DOMAIN findingNo[i]) = k /\ NextNumber(i) \in 1 .. k + 1
  <1>1. Numbers(i) \subseteq 1 .. k
    BY DEF Numbers
  <1>2. IsFiniteSet(1 .. k) /\ Cardinality(1 .. k) = k
    BY IntervalFacts
  <1>3. Cardinality(Numbers(i)) \in Nat /\ Cardinality(Numbers(i)) <= k
    BY <1>1, <1>2, FS_Subset, FS_CardinalityType
  <1> QED
    BY <1>2, <1>3 DEF NextNumber

LEMMA RtTypeCollate ==
  ASSUME RtInv, RtTypeOK, NEW i \in RtRuns, Collate(i)
  PROVE  RtTypeOK'
  <1>1. PICK k \in 0 .. NProbes : findingNo[i] \in [1 .. k -> 0 .. k]
    BY DEF RtTypeOK
  <1>2. /\ k \in Nat /\ Cardinality(DOMAIN findingNo[i]) = k /\ NextNumber(i) \in 1 .. k + 1
        /\ \A q \in 1 .. k : findingNo[i][q] \in 0 .. k
    BY <1>1, NextNumberFits, NProbesAssumption
  <1> DEFINE p == k + 1
  <1>3. PICK no \in {0, NextNumber(i)} :
          /\ findingNo' = [findingNo EXCEPT ![i] = [q \in 1 .. p |-> IF q < p THEN @[q] ELSE no]]
          /\ findingDir' = findingDir \cup IF no > 0 THEN {<<no, p>>} ELSE {}
    BY <1>2 DEF Collate
  <1>4. p \in Probes /\ UNCHANGED <<rtPc, legs, goResults, rustResults, unsure, rtTruths>>
    BY <1>2 DEF Collate
  <1>5. /\ findingNo'[i] = [q \in 1 .. p |-> IF q < p THEN findingNo[i][q] ELSE no]
        /\ \A e \in RtRuns \ {i} : findingNo'[e] = findingNo[e]
    BY <1>3 DEF RtInv
  <1>6. findingNo'[i] \in [1 .. p -> 0 .. p] /\ p \in 0 .. NProbes
    <2>1. \A q \in 1 .. p : q < p => q \in 1 .. k
      BY <1>2
    <2>2. no \in 0 .. p /\ 0 .. k \subseteq 0 .. p
      BY <1>2, <1>3
    <2>3. p \in 0 .. NProbes
      BY <1>4, NProbesAssumption DEF Probes
    <2> HIDE DEF p
    <2> QED
      BY <1>2, <1>5, <2>1, <2>2, <2>3
  <1>7. RtRows(i)'
    BY <1>4, <1>6 DEF RtRows, RtTypeOK
  <1>8. findingDir' \subseteq Probes \X Probes
    <2>1. no > 0 => no \in Probes
      BY <1>2, <1>3, <1>4, NProbesAssumption DEF Probes
    <2> QED
      BY <1>3, <1>4, <2>1 DEF RtTypeOK
  <1> QED
    BY <1>4, <1>5, <1>7, <1>8, RtTypeKeeps DEF RtTypeOK

LEMMA RtTypeStep ==
  ASSUME RtInv, RtTypeOK, [RtNext]_rtVars
  PROVE  RtTypeOK'
  <1>1. ASSUME NEW i \in RtRuns, RtStart(i) PROVE RtTypeOK'
    <2>1. CASE RtEnd(i, "exit0")
      BY <1>1, <2>1, RtTypeEnd DEF RtStart, RtEnded
    <2>2. ASSUME NEW L \in SUBSET {"go", "rust"}, legs' = [legs EXCEPT ![i] = L],
                 RtGoto(i, IF "go" \in L THEN "build" ELSE AfterGo(L)),
                 UNCHANGED <<goResults, rustResults, findingNo>>
          PROVE  RtTypeOK'
      <3>1. legs' \in [RtRuns -> SUBSET {"go", "rust"}]
        BY <2>2 DEF RtTypeOK
      <3>2. (IF "go" \in L THEN "build" ELSE AfterGo(L)) \in RtStages
        BY DEF AfterGo, RtStages
      <3>3. UNCHANGED <<findingDir, unsure, rtTruths>>
        BY <1>1 DEF RtStart
      <3> QED
        BY <2>2, <3>1, <3>2, <3>3, RtTypeMove
    <2> QED
      BY <1>1, <2>1, <2>2 DEF RtStart
  <1>2. ASSUME NEW i \in RtRuns, RtBuild(i) PROVE RtTypeOK'
    <2>1. CASE RtEnd(i, "exit1")
      BY <1>2, <2>1, RtTypeEnd DEF RtBuild, RtEnded
    <2>2. CASE RtGoto(i, "go") /\ UNCHANGED rtOwn
      BY <1>2, <2>2, RtTypeMove DEF RtBuild, rtOwn, RtStages, RtTypeOK
    <2> QED
      BY <1>2, <2>1, <2>2 DEF RtBuild
  <1>3. ASSUME NEW i \in RtRuns, RtFinish(i) PROVE RtTypeOK'
    BY <1>3, RtTypeMove DEF RtFinish, rtOwn, RtEnded, RtTypeOK
  <1>4. ASSUME NEW i \in RtRuns, RtKill(i) PROVE RtTypeOK'
    BY <1>4, RtTypeEnd DEF RtKill, RtEnded
  <1>5. CASE UNCHANGED rtVars
    BY <1>5 DEF rtVars, rtOwn, rtTruths, RtTypeOK
  <1> QED
    BY <1>1, <1>2, <1>3, <1>4, <1>5, RtTypeGo, RtTypeRust, RtTypeCollate DEF RtNext, RtStep

LEMMA RtTypeInit == RtInit => RtTypeOK
  <1> SUFFICES ASSUME RtInit PROVE RtTypeOK
    OBVIOUS
  <1>1. \A i \in RtRuns : goResults[i] = <<>> /\ rustResults[i] = <<>> /\ findingNo[i] = <<>>
    BY DEF RtInit
  <1>2. \A i \in RtRuns : RtRows(i)
    BY <1>1, NoRtRows DEF RtRows
  <1> QED
    BY <1>2 DEF RtInit, RtTypeOK, RtRows

\* Types of the round-trip harness: no row has a number beyond it, no file is
\* about a probe there is not.
THEOREM RtTypeCorrect == RtSpec => []RtTypeOK
  <1>1. RtInv /\ [RtNext]_rtVars => RtInv'
    BY RtInvStep
  <1>2. RtInv /\ RtTypeOK /\ [RtNext]_rtVars => RtTypeOK'
    BY RtTypeStep
  <1> QED
    BY <1>1, <1>2, RtInvInit, RtTypeInit, PTL DEF RtSpec

-----------------------------------------------------------------------------
\* The runner of the Lean oracle

\* What the process prints: n lines of lake among the tuples in order.
LeanLines(out, n) ==
  /\ out \in Seq(Nat) /\ n \in 0 .. Len(out)
  /\ \A j \in 1 .. Len(out) : out[j] <= Len(out) - n
  /\ \A j, h \in 1 .. Len(out) : j < h /\ out[h] > 0 => out[j] < out[h]
  /\ n = 0 => \A j \in 1 .. Len(out) : out[j] = j
  /\ n > 0 => \E j \in 1 .. Len(out) : out[j] = 0

\* d files the first m lines.
LeanFiled(d, m, out, truth) ==
  /\ m \in 0 .. Len(out)
  /\ IsFiniteSet(DOMAIN d) /\ Cardinality(DOMAIN d) = m
  /\ \A k \in DOMAIN d :
        \/ \E j \in 1 .. m : out[j] > 0 /\ k = <<"idx", out[j]>> /\ d[k] = truth[out[j]]
        \/ \E c \in 0 .. m - 1 : k = <<"parse_error", c>>
  /\ \A j \in 1 .. m : /\ out[j] > 0 => <<"idx", out[j]>> \in DOMAIN d
                       /\ out[j] = 0 => \E c \in Nat : <<"parse_error", c>> \in DOMAIN d

LeanInv ==
  /\ LeanLines(stdout, noise)
  /\ LeanFiled(decisions, lineNo, stdout, leanTruth)
  /\ leanPc \notin {"read"} \cup LeanEnded => lineNo = 0
  /\ leanPc = "exit0" => /\ lineNo = Len(stdout)
                         /\ \A k \in DOMAIN decisions : k[1] = "idx"

LEMMA LeanInvInit == LeanInit => LeanInv
  <1> SUFFICES ASSUME LeanInit PROVE LeanInv
    OBVIOUS
  <1>1. /\ leanPc = "start" /\ stdout = <<>> /\ noise = 0 /\ lineNo = 0 /\ decisions = <<>>
        /\ DOMAIN <<>> = {} /\ Len(<<>>) = 0 /\ <<>> \in Seq(Nat)
    BY DEF LeanInit
  <1>2. IsFiniteSet({}) /\ Cardinality({}) = 0
    BY FS_EmptySet
  <1>3. LeanLines(stdout, noise)
    BY <1>1 DEF LeanLines
  <1>4. LeanFiled(decisions, lineNo, stdout, leanTruth)
    BY <1>1, <1>2 DEF LeanFiled
  <1> QED
    BY <1>1, <1>3, <1>4 DEF LeanInv, LeanEnded

LEMMA MeasureLeanKeeps == LeanInv /\ MeasureLean => LeanInv'
  <1> SUFFICES ASSUME LeanInv, MeasureLean PROVE LeanInv'
    OBVIOUS
  <1>1. /\ leanPc = "lean" /\ leanPc' = "lean" /\ UNCHANGED <<lineNo, decisions, leanTruth>>
        /\ lineNo = 0 /\ LeanLines(stdout, noise)
    BY DEF MeasureLean, LeanInv, LeanEnded
  <1> DEFINE n == Len(stdout)
  <1>2. stdout \in Seq(Nat) /\ n \in Nat /\ noise \in Nat /\ noise <= n
    BY <1>1 DEF LeanLines
  <1>3. \/ stdout' = Append(stdout, n - noise + 1) /\ noise' = noise
        \/ stdout' = Append(stdout, 0) /\ noise' = noise + 1
    BY DEF MeasureLean, Printed
  <1>4. PICK x \in Nat : /\ stdout' = Append(stdout, x)
                        /\ \/ x = n - noise + 1 /\ noise' = noise
                           \/ x = 0 /\ noise' = noise + 1
    BY <1>2, <1>3
  <1>5. /\ stdout' \in Seq(Nat) /\ Len(stdout') = n + 1 /\ stdout'[n + 1] = x
        /\ \A j \in 1 .. n : stdout'[j] = stdout[j] /\ stdout[j] \in Nat
    BY <1>2, <1>4
  <1>6. /\ \A j \in 1 .. n : stdout[j] <= n - noise
        /\ \A j, h \in 1 .. n : j < h /\ stdout[h] > 0 => stdout[j] < stdout[h]
        /\ noise = 0 => \A j \in 1 .. n : stdout[j] = j
        /\ noise > 0 => \E j \in 1 .. n : stdout[j] = 0
    BY <1>1 DEF LeanLines
  <1> HIDE DEF n
  <1>7. LeanLines(stdout', noise')
    <2>1. /\ \A j \in 1 .. n + 1 : j \in 1 .. n \/ j = n + 1
          /\ n + 1 \in 1 .. n + 1 /\ 1 .. n \subseteq 1 .. n + 1
          /\ noise' \in 0 .. Len(stdout') /\ Len(stdout') - noise' = n + 1 - noise'
          /\ \A j \in 1 .. n : stdout'[j] = stdout[j] /\ stdout[j] \in Nat
      BY <1>2, <1>4, <1>5
    <2>2. \A j \in 1 .. n + 1 : stdout'[j] <= n + 1 - noise'
      <3>1. \A j \in 1 .. n : stdout'[j] <= n + 1 - noise'
        BY <1>2, <1>4, <1>6, <2>1
      <3>2. x <= n + 1 - noise'
        BY <1>2, <1>4
      <3> QED
        BY <1>5, <2>1, <3>1, <3>2
    <2>3. ASSUME NEW j \in 1 .. n + 1, NEW h \in 1 .. n + 1, j < h, stdout'[h] > 0
          PROVE  stdout'[j] < stdout'[h]
      <3>1. j \in 1 .. n /\ stdout'[j] = stdout[j] /\ stdout[j] \in Nat /\ stdout[j] <= n - noise
        BY <1>2, <1>6, <2>1, <2>3
      <3>2. CASE h = n + 1
        BY <1>2, <1>4, <1>5, <2>3, <3>1, <3>2
      <3>3. CASE h \in 1 .. n
        BY <1>6, <2>1, <2>3, <3>1, <3>3
      <3> QED
        BY <2>1, <3>2, <3>3
    <2>4. noise' = 0 => \A j \in 1 .. n + 1 : stdout'[j] = j
      <3> SUFFICES ASSUME noise' = 0 PROVE \A j \in 1 .. n + 1 : stdout'[j] = j
        OBVIOUS
      <3>1. noise = 0 /\ x = n + 1
        BY <1>2, <1>4
      <3> QED
        BY <1>5, <1>6, <2>1, <3>1
    <2>5. noise' > 0 => \E j \in 1 .. n + 1 : stdout'[j] = 0
      <3>1. noise' > 0 => noise > 0 \/ x = 0
        BY <1>4
      <3> QED
        BY <1>5, <1>6, <2>1, <3>1
    <2> QED
      BY <1>5, <2>1, <2>2, <2>3, <2>4, <2>5 DEF LeanLines
  <1>8. LeanFiled(decisions', lineNo', stdout', leanTruth')
    BY <1>1, <1>5, <1>2 DEF LeanFiled, LeanInv
  <1> QED
    BY <1>1, <1>7, <1>8 DEF LeanInv, LeanEnded

LEMMA ReadLineKeeps == LeanInv /\ ReadLine => LeanInv'
  <1>0. CASE leanPc' = "raised" /\ UNCHANGED <<stdout, noise, lineNo, decisions, leanTruth>>
    BY <1>0 DEF LeanInv, LeanEnded
  <1> SUFFICES ASSUME LeanInv, ReadLine, leanPc' # "raised" PROVE LeanInv'
    BY <1>0 DEF ReadLine
  <1> DEFINE m == lineNo
             line == stdout[m + 1]
             key == IF line = 0 THEN ErrorKey ELSE TupleKey(line)
             d == decisions
             D == DOMAIN d
             v == IF line = 0 THEN "ERROR" ELSE leanTruth[line]
             d2 == [k \in D \cup {key} |-> IF k # key THEN d[k] ELSE v]
  <1>1. /\ leanPc = "read" /\ m < Len(stdout) /\ lineNo' = m + 1
        /\ decisions' = d2 /\ UNCHANGED <<leanPc, stdout, noise, leanTruth>>
    BY DEF ReadLine
  <1>2. LeanLines(stdout, noise) /\ LeanFiled(d, m, stdout, leanTruth)
    BY DEF LeanInv
  <1>3. m \in Nat /\ stdout \in Seq(Nat) /\ line \in Nat /\ m + 1 \in 1 .. Len(stdout)
    BY <1>1, <1>2 DEF LeanLines, LeanFiled
  <1>4. IsFiniteSet(D) /\ Cardinality(D) = m
    BY <1>2 DEF LeanFiled
  <1>5. key = IF line = 0 THEN <<"parse_error", m>> ELSE <<"idx", line>>
    BY <1>4 DEF ErrorKey, TupleKey
  <1>6. \A k \in D : \/ \E j \in 1 .. m : stdout[j] > 0 /\ k = <<"idx", stdout[j]>> /\ d[k] = leanTruth[stdout[j]]
                     \/ \E c \in 0 .. m - 1 : k = <<"parse_error", c>>
    BY <1>2 DEF LeanFiled
  <1>7. \A j \in 1 .. m : line > 0 => stdout[j] < line
    <2>1. \A j \in 1 .. m : j \in 1 .. Len(stdout) /\ j < m + 1
      BY <1>1, <1>3
    <2> QED
      BY <1>2, <1>3, <2>1 DEF LeanLines
  <1>8. key \notin D
    <2> SUFFICES ASSUME key \in D PROVE FALSE
      OBVIOUS
    <2>1. CASE \E j \in 1 .. m : stdout[j] > 0 /\ key = <<"idx", stdout[j]>>
      <3>1. PICK j \in 1 .. m : stdout[j] > 0 /\ key = <<"idx", stdout[j]>>
        BY <2>1
      <3>2. line # 0 /\ stdout[j] = line
        BY <3>1, <1>5
      <3> QED
        BY <3>2, <1>3, <1>7
    <2>2. CASE \E c \in 0 .. m - 1 : key = <<"parse_error", c>>
      <3>1. PICK c \in 0 .. m - 1 : key = <<"parse_error", c>>
        BY <2>2
      <3>2. c = m
        BY <3>1, <1>5
      <3> QED
        BY <3>2, <1>3
    <2> QED
      BY <1>6, <2>1, <2>2
  <1>9. DOMAIN d2 = D \cup {key} /\ d2[key] = v /\ \A k \in D : d2[k] = d[k]
    BY <1>8
  <1>10. IsFiniteSet(DOMAIN d2) /\ Cardinality(DOMAIN d2) = m + 1
    BY <1>4, <1>8, <1>9, FS_AddElement
  <1>11. line > 0 => v = leanTruth[line]
    BY <1>3
  <1> HIDE DEF d2, v, key
  <1>12. \A k \in DOMAIN d2 :
            \/ \E j \in 1 .. m + 1 : stdout[j] > 0 /\ k = <<"idx", stdout[j]>> /\ d2[k] = leanTruth[stdout[j]]
            \/ \E c \in 0 .. m : k = <<"parse_error", c>>
    <2>1. ASSUME NEW k \in D
          PROVE \/ \E j \in 1 .. m + 1 : stdout[j] > 0 /\ k = <<"idx", stdout[j]>> /\ d2[k] = leanTruth[stdout[j]]
                \/ \E c \in 0 .. m : k = <<"parse_error", c>>
      <3>1. 1 .. m \subseteq 1 .. m + 1 /\ 0 .. m - 1 \subseteq 0 .. m /\ d2[k] = d[k]
        BY <1>3, <1>9
      <3> QED
        BY <1>6, <3>1
    <2>2. \/ \E j \in 1 .. m + 1 : stdout[j] > 0 /\ key = <<"idx", stdout[j]>> /\ d2[key] = leanTruth[stdout[j]]
          \/ \E c \in 0 .. m : key = <<"parse_error", c>>
      <3>1. CASE line = 0
        BY <1>3, <1>5, <3>1
      <3>2. CASE line > 0
        <4>1. m + 1 \in 1 .. m + 1 /\ key = <<"idx", line>> /\ d2[key] = leanTruth[line]
          BY <1>3, <1>5, <1>9, <1>11, <3>2
        <4> QED
          BY <4>1, <3>2
      <3> QED
        BY <1>3, <3>1, <3>2
    <2> QED
      BY <1>9, <2>1, <2>2
  <1>13. \A j \in 1 .. m + 1 : /\ stdout[j] > 0 => <<"idx", stdout[j]>> \in DOMAIN d2
                               /\ stdout[j] = 0 => \E c \in Nat : <<"parse_error", c>> \in DOMAIN d2
    <2>1. ASSUME NEW j \in 1 .. m
          PROVE  /\ stdout[j] > 0 => <<"idx", stdout[j]>> \in DOMAIN d2
                 /\ stdout[j] = 0 => \E c \in Nat : <<"parse_error", c>> \in DOMAIN d2
      BY <1>2, <1>9 DEF LeanFiled
    <2>2. /\ line > 0 => <<"idx", line>> \in DOMAIN d2
          /\ line = 0 => \E c \in Nat : <<"parse_error", c>> \in DOMAIN d2
      <3>1. key \in DOMAIN d2
        BY <1>9
      <3>2. CASE line = 0
        <4>1. key = <<"parse_error", m>>
          BY <1>5, <3>2
        <4>2. ~ (line > 0) /\ m \in Nat
          BY <1>3, <3>2
        <4>3. <<"parse_error", m>> \in DOMAIN d2
          BY <3>1, <4>1
        <4> QED
          BY <4>2, <4>3
      <3>3. CASE line > 0
        <4>1. line # 0
          BY <1>3, <3>3
        <4>2. key = <<"idx", line>>
          BY <1>5, <4>1
        <4> QED
          BY <3>1, <4>1, <4>2
      <3> QED
        BY <1>3, <3>2, <3>3
    <2>3. \A j \in 1 .. m + 1 : j \in 1 .. m \/ j = m + 1
      BY <1>3
    <2> QED
      BY <2>1, <2>2, <2>3
  <1>14. LeanFiled(d2, m + 1, stdout, leanTruth)
    <2>1. m + 1 \in 0 .. Len(stdout) /\ (m + 1) - 1 = m
      BY <1>1, <1>3
    <2> QED
      BY <1>10, <1>12, <1>13, <2>1 DEF LeanFiled
  <1> QED
    BY <1>1, <1>2, <1>14 DEF LeanInv

LEMMA LeanInvStep ==
  ASSUME LeanInv, [LeanNext]_leanVars
  PROVE  LeanInv'
  <1>1. CASE RunInImage
    BY <1>1 DEF RunInImage, LeanInv, LeanEnded
  <1>2. CASE LeanReturns
    BY <1>2 DEF LeanReturns, LeanInv, LeanEnded
  <1>3. CASE PrintDecisions
    BY <1>3 DEF PrintDecisions, LeanInv, LeanEnded
  <1>4. CASE UNCHANGED leanVars
    BY <1>4 DEF leanVars, LeanInv
  <1> QED
    BY <1>1, <1>2, <1>3, <1>4, MeasureLeanKeeps, ReadLineKeeps DEF LeanNext

LEMMA LeanInvSuffices == LeanInv => EveryLineIsFiled
  <1> SUFFICES ASSUME LeanInv PROVE EveryLineIsFiled
    OBVIOUS
  <1>1. LeanLines(stdout, noise) /\ LeanFiled(decisions, lineNo, stdout, leanTruth)
    BY DEF LeanInv
  <1>2. \A k \in DOMAIN decisions : k[1] = "idx" =>
          \E j \in 1 .. lineNo : k = <<"idx", stdout[j]>> /\ decisions[k] = leanTruth[stdout[j]]
    BY <1>1 DEF LeanFiled
  <1>3. Cardinality(DOMAIN decisions) = lineNo
    BY <1>1 DEF LeanFiled
  <1>4. ASSUME leanPc = "exit0" PROVE {k[2] : k \in DOMAIN decisions} = 1 .. lineNo
    <2>1. lineNo = Len(stdout) /\ \A k \in DOMAIN decisions : k[1] = "idx"
      BY <1>4 DEF LeanInv
    <2>2. \A j \in 1 .. lineNo : stdout[j] # 0
      <3> SUFFICES ASSUME NEW j \in 1 .. lineNo, stdout[j] = 0 PROVE FALSE
        OBVIOUS
      <3>1. PICK c \in Nat : <<"parse_error", c>> \in DOMAIN decisions
        BY <1>1 DEF LeanFiled
      <3>2. <<"parse_error", c>>[1] = "idx"
        BY <2>1, <3>1
      <3> QED
        BY <3>2
    <2>3. \A j \in 1 .. lineNo : stdout[j] = j
      BY <1>1, <2>1, <2>2 DEF LeanLines
    <2>4. \A k \in DOMAIN decisions : k[2] \in 1 .. lineNo
      BY <1>2, <2>1, <2>3
    <2>5. \A j \in 1 .. lineNo : <<"idx", j>> \in DOMAIN decisions
      BY <1>1, <2>3 DEF LeanFiled
    <2>6. \A j \in 1 .. lineNo : <<"idx", j>>[2] = j
      OBVIOUS
    <2>7. \A j \in 1 .. lineNo : \E k \in DOMAIN decisions : k[2] = j
      BY <2>5, <2>6
    <2> QED
      BY <2>4, <2>7
  <1>5. \A k \in DOMAIN decisions : k[1] = "idx" => decisions[k] = leanTruth[k[2]]
    BY <1>2
  <1> QED
    BY <1>3, <1>4, <1>5 DEF EveryLineIsFiled

\* However many tuples and lines of lake: a tuple's entry is its decision, no
\* line hides another, and what is printed is every line.
THEOREM LinesFiled == LeanSpec => []EveryLineIsFiled
  <1>1. LeanInv /\ [LeanNext]_leanVars => LeanInv'
    BY LeanInvStep
  <1> QED
    BY <1>1, LeanInvInit, LeanInvSuffices, PTL DEF LeanSpec

\* An element of a sequence over S is in S.
LEMMA ElementOfSeq ==
  ASSUME NEW S, NEW q \in Seq(S), NEW j \in 1 .. Len(q)
  PROVE  q[j] \in S
  OBVIOUS

LEMMA LeanTypeStep ==
  ASSUME LeanInv, LeanTypeOK, [LeanNext]_leanVars
  PROVE  LeanTypeOK'
  <1> USE DEF LeanTypeOK, LeanEnded
  <1>1. CASE RunInImage
    BY <1>1 DEF RunInImage
  <1>2. CASE LeanReturns
    BY <1>2 DEF LeanReturns
  <1>3. CASE PrintDecisions
    BY <1>3 DEF PrintDecisions
  <1>4. CASE UNCHANGED leanVars
    BY <1>4 DEF leanVars
  <1>5. CASE MeasureLean
    <2>1. /\ leanPc' = "lean" /\ UNCHANGED <<lineNo, decisions, leanTruth>>
          /\ \/ /\ Printed < NLean /\ noise' = noise
                /\ stdout' = Append(stdout, Printed + 1)
             \/ noise < MaxNoise /\ noise' = noise + 1 /\ stdout' = Append(stdout, 0)
      BY <1>5 DEF MeasureLean
    <2>2. noise \in 0 .. Len(stdout) /\ Len(stdout) \in Nat
      BY DEF LeanInv, LeanLines
    <2>3. Printed \in Nat
      BY <2>2 DEF Printed
    <2>4. PICK x \in 0 .. NLean : stdout' = Append(stdout, x)
      BY <2>1, <2>3, LeanAssumption
    <2>5. stdout' \in Seq(0 .. NLean) /\ Len(stdout') = Len(stdout) + 1
      BY <2>4
    <2>6. noise' \in 0 .. MaxNoise
      BY <2>1, LeanAssumption
    <2> QED
      BY <2>1, <2>2, <2>5, <2>6
  <1>6. CASE ReadLine /\ leanPc' = "raised"
    <2>1. UNCHANGED <<stdout, noise, lineNo, decisions, leanTruth>>
      BY <1>6 DEF ReadLine
    <2> QED
      BY <1>6, <2>1
  <1>7. CASE ReadLine /\ leanPc' # "raised"
    <2> DEFINE line == stdout[lineNo + 1]
               key == IF line = 0 THEN ErrorKey ELSE TupleKey(line)
               v == IF line = 0 THEN "ERROR" ELSE leanTruth[line]
    <2>1. /\ lineNo < Len(stdout) /\ lineNo' = lineNo + 1
          /\ decisions' = [k \in DOMAIN decisions \cup {key} |-> IF k # key THEN decisions[k] ELSE v]
          /\ UNCHANGED <<leanPc, stdout, noise, leanTruth>>
      BY <1>7 DEF ReadLine
    <2>2. line \in 0 .. NLean
      <3>1. lineNo + 1 \in 1 .. Len(stdout)
        BY <2>1
      <3> QED
        BY <3>1, ElementOfSeq
    <2>3. v \in LeanDecision \cup {"ERROR"}
      BY <2>2, LeanAssumption DEF LeanTuples
    <2> HIDE DEF v, key, line
    <2>4. \A k \in DOMAIN decisions' : decisions'[k] \in LeanDecision \cup {"ERROR"}
      BY <2>1, <2>3
    <2>5. lineNo' \in 0 .. Len(stdout')
      BY <2>1
    <2> QED
      BY <2>1, <2>4, <2>5
  <1> QED
    BY <1>1, <1>2, <1>3, <1>4, <1>5, <1>6, <1>7 DEF LeanNext

LEMMA LeanTypeInit == LeanInit => LeanTypeOK
  BY LeanAssumption DEF LeanInit, LeanTypeOK

\* Types of the oracle runner: the process prints no tuple it was not asked for.
THEOREM LeanTypeCorrect == LeanSpec => []LeanTypeOK
  <1>1. LeanInv /\ [LeanNext]_leanVars => LeanInv'
    BY LeanInvStep
  <1>2. LeanInv /\ LeanTypeOK /\ [LeanNext]_leanVars => LeanTypeOK'
    BY LeanTypeStep
  <1> QED
    BY <1>1, <1>2, LeanInvInit, LeanTypeInit, PTL DEF LeanSpec

-----------------------------------------------------------------------------
\* The sweep of the symbolic compiler

\* The rows of kind k, a subcommand with a class.
Tally(rs, k) == {c \in 1 .. Len(rs) : <<SubcommandOf(c), rs[c].cat>> = k}

SweepRow == [cat : Categories \cup {"TIMEOUT"}, says : SolverSays, took : Nat]
SweepRows == Seq(SweepRow)

\* What a row may say of its call, under that limit.
CallFits(row, limit) ==
  /\ row.took >= limit => row.cat = "TIMEOUT"
  /\ row.cat \in {"TIMEOUT", row.says}
  /\ row.cat = "TIMEOUT" =>
        row.took >= limit \/ row.took >= TIMEOUT_S \/ row.says = "SIGHUP"

CallsFit(rs, limit) == \A c \in 1 .. Len(rs) : CallFits(rs[c], limit)

\* The counts n are those of the rows rs.
CountsFit(n, rs) ==
  /\ \A k \in DOMAIN n : n[k] = Cardinality(Tally(rs, k))
  /\ \A c \in 1 .. Len(rs) : <<SubcommandOf(c), rs[c].cat>> \in DOMAIN n

SweepInv ==
  /\ timeout \in Nat /\ rows \in SweepRows
  /\ CallsFit(rows, timeout)
  /\ CountsFit(counts, rows)

\* Whose results.json is and how much of it is there, at each stage.
SweepFile ==
  /\ sweepPc \in SweepBusy \cup SweepEnded /\ rows \in SweepRows /\ sweeps \in Nat
  /\ resultsJson \in [of : Nat, rows : SweepRows, whole : BOOLEAN]
  /\ resultsJson.of <= sweeps
  /\ sweepPc \in {"sample", "sweep", "exit1"} => resultsJson.of < sweeps
  /\ sweepPc \in {"write", "tables", "exit0"} => resultsJson.of = sweeps
  /\ sweepPc = "write" => Len(rows) = NCalls /\ ~resultsJson.whole
  /\ sweepPc \in {"tables", "exit0"} => resultsJson.whole
  /\ resultsJson.whole => Len(resultsJson.rows) = NCalls
  /\ Ours => resultsJson.rows = SubSeq(rows, 1, Len(resultsJson.rows))
  /\ Ours /\ resultsJson.whole => resultsJson.rows = rows

LEMMA NothingCounted ==
  /\ <<>> \in SweepRows /\ CountsFit(<<>>, <<>>) /\ Len(<<>>) = 0
  /\ \A limit : CallsFit(<<>>, limit)
  <1>1. DOMAIN <<>> = {} /\ Len(<<>>) = 0 /\ 1 .. 0 = {}
    OBVIOUS
  <1> QED
    BY <1>1 DEF SweepRows, CountsFit, CallsFit

LEMMA SweepInvInit == SweepInit => SweepInv /\ SweepFile
  BY NothingCounted, SweepAssumption
     DEF SweepInit, SweepInv, SweepFile, Ours, NoResults, SweepEnded

\* The beginnings of a sequence of rows.
LEMMA Beginnings ==
  ASSUME NEW rs \in SweepRows
  PROVE  /\ SubSeq(rs, 1, Len(rs)) = rs
         /\ \A k \in 0 .. Len(rs) : /\ SubSeq(rs, 1, k) \in SweepRows
                                     /\ Len(SubSeq(rs, 1, k)) = k
         /\ <<>> = SubSeq(rs, 1, 0)
  BY DEF SweepRows

\* A row more: the tally of its kind has it, the others stay.
LEMMA TallyGrows ==
  ASSUME NEW rs \in SweepRows, NEW row \in SweepRow,
         NEW n, CountsFit(n, rs), NEW key, key = <<SubcommandOf(Len(rs) + 1), row.cat>>
  PROVE  CountsFit(Bump(n, key), Append(rs, row))
  <1> DEFINE m == Len(rs)
             rs2 == Append(rs, row)
             n2 == Bump(n, key)
  <1>1. /\ m \in Nat /\ Len(rs2) = m + 1 /\ rs2[m + 1] = row
        /\ \A c \in 1 .. m : rs2[c] = rs[c]
    BY DEF SweepRows
  <1>2. 1 .. m + 1 = (1 .. m) \cup {m + 1} /\ m + 1 \notin 1 .. m
    BY <1>1
  <1>3. \A c \in 1 .. m : <<SubcommandOf(c), rs2[c].cat>> = <<SubcommandOf(c), rs[c].cat>>
    BY <1>1
  <1>4. <<SubcommandOf(m + 1), rs2[m + 1].cat>> = key
    BY <1>1
  <1>5. \A k : Tally(rs2, k) = Tally(rs, k) \cup (IF k = key THEN {m + 1} ELSE {})
    BY <1>1, <1>2, <1>3, <1>4 DEF Tally
  <1>6. \A k : IsFiniteSet(Tally(rs, k)) /\ Cardinality(Tally(rs, k)) \in Nat
    <2> SUFFICES ASSUME NEW k PROVE IsFiniteSet(Tally(rs, k)) /\ Cardinality(Tally(rs, k)) \in Nat
      OBVIOUS
    <2>1. Tally(rs, k) \subseteq 1 .. m /\ IsFiniteSet(1 .. m)
      BY <1>1, IntervalFacts DEF Tally
    <2> QED
      BY <2>1, FS_Subset, FS_CardinalityType
  <1>7. Cardinality(Tally(rs2, key)) = Cardinality(Tally(rs, key)) + 1
    <2>1. m + 1 \notin Tally(rs, key)
      BY <1>2 DEF Tally
    <2> QED
      BY <1>5, <1>6, <2>1, FS_AddElement
  <1>8. /\ DOMAIN n2 = DOMAIN n \cup {key}
        /\ \A k \in DOMAIN n : k # key => n2[k] = n[k]
        /\ n2[key] = (IF key \in DOMAIN n THEN n[key] ELSE 0) + 1
    BY DEF Bump
  <1>9. key \notin DOMAIN n => Tally(rs, key) = {}
    BY DEF CountsFit, Tally
  <1>10. n2[key] = Cardinality(Tally(rs2, key))
    <2>1. CASE key \in DOMAIN n
      BY <1>7, <1>8, <2>1 DEF CountsFit
    <2>2. CASE key \notin DOMAIN n
      BY <1>7, <1>8, <1>9, <2>2, FS_EmptySet
    <2> QED
      BY <2>1, <2>2
  <1>11. \A k \in DOMAIN n2 : k # key => n2[k] = Cardinality(Tally(rs2, k))
    <2> SUFFICES ASSUME NEW k \in DOMAIN n2, k # key PROVE n2[k] = Cardinality(Tally(rs2, k))
      OBVIOUS
    <2>1. k \in DOMAIN n /\ n2[k] = n[k]
      BY <1>8
    <2>2. Tally(rs2, k) = Tally(rs, k)
      BY <1>5
    <2>3. n[k] = Cardinality(Tally(rs, k))
      BY <2>1 DEF CountsFit
    <2> QED
      BY <2>1, <2>2, <2>3
  <1>12. \A c \in 1 .. Len(rs2) : <<SubcommandOf(c), rs2[c].cat>> \in DOMAIN n2
    BY <1>1, <1>2, <1>3, <1>4, <1>8 DEF CountsFit
  <1> HIDE DEF n2, rs2
  <1>13. CountsFit(n2, rs2)
    BY <1>10, <1>11, <1>12 DEF CountsFit
  <1> QED
    BY <1>13 DEF n2, rs2

\* The row of a call, whatever the solver says and however long it takes.
LEMMA RowOfCall ==
  ASSUME timeout \in Nat, NEW says \in SolverSays, NEW seconds \in Nat
  PROVE  LET row == [cat |-> ClassifyOutput(Reachable(says), seconds),
                     says |-> Reachable(says), took |-> seconds]
         IN row \in SweepRow /\ CallFits(row, timeout)
  <1> DEFINE s == Reachable(says)
             cat == ClassifyOutput(s, seconds)
             row == [cat |-> cat, says |-> s, took |-> seconds]
  <1>1. s \in SolverSays
    BY DEF Reachable, SolverSays, Categories
  <1>2. TIMEOUT_S \in Nat
    BY SweepAssumption
  <1>3. /\ cat \in {"TIMEOUT", s} /\ cat \in Categories \cup {"TIMEOUT"}
        /\ seconds >= timeout => cat = "TIMEOUT"
        /\ cat = "TIMEOUT" => seconds >= timeout \/ seconds >= TIMEOUT_S \/ s = "SIGHUP"
    <2> HIDE DEF s
    <2>1. "TIMEOUT" \notin SolverSays
      BY DEF SolverSays, Categories
    <2> QED
      BY <1>1, <1>2, <2>1 DEF ClassifyOutput, Took, SolverSays
  <1> HIDE DEF s, cat
  <1>4. row.cat = cat /\ row.says = s /\ row.took = seconds
    OBVIOUS
  <1>5. row \in SweepRow
    BY <1>1, <1>3 DEF SweepRow
  <1>6. CallFits(row, timeout)
    BY <1>3, <1>4 DEF CallFits
  <1> QED
    BY <1>5, <1>6 DEF s, cat

LEMMA SymccCallKeeps == SweepInv /\ SymccCall => SweepInv'
  <1> SUFFICES ASSUME SweepInv, SymccCall PROVE SweepInv'
    OBVIOUS
  <1>1. PICK says \in SolverSays, seconds \in Durations :
          LET cat == ClassifyOutput(Reachable(says), seconds)
          IN /\ rows' = Append(rows, [cat |-> cat, says |-> Reachable(says), took |-> seconds])
             /\ counts' = Bump(counts, <<SubcommandOf(Len(rows) + 1), cat>>)
    BY DEF SymccCall
  <1> DEFINE cat == ClassifyOutput(Reachable(says), seconds)
             row == [cat |-> cat, says |-> Reachable(says), took |-> seconds]
  <1>2. UNCHANGED timeout /\ timeout \in Nat /\ rows \in SweepRows
    BY DEF SymccCall, SweepInv
  <1>3. seconds \in Nat
    BY SweepAssumption
  <1>4. row \in SweepRow /\ CallFits(row, timeout)
    BY <1>2, <1>3, RowOfCall
  <1>5. rows' = Append(rows, row) /\ counts' = Bump(counts, <<SubcommandOf(Len(rows) + 1), row.cat>>)
    BY <1>1
  <1> HIDE DEF row, cat
  <1>6. CountsFit(counts', rows')
    BY <1>2, <1>4, <1>5, TallyGrows DEF SweepInv
  <1>7. rows' \in SweepRows
    BY <1>2, <1>4, <1>5 DEF SweepRows
  <1>8. CallsFit(rows', timeout')
    <2>1. /\ Len(rows) \in Nat /\ Len(rows') = Len(rows) + 1 /\ rows'[Len(rows) + 1] = row
          /\ \A c \in 1 .. Len(rows) : rows'[c] = rows[c]
      BY <1>2, <1>4, <1>5 DEF SweepRows
    <2>2. \A c \in 1 .. Len(rows') : c \in 1 .. Len(rows) \/ c = Len(rows) + 1
      BY <2>1
    <2>3. \A c \in 1 .. Len(rows) : CallFits(rows[c], timeout)
      BY DEF SweepInv, CallsFit
    <2> QED
      BY <1>2, <1>4, <2>1, <2>2, <2>3 DEF CallsFit
  <1> QED
    BY <1>2, <1>6, <1>7, <1>8 DEF SweepInv

LEMMA SweepInvStep ==
  ASSUME SweepInv, [SweepNext]_sweepVars
  PROVE  SweepInv'
  <1>1. CASE SweepStart
    BY <1>1, NothingCounted, SweepAssumption DEF SweepStart, SweepInv
  <1>2. CASE SampleForSweep
    BY <1>2 DEF SampleForSweep, SweepInv
  <1>3. CASE OpenSweep \/ FlushSweep \/ CloseSweep
    BY <1>3 DEF OpenSweep, FlushSweep, CloseSweep, SweepInv
  <1>4. CASE SweepExit \/ SweepStops
    BY <1>4 DEF SweepExit, SweepStops, SweepInv
  <1>5. CASE UNCHANGED sweepVars
    BY <1>5 DEF sweepVars, SweepInv
  <1> QED
    BY <1>1, <1>2, <1>3, <1>4, <1>5, SymccCallKeeps DEF SweepNext

LEMMA SweepFileStep ==
  ASSUME SweepFile, SweepInv', [SweepNext]_sweepVars
  PROVE  SweepFile'
  <1> USE DEF SweepFile, Ours, SweepBusy, SweepEnded
  <1>0. rows' \in SweepRows
    BY DEF SweepInv
  <1>1. CASE SweepStart
    BY <1>0, <1>1 DEF SweepStart
  <1>2. CASE SampleForSweep
    BY <1>2 DEF SampleForSweep
  <1>3. CASE SymccCall
    <2>1. sweepPc = "sweep" /\ UNCHANGED <<sweepPc, resultsJson, sweeps>>
      BY <1>3 DEF SymccCall
    <2> QED
      BY <1>0, <2>1
  <1>4. CASE OpenSweep
    <2>1. /\ sweepPc' = "write" /\ Len(rows) = NCalls /\ UNCHANGED <<rows, sweeps>>
          /\ resultsJson' = [of |-> sweeps, rows |-> <<>>, whole |-> FALSE]
      BY <1>4 DEF OpenSweep
    <2>2. <<>> \in SweepRows /\ Len(<<>>) = 0 /\ <<>> = SubSeq(rows, 1, 0)
      BY NothingCounted, Beginnings
    <2> QED
      BY <2>1, <2>2
  <1>5. CASE FlushSweep
    <2>1. PICK k \in Len(resultsJson.rows) + 1 .. NCalls :
              resultsJson' = [resultsJson EXCEPT !.rows = SubSeq(rows, 1, k)]
      BY <1>5 DEF FlushSweep
    <2>2. sweepPc = "write" /\ UNCHANGED <<sweepPc, rows, sweeps>>
      BY <1>5 DEF FlushSweep
    <2>3. k \in 0 .. Len(rows)
      <3>1. Len(resultsJson.rows) \in Nat /\ Len(rows) = NCalls /\ Len(rows) \in Nat
        BY <2>2 DEF SweepRows
      <3> QED
        BY <3>1
    <2>4. SubSeq(rows, 1, k) \in SweepRows /\ Len(SubSeq(rows, 1, k)) = k
      BY <2>3, Beginnings
    <2>5. /\ resultsJson' \in [of : Nat, rows : SweepRows, whole : BOOLEAN]
          /\ resultsJson'.rows = SubSeq(rows, 1, k)
          /\ resultsJson'.of = resultsJson.of /\ ~resultsJson'.whole
      BY <2>1, <2>2, <2>4
    <2> QED
      BY <2>2, <2>4, <2>5
  <1>6. CASE CloseSweep
    <2>1. /\ sweepPc = "write" /\ sweepPc' = "tables" /\ UNCHANGED <<rows, sweeps>>
          /\ resultsJson' = [of |-> sweeps, rows |-> rows, whole |-> TRUE]
      BY <1>6 DEF CloseSweep
    <2>2. rows = SubSeq(rows, 1, Len(rows)) /\ Len(rows) = NCalls
      BY <2>1, Beginnings
    <2> QED
      BY <2>1, <2>2
  <1>7. CASE SweepExit
    BY <1>7 DEF SweepExit
  <1>8. CASE SweepStops
    BY <1>8 DEF SweepStops
  <1>9. CASE UNCHANGED sweepVars
    BY <1>9 DEF sweepVars
  <1> QED
    BY <1>1, <1>2, <1>3, <1>4, <1>5, <1>6, <1>7, <1>8, <1>9 DEF SweepNext

LEMMA SweepInvSuffices == SweepInv /\ SweepFile => SweepReportTruthful
  <1> SUFFICES ASSUME SweepInv, SweepFile PROVE SweepReportTruthful
    OBVIOUS
  <1>1. Ours /\ resultsJson.whole => \A k \in DOMAIN counts :
            counts[k] = Cardinality({c \in 1 .. NCalls :
                            <<SubcommandOf(c), resultsJson.rows[c].cat>> = k})
    <2> SUFFICES ASSUME Ours, resultsJson.whole, NEW k \in DOMAIN counts
                 PROVE  counts[k] = Cardinality({c \in 1 .. NCalls :
                                      <<SubcommandOf(c), resultsJson.rows[c].cat>> = k})
      OBVIOUS
    <2>1. resultsJson.rows = rows /\ Len(rows) = NCalls
      BY DEF SweepFile
    <2> QED
      BY <2>1 DEF SweepInv, CountsFit, Tally
  <1>2. \A c \in 1 .. Len(rows) : CallFits(rows[c], timeout)
    BY DEF SweepInv, CallsFit
  <1>3. Ours => /\ resultsJson.rows = SubSeq(rows, 1, Len(resultsJson.rows))
                /\ ~resultsJson.whole => sweepPc \in {"write", "raised", "killed"}
    BY DEF SweepFile, Ours, SweepBusy, SweepEnded
  <1>4. /\ resultsJson.whole => Len(resultsJson.rows) = NCalls
        /\ sweepPc = "exit0" => Ours /\ resultsJson.whole
    BY DEF SweepFile, Ours
  <1> QED
    BY <1>1, <1>2, <1>3, <1>4 DEF SweepReportTruthful, CallFits

\* However many policies, subcommands, launches and kills, wherever they strike:
\* results.json begins as one sweep did, a whole one is what its tables count,
\* and a class other than TIMEOUT is what the solver said.
THEOREM SweepReportsTruth == SweepSpec => []SweepReportTruthful
  <1>1. SweepInv /\ [SweepNext]_sweepVars => SweepInv'
    BY SweepInvStep
  <1>2. SweepFile /\ SweepInv' /\ [SweepNext]_sweepVars => SweepFile'
    BY SweepFileStep
  <1> QED
    BY <1>1, <1>2, SweepInvInit, SweepInvSuffices, PTL DEF SweepSpec

\* The calls of one subcommand are one a policy: call c is of policy (c - 1) \div m.
LEMMA CallsOfSubcommand ==
  ASSUME NEW s
  PROVE  LET calls == {c \in 1 .. NCalls : SubcommandOf(c) = s}
         IN IsFiniteSet(calls) /\ Cardinality(calls) <= NPolicies
  <1> DEFINE m == Len(Subcommands)
             calls == {c \in 1 .. NCalls : SubcommandOf(c) = s}
             f == [c \in calls |-> (c - 1) \div m]
  <1>1. m \in Nat \ {0} /\ NPolicies \in Nat \ {0} /\ NCalls = NPolicies * m /\ NCalls \in Nat
    BY SweepAssumption DEF NCalls
  <1> HIDE DEF m
  <1>2. \A c \in 1 .. NCalls : /\ (c - 1) \div m \in Nat /\ (c - 1) % m \in 0 .. m - 1
                               /\ c - 1 = m * ((c - 1) \div m) + ((c - 1) % m)
    BY <1>1
  <1>3. \A c \in 1 .. NCalls : (c - 1) \div m \in 0 .. NPolicies - 1
    <2> SUFFICES ASSUME NEW c \in 1 .. NCalls PROVE (c - 1) \div m \in 0 .. NPolicies - 1
      OBVIOUS
    <2> DEFINE q == (c - 1) \div m
               r == (c - 1) % m
    <2>1. q \in Nat /\ r \in Nat /\ c - 1 = m * q + r /\ c - 1 < m * NPolicies
      BY <1>1, <1>2
    <2> HIDE DEF q, r
    <2>2. ~(q >= NPolicies)
      <3> SUFFICES ASSUME q >= NPolicies PROVE FALSE
        OBVIOUS
      <3>1. m * q >= m * NPolicies
        BY <1>1, <2>1
      <3>2. m * q \in Nat /\ m * NPolicies \in Nat
        BY <1>1, <2>1
      <3> QED
        BY <2>1, <3>1, <3>2
    <2>3. q \in 0 .. NPolicies - 1
      BY <1>1, <2>1, <2>2
    <2> QED
      BY <2>3 DEF q
  <1>4. \A c, d \in calls : f[c] = f[d] => c = d
    <2> SUFFICES ASSUME NEW c \in calls, NEW d \in calls, (c - 1) \div m = (d - 1) \div m
                 PROVE  c = d
      OBVIOUS
    <2>1. /\ ((c - 1) % m) + 1 \in 1 .. m /\ ((d - 1) % m) + 1 \in 1 .. m
          /\ Subcommands[((c - 1) % m) + 1] = Subcommands[((d - 1) % m) + 1]
      <3>1. c \in 1 .. NCalls /\ d \in 1 .. NCalls /\ SubcommandOf(c) = s /\ SubcommandOf(d) = s
        OBVIOUS
      <3>2. (c - 1) % m \in 0 .. m - 1 /\ (d - 1) % m \in 0 .. m - 1
        BY <1>2, <3>1
      <3>3. ((c - 1) % m) + 1 \in 1 .. m /\ ((d - 1) % m) + 1 \in 1 .. m
        BY <1>1, <3>2
      <3>4. SubcommandOf(c) = Subcommands[((c - 1) % m) + 1]
            /\ SubcommandOf(d) = Subcommands[((d - 1) % m) + 1]
        BY DEF SubcommandOf, m
      <3> QED
        BY <3>1, <3>3, <3>4
    <2>2. ((c - 1) % m) + 1 = ((d - 1) % m) + 1
      BY <2>1, SweepAssumption DEF m
    <2>3. (c - 1) % m = (d - 1) % m
      BY <1>1, <1>2, <2>2
    <2>4. c - 1 = d - 1
      <3>1. /\ c - 1 = m * ((c - 1) \div m) + ((c - 1) % m)
            /\ d - 1 = m * ((d - 1) \div m) + ((d - 1) % m)
        BY <1>2
      <3> QED
        BY <3>1, <2>3
    <2>5. c \in Nat /\ d \in Nat
      BY <1>1
    <2> QED
      BY <2>4, <2>5
  <1>5. IsFiniteSet(0 .. NPolicies - 1) /\ Cardinality(0 .. NPolicies - 1) = NPolicies
    <2>1. Cardinality(0 .. NPolicies - 1) = IF 0 > NPolicies - 1 THEN 0 ELSE (NPolicies - 1) - 0 + 1
      BY <1>1, FS_Interval
    <2> QED
      BY <2>1, <1>1, FS_Interval
  <1>6. f \in Injection(calls, 0 .. NPolicies - 1)
    <2>1. f \in [calls -> 0 .. NPolicies - 1]
      BY <1>3
    <2> HIDE DEF f, calls
    <2> QED
      BY <1>4, <2>1 DEF Injection, IsInjective
  <1> HIDE DEF f
  <1>7. IsFiniteSet(calls) /\ Cardinality(calls) <= Cardinality(0 .. NPolicies - 1)
    <2> HIDE DEF calls
    <2> QED
      BY <1>5, <1>6, FS_Injection
  <1> QED
    BY <1>5, <1>7

\* A count has a call of its kind for every unit, and a policy has one such call.
LEMMA SweepTypeStep ==
  ASSUME SweepInv, SweepInv', SweepTypeOK, [SweepNext]_sweepVars
  PROVE  SweepTypeOK'
  <1> USE DEF SweepTypeOK, SweepEnded, SweepBusy
  <1>1. CASE SweepStart
    <2>1. Len(<<>>) = 0 /\ DOMAIN <<>> = {} /\ 1 .. 0 = {} /\ NCalls >= 0
      BY SweepAssumption DEF NCalls
    <2>2. rows' = <<>> /\ counts' = <<>>
      BY <1>1 DEF SweepStart
    <2>3. Len(rows') <= NCalls /\ 1 .. Len(rows') = {} /\ DOMAIN counts' = {}
      BY <2>1, <2>2
    <2>4. sweeps' \in 0 .. SweepLaunches /\ timeout' \in Timeouts /\ inContainer' = inContainer
          /\ sweepPc' = "sample"
      BY <1>1, SweepAssumption DEF SweepStart
    <2> QED
      BY <2>3, <2>4
  <1>2. CASE SampleForSweep
    BY <1>2 DEF SampleForSweep
  <1>3. CASE OpenSweep \/ FlushSweep \/ CloseSweep
    BY <1>3 DEF OpenSweep, FlushSweep, CloseSweep
  <1>4. CASE SweepExit \/ SweepStops
    BY <1>4 DEF SweepExit, SweepStops
  <1>5. CASE UNCHANGED sweepVars
    BY <1>5 DEF sweepVars
  <1>6. CASE SymccCall
    <2> DEFINE c == Len(rows) + 1
    <2>1. PICK says \in SolverSays, seconds \in Durations :
            LET cat == ClassifyOutput(Reachable(says), seconds)
            IN /\ rows' = Append(rows, [cat |-> cat, says |-> Reachable(says), took |-> seconds])
               /\ counts' = Bump(counts, <<SubcommandOf(c), cat>>)
      BY <1>6 DEF SymccCall
    <2> DEFINE cat == ClassifyOutput(Reachable(says), seconds)
               row == [cat |-> cat, says |-> Reachable(says), took |-> seconds]
               key == <<SubcommandOf(c), cat>>
    <2>2. c <= NCalls /\ UNCHANGED <<sweepPc, timeout, inContainer, resultsJson, sweeps>>
      BY <1>6 DEF SymccCall
    <2>3. row \in [cat : Categories \cup {"TIMEOUT"}, says : SolverSays, took : Durations]
      <3>1. timeout \in Nat /\ seconds \in Nat
        BY SweepAssumption DEF SweepInv
      <3>2. row \in SweepRow
        BY <3>1, RowOfCall
      <3> QED
        BY <3>2 DEF SweepRow
    <2>4. rows' = Append(rows, row) /\ counts' = Bump(counts, key)
      BY <2>1
    <2> HIDE DEF row, key, cat
    <2>5. rows \in SweepRows /\ rows' \in SweepRows
      BY DEF SweepInv
    <2>6. /\ Len(rows) \in Nat /\ Len(rows') = c /\ rows'[c] = row
          /\ \A e \in 1 .. Len(rows) : rows'[e] = rows[e]
      BY <2>4, <2>5 DEF SweepRows
    <2>7. \A e \in 1 .. Len(rows') : rows'[e] \in [cat : Categories \cup {"TIMEOUT"},
                                                   says : SolverSays, took : Durations]
      <3>1. \A e \in 1 .. c : e \in 1 .. Len(rows) \/ e = c
        BY <2>6
      <3> QED
        BY <2>3, <2>6, <3>1
    <2>8. \A k \in DOMAIN counts' : counts'[k] \in Nat \ {0}
      <3>1. NPolicies \in Nat
        BY SweepAssumption
      <3>2. \A k \in DOMAIN counts : counts[k] \in Nat \ {0}
        BY <3>1
      <3> QED
        BY <2>4, <3>2 DEF Bump
    <2>9. \A k \in DOMAIN counts' : counts'[k] <= NPolicies
      <3> SUFFICES ASSUME NEW k \in DOMAIN counts' PROVE counts'[k] <= NPolicies
        OBVIOUS
      <3> DEFINE calls == {e \in 1 .. NCalls : SubcommandOf(e) = k[1]}
                 tally == Tally(rows', k)
      <3>1. counts'[k] = Cardinality(tally)
        BY DEF SweepInv, CountsFit
      <3>2. tally \subseteq calls
        <4> SUFFICES ASSUME NEW e \in tally PROVE e \in calls
          OBVIOUS
        <4>1. e \in 1 .. c /\ <<SubcommandOf(e), rows'[e].cat>> = k
          BY <2>6 DEF Tally
        <4>2. NCalls \in Nat
          BY SweepAssumption DEF NCalls
        <4>3. e \in 1 .. NCalls
          BY <2>2, <2>6, <4>1, <4>2
        <4> QED
          BY <4>1, <4>3
      <3>3. IsFiniteSet(calls) /\ Cardinality(calls) <= NPolicies
        BY CallsOfSubcommand
      <3> HIDE DEF calls, tally
      <3>4. Cardinality(tally) <= Cardinality(calls) /\ Cardinality(tally) \in Nat
            /\ Cardinality(calls) \in Nat
        BY <3>2, <3>3, FS_Subset, FS_CardinalityType
      <3> QED
        BY <3>1, <3>3, <3>4, SweepAssumption
    <2>10. \A k \in DOMAIN counts' : counts'[k] \in 1 .. NPolicies
      BY <2>8, <2>9, SweepAssumption
    <2> QED
      BY <2>2, <2>6, <2>7, <2>10
  <1> QED
    BY <1>1, <1>2, <1>3, <1>4, <1>5, <1>6 DEF SweepNext

LEMMA SweepTypeInit == SweepInit => SweepTypeOK
  <1>1. Len(<<>>) = 0 /\ DOMAIN <<>> = {} /\ 1 .. 0 = {} /\ NCalls >= 0
    BY SweepAssumption DEF NCalls
  <1> QED
    BY <1>1, SweepAssumption DEF SweepInit, SweepTypeOK, SweepEnded

\* Types of the sweep: a class of a subcommand counts at most every policy once.
THEOREM SweepTypeCorrect == SweepSpec => []SweepTypeOK
  <1>1. SweepInv /\ [SweepNext]_sweepVars => SweepInv'
    BY SweepInvStep
  <1>2. SweepInv /\ SweepInv' /\ SweepTypeOK /\ [SweepNext]_sweepVars => SweepTypeOK'
    BY SweepTypeStep
  <1> QED
    BY <1>1, <1>2, SweepInvInit, SweepTypeInit, PTL DEF SweepSpec

-----------------------------------------------------------------------------
\* The property runner

\* The random arm draws every combination once.
LEMMA RandomRowsAre ==
  ASSUME NEW S, NEW C, NEW B, IsFiniteSet(S), IsFiniteSet(C), IsFiniteSet(B)
  PROVE  LET policies == [id : {"random"}, scope : S, condition : C, body : B]
         IN /\ IsFiniteSet(policies)
            /\ Cardinality(policies) = Cardinality(S) * Cardinality(C) * Cardinality(B)
  <1> DEFINE policies == [id : {"random"}, scope : S, condition : C, body : B]
             row(p) == [id |-> "random", scope |-> p[1][1], condition |-> p[1][2], body |-> p[2]]
             triples == (S \X C) \X B
             f == [p \in triples |-> row(p)]
  <1>1. IsFiniteSet(triples) /\ Cardinality(triples) = Cardinality(S) * Cardinality(C) * Cardinality(B)
    <2>1. IsFiniteSet(S \X C) /\ Cardinality(S \X C) = Cardinality(S) * Cardinality(C)
      BY FS_Product
    <2>2. IsFiniteSet(triples) /\ Cardinality(triples) = Cardinality(S \X C) * Cardinality(B)
      <3> DEFINE SC == S \X C
      <3>1. IsFiniteSet(SC)
        BY <2>1
      <3> HIDE DEF SC
      <3>2. IsFiniteSet(SC \X B) /\ Cardinality(SC \X B) = Cardinality(SC) * Cardinality(B)
        BY <3>1, FS_Product
      <3> QED
        BY <3>2 DEF SC
    <2> QED
      BY <2>1, <2>2
  <1>2. f \in [triples -> policies]
    OBVIOUS
  <1>3. \A p, q \in triples : f[p] = f[q] => p = q
    <2> SUFFICES ASSUME NEW p \in triples, NEW q \in triples, row(p) = row(q) PROVE p = q
      OBVIOUS
    <2>1. row(p).scope = row(q).scope /\ row(p).condition = row(q).condition /\ row(p).body = row(q).body
      OBVIOUS
    <2>2. p[1][1] = q[1][1] /\ p[1][2] = q[1][2] /\ p[2] = q[2]
      BY <2>1
    <2> QED
      BY <2>2
  <1>4. \A r \in policies : \E p \in triples : f[p] = r
    <2> SUFFICES ASSUME NEW r \in policies PROVE \E p \in triples : f[p] = r
      OBVIOUS
    <2>1. <<<<r.scope, r.condition>>, r.body>> \in triples
      OBVIOUS
    <2>2. f[<<<<r.scope, r.condition>>, r.body>>] = r
      BY <2>1
    <2> QED
      BY <2>1, <2>2
  <1> HIDE DEF f
  <1>5. f \in Bijection(triples, policies)
    BY <1>2, <1>3, <1>4 DEF Bijection, Injection, Surjection, IsInjective
  <1>6. ExistsBijection(triples, policies)
    BY <1>5 DEF ExistsBijection
  <1> HIDE DEF policies, triples
  <1>7. IsFiniteSet(policies) /\ Cardinality(policies) = Cardinality(triples)
    BY <1>1, <1>6, FS_Bijection
  <1> QED
    BY <1>1, <1>7 DEF policies

-----------------------------------------------------------------------------
\* Samples are judged only when the script gave them, and what became of the script
\* is known when it is cleaned up.
PbInv ==
  /\ PbTypeOK
  /\ dropped \in {{}} \cup {{a} : a \in Arms}
  /\ VerdictIsTheGenerators
  /\ \A i \in PbRuns : /\ pbPc[i] = "judge" => answer[i] = "rows"
                       /\ pbPc[i] \in {"cleanup", "unlink"} => answer[i] # "none"

\* With all its arms the generator passes the four properties.
LEMMA CompletePasses ==
  ASSUME dropped = {}, illTyped = FALSE
  PROVE  P1 /\ P2 /\ P3 /\ P4
  <1>1. \A k, o, x : Yields(k, o, x)
    BY DEF Yields
  <1>2. P1
    <2> SUFFICES ASSUME NEW r \in ExprRows PROVE r.wt
      BY DEF P1
    <2>1. PICK t \in Targets : r \in
             {[target |-> t, head |-> h, wt |-> ~illTyped,
               subs |-> {s \in EXPECTED_SUBHEADS[t] : Yields("sub", t, s)}] :
                  h \in {x \in EXPECTED_HEADS[t] : Yields("head", t, x)}}
      BY DEF ExprRows
    <2>2. r.wt = (~illTyped)
      BY <2>1
    <2> QED
      BY <2>2
  <1>3. P2
    <2> SUFFICES ASSUME NEW t \in Targets
                 PROVE  /\ EXPECTED_HEADS[t] \subseteq {r.head : r \in {q \in ExprRows : q.target = t}}
                        /\ EXPECTED_SUBHEADS[t] \subseteq
                              UNION {r.subs : r \in {q \in ExprRows : q.target = t}}
      BY DEF P2
    <2> DEFINE row(h) == [target |-> t, head |-> h, wt |-> ~illTyped,
                          subs |-> {s \in EXPECTED_SUBHEADS[t] : Yields("sub", t, s)}]
    <2>1. ASSUME NEW h \in EXPECTED_HEADS[t]
          PROVE  row(h) \in {q \in ExprRows : q.target = t}
      <3>1. row(h) \in {row(y) : y \in {x \in EXPECTED_HEADS[t] : Yields("head", t, x)}}
        BY <1>1
      <3>2. row(h) \in ExprRows
        BY <3>1 DEF ExprRows
      <3> QED
        BY <3>2
    <2>2. \A h : row(h).head = h /\ row(h).subs = EXPECTED_SUBHEADS[t]
      BY <1>1
    <2> HIDE DEF row
    <2>3. EXPECTED_HEADS[t] \subseteq {r.head : r \in {q \in ExprRows : q.target = t}}
      BY <2>1, <2>2
    <2>4. ASSUME NEW s \in EXPECTED_SUBHEADS[t]
          PROVE  s \in UNION {r.subs : r \in {q \in ExprRows : q.target = t}}
      <3>1. PICK h : h \in EXPECTED_HEADS[t]
        BY ArmsAssumption
      <3>2. row(h) \in {q \in ExprRows : q.target = t} /\ s \in row(h).subs
        BY <3>1, <2>1, <2>2
      <3> QED
        BY <3>2
    <2> QED
      BY <2>3, <2>4
  <1> DEFINE S == EXPECTED_SCOPE_KINDS
             C == EXPECTED_CONDITION_KINDS
             random == [id : {"random"}, scope : S, condition : C, body : Bodies]
  <1>4. random = RandomRows
    BY <1>1 DEF RandomRows
  <1>5. {r \in PolicyRows : r.id = "random"} = random
    <2>1. \A r \in PolicyRows : r \in random \/ r.id \in EDGE_CASE_POLICY_IDS
      BY <1>4 DEF PolicyRows
    <2>2. \A r \in random : r \in PolicyRows /\ r.id = "random"
      BY <1>4 DEF PolicyRows
    <2> QED
      BY <2>1, <2>2, ArmsAssumption
  <1>6. Bodies # {} /\ S # {} /\ \E c \in C : c # "empty"
    BY ArmsAssumption, PbAssumption, FS_EmptySet
  <1>7. P3
    <2>1. Cardinality(random) >= MinRandom
      <3>1. Cardinality(random) = Cardinality(S) * Cardinality(C) * Cardinality(Bodies)
        BY RandomRowsAre, ArmsAssumption, PbAssumption
      <3> QED
        BY <3>1, ArmsAssumption
    <2>2. ASSUME NEW e \in EDGE_CASE_POLICY_IDS
          PROVE  e \in {r.id : r \in PolicyRows}
      <3>1. [id |-> e, scope |-> "any", condition |-> "when", body |-> "fixture"] \in PolicyRows
        BY <1>1 DEF PolicyRows
      <3> QED
        BY <3>1
    <2>3. "random" \in {r.id : r \in PolicyRows}
      <3>1. PICK s \in S, c \in C, b \in Bodies : TRUE
        BY <1>6
      <3>2. [id |-> "random", scope |-> s, condition |-> c, body |-> b] \in PolicyRows
        BY <1>4 DEF PolicyRows
      <3> QED
        BY <3>2
    <2> QED
      BY <2>1, <2>2, <2>3, <1>5 DEF P3
  <1>8. P4
    <2>1. ASSUME NEW s \in S, NEW c \in C, NEW b \in Bodies
          PROVE  \E r \in random : r.scope = s /\ r.condition = c /\ r.body = b
      <3>1. [id |-> "random", scope |-> s, condition |-> c, body |-> b] \in random
        OBVIOUS
      <3> QED
        BY <3>1
    <2>2. \A r \in random : r.body \in Bodies
      OBVIOUS
    <2> HIDE DEF random
    <2>3. random # {} /\ S \subseteq {r.scope : r \in random}
          /\ C \subseteq {r.condition : r \in random}
      BY <2>1, <1>6
    <2>4. {r.body : r \in {q \in random : q.condition # "empty"}} = Bodies
      BY <2>1, <2>2, <1>6
    <2>5. Cardinality(Bodies) >= P4_MIN_DISTINCT_BODIES
      BY ArmsAssumption, PbAssumption, FS_CardinalityType
    <2> QED
      BY <1>5, <2>3, <2>4, <2>5 DEF P4
  <1> QED
    BY <1>2, <1>3, <1>7, <1>8

\* A generator that lost an arm, or its typing, fails one of them.
LEMMA IncompleteFails ==
  ASSUME P1, P2, P3, P4, dropped \in {{}} \cup {{a} : a \in Arms}, illTyped \in BOOLEAN
  PROVE  dropped = {} /\ ~illTyped
  <1>1. ~illTyped
    <2>1. PICK t \in Targets : \E h : h \in EXPECTED_HEADS[t]
      BY ArmsAssumption
    <2> PICK h : h \in EXPECTED_HEADS[t]
      BY <2>1
    <2>2. h \in {r.head : r \in {q \in ExprRows : q.target = t}}
      BY P2 DEF P2
    <2>3. PICK r \in ExprRows : r.target = t
      BY <2>2
    <2>4. r.wt
      BY P1 DEF P1
    <2>5. r.wt = ~illTyped
      BY DEF ExprRows
    <2> QED
      BY <2>4, <2>5
  <1>2. ASSUME NEW a \in Arms, dropped = {a}
        PROVE  FALSE
    <2>1. ASSUME NEW k, NEW o, NEW x, a = Arm(k, o, x) PROVE ~Yields(k, o, x)
      BY <1>2, <2>1 DEF Yields
    <2>2. ASSUME NEW t \in Targets, NEW h \in EXPECTED_HEADS[t], a = Arm("head", t, h)
          PROVE  FALSE
      <3>1. PICK r \in ExprRows : r.target = t /\ r.head = h
        <4>1. h \in {r.head : r \in {q \in ExprRows : q.target = t}}
          BY P2 DEF P2
        <4> QED
          BY <4>1
      <3>2. PICK u \in Targets : \E g \in EXPECTED_HEADS[u] :
               /\ Yields("head", u, g)
               /\ r = [target |-> u, head |-> g, wt |-> ~illTyped,
                       subs |-> {s \in EXPECTED_SUBHEADS[u] : Yields("sub", u, s)}]
        BY DEF ExprRows
      <3>3. u = t /\ Yields("head", u, h)
        BY <3>1, <3>2
      <3> QED
        BY <3>3, <2>1, <2>2
    <2>3. ASSUME NEW t \in Targets, NEW s \in EXPECTED_SUBHEADS[t], a = Arm("sub", t, s)
          PROVE  FALSE
      <3>1. PICK r \in ExprRows : r.target = t /\ s \in r.subs
        <4>1. s \in UNION {r.subs : r \in {q \in ExprRows : q.target = t}}
          BY P2 DEF P2
        <4> QED
          BY <4>1
      <3>2. PICK u \in Targets : \E g \in EXPECTED_HEADS[u] :
               r = [target |-> u, head |-> g, wt |-> ~illTyped,
                    subs |-> {z \in EXPECTED_SUBHEADS[u] : Yields("sub", u, z)}]
        BY DEF ExprRows
      <3>3. u = t /\ Yields("sub", u, s)
        BY <3>1, <3>2
      <3> QED
        BY <3>3, <2>1, <2>3
    <2> DEFINE random == {r \in PolicyRows : r.id = "random"}
    <2>4. random \subseteq RandomRows
      BY ArmsAssumption DEF PolicyRows
    <2>5. random # {} /\ RandomRows # {}
      BY <2>4, P4 DEF P4
    <2>6. RandomRows = [id : {"random"},
                        scope : {k \in EXPECTED_SCOPE_KINDS : Yields("scope", "", k)},
                        condition : {k \in EXPECTED_CONDITION_KINDS : Yields("condition", "", k)},
                        body : IF Yields("bodies", "", "random") THEN Bodies
                               ELSE {CHOOSE b \in Bodies : TRUE}]
      BY <2>5 DEF RandomRows
    <2>7. \A r \in random : r.id = "random" /\ Yields("scope", "", r.scope)
                            /\ Yields("condition", "", r.condition)
      BY <2>4, <2>6
    <2>8. ASSUME NEW e \in EDGE_CASE_POLICY_IDS, a = Arm("edge", "", e)
          PROVE  FALSE
      <3>1. PICK r \in PolicyRows : r.id = e
        <4>1. e \in {r.id : r \in PolicyRows}
          BY P3 DEF P3
        <4> QED
          BY <4>1
      <3>2. r \notin RandomRows
        BY <3>1, <2>6, ArmsAssumption
      <3>3. Yields("edge", "", e)
        BY <3>1, <3>2 DEF PolicyRows
      <3> QED
        BY <3>3, <2>1, <2>8
    <2>9. ASSUME NEW k \in EXPECTED_SCOPE_KINDS, a = Arm("scope", "", k)
          PROVE  FALSE
      <3>1. PICK r \in random : r.scope = k
        <4>1. k \in {r.scope : r \in random}
          BY P4 DEF P4
        <4> QED
          BY <4>1
      <3> QED
        BY <3>1, <2>7, <2>1, <2>9
    <2>10. ASSUME NEW k \in EXPECTED_CONDITION_KINDS, a = Arm("condition", "", k)
           PROVE  FALSE
      <3>1. PICK r \in random : r.condition = k
        <4>1. k \in {r.condition : r \in random}
          BY P4 DEF P4
        <4> QED
          BY <4>1
      <3> QED
        BY <3>1, <2>7, <2>1, <2>10
    <2>11. ASSUME a = Arm("random", "", "random")
           PROVE  FALSE
      BY <2>11, <2>1, <2>5 DEF RandomRows
    <2>12. ASSUME a = Arm("bodies", "", "random")
           PROVE  FALSE
      <3> DEFINE only == CHOOSE b \in Bodies : TRUE
                 seen == {r.body : r \in {q \in random : q.condition # "empty"}}
      <3>1. \A r \in random : r.body = only
        BY <2>4, <2>6, <2>1, <2>12
      <3>2. seen \subseteq {only}
        BY <3>1
      <3>3. Cardinality(seen) >= P4_MIN_DISTINCT_BODIES
        BY P4 DEF P4
      <3> HIDE DEF seen, only
      <3>4. IsFiniteSet({only}) /\ Cardinality({only}) = 1
        BY FS_Singleton
      <3>5. Cardinality(seen) <= 1 /\ Cardinality(seen) \in Nat
        BY <3>2, <3>4, FS_Subset, FS_CardinalityType
      <3> QED
        BY <3>3, <3>5, ArmsAssumption
    <2>13. \/ \E t \in Targets : \E h \in EXPECTED_HEADS[t] : a = Arm("head", t, h)
           \/ \E t \in Targets : \E s \in EXPECTED_SUBHEADS[t] : a = Arm("sub", t, s)
           \/ \E e \in EDGE_CASE_POLICY_IDS : a = Arm("edge", "", e)
           \/ \E k \in EXPECTED_SCOPE_KINDS : a = Arm("scope", "", k)
           \/ \E k \in EXPECTED_CONDITION_KINDS : a = Arm("condition", "", k)
           \/ a = Arm("random", "", "random") \/ a = Arm("bodies", "", "random")
      <3>1. \/ a \in UNION {{Arm("head", t, h) : h \in EXPECTED_HEADS[t]} : t \in Targets}
            \/ a \in UNION {{Arm("sub", t, h) : h \in EXPECTED_SUBHEADS[t]} : t \in Targets}
            \/ a \in {Arm("edge", "", e) : e \in EDGE_CASE_POLICY_IDS}
            \/ a \in {Arm("scope", "", k) : k \in EXPECTED_SCOPE_KINDS}
            \/ a \in {Arm("condition", "", k) : k \in EXPECTED_CONDITION_KINDS}
            \/ a \in {Arm("random", "", "random"), Arm("bodies", "", "random")}
        BY DEF Arms
      <3>2. CASE a \in UNION {{Arm("head", t, h) : h \in EXPECTED_HEADS[t]} : t \in Targets}
        BY <3>2
      <3>3. CASE a \in UNION {{Arm("sub", t, h) : h \in EXPECTED_SUBHEADS[t]} : t \in Targets}
        BY <3>3
      <3>4. CASE \/ a \in {Arm("edge", "", e) : e \in EDGE_CASE_POLICY_IDS}
                 \/ a \in {Arm("scope", "", k) : k \in EXPECTED_SCOPE_KINDS}
                 \/ a \in {Arm("condition", "", k) : k \in EXPECTED_CONDITION_KINDS}
        BY <3>4
      <3>5. CASE a \in {Arm("random", "", "random"), Arm("bodies", "", "random")}
        BY <3>5
      <3> QED
        BY <3>1, <3>2, <3>3, <3>4, <3>5
    <2> QED
      BY <2>2, <2>3, <2>8, <2>9, <2>10, <2>11, <2>12, <2>13
  <1> QED
    BY <1>1, <1>2

LEMMA PbInvStep ==
  ASSUME PbInv, [PbNext]_pbVars
  PROVE  PbInv'
  <1>1. ASSUME NEW i \in PbRuns, PbStep(i) \/ PbKill(i)
        PROVE  PbInv'
    <2> DEFINE passes == P1 /\ P2 /\ P3 /\ P4
    <2> USE DEF PbInv, PbTypeOK, PbGoto, PbStages, PbEnded
    <2>1. /\ PbTypeOK' /\ UNCHANGED <<dropped, illTyped>>
          /\ \E stage : pbPc' = [pbPc EXCEPT ![i] = stage]
          /\ \E a : answer' = [answer EXCEPT ![i] = a] \/ answer' = answer
          /\ pbPc'[i] = "judge" => answer'[i] = "rows"
          /\ pbPc'[i] \in {"cleanup", "unlink"} => answer'[i] # "none"
          /\ pbPc'[i] \in {"exit0", "exit1"} =>
               /\ pbPc[i] = "judge"
               /\ pbPc'[i] = IF passes THEN "exit0" ELSE "exit1"
      <3> HIDE DEF passes
      <3>1. CASE PbStart(i)
        BY <3>1 DEF PbStart
      <3>2. CASE RunMeasure(i)
        BY <3>2 DEF RunMeasure
      <3>3. CASE WriteScript(i)
        BY <3>3 DEF WriteScript
      <3>4. CASE RunScript(i)
        BY <3>4 DEF RunScript
      <3>5. CASE Cleanup(i)
        <4>1. answer[i] \in {"none", "rows", "exit2", "raised"}
          OBVIOUS
        <4>2. pbPc[i] \in {"cleanup", "unlink"}
          BY <3>5 DEF Cleanup
        <4>3. /\ AfterCleanup(i) \in {"judge", "exit2", "raised"}
              /\ AfterCleanup(i) = "judge" => answer[i] = "rows"
          BY <4>1, <4>2 DEF AfterCleanup
        <4> QED
          BY <3>5, <4>1, <4>2, <4>3 DEF Cleanup
      <3>6. CASE PbJudge(i)
        BY <3>6 DEF PbJudge, passes
      <3>7. CASE PbKill(i)
        BY <3>7 DEF PbKill
      <3> QED
        BY <1>1, <3>1, <3>2, <3>3, <3>4, <3>5, <3>6, <3>7 DEF PbStep
    <2>2. passes <=> dropped = {} /\ ~illTyped
      BY CompletePasses, IncompleteFails
    <2> HIDE DEF passes
    <2>3. VerdictIsTheGenerators'
      BY <2>1, <2>2 DEF VerdictIsTheGenerators
    <2>4. \A j \in PbRuns : /\ pbPc'[j] = "judge" => answer'[j] = "rows"
                            /\ pbPc'[j] \in {"cleanup", "unlink"} => answer'[j] # "none"
      BY <2>1
    <2> QED
      BY <2>1, <2>3, <2>4
  <1>2. CASE UNCHANGED pbVars
    BY <1>2 DEF PbInv, PbTypeOK, VerdictIsTheGenerators, pbVars
  <1> QED
    BY <1>1, <1>2 DEF PbNext

LEMMA PbInvInit == PbInit => PbInv
  BY DEF PbInit, PbInv, PbTypeOK, VerdictIsTheGenerators

\* Types of the property runner: it leaves the clean-up with an answer, so for a
\* stage there is.
THEOREM PbTypeCorrect == PbSpec => []PbTypeOK
  <1>1. PbInv /\ [PbNext]_pbVars => PbInv'
    BY PbInvStep
  <1>2. PbInv => PbTypeOK
    BY DEF PbInv
  <1> QED
    BY <1>1, <1>2, PbInvInit, PTL DEF PbSpec

\* For every table of expected arms and any number of overlapping invocations:
\* exit 0 means that the generator lost nothing, exit 1 that it did.
THEOREM VerdictsAreTheGenerators == PbSpec => []VerdictIsTheGenerators
  <1>1. PbInv /\ [PbNext]_pbVars => PbInv'
    BY PbInvStep
  <1>2. PbInv => VerdictIsTheGenerators
    BY DEF PbInv
  <1> QED
    BY <1>1, <1>2, PbInvInit, PTL DEF PbSpec

-----------------------------------------------------------------------------
\* The composition

\* Whichever harness is in use, every harness behaves as it does alone, so that
\* what is proved of one of them alone holds of all of them in one checkout.
THEOREM HarnessesStayApart ==
  Spec => /\ WideSpec /\ RtSpec /\ SpSpec /\ PrSpec /\ OpaSpec
          /\ SweepSpec /\ PbSpec /\ CliSpec /\ LeanSpec
  <1>1. Init => /\ WideInit /\ RtInit /\ SpInit /\ PrInit /\ OpaInit
                /\ SweepInit /\ PbInit /\ CliInit /\ LeanInit
    BY DEF Init
  <1>2. [Next]_allVars => [WideNext]_wideVars
    BY DEF Next, allVars
  <1>3. [Next]_allVars => [RtNext]_rtVars
    BY DEF Next, allVars
  <1>4. [Next]_allVars => [SpNext]_spVars
    BY DEF Next, allVars
  <1>5. [Next]_allVars => [PrNext]_prVars
    BY DEF Next, allVars
  <1>6. [Next]_allVars => [OpaNext]_oVars
    BY DEF Next, allVars
  <1>7. [Next]_allVars => [SweepNext]_sweepVars
    BY DEF Next, allVars
  <1>8. [Next]_allVars => [PbNext]_pbVars
    BY DEF Next, allVars
  <1>9. [Next]_allVars => [CliNext]_cliVars
    BY DEF Next, allVars
  <1>10. [Next]_allVars => [LeanNext]_leanVars
    BY DEF Next, allVars
  <1> QED
    BY <1>1, <1>2, <1>3, <1>4, <1>5, <1>6, <1>7, <1>8, <1>9, <1>10, PTL
       DEF Spec, WideSpec, RtSpec, SpSpec, PrSpec, OpaSpec, SweepSpec, PbSpec, CliSpec, LeanSpec

\* In one checkout every report is true: what the nine harnesses write down, each
\* in its own files, is what their engines said, in whatever order they are used.
THEOREM ReportsStayTrue ==
  Spec => [](/\ DisagreementsTruthful /\ FilesBackSummary /\ FindingsAreReal
             /\ FindingsComplete /\ CleanKeepsTypes /\ LossesAreFiled
             /\ AcceptedGeneratorStays /\ LoopFeedsItsErrors /\ OpaReportTruthful
             /\ SweepReportTruthful /\ VerdictIsTheGenerators /\ VerdictIsCedars
             /\ EveryLineIsFiled)
  BY HarnessesStayApart, DisagreementsAreTruthful, SummaryIsBacked, FindingsReal,
     FindingsAllFiled, CleanIsClean, LossesStayFiled, AcceptedStays, LoopConversation,
     OpaReportsTruth, SweepReportsTruth, VerdictsAreTheGenerators, VerdictsAreCedars,
     LinesFiled, PTL

\* The types of every harness hold in every state of the composition, in use or
\* not: the counts of the sweep stay below the policies, the numbers of the
\* findings below the probes, and no stage is left for one that does not exist.
THEOREM ExperimentsTyped == Spec => []ExperimentsTypeOK
  <1>1. Spec => [](/\ WideTypeOK /\ RtTypeOK /\ SpTypeOK /\ PrTypeOK /\ OpaTypeOK
                   /\ SweepTypeOK /\ PbTypeOK /\ CliTypeOK /\ LeanTypeOK)
    BY HarnessesStayApart, WideTypeCorrect, RtTypeCorrect, SpTypeCorrect, PrTypeCorrect,
       OpaTypeCorrect, SweepTypeCorrect, PbTypeCorrect, CliTypeCorrect, LeanTypeCorrect, PTL
  <1>2. /\ WideTypeOK /\ RtTypeOK /\ SpTypeOK /\ PrTypeOK /\ OpaTypeOK
        /\ SweepTypeOK /\ PbTypeOK /\ CliTypeOK /\ LeanTypeOK
        => ExperimentsTypeOK
    BY DEF ExperimentsTypeOK
  <1> QED
    BY <1>1, <1>2, PTL
=============================================================================
