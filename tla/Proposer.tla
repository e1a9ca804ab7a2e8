------------------------------ MODULE Proposer ------------------------------
(***************************************************************************)
(* phase_a_v1: a language model proposes a generator, the compiler judges  *)
(* it.  run_loop.py asks, compiles and feeds every error back in one       *)
(* conversation; run_iter_1.py .. run_iter_3.py do one attempt each, and   *)
(* the second and third build their prompt from the source and the log     *)
(* that the one before left in outputs/.                                   *)
(*                                                                         *)
(* Every attempt is compiled as cedar-micro/CedarMicro/GenLLM.lean, in     *)
(* place of whatever is there.  Invocations run one after the other; each  *)
(* can be killed.  A source is the number of the answer it came with, 0    *)
(* is none; a log says which source it is about, and whether it built.     *)
(***************************************************************************)
EXTENDS Integers, Sequences

CONSTANTS
    MAX_ITERS,  \* the attempts of the loop
    Answers,    \* bound: what the model answers, all in all
    Launches    \* bound: the invocations

ASSUME ProposerAssumption == MAX_ITERS \in Nat \ {0} /\ Answers \in Nat /\ Launches \in Nat

Sources == 1 .. Answers
Log == [about : 0 .. Answers, ok : BOOLEAN]
NoLog == [about |-> 0, ok |-> FALSE]

\* What has a pair of files in outputs/: loop_iter_<k>, iter_<k>.
Slots == ({"loop"} \X (1 .. MAX_ITERS)) \cup ({"iter"} \X (1 .. 3))

VARIABLES
    prPc,         \* where the running invocation is, or how the last one ended
    slot,         \* its script, "loop" or "iter", and the attempt it is at
    messages,     \* the attempts it has fed back: <<source, log>> pairs
    source,       \* the source it has been given
    genLLM,       \* GenLLM.lean
    outSrc,       \* outputs/: the source of each slot, 0 when there is none
    outLog,       \* outputs/: the compile log of each slot
    loopSummary,  \* loop_summary.json: the attempt that converged, 0 none, -1 no file
    drawn,        \* answers so far
    launched,     \* invocations so far
    compiles      \* the answers that compile (fixed)

prFiles == <<genLLM, outSrc, outLog, loopSummary>>
prVars == <<prPc, slot, messages, source, prFiles, drawn, launched, compiles>>

PrEnded == {"idle", "exit0", "exit1", "raised", "killed"}
PrStages == {"ask", "write", "build", "summary"}

PrInit ==
    /\ prPc = "idle" /\ slot = <<"loop", 1>> /\ messages = <<>> /\ source = 0
    /\ genLLM = 0 /\ loopSummary = -1
    /\ outSrc = [s \in Slots |-> 0] /\ outLog = [s \in Slots |-> NoLog]
    /\ drawn = 0 /\ launched = 0
    /\ compiles \in SUBSET Sources

Launch ==
    /\ prPc \in PrEnded /\ launched < Launches
    /\ launched' = launched + 1
    /\ UNCHANGED <<source, prFiles, drawn, compiles>>

\* Variant: the conversation of the invocation before goes on.
StartLoopResuming ==
    /\ Launch
    /\ prPc' = "ask" /\ slot' = <<"loop", 1>> /\ UNCHANGED messages

StartLoop ==
    /\ Launch
    /\ prPc' = "ask" /\ slot' = <<"loop", 1>> /\ messages' = <<>>

\* Reading PREV_SRC and PREV_LOG raises when there is no such file.
StartIter(k) ==
    LET prev == <<"iter", k - 1>>
    IN /\ Launch
       /\ slot' = <<"iter", k>>
       /\ \/ k = 1 /\ prPc' = "ask" /\ messages' = <<>>
          \/ /\ k > 1 /\ outSrc[prev] # 0 /\ outLog[prev] # NoLog
             /\ prPc' = "ask" /\ messages' = <<<<outSrc[prev], outLog[prev]>>>>
          \/ /\ k > 1 /\ (outSrc[prev] = 0 \/ outLog[prev] = NoLog)
             /\ prPc' = "raised" /\ messages' = <<>>

\* The answer goes to the slot's source file; a call that fails ends the
\* invocation, and the loop then writes no summary.
Ask ==
    /\ prPc = "ask"
    /\ \/ /\ drawn < Answers
          /\ drawn' = drawn + 1 /\ source' = drawn + 1
          /\ outSrc' = [outSrc EXCEPT ![slot] = drawn + 1]
          /\ prPc' = "write"
       \/ /\ prPc' \in {"exit1", "raised"}
          /\ UNCHANGED <<drawn, source, outSrc>>
    /\ UNCHANGED <<slot, messages, genLLM, outLog, loopSummary, launched, compiles>>

\* compile_source: the attempt replaces GenLLM.lean (run_iter_1.py also sees to it
\* that CedarMicro.lean imports it, which it does in this commit) ...
WriteGenLLM ==
    /\ prPc = "write"
    /\ genLLM' = source /\ prPc' = "build"
    /\ UNCHANGED <<slot, messages, source, outSrc, outLog, loopSummary, drawn, launched, compiles>>

\* Variant: the status of the pipeline, which is that of tail.
BuildOkByStatus(ok) == TRUE

\* ... and is what lake builds: the exit status is that of tail, so it is the
\* line "Build completed" that counts; a container may die before it prints it.
BuildOk(ok) == ok

\* The log is written, and read: done, or the next attempt is told.
Build ==
    /\ prPc = "build"
    /\ \/ \E printed \in {FALSE, (genLLM \in compiles)} :
            LET log == [about |-> genLLM, ok |-> BuildOk(printed)]
            IN /\ outLog' = [outLog EXCEPT ![slot] = log]
               /\ IF slot[1] = "iter"
                  THEN prPc' = (IF log.ok THEN "exit0" ELSE "exit1") /\ UNCHANGED <<slot, messages>>
                  ELSE IF log.ok THEN prPc' = "summary" /\ UNCHANGED <<slot, messages>>
                  ELSE /\ messages' = Append(messages, <<source, log>>)
                       /\ IF slot[2] < MAX_ITERS
                          THEN prPc' = "ask" /\ slot' = <<"loop", slot[2] + 1>>
                          ELSE prPc' = "summary" /\ UNCHANGED slot
       \/ prPc' = "raised" /\ UNCHANGED <<slot, messages, outLog>>
    /\ UNCHANGED <<source, genLLM, outSrc, loopSummary, drawn, launched, compiles>>

ConvergedAt == IF outLog[slot].ok THEN slot[2] ELSE 0

WriteLoopSummary ==
    /\ prPc = "summary"
    /\ loopSummary' = ConvergedAt
    /\ prPc' = IF loopSummary' > 0 THEN "exit0" ELSE "exit1"
    /\ UNCHANGED <<slot, messages, source, genLLM, outSrc, outLog, drawn, launched,
                   compiles>>

PrKill ==
    /\ prPc \in PrStages
    /\ prPc' = "killed"
    /\ UNCHANGED <<slot, messages, source, prFiles, drawn, launched, compiles>>

PrNext ==
    \/ StartLoop \/ (\E k \in 1 .. 3 : StartIter(k))
    \/ Ask \/ WriteGenLLM \/ Build \/ WriteLoopSummary \/ PrKill

PrSpec == PrInit /\ [][PrNext]_prVars

-----------------------------------------------------------------------------
\* Properties

PrTypeOK ==
    /\ prPc \in PrEnded \cup PrStages /\ slot \in Slots
    /\ messages \in Seq(Sources \X Log) /\ Len(messages) <= MAX_ITERS
    /\ source \in 0 .. Answers /\ genLLM \in 0 .. Answers
    /\ outSrc \in [Slots -> 0 .. Answers] /\ outLog \in [Slots -> Log]
    /\ loopSummary \in -1 .. MAX_ITERS
    /\ drawn \in 0 .. Answers /\ launched \in 0 .. Launches
    /\ compiles \subseteq Sources

\* Exit 0 leaves a generator in cedar-micro that compiles, and it is the source
\* recorded for this attempt, with its own log; for the loop the summary names
\* that attempt.
AcceptedGeneratorStays ==
    prPc = "exit0" =>
        /\ genLLM \in compiles /\ outSrc[slot] = genLLM
        /\ outLog[slot] = [about |-> genLLM, ok |-> TRUE]
        /\ slot[1] = "loop" => loopSummary = slot[2]

\* What the loop has told the model is what is on disk: attempt by attempt the
\* source, the log of that very source, and none of them a success.
LoopFeedsItsErrors ==
    prPc \in PrStages /\ slot[1] = "loop" =>
        /\ \A k \in 1 .. Len(messages) :
            /\ messages[k] = <<outSrc[<<"loop", k>>], outLog[<<"loop", k>>]>>
            /\ messages[k][2].about = messages[k][1] /\ ~messages[k][2].ok
        /\ Len(messages) \in {slot[2] - 1, slot[2]}

\* "we feed the exact rejection reason back": the log that run_iter_2.py and
\* run_iter_3.py put into their prompt is that of the source they put there.
FeedbackIsExact ==
    prPc \in PrStages /\ slot[1] = "iter" =>
        \A k \in 1 .. Len(messages) : messages[k][2].about = messages[k][1]
=============================================================================
