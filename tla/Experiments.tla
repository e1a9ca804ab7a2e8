---------------------------- MODULE Experiments ----------------------------
(***************************************************************************)
(* The harnesses under experiments/ that share no file with each other: in *)
(* one checkout any of them may be used, without an effect on the others,  *)
(* so that a behaviour is a behaviour of one of them and everything else   *)
(* stays as it is.                                                         *)
(***************************************************************************)
EXTENDS Widened, RoundTrip, SchemaProbe, Proposer, OpaDiff, SymccSweep, PbtRun,
        CliVerdict, LeanBatch

VARIABLE running \* the harness that is in use

allVars == <<running, wideVars, rtVars, spVars, prVars, oVars, sweepVars, pbVars, cliVars,
             leanVars>>

Harnesses == {"widened", "roundtrip", "schema", "proposer", "opa", "symcc", "pbt", "cli", "lean"}

AnyOf(S) == CHOOSE x \in S : TRUE

\* Of a harness that is not in use it does not matter what its engines say.
Pinned ==
    /\ \/ running = "widened"
       \/ rustTruth = AnyOf(AnswersFrom(WideRustSays)) /\ goTruth = AnyOf(AnswersFrom(WideGoSays))
    /\ \/ running = "roundtrip"
       \/ rtGoTruth = AnyOf(FatesFrom(RtGoSays)) /\ rtRustTruth = AnyOf(FatesFrom(RtRustSays))
    /\ \/ running = "schema"
       \/ /\ wellFormed = {}
          /\ goBack = AnyOf(BacksFrom(SpGoBacks)) /\ rustBack = AnyOf(BacksFrom(SpRustBacks))
    /\ running = "proposer" \/ compiles = {}
    /\ \/ running = "opa"
       \/ opaTruth = [t \in OpaTuples |-> AnyOf(OpaMay[t])] /\ output = FALSE
    /\ running = "symcc" \/ (timeout = AnyOf(Timeouts) /\ inContainer = FALSE)
    /\ running = "pbt" \/ (dropped = {} /\ illTyped = FALSE)
    /\ running = "cli" \/ (said = "Deny" /\ names = {})
    /\ running = "lean" \/ leanTruth = [t \in LeanTuples |-> "Deny"]

Init ==
    /\ running \in Harnesses /\ Pinned
    /\ WideInit /\ RtInit /\ SpInit /\ PrInit /\ OpaInit /\ SweepInit /\ PbInit /\ CliInit
    /\ LeanInit

Next ==
    /\ UNCHANGED running
    /\ \/ /\ running = "widened" /\ WideNext
          /\ UNCHANGED <<rtVars, spVars, prVars, oVars, sweepVars, pbVars, cliVars, leanVars>>
       \/ /\ running = "roundtrip" /\ RtNext
          /\ UNCHANGED <<wideVars, spVars, prVars, oVars, sweepVars, pbVars, cliVars, leanVars>>
       \/ /\ running = "schema" /\ SpNext
          /\ UNCHANGED <<wideVars, rtVars, prVars, oVars, sweepVars, pbVars, cliVars, leanVars>>
       \/ /\ running = "proposer" /\ PrNext
          /\ UNCHANGED <<wideVars, rtVars, spVars, oVars, sweepVars, pbVars, cliVars, leanVars>>
       \/ /\ running = "opa" /\ OpaNext
          /\ UNCHANGED <<wideVars, rtVars, spVars, prVars, sweepVars, pbVars, cliVars, leanVars>>
       \/ /\ running = "symcc" /\ SweepNext
          /\ UNCHANGED <<wideVars, rtVars, spVars, prVars, oVars, pbVars, cliVars, leanVars>>
       \/ /\ running = "pbt" /\ PbNext
          /\ UNCHANGED <<wideVars, rtVars, spVars, prVars, oVars, sweepVars, cliVars, leanVars>>
       \/ /\ running = "cli" /\ CliNext
          /\ UNCHANGED <<wideVars, rtVars, spVars, prVars, oVars, sweepVars, pbVars, leanVars>>
       \/ /\ running = "lean" /\ LeanNext
          /\ UNCHANGED <<wideVars, rtVars, spVars, prVars, oVars, sweepVars, pbVars, cliVars>>

Spec == Init /\ [][Next]_allVars

\* Types, of the harness in use: the others are as they began.
ExperimentsTypeOK ==
    /\ running = "widened" => WideTypeOK
    /\ running = "roundtrip" => RtTypeOK
    /\ running = "schema" => SpTypeOK
    /\ running = "proposer" => PrTypeOK
    /\ running = "opa" => OpaTypeOK
    /\ running = "symcc" => SweepTypeOK
    /\ running = "pbt" => PbTypeOK
    /\ running = "cli" => CliTypeOK
    /\ running = "lean" => LeanTypeOK
=============================================================================
