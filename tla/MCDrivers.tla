----------------------------- MODULE MCDrivers -----------------------------
(* Small instances of the drivers that work with a tool chain of their own,   *)
(* for TLC: the expression differ, the mutation harness and the DRT           *)
(* comparison share no file and no process, so a behaviour of MCSpec is one   *)
(* of theirs: `tool' says whose, and the other two stay in their first state. *)
EXTENDS MCCmDiff, MCMutationHarness, HeadToHead

VARIABLE tool

MCInit == /\ Init /\ MutInit /\ HhInit
          /\ tool \in {"cm_diff", "mutation", "headtohead"}

MCNext == \/ tool = "cm_diff" /\ Next /\ UNCHANGED <<tool, mutVars, hhVars>>
          \/ tool = "mutation" /\ MutNext /\ UNCHANGED <<tool, vars, hhVars>>
          \/ tool = "headtohead" /\ HhNext /\ UNCHANGED <<tool, vars, mutVars>>

\* Each driver with the fairness it has by itself.
MCSpec == /\ MCInit /\ [][MCNext]_<<tool, vars, mutVars, hhVars>>
          /\ WF_vars(tool = "cm_diff" /\ MainStep)
          /\ \A t \in Threads : WF_vars(tool = "cm_diff" /\ Work(t))
          /\ WF_mutVars(tool = "mutation" /\ MutStep)
          /\ WF_hhVars(tool = "headtohead" /\ HhStep)
=============================================================================
