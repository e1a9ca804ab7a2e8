------------------------- MODULE MCMutationHarness -------------------------
(* Small instance of MutationHarness for TLC: two files, a mutation the build *)
(* catches, one the properties catch, one nothing catches, and one aimed at   *)
(* the build that only the properties would catch.                            *)
EXTENDS MutationHarness

CONSTANTS expr, policyGen

TwoFiles == [m \in Mutations |-> IF m = 1 THEN expr ELSE policyGen]
Layers   == [m \in Mutations |-> IF m \in {1, 4} THEN "lake-build" ELSE "pbt"]
=============================================================================
