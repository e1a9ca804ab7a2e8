------------------------------ MODULE MCCmDiff ------------------------------
(* Small instances of CmDiff for TLC. *)
EXTENDS CmDiff

CONSTANTS t1, t2, s1, s2

\* A directory each, and what CPython on Linux gives: thread identifiers are
\* addresses of aligned control blocks, so all are 0 modulo 64.
OwnScratch    == [t \in Threads |-> IF t = t1 THEN s1 ELSE s2]
SharedScratch == [t \in Threads |-> s1]

\* Every answer occurs, and the probes of a sample differ.
ThreeAnswers ==
    [c \in Samples \X Probes |->
        CASE c[1] = 0 /\ c[2] = 0 -> "Allow" [] c[1] = 1 /\ c[2] = 1 -> "ERROR"
          [] OTHER -> "Deny"]
NoErrors == [c \in Samples \X Probes |-> IF c[2] = 0 THEN "Deny" ELSE "Allow"]
=============================================================================
