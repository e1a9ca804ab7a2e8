--------------------------- MODULE DiffContract ---------------------------
(***************************************************************************)
(* What a differential testing run promises, without files, harnesses or   *)
(* trace events: it is abandoned, or it publishes disagreements, and every *)
(* published one is a tuple it may have sampled and one that is worth      *)
(* reporting, which is fixed before any run begins.  The corpus keeps the  *)
(* last non-empty list, or is torn.                                        *)
(***************************************************************************)
EXTENDS Integers

CONSTANTS Runs, NTarget, MaxTarget

VARIABLES
    phase,      \* of each run
    found,      \* what each run published
    kept,       \* the corpus
    differing   \* the indices worth reporting (fixed)

contractVars == <<phase, found, kept, differing>>

Init ==
    /\ phase = [r \in Runs |-> "waiting"]
    /\ found = [r \in Runs |-> {}]
    /\ kept = [run |-> "none"]
    /\ differing \in SUBSET (0 .. MaxTarget - 1)

Begin(r) ==
    /\ phase[r] = "waiting"
    /\ phase' = [phase EXCEPT ![r] = "working"]
    /\ UNCHANGED <<found, kept, differing>>

\* The old list is gone before the new one is there.
Clear(r) ==
    /\ phase[r] = "working"
    /\ phase' = [phase EXCEPT ![r] = "publishing"]
    /\ kept' = [run |-> "torn"]
    /\ UNCHANGED <<found, differing>>

PublishNothing(r) ==
    /\ phase[r] = "working"
    /\ phase' = [phase EXCEPT ![r] = "published"]
    /\ UNCHANGED <<found, kept, differing>>

Publish(r, D) ==
    /\ phase[r] = "publishing" /\ D # {}
    /\ phase' = [phase EXCEPT ![r] = "published"]
    /\ found' = [found EXCEPT ![r] = D]
    /\ kept' = [run |-> r, tuples |-> D]
    /\ UNCHANGED differing

Abandon(r) ==
    /\ phase[r] \in {"working", "publishing"}
    /\ phase' = [phase EXCEPT ![r] = "abandoned"]
    /\ UNCHANGED <<found, kept, differing>>

Next == \E r \in Runs :
    \/ Begin(r) \/ Clear(r) \/ PublishNothing(r) \/ Abandon(r)
    \/ \E D \in SUBSET {i \in differing : i < NTarget[r]} : Publish(r, D)

Spec == Init /\ [][Next]_contractVars
===========================================================================
