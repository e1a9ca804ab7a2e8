----------------------------- MODULE MCDiffRun -----------------------------
(* Small instances of DiffRun for TLC. *)
EXTENDS DiffRun

CONSTANTS r1, r2, r3, r4

\* Consecutive: a larger and a smaller run, untraced; both compare.
SeqTarget == [r \in Runs |-> IF r = r1 THEN 2 ELSE 1]
SeqSkip   == [r \in Runs |-> FALSE]
SeqSink   == [r \in Runs |-> FALSE]

\* Either r1 and r2, untraced, overlap; or one traced run has the checkout to
\* itself: r3, which compares, or r4, which skips Rust.
RunsTarget == [r \in Runs |-> IF r = r2 THEN 1 ELSE 2]
RunsSkip   == [r \in Runs |-> r = r4]
RunsSink   == [r \in Runs |-> r \in {r3, r4}]

\* For the overlapping runs it is enough that each engine tells the two
\* tuples apart: then any swap shows.
Told == /\ rustSem = [p \in Payload |-> IF p = 0 THEN "Allow" ELSE "ParseError"]
        /\ goSem = [p \in Payload |-> IF p = 0 THEN "Allow" ELSE "Deny"]

Company == LET started == {r \in Runs : pc'[r] # "idle"}
           IN \/ Cardinality(started) = 1 /\ started \subseteq {r3, r4}
              \/ Told /\ started \subseteq {r1, r2}

RunsNext == \E r \in Runs : (Start(r) /\ Company) \/ Step(r) \/ Kill(r)

RunsSpec == Init /\ [][RunsNext]_vars
============================================================================
