CONSTANTS
    r1 = r1
    r2 = r2
    r3 = r3
    r4 = r4
    Runs = {r1, r2, r3, r4}
    NTarget <- RunsTarget
    MaxTarget = 2
    SkipRust <- RunsSkip
    HasSink <- RunsSink
    SupportSize = 2
    RustSays = {"Allow", "Deny", "ParseError"}
    GoSays = {"Allow", "Deny", "ERROR"}
    MaxDropped = 1
    MaxLost = 1
    Overlap = TRUE
SPECIFICATION RunsSpec
INVARIANT DisagreementsReal
INVARIANT RowsInOrder
INVARIANT TraceEndsHonest
INVARIANT TupleRowsMatchSummary
INVARIANT VerdictsFaithful
CHECK_DEADLOCK FALSE
