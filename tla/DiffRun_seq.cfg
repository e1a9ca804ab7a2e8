CONSTANTS
    r1 = r1
    r2 = r2
    r3 = r3
    r4 = r4
    Runs = {r1, r2}
    NTarget <- SeqTarget
    MaxTarget = 2
    SkipRust <- SeqSkip
    HasSink <- SeqSink
    SupportSize = 2
    RustSays = {"Allow", "Deny", "ParseError"}
    GoSays = {"Allow", "Deny", "ERROR"}
    MaxDropped = 1
    MaxLost = 0
    Overlap = FALSE
SPECIFICATION FairSpec
INVARIANT TypeOK
INVARIANT NoLeftovers
INVARIANT RatesAreProportions
INVARIANT CorpusIsOneRuns
PROPERTY ImplementsContract
PROPERTY Terminates
CHECK_DEADLOCK FALSE
