CONSTANTS
    i1 = i1
    i2 = i2
    NWide = 2
    ShapeOf <- WideShapes
    WideRuns = {i1, i2}
    WideRustSays <- WideRust
    WideGoSays <- WideGo
    NProbes = 2
    RtRuns = {i1, i2}
    RtGoSays <- RtGo
    RtRustSays <- RtRust
    NSchemas = 2
    SpRuns = {i1, i2}
    SpIds = {"Foo"}
    SCHEMAS <- SpSchemas
    SpGoBacks <- SpGo
    SpRustBacks <- SpRust
    MAX_ITERS = 2
    Answers = 4
    Launches = 3
    NOpa = 3
    SpecSays <- OpaSpec3
    OpaMay <- OpaAny
    NPolicies = 1
    Subcommands <- TwoSubcommands
    TIMEOUT_S = 30
    Timeouts = {10, 60}
    Durations = {1, 30}
    SweepLaunches = 2
    PbRuns = {i1, i2}
    EXPECTED_HEADS <- PbHeads
    EXPECTED_SUBHEADS <- PbSubheads
    EDGE_CASE_POLICY_IDS = {"e1", "e2"}
    EXPECTED_SCOPE_KINDS = {"any", "eq"}
    EXPECTED_CONDITION_KINDS = {"empty", "when", "unless"}
    Bodies = {"b1", "b2", "b3"}
    MinRandom = 5
    P4_MIN_DISTINCT_BODIES = 2
    NLean = 3
    MaxNoise = 2
SPECIFICATION Spec
SYMMETRY Invocations
INVARIANT ExperimentsTypeOK
INVARIANT DisagreementsTruthful
INVARIANT FilesBackSummary
INVARIANT FindingsAreReal
INVARIANT FindingsComplete
INVARIANT CleanKeepsTypes
INVARIANT LossesAreFiled
INVARIANT AcceptedGeneratorStays
INVARIANT LoopFeedsItsErrors
INVARIANT OpaReportTruthful
INVARIANT SweepReportTruthful
INVARIANT VerdictIsTheGenerators
INVARIANT VerdictIsCedars
INVARIANT EveryLineIsFiled
CHECK_DEADLOCK FALSE
