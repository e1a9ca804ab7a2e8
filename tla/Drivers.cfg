CONSTANTS
    t1 = t1
    t2 = t2
    s1 = s1
    s2 = s2
    expr = expr
    policyGen = policyGen
    Threads = {t1, t2}
    Slots = {s1, s2}
    ScratchOf <- OwnScratch
    NSamples = 2
    Says <- ThreeAnswers
    NMutations = 4
    Files = {expr, policyGen}
    FileOf <- TwoFiles
    Layer <- Layers
    BreaksBuild = {1}
    BreaksPbt = {2, 4}
    MutInvocations = 3
    HhInvocations = 2
    MaxEdits = 1
SPECIFICATION MCSpec
INVARIANT TypeOK
INVARIANT DecisionsFaithful
INVARIANT StopsCleanly
INVARIANT ExitCodeHonest
PROPERTY Terminates
INVARIANT MutTypeOK
INVARIANT TreeRestored
INVARIANT VerdictsHonest
INVARIANT ExitMeansCoverage
INVARIANT DamageConfined
PROPERTY MutTerminates
INVARIANT HhTypeOK
INVARIANT FreshWhenRun
INVARIANT OutputsAgree
PROPERTY HhTerminates
CHECK_DEADLOCK FALSE
