CONSTANTS
    expr = expr
    policyGen = policyGen
    NMutations = 4
    Files = {expr, policyGen}
    FileOf <- TwoFiles
    Layer <- Layers
    BreaksBuild = {1}
    BreaksPbt = {2, 4}
    MutInvocations = 1
SPECIFICATION MutSpec
INVARIANT LivedMeansNoTestFails
CHECK_DEADLOCK FALSE
