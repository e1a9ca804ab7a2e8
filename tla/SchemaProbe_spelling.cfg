CONSTANTS
    NSchemas = 1
    SpRuns = {i1}
    SpIds = {"Foo"}
    SCHEMAS <- OptString
    SpGoBacks <- Respellings
    SpRustBacks <- Respellings
SPECIFICATION SpSpec
INVARIANT SilentDiffsDiffer
CHECK_DEADLOCK FALSE
