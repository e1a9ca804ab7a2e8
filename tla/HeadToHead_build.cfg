CONSTANTS
    HhInvocations = 2
    MaxEdits = 1
SPECIFICATION HhSpec
INVARIANT FailedBuildStops
CHECK_DEADLOCK FALSE
