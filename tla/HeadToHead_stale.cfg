CONSTANTS
    HhInvocations = 2
    MaxEdits = 0
SPECIFICATION HhSpec
INVARIANT NumbersAreThisRuns
CHECK_DEADLOCK FALSE
