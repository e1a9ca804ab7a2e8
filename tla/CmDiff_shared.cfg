CONSTANTS
    t1 = t1
    t2 = t2
    s1 = s1
    s2 = s2
    Threads = {t1, t2}
    Slots = {s1, s2}
    ScratchOf <- SharedScratch
    NSamples = 1
    Says <- NoErrors
SPECIFICATION Spec
INVARIANT DecisionsFaithful
CHECK_DEADLOCK FALSE
