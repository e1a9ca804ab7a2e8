CONSTANTS
    MAX_ITERS = 2
    Answers = 3
    Launches = 3
SPECIFICATION PrSpec
INVARIANT FeedbackIsExact
CHECK_DEADLOCK FALSE
