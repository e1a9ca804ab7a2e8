CONSTANTS
    NPolicies = 1
    Subcommands <- OneSubcommand
    TIMEOUT_S = 30
    Timeouts = {60}
    Durations = {1, 40, 60}
    SweepLaunches = 2
SPECIFICATION SweepSpec
INVARIANT TimeoutIsTheOption
CHECK_DEADLOCK FALSE
