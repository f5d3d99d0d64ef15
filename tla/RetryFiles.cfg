SPECIFICATION RunSpec
CONSTANTS
    RunTurns = 1
    AutoRetry = TRUE
    Files = {f}
INVARIANT RetryGetsFiles

\* The delegation ends with its reply.
CHECK_DEADLOCK FALSE
