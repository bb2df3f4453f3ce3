\* A task that raises ends the only worker: the call never returns.
CONSTANTS
    Workers = {w1}
    MaxArgs = 3
    MaxCalls = 2
    MayFail = TRUE
SPECIFICATION FairSpec
PROPERTIES FailedCallReturns
CHECK_DEADLOCK FALSE
