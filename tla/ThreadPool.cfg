\* One worker, as _start creates it; tasks may raise.  The pool may hang and
\* the number of calls is bounded, so the system may stop.
CONSTANTS
    Workers = {w1}
    MaxArgs = 4
    MaxCalls = 3
    MayFail = TRUE
SPECIFICATION FairSpec
INVARIANTS TypeOK Barrier HolesAreFailures StuckOnlyAfterFailure
PROPERTIES MapReturns ReturnedListIsFinal ImplementsParallelMap
CHECK_DEADLOCK FALSE
