\* Three calls, run sequentially or by two workers at a time; tools have a
\* timeout, except the long-running one of the last call.
SPECIFICATION FairSpec
CONSTANTS
    N = 3
    Limits = {0, 2}
    HasTimeout = TRUE
    ToolTimeout = TRUE
    LongRunning = {3}
    None = None
INVARIANTS
    ConcurrencyBound
    ReportsAreTrue
PROPERTIES
    ImplementsContract
    BatchReturns
CHECK_DEADLOCK FALSE
