\* Two turns of up to two calls, run in parallel, compacted before and after a turn,
\* with a token budget, a timeout of the run's own, one stream retry, the loop guard
\* at one repeat, cancellation at any time, and up to two resumes: of a checkpoint
\* and of the next one, or of the same one twice.  The caller keeps the last
\* checkpoint it was handed.  The signatures are not symmetric under liveness.
SPECIFICATION FairSpec
CONSTANTS
    MaxTurns = 2
    TokenBudget = 3
    MaxToolRepeats = 1
    MaxStreamRetries = 1
    Parallel = TRUE
    HasCompactor = TRUE
    HasTimeout = TRUE
    Sigs = {s1, s2}
    Costs = {1}
    MaxCalls = 2
    MaxRuns = 3
    MaxHeld = 1
    None = None
INVARIANTS
    TypeOK
    CheckpointAccounts
    HandledOnce
    RepeatsBounded
    SpendingBounded
    RequestsPaired
PROPERTIES
    RunEnds
CHECK_DEADLOCK FALSE
