\* Two clients, overlapping or one request at a time; four requests; two turns
\* of two calls that pause; failures and crashes anywhere.
SPECIFICATION RunnerSpec
CONSTANTS
    Callers = {c1, c2}
    NCalls = 2
    MaxRequests = 4
    MaxBatches = 2
    Nil = Nil
SYMMETRY Symmetry
INVARIANTS
    RunnerTypeOK
    ReturnedIsSaved
    RepeatedOnlyAfterLoss
PROPERTIES
    HistoryKept
CHECK_DEADLOCK FALSE
