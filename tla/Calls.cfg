\* Two calls in a turn, two runs or a run and its resume.
SPECIFICATION Spec
CONSTANTS
    RunIds = {1, 2}
    Turns = {"turn1", "turn2"}
    CallIds = {c1, c2}
    None = None
    NoAction = NoAction
    Requests <- MCRequests
    Policies <- MCPolicies
    Autos = {FALSE, TRUE}
    Modes = {"build", "plan", "review"}
    ReadOnly = FALSE
    MaxPlaces = 1
    MaxRuns = 2
    MaxCalls = 2
INVARIANTS
    TypeOK
    NoBorrowedConsent
    PromptsReachable
    SpansClosed
CHECK_DEADLOCK FALSE
PROPERTY
    RunsReturn
