\* One call of an MCP tool, postponed and resumed, under
\* {"*": "allow", "mcp": "ask"}.
SPECIFICATION Spec
CONSTANTS
    RunIds = {1, 2}
    Turns = {"turn1", "turn2"}
    CallIds = {c1}
    None = None
    NoAction = NoAction
    Requests <- McpRequests
    Policies <- McpPolicies
    Autos = {FALSE}
    Modes = {"build"}
    ReadOnly = FALSE
    MaxPlaces = 1
    MaxRuns = 2
    MaxCalls = 1
INVARIANT ResumeAsksAlike
CHECK_DEADLOCK FALSE
