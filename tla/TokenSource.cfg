\* Two callers, one retry of the HTTP client, three tokens: enough for two
\* refreshes, or for a refresh and a login, in either order.
CONSTANTS
    Callers = {c1, c2}
    MaxRetries = 1
    MaxTokens = 3
    None = None
SPECIFICATION Spec
INVARIANTS
    SessionKept
    RetryUsesNewerToken
PROPERTIES
    StreamReturns
