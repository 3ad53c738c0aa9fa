\* A handler, a caller of SyncTools and one Register; two tools in two versions,
\* in one page or two; two changes of the list and one failed request.
SPECIFICATION Spec
CONSTANTS
    N = 2
    Versions = {v1, v2}
    Handlers = {h1}
    Callers = {c1}
    Registrars = {r1}
    MaxChanges = 2
    MaxFailures = 1
    None = None
INVARIANTS
    TypeOK
    ReconciledMatches
    UnchangedStays
PROPERTIES
    SyncReturns
