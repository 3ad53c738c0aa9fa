\* Two goroutines; an id callers choose that is also the first generated one.
SPECIFICATION Spec
CONSTANTS
    Clients = {g1, g2}
    ChosenIds = {1}
    MaxGenerated = 2
    MaxTime = 2
    MaxCalls = 4
    Texts <- MCTexts
    Questions <- MCQuestions
    Scopes = {"work", "home"}
    Limits = {0}
    DefaultLimit = 1
    Lifetimes = {0, 1}
    Near <- MCNear
    None = None
SYMMETRY Symmetry
INVARIANTS
    VectorsMatch
PROPERTIES
    RecallsBest
    ImplementsPort
CHECK_DEADLOCK FALSE
