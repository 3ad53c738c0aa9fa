\* Two turns over every dialect, with one stream that fails or ends early.
CONSTANTS
    Replies <- MCReplies
    Options <- MCOptions
    HTTPRetries = 1
    MaxFaults = 1
SPECIFICATION WireSpec
INVARIANTS
    StreamedIsKept
    AnswersFindTheirCalls
    ThoughtsReplayed
    OptionsHonoured
CHECK_DEADLOCK FALSE
