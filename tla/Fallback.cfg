\* Three providers: one before, one in the middle, one after the one that
\* delivers; two events before the last one of a stream, so that content comes
\* first, after a held event, or before another event.
CONSTANTS
    N = 3
    MaxEvents = 2
    None = None
SPECIFICATION Spec
INVARIANTS
    NoLateFailover
PROPERTIES
    ImplementsStream
    ChannelCloses
CHECK_DEADLOCK FALSE
