CONSTANTS
    MaxConns = 2
    Cap = 2
    MaxEvents = 4
CHECK_DEADLOCK FALSE
SPECIFICATION FairSpec
INVARIANTS
    TerminalIsNotLost
    SkipsOnlyOvertaken
PROPERTIES
    TerminalArrives
