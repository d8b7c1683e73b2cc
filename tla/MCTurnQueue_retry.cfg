SPECIFICATION MCSpec
CONSTANTS
    Chats = {c1}
    Ids = {1, 2, 3}
    Reqs = {1, 2, 3}
    Procs = {p1}
    Contents = {1}
    Refs = {}
    Documents = {}
    Carries <- LastCarriesAll
    Models = {m1, m2}
    MaxPerChat = 1
    MaxClock = 2
    MaxFaults = 1
    NoModel = NoModel
    NoTurn = NoTurn
INVARIANT ExactRetryConverges
CHECK_DEADLOCK FALSE
