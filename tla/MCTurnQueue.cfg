SPECIFICATION MCFairSpec
CONSTANTS
    Chats = {c1}
    Ids = {1, 2, 3}
    Reqs = {1, 2, 3}
    Procs = {p1}
    Contents = {1, 2, 3}
    Refs = {skill, doc}
    Documents = {doc}
    Carries <- LastCarriesAll
    Models = {m1}
    MaxPerChat = 2
    MaxClock = 3
    MaxFaults = 1
    NoModel = NoModel
    NoTurn = NoTurn
INVARIANTS
    OrderIsTotal
    QueuedHasNotRun
    ConflictHasCause
    NothingLost
PROPERTIES
    PromotesTheHead
    OnlyLostDocumentsBlock
CHECK_DEADLOCK FALSE
