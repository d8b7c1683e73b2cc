CONSTANTS
    NoToken = NoToken
    NoTurn = NoTurn
    Batches = {"progress"}
    Turns = {t1}
    Chats = {c1}
    ChatOf <- SameChat
    Tokens = {1, 2, 3, 4}
    Steers = {1}
    MaxAttempts = 2
    LeaseTime = 1
    RetryDelay = 1
    MaxLag = 1
    MaxTime = 2
    MaxClaims = 2
    MaxRows = 1
CHECK_DEADLOCK FALSE
SPECIFICATION FairSpec
INVARIANTS
    TypeOK
    NeverStranded
    TerminalEventIsLast
    ClaimsNeverInterleave
    CompletedSawEverySteer
    PendingSteerIsReadable
PROPERTIES
    CancellationSettles
    LastAttemptEnds
ACTION_CONSTRAINT TokensInOrder
