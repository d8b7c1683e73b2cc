CONSTANTS
    NoToken = NoToken
    NoTurn = NoTurn
    Batches = {"approval"}
    Turns = {t1}
    Chats = {c1}
    ChatOf <- SameChat
    Tokens = {k1, k2, k3}
    Steers = {1}
    MaxAttempts = 2
    LeaseTime = 1
    RetryDelay = 1
    MaxLag = 0
    MaxTime = 1
    MaxClaims = 2
    MaxRows = 1
    Calls = {w1, w2}
    Mode = "auto"
    Sensitive = {w2}
    ReadOnly = {w1}
SYMMETRY TokenSymmetry
CHECK_DEADLOCK FALSE
SPECIFICATION ToolSpec
INVARIANTS
    RecoveryIsUnambiguous
PROPERTIES
    DecisionIsFinal
