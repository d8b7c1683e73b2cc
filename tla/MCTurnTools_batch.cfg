CONSTANTS
    NoToken = NoToken
    NoTurn = NoTurn
    Batches = {"approval"}
    Turns = {t1}
    Chats = {c1}
    ChatOf <- SameChat
    Tokens = {k1, k2}
    Steers = {}
    MaxAttempts = 2
    LeaseTime = 1
    RetryDelay = 1
    MaxLag = 0
    MaxTime = 2
    MaxClaims = 1
    MaxRows = 2
    Calls = {w1, w2}
    Mode = "ask"
    Sensitive = {}
    ReadOnly = {}
SYMMETRY TokenSymmetry
CHECK_DEADLOCK FALSE
SPECIFICATION ToolSpec
INVARIANTS
    RecoveryIsUnambiguous
