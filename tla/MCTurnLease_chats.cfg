CONSTANTS
    NoToken = NoToken
    NoTurn = NoTurn
    Batches = {"progress"}
    Turns = {t1, t2, t3}
    Chats = {c1, c2}
    ChatOf <- TwoChats
    Tokens = {k1, k2}
    Steers = {}
    MaxAttempts = 2
    LeaseTime = 1
    RetryDelay = 1
    MaxLag = 1
    MaxTime = 2
    MaxClaims = 2
    MaxRows = 1
SYMMETRY TokenSymmetry
CHECK_DEADLOCK FALSE
SPECIFICATION Spec
INVARIANTS
    LeaseAgreement
    PollAnswersOnce
PROPERTIES
    LeaseNeverStolen
    KeepsPromise
