CONSTANTS
    Ops = {o1}
    Reqs = {r1, r2}
    Admissible = {r1}
    NoReq = NoReq
    Window = 1
    MaxCalls = 3
    MaxEpoch = 2
    Faults = {"conn", "crash", "store", "rogue"}
CHECK_DEADLOCK FALSE
SPECIFICATION FairSpec
INVARIANTS
    AtMostOnce
    OneVerdict
    CancellationIsRecorded
PROPERTIES
    QuiescedStaysQuiet
    KeepsPromise
    CloseQuiesces
    CallReturns
