CONSTANTS
    Runs = {r1}
    MaxRunning = 1
    MaxClaims = 1
    MaxFaults = 1
CHECK_DEADLOCK FALSE
SPECIFICATION Spec
INVARIANTS
    TerminalOwesTeardown
