CONSTANTS
    Runs = {r1}
    MaxRunning = 1
    MaxClaims = 2
    MaxFaults = 1
CHECK_DEADLOCK FALSE
SPECIFICATION FairSpec
INVARIANTS
    OneContainerPerRun
    DoneMeansGone
    EndedRunOwesTeardown
PROPERTIES
    OutcomeIsFinal
    OrphanIsReclaimed
    ObligationEnds
