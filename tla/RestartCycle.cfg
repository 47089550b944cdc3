SPECIFICATION FairSpec
CONSTANTS
    MaxActs = 2
    MaxFaults = 1
PROPERTIES
    ReadyTurnIsOver
    RetryWaits
    CycleEnds
CHECK_DEADLOCK FALSE
