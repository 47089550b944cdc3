CONSTANTS
    Half = 16
    Runs = {1, 2, 3}
    Ask <- MCAsk
    TheLimits <- MCLimits
    Sessions = 1
    Other = 1
    NoRead = NoRead
SPECIFICATION FairSpec
INVARIANTS TypeOK BudgetKept ReserveKept DoorIsRight
PROPERTIES NoRunIsStarved
