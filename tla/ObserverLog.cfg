SPECIFICATION FairSpec
CONSTANTS
    None = None
    MayGo = FALSE
    Late = {a}
    a = a
    b = b
    Obs = {a}
    LinesOfA = 3
    LinesOfB = 0
    Lines <- MCLines
    Worth <- MCWorth
    Name <- SameName
    Inode <- ReusedInodes
    MayStop = {}
    Absences = {"away", "missed"}
    PerSession = 1
    FileLines = 1
    LookLines = 1
    WakeTries = 2
    GoneSteps = 2
    MaxFalls = 1
    MaxAway = 1
INVARIANTS
    TypeOK
    OnlyAPauseLoses
    NothingToldTwice
    EndComesLast
PROPERTIES
    LinesAreTold
CHECK_DEADLOCK FALSE
