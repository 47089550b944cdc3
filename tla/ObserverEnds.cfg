SPECIFICATION FairSpec
CONSTANTS
    None = None
    MayGo = TRUE
    Late = {}
    a = a
    b = b
    Obs = {a, b}
    LinesOfA = 0
    LinesOfB = 0
    Lines <- MCLines
    Worth <- MCWorth
    Name <- SameName
    Inode <- OwnInodes
    MayStop = {a}
    Absences = {"missed"}
    PerSession = 2
    FileLines = 1
    LookLines = 1
    WakeTries = 2
    GoneSteps = 2
    MaxFalls = 1
    MaxAway = 0
INVARIANTS
    UnitIsFollowed
    PlacesAreKept
PROPERTIES
    NoWordAfterStop
    GoneLeaveNothing
CHECK_DEADLOCK FALSE
