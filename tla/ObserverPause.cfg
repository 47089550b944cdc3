SPECIFICATION Spec
CONSTANTS
    None = None
    MayGo = TRUE
    Late = {}
    a = a
    b = b
    Obs = {a}
    LinesOfA = 2
    LinesOfB = 0
    Lines <- MCLines
    Worth <- MCWorth
    Name <- SameName
    Inode <- OwnInodes
    MayStop = {}
    Absences = {"away"}
    PerSession = 1
    FileLines = 2
    LookLines = 1
    WakeTries = 2
    GoneSteps = 2
    MaxFalls = 1
    MaxAway = 1
INVARIANTS
    ReadIsTold
CHECK_DEADLOCK FALSE
