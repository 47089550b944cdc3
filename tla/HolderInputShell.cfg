CONSTANTS
    m1 = m1
    m2 = m2
    m3 = m3
    l = l
    c1 = c1
    c2 = c2
    Msgs = {}
    Slash = {}
    TextOf <- OwnText
    Cmds = {c1, c2}
    Letters = {}
    None = None
    Self = Self
    ShellOrders = {TRUE, FALSE}
    MayCancel = FALSE
    MayClose = FALSE
    Mixed = TRUE
    SavesWait = FALSE
    MaxOut = 4
SPECIFICATION FairSpec
INVARIANTS ShellStaysUntilPassed OutputToItsCommand
PROPERTIES EveryMessageLeaves EveryCommandEnds
CHECK_DEADLOCK FALSE
