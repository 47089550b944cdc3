CONSTANTS
    m1 = m1
    m2 = m2
    m3 = m3
    l = l
    c1 = c1
    c2 = c2
    Msgs = {m1}
    Slash = {}
    TextOf <- OwnText
    Cmds = {}
    Letters = {}
    None = None
    Self = Self
    ShellOrders = {FALSE}
    MayCancel = TRUE
    MayClose = FALSE
    Mixed = TRUE
    SavesWait = TRUE
    MaxOut = 4
SPECIFICATION Spec
INVARIANT TakenBackIsForgotten
CHECK_DEADLOCK FALSE
