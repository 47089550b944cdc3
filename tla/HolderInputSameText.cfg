CONSTANTS
    m1 = m1
    m2 = m2
    m3 = m3
    l = l
    c1 = c1
    c2 = c2
    Msgs = {m1, m2}
    Slash = {}
    TextOf <- SameText
    Cmds = {}
    Letters = {}
    None = None
    Self = Self
    ShellOrders = {FALSE}
    MayCancel = FALSE
    MayClose = TRUE
    Mixed = TRUE
    SavesWait = TRUE
    MaxOut = 4
SPECIFICATION Spec
INVARIANT SessionGoesOn
CHECK_DEADLOCK FALSE
