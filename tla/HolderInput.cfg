CONSTANTS
    m1 = m1
    m2 = m2
    m3 = m3
    l = l
    c1 = c1
    c2 = c2
    Msgs = {m1, m3}
    Slash = {m3}
    TextOf <- OwnText
    Cmds = {}
    Letters = {l}
    None = None
    Self = Self
    ShellOrders = {FALSE}
    MayCancel = TRUE
    MayClose = TRUE
    Mixed = FALSE
    SavesWait = TRUE
    MaxOut = 3
SPECIFICATION Spec
INVARIANTS TypeOK UnreadIsQueued QueuedIsPending AnswerIsSeen QuietIsFree FileIsCurrent SessionGoesOn
CHECK_DEADLOCK FALSE
