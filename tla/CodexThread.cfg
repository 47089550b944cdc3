SPECIFICATION FairSpec
CONSTANTS
    m1 = m1
    m2 = m2
    NoMsg = NoMsg
    Msgs = {m1, m2}
    Answers = {m2}
    Bad = {m2}
    MaxEvents = 2
    MaxInputs = 3
INVARIANT TypeOK
PROPERTIES
    MessagesKept
    StaysOnItsTurn
    SparesItsTurns
    QueuedGoes
    AskReaches
    ThreadIsLeft
CHECK_DEADLOCK FALSE
