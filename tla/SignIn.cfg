CONSTANTS
    Client = {c1, c2}
    MaxTokens = 3
    MaxGrants = 2
    MaxStarts = 2
    Faults = TRUE
SPECIFICATION SignInSpec
SYMMETRY Symmetry
INVARIANTS
    SignInTypeOK
    ConsentKept
    SettledIsStored
    LastWriteIsNewest
    AnswerFits
PROPERTY StateSpentByAnswer
CHECK_DEADLOCK FALSE
