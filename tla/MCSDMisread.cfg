SPECIFICATION Spec
CONSTANTS
    c1 = c1
    c2 = c2
    Connections <- OneConnection
    Fragile <- OneConnection
    Names <- TwoNames
    FileNames <- MCFileNames
    Texts <- OneText
    MaxSessions = 1
    Operations <- DocumentOperations
    GiveUp = FALSE
INVARIANTS
    GetReturnsPosted
