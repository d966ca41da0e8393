SPECIFICATION FairSpec
CONSTANTS
    c1 = c1
    c2 = c2
    Connections <- TwoConnections
    Fragile <- OneConnection
    Names <- OneName
    FileNames <- MCFileNames
    Texts <- OneText
    MaxSessions = 1
    Operations <- AllOperations
    GiveUp = TRUE
INVARIANTS
    TypeOK
    InStep
    GetReturnsPosted
PROPERTIES
    CallReturns
