SPECIFICATION FairSpec
CONSTANTS
    NameSize = 2
    StartingClientPort = 1
    EndingClientPort = 2
    KeepAliveTimeout = 2
    KeepAliveDelay = 1
    c1 = c1
    c2 = c2
    s1 = s1
    s2 = s2
    NoName = NoName
    Clients <- TwoClients
    Names <- TwoNames
    ServiceOf <- OwnService
    Unbindable <- SecondClient
    MaxStarts = 2
    Prompt = TRUE
    MaxLost = 0
    MaxDuplicated = 0
    MaxCrashes = 0
    MaxResets = 0
INVARIANTS
    TypeOK
    HoldsItsPort
    CloseAnswered
PROPERTIES
    CloseSparesOthers
    CloseCompletes
