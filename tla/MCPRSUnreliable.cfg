SPECIFICATION Spec
CONSTANTS
    NameSize = 2
    StartingClientPort = 1
    EndingClientPort = 2
    KeepAliveTimeout = 2
    KeepAliveDelay = 1
    c1 = c1
    c2 = c2
    s1 = s1
    s2 = s2
    NoName = NoName
    Clients <- OneClient
    Names <- OneName
    ServiceOf <- OwnService
    Unbindable <- OneClient
    MaxStarts = 2
    Prompt = FALSE
    MaxLost = 1
    MaxDuplicated = 1
    MaxCrashes = 1
    MaxResets = 1
INVARIANTS
    RepliesMatch
    ClosedIsFree
