SPECIFICATION Spec
CONSTANTS
    StartingClientPort = 1
    EndingClientPort = 2
    KeepAliveTimeout = 2
    s1 = s1
    s2 = s2
    NoName = NoName
    Nobody = Nobody
    Names <- MCNames
    MessagePorts <- MCMessagePorts
    ClockSteps <- SetBack
    MaxClockSteps = 1
    IdleCap = 6
INVARIANTS
    TypeOK
    UniqueService
    FreeIsBlank
    NoStaleAnswer
PROPERTIES
    LeaseHonoured
    ImplementsDirectory
