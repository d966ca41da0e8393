SPECIFICATION FairSpec
CONSTANTS
    t1 = t1
    t2 = t2
    Threads <- MCThreads
    MaxSessions = 2
    Keys <- MCKeys
    Values <- OneValue
    Nothing = Nothing
    SessionTimeout = 1
    CleanupInterval = 1
    Cleaner = Cleaner
    Unlocked = Unlocked
INVARIANTS
    TypeOK
PROPERTIES
    IdsNeverReused
    SweepSparesUsed
    ImplementsStore
    AbandonedGoes
