SPECIFICATION Spec
CONSTANTS
    Modulus = 16
    MaxPorts = 15
INVARIANTS
    TypeOK
    EveryPortOnce
PROPERTIES
    Terminates
CHECK_DEADLOCK FALSE
