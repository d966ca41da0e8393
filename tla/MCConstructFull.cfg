SPECIFICATION Spec
CONSTANTS
    Modulus = 16
    MaxPorts = 16
PROPERTIES
    Terminates
CHECK_DEADLOCK FALSE
