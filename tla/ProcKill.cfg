CONSTANTS
    NPROC = 2
    MaxPid = 3
    TickMod = 2
SPECIFICATION Spec
PROPERTIES
    BornAlive
