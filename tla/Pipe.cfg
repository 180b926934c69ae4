CONSTANTS
    Procs = {p1, p2}
    Val = {v1, v2}
    PIPESIZE = 2
    CMOD = 4
    MaxN = 3
SPECIFICATION LiveSpec
INVARIANTS
    NoLostWakeup
    NoUseAfterFree
PROPERTIES
    IsChannel
    ClosedEndReleases
