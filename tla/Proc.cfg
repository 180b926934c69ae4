CONSTANTS
    NPROC = 4
    MaxPid = 4
    TickMod = 2
SPECIFICATION LiveSpec
INVARIANTS
    NoLostWakeup
    NoOversleep
    FamilyTree
    SlotResources
PROPERTIES
    ZombieFinal
    RunnableRuns
    WaitReturns
