CONSTANTS
    NINODES = 2
    Size = 7
    NLOG = 1
    NDIRECT = 1
    NINDIRECT = 2
    BSIZE = 2
    LOGSIZE = 6
SPECIFICATION Spec
INVARIANTS
    DataBeforeLog
