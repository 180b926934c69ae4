CONSTANTS
    Blocks = {b1, b2, b3}
    Data = {d1, d2}
    Procs = {p1, p2}
    LOGSIZE = 3
    NLOG = 3
    Sector0 = Sector0
    NoBuf = NoBuf
    NoWrite = NoWrite
    NoProc = NoProc
SPECIFICATION Spec
INVARIANTS
    ReadsSeeWrites
    NoLostWakeup
PROPERTIES
    AtomicTransactions
