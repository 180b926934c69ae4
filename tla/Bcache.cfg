CONSTANTS
    Procs = {p1, p2}
    Sectors = {s1, s2, s3, s4}
    Data = {d1, d2}
    Bufs = {b1, b2, b3}
    NoSector = NoSector
    NoBuf = NoBuf
SPECIFICATION Spec
SYMMETRY Symmetry
CHECK_DEADLOCK FALSE
INVARIANTS
    ExclusiveBuffers
    ReadsLastWrite
    NoLostWakeup
