CONSTANTS
    MaxOrd = 2
    Top = 3
    BITS = 2
SPECIFICATION Spec
INVARIANTS
    Tiling
    ListsThreadFreeMarks
    FailsOnlyWhenExhausted
