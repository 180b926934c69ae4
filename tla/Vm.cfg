SPECIFICATION Spec
CONSTANTS
  Procs = {p1, p2, p3}
  InitProc = p1
  Blocks = {1, 2, 3, 4, 5, 6, 7, 8, 9, 10, 11}
  BootTables = {1, 2, 3}
  NULL = NULL
  PTE_SZ = 2
  NUM_PTE = 2
  NUM_UPDE = 2
  WORD = 64
  Zero = "zero"
  Text = "text"
  Mark = "mark"
  Touched = {1}
  Programs <- MCPrograms
  Deltas <- MCDeltas
INVARIANTS NeverShared NeverLeaked SizesAgree MmuFresh
PROPERTIES PrivateMemory
VIEW View
