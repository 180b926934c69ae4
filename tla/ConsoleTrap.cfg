SPECIFICATION Spec
CONSTANTS
  NPROC = 2
  INPUT_BUF = 3
  CMOD = 6
  Typed = {"a", "b", "NL", "CR", "^D", "^U", "^H"}
  Sizes = {1, 2}
INVARIANTS UserModeInUser
