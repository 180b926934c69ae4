CONSTANTS
    Procs = {p1, p2}
    InitProc = p1
    NINODES = 3
    NFILE = 2
    NOFILE = 2
    MaxLink = 2
    Names = {"a", "b"}
    Paths <- MCPaths
SPECIFICATION Spec
VIEW View
INVARIANTS
    LinkExact
