CONSTANTS
    ti = ti
    tj = tj
    ta = ta
    tb = tb
    tc = tc
    Any = Any
    None = None
    InitPid = 1
    ProcOf <- MCProcOf
    Main <- MCMain
    ParentOf <- MCParentOf
    Pids = {1, 2}
    Tids = {ti, ta}
    Initial = {1, 2}
    Forks = {}
    Exits = {}
    GroupExits = {ta}
    Waits = {ti}
    Wants = {Any}
    MaxAttempts = 2
SPECIFICATION Spec
INVARIANTS MemoryReclaimed
CHECK_DEADLOCK FALSE
