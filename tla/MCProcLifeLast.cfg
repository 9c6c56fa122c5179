CONSTANTS
    ti = ti
    tj = tj
    ta = ta
    tb = tb
    tc = tc
    Any = Any
    None = None
    InitPid = 1
    ProcOf <- MCProcOf
    Main <- MCMain
    ParentOf <- MCParentOf
    Pids = {1, 2}
    Tids = {ti, ta, tb}
    Initial = {1, 2}
    Forks = {}
    Exits = {ta, tb}
    GroupExits = {}
    Waits = {ti}
    Wants = {Any}
    MaxAttempts = 2
SPECIFICATION Spec
INVARIANTS LastThreadZombie
CHECK_DEADLOCK FALSE
