\* Process life cycle and futexes: safety.
CONSTANTS
    ti = ti
    tj = tj
    ta = ta
    tb = tb
    tc = tc
    Any = Any
    None = None
    InitPid = 1
    ProcOf <- MCProcOf
    Main <- MCMain
    ParentOf <- MCParentOf
    Pids = {1, 2, 3}
    Tids = {ti, ta, tb, tc}
    Initial = {1, 2}
    Forks = {ta}
    Exits = {tb}
    GroupExits = {ta, tc}
    Waits = {ti, ta}
    Wants = {Any}
    MaxAttempts = 2
    fa = fa
    fb = fb
    fc = fc
    fd = fd
    p1 = p1
    p2 = p2
    x1 = x1
    y1 = y1
    SharedNS = SharedNS
SPECIFICATION MCSpec
INVARIANTS
    ThreadsTypeOK NoLostChild Adopted  ZombieIsDead 
    FutexOnOneQueue FutexNoLostWake FutexReportsRight
PROPERTIES FutexWakesLive
