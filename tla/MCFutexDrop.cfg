CONSTANTS
    ta = ta
    tb = tb
    tc = tc
    td = td
    p1 = p1
    p2 = p2
    x1 = x1
    y1 = y1
    SharedNS = SharedNS
    None = None
    Procs = {p1, p2}
    Threads = {ta, tb, tc}
    ProcOf <- OneProc
    Words = {x1, y1}
    Shared = {}
    WaitWords <- WaitX
    StoreWords <- StoreX
    Resident <- NoPages
    ClearTid <- NoClear
    Timeouts = {TRUE, FALSE}
    WakeCounts = {0}
    Requeues <- WakeNoneMoveOne
    WakeOps = {}
    Exits = {}
    GroupExits = {}
SPECIFICATION Spec
INVARIANTS NoOrphan
