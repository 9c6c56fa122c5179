\* Futexes, process life cycle, shootdowns, faults and timed waits: progress.
CONSTANTS
    ta = ta
    tb = tb
    tc = tc
    td = td
    p1 = p1
    p2 = p2
    x1 = x1
    y1 = y1
    SharedNS = SharedNS
    None = None
    Procs = {p1, p2}
    Threads = {ta, tb, tc}
    ProcOf <- TwoProcs
    Words = {x1, y1}
    Shared = {x1}
    WaitWords <- WaitJoin
    StoreWords <- StoreX
    Resident <- BothResident
    ClearTid <- ClearY
    Timeouts = {TRUE, FALSE}
    WakeCounts = {0}
    Requeues <- NoRequeue
    WakeOps = {}
    Exits = {tb}
    GroupExits = {tb}
    ti = ti
    tj = tj
    tm = tm
    tn = tn
    AnyChild = AnyChild
    c1 = c1
    c2 = c2
    c3 = c3
    TlbCpus = {c1, c2, c3}
    TlbSpaces = {"s1"}
    TlbPages = {1}
    TlbFrames = {1, 2}
    TlbMap <- MCTlbMap
    TlbStart <- MCTlbStart
    TlbBudgets <- MCTlbLive
    TlbMaxTick = 2
    TlbRingCap = 2
    TlbTimeouts = FALSE
    TlbDrainTimeouts = FALSE
    t1 = t1
    t2 = t2
    t3 = t3
    CowThreads = {t1, t2, t3}
    CowSpaces = {"a", "b"}
    CowPages = {1, 2, 3}
    CowFrames = {1, 2, 3, 4}
    CowHome <- MCCowHome
    CowLive = {"a"}
    CowVmas <- MCCowVmas
    CowMap <- MCCowMap
    CowTidPage = 1
    CowCached = {2}
    CowBudgets <- MCCowLive
    CowProts = {FALSE}
    CowForkFails = FALSE
    k1 = k1
    k2 = k2
    k3 = k3
    KeNoOne = KeNoOne
    KeThreads = {k1, k2, k3}
    KeObjs = {1, 2, 3, 4, 5}
    KeKind <- MCKeKind
    KeLimit = 2
    KeLists <- MCKeLists
    KeTimes = {"finite", "never"}
    KeRounds = 1
    KeBudgets <- MCKeLive
SPECIFICATION LiveSpec
INVARIANTS DrainedClean
PROPERTIES
    Awakened TimedWaitReturns LifeGoesOn TlbAcknowledged CowCallsEnd
    KeTimedWaitReturns
CHECK_DEADLOCK FALSE
