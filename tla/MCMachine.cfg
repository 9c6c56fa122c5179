\* eventfds and readiness calls, TLB shootdown, copy-on-write memory,
\* dispatcher objects: safety.
CONSTANTS
    te = te
    tw = tw
    tr = tr
    tc = tc
    tx = tx
    EvThreads = {te, tw, tr, tc, tx}
    EvFds = {1, 2, 3}
    EvSlots = {0, 1}
    EvFdsOf <- MCFdsOf
    EvInitFd <- MCInitFd
    EvCloExec = {3}
    EvCalls <- MCCalls
    EvBudgets <- MCBudgets
    EvMax = 2
    EvPosts = {1}
    EvInits = {2}
    EvModes = {TRUE, FALSE}
    EvNonblock = {TRUE, FALSE}
    EvTimeouts <- MCTimeouts
    EvEdge = {TRUE}
    EvMaxEvents = 1
    c1 = c1
    c2 = c2
    c3 = c3
    TlbCpus = {c1, c2, c3}
    TlbSpaces = {"s1"}
    TlbPages = {1}
    TlbFrames = {1, 2}
    TlbMap <- MCTlbMap
    TlbStart <- MCTlbStart
    TlbBudgets <- MCTlbBudgets
    TlbMaxTick = 2
    TlbRingCap = 2
    TlbTimeouts = TRUE
    TlbDrainTimeouts = FALSE
    t1 = t1
    t2 = t2
    t3 = t3
    CowThreads = {t1, t2, t3}
    CowSpaces = {"a", "b", "c"}
    CowPages = {1, 2, 3}
    CowFrames = {1, 2, 3, 4}
    CowHome <- MCCowHome
    CowLive = {"a"}
    CowVmas <- MCCowVmas
    CowMap <- MCCowMap
    CowTidPage = 1
    CowCached = {2}
    CowBudgets <- MCCowBudgets
    CowProts = {FALSE}
    CowForkFails = TRUE
    k1 = k1
    k2 = k2
    k3 = k3
    KeNoOne = KeNoOne
    KeThreads = {k1, k2, k3}
    KeObjs = {1, 2, 3, 4, 5}
    KeKind <- MCKeKind
    KeLimit = 2
    KeLists <- MCKeLists
    KeTimes = {"zero", "finite", "never"}
    KeRounds = 1
    KeBudgets <- MCKeBudgets
SPECIFICATION Spec
INVARIANTS
    MachineTypeOK
    EvNoLostWake BellNoLostWake  
     TlbFreedUnreachable TlbOneHome
      CowOneShared
    KeMutantExclusive KeNoOverGrant
CHECK_DEADLOCK FALSE
