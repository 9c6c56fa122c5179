CONSTANTS
    te = te
    tw = tw
    tr = tr
    tc = tc
    tx = tx
    EvThreads = {te, tw, tr, tc, tx}
    EvFds = {1, 2, 3}
    EvSlots = {0, 1}
    EvFdsOf <- MCFdsOf
    EvInitFd <- MCInitFd
    EvCloExec = {3}
    EvCalls <- MCCalls
    EvBudgets <- MCBellBudgets
    EvMax = 2
    EvPosts = {1}
    EvInits = {2}
    EvModes = {TRUE, FALSE}
    EvNonblock = {TRUE, FALSE}
    EvTimeouts <- MCTimeouts
    EvEdge = {TRUE}
    EvMaxEvents = 1
SPECIFICATION EvSpec
INVARIANTS BellDeadlockFree
CHECK_DEADLOCK FALSE
