\* The teardown of an address space against a CPU that is about to load its CR3.
CONSTANTS
    c1 = c1
    c2 = c2
    c3 = c3
    TlbCpus = {c1, c2}
    TlbSpaces = {"s1"}
    TlbPages = {1}
    TlbFrames = {1, 2}
    TlbMap <- MCTlbMap
    TlbStart <- MCTlbElsewhere
    TlbBudgets <- MCTlbExit
    TlbMaxTick = 2
    TlbRingCap = 2
    TlbTimeouts = FALSE
    TlbDrainTimeouts = FALSE
SPECIFICATION TlbSpec
INVARIANTS TlbTablesLive
CHECK_DEADLOCK FALSE
