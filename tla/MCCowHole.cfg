\* Two threads of one process store to the same page after a fork.
CONSTANTS
    t1 = t1
    t2 = t2
    t3 = t3
    CowThreads = {t1, t2}
    CowSpaces = {"a", "b"}
    CowPages = {1, 2, 3}
    CowFrames = {1, 2, 3, 4}
    CowHome <- MCCowHome
    CowLive = {"a"}
    CowVmas <- MCCowVmas
    CowMap <- MCCowMap
    CowTidPage = 1
    CowCached = {2}
    CowBudgets <- MCCowHole
    CowProts = {FALSE}
    CowForkFails = FALSE
SPECIFICATION CowSpec
INVARIANTS CowBacked
CHECK_DEADLOCK FALSE
