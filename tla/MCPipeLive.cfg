CONSTANTS
    a = a
    b = b
    c = c
    parent = parent
    child = child
    Threads = {a, b}
    Procs = {parent, child}
    ProcOf <- MCProcOf
    Creator = parent
    None = None
    PipeBuf = 2
    Caps = {2, 4}
    InitCap = 2
    WriteSizes = {1, 3}
    ReadSizes = {2}
    NbFlags = {TRUE, FALSE}
    Killable = {parent}
    MaxWrites = 1
    Console = {TRUE, FALSE}
SPECIFICATION FairSpec
INVARIANTS WithinCapacity WriteReports
PROPERTIES WokenWhenReady 
CHECK_DEADLOCK FALSE
