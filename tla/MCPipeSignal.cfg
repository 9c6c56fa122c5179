CONSTANTS
    a = a
    b = b
    c = c
    parent = parent
    child = child
    Threads = {a, b}
    Procs = {parent, child}
    ProcOf <- MCProcOf
    Creator = parent
    None = None
    PipeBuf = 2
    Caps = {2}
    InitCap = 2
    WriteSizes = {2}
    ReadSizes = {1}
    NbFlags = {FALSE}
    Killable = {parent}
    MaxWrites = 1
    Console = {FALSE}
SPECIFICATION FairSpec
PROPERTIES SignalInterrupts

CHECK_DEADLOCK FALSE
