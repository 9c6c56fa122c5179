CONSTANTS
    a = a
    b = b
    c = c
    parent = parent
    child = child
    Threads = {a, b, c}
    Procs = {parent, child}
    ProcOf <- MCProcOf
    Creator = parent
    None = None
    PipeBuf = 2
    Caps = {2}
    InitCap = 2
    WriteSizes = {2, 3}
    ReadSizes = {2}
    NbFlags = {FALSE}
    Killable = {}
    MaxWrites = 2
    Console = {FALSE}
SPECIFICATION Spec
INVARIANTS TypeOK NoOrphan NoLostWake  
PROPERTIES ImplementsChannel
SYMMETRY MCSymmetry
CHECK_DEADLOCK FALSE
