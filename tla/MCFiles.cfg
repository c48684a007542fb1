SPECIFICATION Spec
CONSTANTS
    NumInodes = 3
    NumBlocks = 4
    BlockSize = 2
    NumDirect = 1
    InodePerBlock = 2
    OpMax = 6
    MaxPermits = 2
    Procs = {p1, p2}
    InitProc = p1
    Paths <- TablePaths
    ReadSizes = {}
    Buffers = {}
    NodeTypes = {"dir"}
    OModes = {"rw"}
    NFile = 2
    OpenFile = 2
    Pipes = {q1}
    MaxForks = 1
    MaxMade = 1
    None = None
CHECK_DEADLOCK FALSE
INVARIANTS
    RefsExact
