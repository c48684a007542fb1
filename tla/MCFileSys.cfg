SPECIFICATION Spec
CONSTANTS
    NumInodes = 4
    NumBlocks = 6
    BlockSize = 2
    NumDirect = 1
    InodePerBlock = 2
    OpMax = 6
    MaxPermits = 2
    Procs = {p1}
    InitProc = p1
    Paths <- TreePaths
    ReadSizes = {3}
    Buffers <- TreeBuffers
    NodeTypes = {"dir", "dev"}
    OModes = {"rw"}
    NFile = 1
    OpenFile = 1
    Pipes = {q1}
    MaxForks = 0
    MaxMade = 2
    None = None
CHECK_DEADLOCK FALSE
INVARIANTS
    BlocksOwned
    ContentExact
    LinksExact
    CacheCoherent
    FailuresKnown
