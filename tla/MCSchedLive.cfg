SPECIFICATION FairSpec
CONSTANTS
    Cpus = {c1}
    Procs = {p1, p2, p3}
    UserProcs = {p1, p2, p3}
    None = None
PROPERTIES
    StarvationFree
