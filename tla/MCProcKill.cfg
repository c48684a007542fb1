SPECIFICATION FairSpec
CONSTANTS
    Procs = {root, p1}
    Root = root
    Killers = {root, p1}
    None = None
CHECK_DEADLOCK FALSE
PROPERTIES
    KillReturns
