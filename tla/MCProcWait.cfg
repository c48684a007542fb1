SPECIFICATION Spec
CONSTANTS
    Procs = {root, p1, p2}
    Root = root
    Killers = {root}
    None = None
SYMMETRY Symmetry
CHECK_DEADLOCK FALSE
INVARIANTS
    WaitFindsZombie
