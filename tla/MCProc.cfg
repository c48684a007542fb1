SPECIFICATION Spec
CONSTANTS
    Procs = {root, p1, p2, p3}
    Root = root
    Killers = {root}
    None = None
SYMMETRY Symmetry
CHECK_DEADLOCK FALSE
INVARIANTS
    FamilyTree
    TokenPerExit
    DeadlocksKnown
