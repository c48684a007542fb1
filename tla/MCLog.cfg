SPECIFICATION Spec
CONSTANTS
    Ops = {o1, o2, o3}
    Blocks = {b1, b2, b3}
    Vals = {0, 1}
    Zero = 0
    OpMax = 1
    LogMax = 2
    MaxKills = 1
    None = None
SYMMETRY Symmetry
INVARIANTS
    NoPanic
    CommitAlone
    NoStrandedEnd
PROPERTIES
    ImplementsAtomicDisk
    RecoveryKeeps
