SPECIFICATION Spec
CONSTANTS
    Procs = {p1, p2, p3}
    Irq = Irq
    InitVal = 1
    MaxCredit = 3
    None = None
SYMMETRY Symmetry
INVARIANTS
    SemAccounting
    TokensConserved
    NoLostWakeup
    KilledWaiterAlerted
