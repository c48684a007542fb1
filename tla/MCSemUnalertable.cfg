SPECIFICATION Spec
CONSTANTS
    Procs = {p1, p2}
    Irq = Irq
    InitVal = 0
    MaxCredit = 2
    None = None
PROPERTIES
    UnalertableSucceeds
