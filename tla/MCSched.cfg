SPECIFICATION Spec
CONSTANTS
    Cpus = {c1, c2}
    Procs = {p1, p2, p3}
    UserProcs = {p1, p2, p3}
    None = None
SYMMETRY Symmetry
INVARIANTS
    OneCpuPerStack
    SchedAsserts
    RqExact
    KstackLive
    KilledNotAsleep
    BoundedBypass
PROPERTIES
    ImplementsAbstractSched
