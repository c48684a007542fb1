SPECIFICATION FairSpec
CONSTANTS
    Callers = {p1, p2, p3}
    NQueue = 10
    MaxAbandoned = 2
    Nobody = Nobody
CHECK_DEADLOCK FALSE
INVARIANTS
    DescsOwned
PROPERTIES
    RequestsReturn
