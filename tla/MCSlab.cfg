SPECIFICATION Spec
CONSTANTS
    Cpus = {c1, c2}
    Pages = {g1, g2, g3}
    PageSize = 56
    size <- MCsize
    Requests = {8, 16, 20}
    None = None
SYMMETRY Symmetry
CHECK_DEADLOCK FALSE
INVARIANTS
    BlocksExclusive
    PagesExclusive
    NoBlockLost
    PagesCounted
