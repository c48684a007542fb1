SPECIFICATION FairSpec
CONSTANTS
    Ops = {o1, o2}
    Blocks = {b1}
    Vals = {0, 1}
    Zero = 0
    OpMax = 1
    LogMax = 1
    MaxKills = 0
    None = None
PROPERTIES
    BeginOpStarts
