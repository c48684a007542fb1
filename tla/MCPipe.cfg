SPECIFICATION PipeSpec
CONSTANTS
    Size = 2
    Wrap = 6
    MaxBytes = 3
    MaxCredits = 2
CHECK_DEADLOCK FALSE
INVARIANTS
    StreamExact
    SleepersKnown
    FreedLast
