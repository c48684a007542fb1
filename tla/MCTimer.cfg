SPECIFICATION Spec
CONSTANTS
    MaxNode = 11
    HelloElapse = 7
    SchedElapse = 3
    IdleReset = 2
    MaxLag = 2
    TestKey <- MCTestKey
INVARIANTS
    Balanced
    MembersExact
    ClockCovers
