CONSTANTS
    Getter = {worker, other}
    Sample = {a, b, c}
    MaxRefs = 2
    MaxOwed = 2
SPECIFICATION FairSpec
INVARIANTS
    TypeOK
    NoLostWakeup
    SamplesSafe
PROPERTIES
    ImplementsPool
    WaitersGo
