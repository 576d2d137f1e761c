CONSTANTS
    NumPins = 2
    Position = {0, 1}
    AtFileStart = {0}
    Buffers = 1
    MaxRuns = 3
    MaxCalls = 3
    MaxSamples = 2
SPECIFICATION Spec
INVARIANTS
    TypeOK
    EosOnlyAtTheEnd
    WorkerIsAlone
PROPERTIES
    FreshSamplesOnly
