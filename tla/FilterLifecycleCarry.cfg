CONSTANTS
    NumPins = 1
    Position = {0, 1}
    AtFileStart = {0}
    Buffers = 1
    MaxRuns = 2
    MaxCalls = 5
    MaxSamples = 1
SPECIFICATION Spec
INVARIANTS
    StartsClean
