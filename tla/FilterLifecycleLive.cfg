CONSTANTS
    NumPins = 2
    Position = {0, 1}
    AtFileStart = {0}
    Buffers = 1
    MaxRuns = 2
    MaxCalls = 2
    MaxSamples = 2
SPECIFICATION FairSpec
PROPERTIES
    CallsReturn
    EndIsTold
