CONSTANTS
    File <- NineFrames
    Edits <- EveryEdit
    Targets <- SomeTargets
    Stops <- Unstopped
SPECIFICATION Spec
INVARIANTS TrimmedAtTheEnd
