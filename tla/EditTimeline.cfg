CONSTANTS
    File <- NineFrames
    Edits <- EveryEdit
    Targets <- SomeTargets
    Stops <- SomeStops
SPECIFICATION Spec
INVARIANTS TypeOK ShownInPlace InStep NoMissingReference EveryFrameShown
