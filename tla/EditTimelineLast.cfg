CONSTANTS
    File <- NineFrames
    Edits <- ToTheEnd
    Targets <- SomeTargets
    Stops <- Unstopped
SPECIFICATION Spec
INVARIANTS EndsInTheLastSegment
