CONSTANTS
    Units = 3
    ChangeAt = 2
    HoleAt = 3
    Hole = 2
    DiscontinuityGap = 2
    MaxConsecutiveFailures = 2
    MaxEpochs = 3
SPECIFICATION Spec
INVARIANTS
    TypeOK
    SuppressedForFailures
PROPERTIES
    DiscontinuityTold
    ToldUnlessDiscarded
