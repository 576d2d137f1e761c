CONSTANTS
    File <- Broadcast
    InitialTime = 10
    EditLists <- Programs
    Targets = {0, 5}
    Stops = {7, 1000}
    Landings <- Places
    Delays <- Offsets
    Lead = 2
    MaxDeferred = 1
    MaxStarts = 2
SPECIFICATION Spec
INVARIANTS TypeOK ShownAsWritten OneTextAtATime NothingWithheld WaitsForAGlyph
