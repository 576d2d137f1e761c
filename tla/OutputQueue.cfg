CONSTANTS
    MaxItems = 3
    MaxFlushes = 2
SPECIFICATION FairSpec
INVARIANTS
    TypeOK
    NoGap
    NoLostWakeup
    QuietEndFlush
PROPERTIES
    NoStaleMedia
    ImplementsChannel
    FlushAndDeleteReturn
