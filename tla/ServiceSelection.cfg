CONSTANTS
    Package = {1, 2}
    Packet = {10, 11, 12, 13, 14, 15, 20, 21, 22, 23}
    Tag = {0, 1, 16, 17, 18, 48, 56}
    Event = {1}
    Mpt <- TwoServices
    Scanned <- OneScanned
    Plt <- TwoPlts
SPECIFICATION Spec
INVARIANTS
    TypeOK
    VideoFollowsService
    ListsOfService
    SubtitleIndexIsOnes
    AudioOnItsTrack
PROPERTIES
    ServiceIsKept
