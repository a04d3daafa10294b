SPECIFICATION FairSpec
CONSTANTS
    PendingCapacity = 4
    CountModulus = 6
    PacketModulus = 12
    FileFrames = 2
    MaxEvents = 1
    MaxKeys = 6
    MaxStarts = 2
    MaxOnWire = 1
    MaxClientEvents = 1
    SnapshotEvents = 1
    JobEvents = {2}
    MaxFeedEvents = 3
    MaxFeedFaults = 1
INVARIANTS
    ActedOnceInOrder
    RefusedForCause
    StreamIsContiguous
PROPERTIES
    ScreenCatchesUp
CHECK_DEADLOCK FALSE
