SPECIFICATION FairSpec
CONSTANTS
    MaxCrashes = 1
    MaxSessions = 3
    MaxFrames = 1
    MaxTrouble = 2
    MaxInFlight = 1
INVARIANTS
    IdentifiersAreFresh
    FramesStayInTheirBoot
PROPERTIES
    EndpointsAgree
CHECK_DEADLOCK FALSE
