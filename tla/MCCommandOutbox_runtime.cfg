SPECIFICATION FairSpec
CONSTANTS
    s1 = s1
    s2 = s2
    Requests = {r1}
    Instances = {i1}
    Sessions = {s1, s2}
    LinkBindings <- Reconnects
    StartupSession = s1
    Dispatchers = {d1}
    Receivers = {v1}
    Handlers = {h1}
    Refreshers = {}
    None = None
    DispatchLock = TRUE
    SeqModulus = 1
    MaxEpoch = 2
    LeaseDuration = 1
    AckTimeout = 1
    BaseBackoff = 1
    MaxBackoff = 1
    MaxAttempts = 2
    Capacity = 1
    TTLs = {3}
    MaxGeneration = 2
    MaxTime = 4
    MaxCrashes = 1
INVARIANTS
    LeaseCoherent
    OutcomeAgrees
    NoSequenceReuse
PROPERTIES
    TerminalIsFinal
    BindingsOnlyAdvance
    ImplementsDelivery
    EventuallySettled
CHECK_DEADLOCK FALSE
