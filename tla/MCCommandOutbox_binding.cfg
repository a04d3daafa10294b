SPECIFICATION Spec
CONSTANTS
    s1 = s1
    s2 = s2
    Requests = {r1}
    Instances = {i1, i2}
    Sessions = {s1, s2}
    LinkBindings <- Reconnect
    StartupSession = s1
    Dispatchers = {d1, d2}
    Receivers = {}
    Handlers = {h1}
    Refreshers = {f1}
    None = None
    DispatchLock = FALSE
    SeqModulus = 1
    MaxEpoch = 2
    LeaseDuration = 1
    AckTimeout = 1
    BaseBackoff = 1
    MaxBackoff = 1
    MaxAttempts = 1
    Capacity = 1
    TTLs = {1}
    MaxGeneration = 2
    MaxTime = 2
    MaxCrashes = 0
INVARIANTS
    SendUnderBinding
    RetiredTargetsSettled
PROPERTIES
    AttemptsOnlyAdvance
SYMMETRY ThreadAndInstanceSymmetry
CHECK_DEADLOCK FALSE
