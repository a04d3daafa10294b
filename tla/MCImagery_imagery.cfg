SPECIFICATION Spec
CONSTANTS
    Epochs = 4
    StopPatience = 2
    PlateauPatience = 0
    WarmupEpochs = 1
    SchedulerStart = 1
    MaxFalseClear = 0
    MaxMetric = 1
    Pixels = {1, 2, 3}
    MaxLevel = 5
    CoarseStep = 2
    RefineStep = 3
    FalseClearLimit <- OneThird
    Seeds = {s1, s2}
    MaxCommits = 2
    MaxTrainings = 2
    MaxFaults = 1
    Total = 2
    StagingNames = {d1, d2}
    Requests <- MCRequests
    Finding <- MCFinding
    Threshold = 60
    NoDir = NoDir
    NoWriter = NoWriter
    NoManifest = NoManifest
    NoHeader = NoHeader
    NoResult = NoResult
    NoExpectation = NoExpectation
    MaxRuns = 3
    MaxStops = 2
SYMMETRY SeedSymmetry
INVARIANTS
    SelectionIsBest
    CalibrationNeverWorse
    EvidenceIsOneModel
    DataIsDeclared
    ReadableIsWhole
    CleanRunsAreReadable
    DeletionIsJustified
CHECK_DEADLOCK FALSE
