CONSTANTS
    j1 = j1
    j2 = j2
    c1 = c1
    Jobs = {j1}
    Cancels = {}
    TargetOf <- NoCancels
    Foreigns = {}
    None = None
    MaxPending = 1
    MaxRestarts = 1
    MaxDeaths = 0
SPECIFICATION FairSpec
PROPERTY EveryJobEnds
