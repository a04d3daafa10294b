CONSTANTS
    j1 = j1
    j2 = j2
    c1 = c1
    Jobs = {j1, j2}
    Cancels = {c1}
    TargetOf <- CancelsFirst
    Foreigns = {f1}
    None = None
    MaxPending = 1
    MaxRestarts = 1
    MaxDeaths = 1
SPECIFICATION FairSpec
INVARIANTS
    ProductMatchesJob
    EventsAreTrue
PROPERTIES
    OneTerminalState
    AnswersAreStable
    JobsEnd
