SPECIFICATION Spec
CONSTANTS
    OpenTime = 6
    WaitTime = 2
    CorrectionPeriod = 3
    SetTimes = {0, 5}
    PowerCycledResets = {TRUE, FALSE}
    MaxTime = 6
    LatestReset = 7
    MaxOpens = 1
    MaxStops = 1
    MaxSads = 1
    MaxSetTimes = 1
    MaxFailures = 1
    MaxCorrections = 0
    MaxResets = 1
INVARIANTS
    KnivesSafe
