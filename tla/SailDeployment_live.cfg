SPECIFICATION FairSpec
CONSTANTS
    OpenTime = 3
    WaitTime = 2
    CorrectionPeriod = 3
    SetTimes = {}
    PowerCycledResets = {TRUE}
    MaxTime = 14
    LatestReset = 6
    MaxOpens = 2
    MaxStops = 0
    MaxSads = 0
    MaxSetTimes = 0
    MaxFailures = 1
    MaxCorrections = 1
    MaxResets = 1
INVARIANTS
    BurnsInTurn
PROPERTIES
    SailGoesOn
