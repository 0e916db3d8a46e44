SPECIFICATION Spec
CONSTANTS
    OpenTime = 1
    WaitTime = 2
    CorrectionPeriod = 3
    SetTimes = {}
    PowerCycledResets = {TRUE, FALSE}
    MaxTime = 8
    LatestReset = 8
    MaxOpens = 0
    MaxStops = 1
    MaxSads = 0
    MaxSetTimes = 0
    MaxFailures = 0
    MaxCorrections = 0
    MaxResets = 0
INVARIANTS
    StopIsRespected
