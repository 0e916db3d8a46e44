SPECIFICATION FairSpec
CONSTANTS
    Antennas <- McAntennas
    AutoId = "Auto"
    SilentPeriod = 1
    CorrectionPeriod = 8
    Corrections <- McCorrections
    PowerCycledResets = {TRUE, FALSE}
    MaxTime = 38
    LatestReset = 5
    MaxFailures = 3
    MaxMasks = 1
    MaxCorrections = 1
    MaxResets = 1
INVARIANTS
    BurnsSafe
    NothingSkipped
PROPERTIES
    BeaconEventually
