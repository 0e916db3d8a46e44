SPECIFICATION FairSpec
CONSTANTS
    UnconfirmedBoots = 2
    BootCounterTop = 3
    MaxResets = 0
    MaxFaults = 0
    MaxCommands = 0
    MaskPairs <- McMaskPairs
    Programs <- McPrograms
    UploadTargets <- McUploadTargets
    SectorOf <- McSectorOf
    Broken <- McBroken
CHECK_DEADLOCK FALSE
PROPERTIES
    EraseEnds
