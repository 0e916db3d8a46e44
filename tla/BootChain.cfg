SPECIFICATION FairSpec
CONSTANTS
    UnconfirmedBoots = 2
    BootCounterTop = 3
    MaxResets = 1
    MaxFaults = 1
    MaxCommands = 4
    MaskPairs <- McMaskPairs
    Programs <- McPrograms
    UploadTargets <- McUploadTargets
    SectorOf <- McSectorOf
    Broken <- McBroken
CHECK_DEADLOCK FALSE
INVARIANTS
    MemorySound
    RunsInstalledProgram
PROPERTIES
    SlotsKept
    Recovers
    DamageRepaired
