SPECIFICATION ServicesSpec
CONSTANTS
    NotificationPeriod = 1
    TimeCorrectionPeriod = 1
    MaximumTimeCorrection = 2
    Weights = {1, 65535}
    TargetTimes = {4}
    RtcSteps = {0, 2}
    MaxTicks = 3
    MaxCommands = 2
    MaxLoopCommands = 5
    AdcsQueueSize = 2
    RequestedModes = {"BuiltinDetumbling", "ExperimentalSunpointing", "Disabled", "Stopped"}
    MaxModeCommands = 3
    MaxAdcsFaults = 1
    FrameSize = 6
    DataSizes = {0, 3, 9}
    ShortWrites = {1, 4}
    MaxRecords = 2
    MaxFileFaults = 2
    AlignFileEntriesTo = 3
    MaxFileSize = 5
    SaveDelay = 1
    Jumps <- SetBack
    MaxAcquisitions = 5
    MaxBeacons = 1
    MaxArchiveFaults = 1
    Experiments = {"RadFET", "SunS", "Detumbling", "Sail", "SADS", "LEOP", "Payload", "Camera", "Fibo"}
    Asked = {1, 2}
    Duration = 2
    MaxRunFaults = 2
    BusTasks = {"mission", "comm"}
    MaxTransfers = 4
    MaxBusFaults = 2
    FlashPages = 2
    FlashBits = {"a", "b"}
    Contents = {{"a"}, {"a", "b"}}
    MaxFlashOps = 3
    MaxFlashFaults = 2
INVARIANTS
    TimeKept
    OneIterationAskedFor
    CoilsSafe
    FileSound
    ArchiveSound
    RunsSound
    OwnResult
    FlashSound
PROPERTIES
    LoopServes
    DetumblingEnds
    ExperimentEnds
    BusRecovers
