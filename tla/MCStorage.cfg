SPECIFICATION StorageSpec
CONSTANTS
    Layout <- McLayout
    Bits = {0}
    Signature = {0}
    Default = {}
    UpsetChips = {2, 3}
    MaxUpsets = 1
    MaxResets = 2
    MaxSets = 2
    PhotoQueueSize = 3
    PhotoSpace = 2
    PhotoSizes = {1}
    PhotoPrograms = {"sads", "sailNoTime"}
    PhotoCameras = {"Wing"}
    MaxPhotoCommands = 1
    MaxPowerFaults = 1
INVARIANTS
    ModifiedCoversState
    PhotosSafe
PROPERTIES
    ImplementsStableState
    ChangesReachMemory
    NotFinishedEarly
    CallsReturn
