CONSTANTS
    sail = sail
    unknown = unknown
    Codes = {sail, unknown}
    Experiments = {sail}
    NoExperiment = NoExperiment
    telecommand = telecommand
    terminal = terminal
    Requesters = {telecommand, terminal}
SPECIFICATION FairSpec
INVARIANTS
    ControllerCoherent
    NoLostWakeUp
    AbortNotStale
PROPERTIES
    NextCycleRespectedUnlessAborted
    ControllerProgress
    ImplementsSerialExperiments
