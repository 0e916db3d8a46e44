CONSTANTS
    leop = leop
    LeopCode = leop
    Codes = {leop}
    Experiments = {leop}
    NoExperiment = NoExperiment
    telecommand = telecommand
    Requesters = {telecommand}
    ExperimentStartDelay = 1
    ExperimentTimeStop = 2
    PowerCycleTime = 1
    NoTime = NoTime
    ActiveScrubbers = {"failsafe", "safeMode"}
    MaxTime = 2
SPECIFICATION MissionSpec
PROPERTIES
    OnlyNewExperimentsInterrupted
    LeopOncePerBoot
    ImplementsSerialExperiments
