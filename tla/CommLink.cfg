SPECIFICATION CommFairSpec
CONSTANTS
    RetryCount = 2
    ReceiverBufferSize = 2
    Durations = {1}
    MaxFrames = 2
    MaxTroubles = 2
INVARIANTS
    UplinkSafe
PROPERTIES
    RadioGoesOn
