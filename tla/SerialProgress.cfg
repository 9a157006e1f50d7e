SPECIFICATION FairSpec
CONSTANTS
    Modulus = 5
    WindowSize = 4
    BatchCapacity = 2
    FlushCount = 1
    CursorResetHoldoff = 2
    MinBurst = 2
    Frames = 2
    WireCapacity = 1
    MaxResets = 1
    MaxLosses = 1
PROPERTY EveryFrameSettles
