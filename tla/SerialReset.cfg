SPECIFICATION Spec
CONSTANTS
    Modulus = 4
    WindowSize = 2
    BatchCapacity = 1
    FlushCount = 1
    CursorResetHoldoff = 1
    MinBurst = 2
    Frames = 5
    WireCapacity = 1
    MaxResets = 1
    MaxLosses = 2
INVARIANTS TypeOK WindowIntact RetiredWereReceived ReceiverInWindow InboxInOrder
PROPERTY ImplementsTransport
