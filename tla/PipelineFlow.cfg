SPECIFICATION FairSpec
CONSTANTS
    CollectorSize = 2
    InboxSize = 2
    BatchCapacity = 2
    WindowSize = 4
    PublicationSize = 2
    Kinds = {"event", "query"}
    Frames = 4
    Messages = 2
    WireCapacity = 2
INVARIANTS TypeOK HandOverInOrder
PROPERTIES EveryFrameAccepted InboxKeepsMoving
CHECK_DEADLOCK FALSE
