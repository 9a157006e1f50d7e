SPECIFICATION FairSpec
CONSTANTS
    CollectorSize = 2
    InboxSize = 2
    BatchCapacity = 1
    WindowSize = 2
    PublicationSize = 2
    Kinds = {"event", "query"}
    Frames = 6
    Messages = 4
    WireCapacity = 1
PROPERTY InboxKeepsMoving
CHECK_DEADLOCK FALSE
