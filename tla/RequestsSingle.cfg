SPECIFICATION FairSpec
CONSTANTS
    None = None
    Clients = {c1, c2}
    Commands = {j1, j2, j3}
    Methods <- ScreenMethods
    TransferIds = {0, 1}
    PoolSize = 2
    Expiry = TRUE
    LateAnswers = FALSE
INVARIANTS TypeOK RepliesAreUltimate NoDanglingTransferId NoLeakedContinuation
PROPERTY EveryCommandReplies
CHECK_DEADLOCK FALSE
