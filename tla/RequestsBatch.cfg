SPECIFICATION OrderlyFairSpec
CONSTANTS
    None = None
    Clients = {c1, c2}
    Commands = {j1, j2, j3}
    Methods <- DisplayMethods
    TransferIds = {0, 1, 2, 3}
    PoolSize = 1
    Expiry = TRUE
    LateAnswers = FALSE
INVARIANTS RepliesAreUltimate NoDanglingTransferId NoStaleResponse NoLeakedContinuation
PROPERTY EveryCommandReplies
CHECK_DEADLOCK FALSE
