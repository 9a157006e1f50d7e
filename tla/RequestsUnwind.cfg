SPECIFICATION Spec
CONSTANTS
    None = None
    Clients = {c1}
    Commands = {j1, j2}
    Methods <- DisplayMethods
    TransferIds = {0, 1}
    PoolSize = 2
    Expiry = FALSE
    LateAnswers = FALSE
INVARIANT NoDanglingTransferId
CHECK_DEADLOCK FALSE
