SPECIFICATION Spec
CONSTANTS
    None = None
    Clients = {c1}
    Commands = {j1, j2}
    Methods <- DisplayMethods
    TransferIds = {0, 1, 2, 3}
    PoolSize = 2
    Expiry = TRUE
    LateAnswers = FALSE
INVARIANT NoStaleResponse
CHECK_DEADLOCK FALSE
