SPECIFICATION Spec
CONSTANTS
    None = None
    Clients = {c1}
    Commands = {j1, j2}
    Methods <- SetFieldsMethods
    TransferIds = {0, 1, 2, 3}
    PoolSize = 2
    Expiry = FALSE
    LateAnswers = FALSE
INVARIANT RepliesAreUltimate
CHECK_DEADLOCK FALSE
