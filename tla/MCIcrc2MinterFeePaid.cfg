SPECIFICATION Spec
CONSTANTS
    u1 = u1
    c1 = c1
    c2 = c2
    None = None
    Users = {u1}
    Collectors = {c1, c2}
    COLLECT_EVM_LOGS_TIMEOUT = 0
    MAX_LOG_REQUEST_COUNT = 1
    MaxLogSize = 1
    Notifications <- FeePaidOrOther
    Decodes = {TRUE}
    Unreadable = {1}
    Balance = 1
    MaxEvents = 3
    MaxOperations = 2
    MaxTime = 1
SYMMETRY Symmetry
INVARIANTS TypeOK SettledPerHandling OrdersAvailable NoLogSkipped
PROPERTIES OperationsMoveForward LockSpec
CHECK_DEADLOCK FALSE
