SPECIFICATION Spec
CONSTANTS
    u1 = u1
    c1 = c1
    c2 = c2
    None = None
    Users = {u1}
    Collectors = {c1, c2}
    COLLECT_EVM_LOGS_TIMEOUT = 1
    MAX_LOG_REQUEST_COUNT = 1
    MaxLogSize = 1
    Notifications <- FeePaid
    Decodes = {TRUE}
    Unreadable = {}
    Balance = 1
    MaxEvents = 3
    MaxOperations = 3
    MaxTime = 0
SYMMETRY Symmetry
INVARIANT EachLogHandledOnce
CHECK_DEADLOCK FALSE
