SPECIFICATION FairSpec
CONSTANTS
    u1 = u1
    c1 = c1
    c2 = c2
    None = None
    Users = {u1}
    Collectors = {c1, c2}
    COLLECT_EVM_LOGS_TIMEOUT = 1
    MAX_LOG_REQUEST_COUNT = 1
    MaxLogSize = 1
    Notifications <- SelfPaid
    Decodes = {TRUE, FALSE}
    Unreadable = {}
    Balance = 2
    MaxEvents = 4
    MaxOperations = 3
    MaxTime = 0
INVARIANT EachLogHandledOnce
PROPERTIES BridgeSpec DepositsSigned BurnsSettled
CHECK_DEADLOCK FALSE
