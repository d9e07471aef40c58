SPECIFICATION FairSpec
CONSTANTS
    u1 = u1
    u2 = u2
    r1 = r1
    r2 = r2
    c1 = c1
    d1 = d1
    None = None
    Users = {u1}
    Notified = {u1, None}
    Runes = {r1, r2}
    DepositUtxos <- TwoUtxos
    OwnerOf <- OneOwner
    RunesIn <- OneRuneEach
    Requests <- OneOrAny
    Destinations = {d1, None}
    ForeignAddresses = {}
    Listings <- AllOrSome
    Collectors = {c1}
    Unreadable = {2, 3}
    RequestTimeout = 0
    ConfirmationTime = 1
    MaxLogSize = 1
    MaxTime = 1
    MaxNotifications = 1
    MaxNonces = 2
    MaxEvents = 4
    MaxOperations = 3
INVARIANTS TypeOK MintedIsExecuted WithdrawalSentOnce LedgerSpendsOnce
PROPERTIES OperationsMoveForward DepositsDecided
ACTION_CONSTRAINT SecondFirst
CHECK_DEADLOCK FALSE
