SPECIFICATION Spec
CONSTANTS
    u1 = u1
    u2 = u2
    r1 = r1
    r2 = r2
    c1 = c1
    d1 = d1
    None = None
    Users = {u1}
    Notified = {u1}
    Runes = {r1}
    DepositUtxos <- FirstUtxo
    OwnerOf <- OneOwner
    RunesIn <- OneRuneEach
    Requests <- AnyAmounts
    Destinations = {d1}
    ForeignAddresses = {}
    Listings <- AllRunes
    Collectors = {c1}
    Unreadable = {}
    RequestTimeout = 0
    ConfirmationTime = 1
    MaxLogSize = 1
    MaxTime = 1
    MaxNotifications = 2
    MaxNonces = 2
    MaxEvents = 4
    MaxOperations = 3
INVARIANT UtxosUsedOnce
CHECK_DEADLOCK FALSE
