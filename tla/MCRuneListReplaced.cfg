SPECIFICATION Spec
CONSTANTS
    u1 = u1
    u2 = u2
    r1 = r1
    r2 = r2
    c1 = c1
    d1 = d1
    None = None
    Users = {u1, u2}
    Notified = {u1}
    Runes = {r1, r2}
    DepositUtxos <- TwoUtxos
    OwnerOf <- OwnerEach
    RunesIn <- OneRuneEach
    Requests <- AnyAmounts
    Destinations = {d1}
    ForeignAddresses = {}
    Listings <- FirstPages
    Collectors = {c1}
    Unreadable = {}
    RequestTimeout = 0
    ConfirmationTime = 1
    MaxLogSize = 1
    MaxTime = 1
    MaxNotifications = 1
    MaxNonces = 2
    MaxEvents = 4
    MaxOperations = 2
INVARIANT MintedRunesKnown
CHECK_DEADLOCK FALSE
