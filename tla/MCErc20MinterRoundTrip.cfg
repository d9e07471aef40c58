SPECIFICATION Spec
CONSTANTS
    u1 = u1
    c1 = c1
    c2 = c2
    None = None
    Users = {u1}
    Notifiers = {u1}
    Recipients = {u1, None}
    Collectors = {c1, c2}
    Unreadable <- FirstBase
    ReadySides = {"Wrapped"}
    ChainID <- OneChain
    PastBurns <- NoneBefore
    MaxLogSize = 1
    Balance = 1
    MaxEvents <- RoundTrip
    MaxOperations = 2
SYMMETRY Symmetry
CONSTRAINTS BaseFirst NotifyWrapped
INVARIANTS NoLogSkipped
PROPERTIES OperationsMoveForward BridgeSpec
CHECK_DEADLOCK FALSE
