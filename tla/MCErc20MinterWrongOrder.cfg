SPECIFICATION Spec
CONSTANTS
    u1 = u1
    c1 = c1
    c2 = c2
    None = None
    Users = {u1}
    Notifiers = {}
    Recipients = {u1}
    Collectors = {c1}
    Unreadable = {}
    ReadySides = {"Base", "Wrapped"}
    ChainID <- OneChain
    PastBurns <- OneBefore
    MaxLogSize = 1
    Balance = 2
    MaxEvents <- TwoBurns
    MaxOperations = 2
INVARIANT UnmintedOrdersKept
CHECK_DEADLOCK FALSE
