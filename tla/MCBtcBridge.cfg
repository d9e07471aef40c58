SPECIFICATION Spec
CONSTANTS
    u1 = u1
    c1 = c1
    c2 = c2
    x1 = x1
    x2 = x2
    d1 = d1
    None = None
    Users = {u1}
    Utxos = {x1, x2}
    OwnerOf <- OneOwner
    ValueOf <- Values
    Heights <- SameOrNot
    Outcomes = {"Minted", "Rejected", "Checked"}
    Fee = 2
    Burns <- AnyBurn
    Notifiers = {u1}
    Collectors = {c1, c2}
    Unreadable = {2}
    MaxHandlings = 3
    MaxScheduled = 1
    MaxEvents = 3
CONSTRAINTS InitFirst OneOrTwo
SYMMETRY Symmetry
INVARIANTS
    TypeOK
    NoLogSkipped
    MintsBacked
    DepositsHeld
    OrdersKept
    BurnsKept
    PaidPerHandling
    TransferredCovered
