SPECIFICATION Spec
CONSTANTS
    u1 = u1
    u2 = u2
    b1 = b1
    b2 = b2
    w1 = w1
    w2 = w2
    p1 = p1
    s1 = s1
    other = other
    Accounts <- MCAccounts
    NoOwner = NoOwner
    Payers = {u2}
    FeeContract = FeeContract
    Collector = Minter
    Chargers = {Bridge}
    SenderIDs = {s1}
    Sums = {1}
    Coins = 2
    Width = 3
    Users = {u1, u2}
    Bridge = Bridge
    Minter = Minter
    ZeroAddress = ZeroAddress
    BaseTokenIDs = {b1, b2, ZeroID}
    ZeroID = ZeroID
    PlainTokens = {p1}
    WrapperAddresses = {w1, w2}
    ChainID = ChainID
    MaxUint32 = 3
    InitialBalance = 1
    Amounts = {1}
    Orders <- MCOrders
    MaxBlock = 2
    MaxMints = 2
CONSTRAINT WrappedBound
INVARIANTS
    TypeOK
    MintedOnce
    RegistryPaired
    MintsOwnPair
    EventsMatchSupply
    DepositBlocks
    FeesSolvent
CHECK_DEADLOCK FALSE
