SPECIFICATION Spec
CONSTANTS
    w1 = w1
    w2 = w2
    p1 = p1
    p2 = p2
    done = done
    Wallets <- MCWallets
    Payloads <- MCPayloads
    Complete <- MCComplete
    MaxLogSize = 2
    MaxOperations = 5
INVARIANTS TypeOK IndexExact LogBounded
PROPERTY RegistrySpec
