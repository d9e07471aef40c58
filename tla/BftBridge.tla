----------------------------- MODULE BftBridge -----------------------------
(***************************************************************************)
(* BFTBridge.sol with TokenManager.sol: one bridge contract, the tokens it *)
(* moves, and the fee contract it charges.  isWrappedSide says which side  *)
(* of a bridge the contract is on.  A call that reverts changes nothing,   *)
(* so only the calls that go through are steps.                            *)
(***************************************************************************)
EXTENDS WrappedToken, FeeCharge, RingBuffer

CONSTANTS
    Users,
    Bridge,             \* address of the contract
    Minter,             \* minterCanisterAddress
    ZeroAddress,
    BaseTokenIDs,       \* includes ZeroID
    ZeroID,             \* bytes32(0)
    PlainTokens,        \* ERC20 contracts that exist beside the bridge
    WrapperAddresses,   \* addresses that deployERC20 gives to new wrappers
    ChainID,            \* block.chainid
    MaxUint32,          \* operationIDCounter++ reverts here
    InitialBalance,     \* plain tokens of each user
    Amounts,
    Orders,             \* encoded orders that are around
    MaxBlock,           \* bound on the chain
    MaxMints            \* bound on the mint events

VARIABLES
    isWrappedSide,          \* _isWrappedSide, set once
    paused,
    isNonceUsed,            \* _isNonceUsed, the set of used pairs
    erc20TokenRegistry,     \* _erc20TokenRegistry
    baseTokenRegistry,      \* _baseTokenRegistry
    wrappedTokenList,       \* _wrappedTokenList
    operationIDCounter,
    lastUserBurns,          \* _lastUserBurns
    tokens,                 \* every ERC20 contract
    block,                  \* block.number
    mints,                  \* MintTokenEvents, in order
    burns                   \* BurnTokenEvents, in order, with their blocks

registryVars == <<erc20TokenRegistry, baseTokenRegistry, wrappedTokenList>>
burnVars == <<operationIDCounter, lastUserBurns, burns>>
mintVars == <<isNonceUsed, mints>>
vars == <<isWrappedSide, paused, registryVars, burnVars, mintVars, tokens, block, feeVars>>

Addresses == Accounts \cup PlainTokens \cup WrapperAddresses \cup {ZeroAddress}

\* New contracts get fresh addresses, the bridge is no user of itself, and the
\* fields of an order are decoded to their types.
ASSUME BridgeAssumption ==
    /\ WrapperAddresses \cap (Accounts \cup PlainTokens \cup {ZeroAddress}) = {}
    /\ ZeroAddress \notin Accounts \cup PlainTokens
    /\ ZeroID \in BaseTokenIDs
    /\ Bridge # NoOwner
    /\ IsFiniteSet(Accounts) /\ NoOwner \notin Accounts
    /\ Users \subseteq Accounts /\ Bridge \in Accounts \ Users
    /\ Amounts \subseteq Nat /\ InitialBalance \in Nat
    /\ MaxUint32 \in Nat /\ MaxBlock \in Nat \ {0}
    /\ \A o \in Orders : /\ o.fromTokenID \in BaseTokenIDs
                         /\ o.toERC20 \in Addresses
                         /\ o.amount \in Nat /\ o.approveAmount \in Nat

Init ==
    /\ isWrappedSide \in BOOLEAN
    /\ paused = FALSE
    /\ isNonceUsed = {}
    /\ erc20TokenRegistry = [b \in BaseTokenIDs |-> ZeroAddress]
    /\ baseTokenRegistry = [a \in Addresses |-> ZeroID]
    /\ wrappedTokenList = <<>>
    /\ operationIDCounter = 0
    /\ lastUserBurns = [u \in Users |-> EmptyBuffer]
    /\ tokens = [t \in PlainTokens |->
                   NewToken(NoOwner, [a \in Accounts |->
                              IF a \in Users THEN InitialBalance ELSE 0])]
    /\ block = 1
    /\ mints = <<>>
    /\ burns = <<>>
    /\ FeeInit

pause == /\ ~paused
         /\ paused' = TRUE
         /\ UNCHANGED <<registryVars, burnVars, mintVars, tokens, block, feeVars>>

unpause == /\ paused
           /\ paused' = FALSE
           /\ UNCHANGED <<registryVars, burnVars, mintVars, tokens, block, feeVars>>

WithToken(a, t) == [x \in DOMAIN tokens \cup {a} |-> IF x = a THEN t ELSE tokens[x]]

\* Mutant: a base token can be wrapped again.
deployERC20_again(baseTokenID, a) ==
    /\ isWrappedSide
    /\ a \notin DOMAIN tokens
    /\ tokens' = WithToken(a, NewToken(Bridge, [x \in Accounts |-> 0]))
    /\ erc20TokenRegistry' = [erc20TokenRegistry EXCEPT ![baseTokenID] = a]
    /\ baseTokenRegistry' = [baseTokenRegistry EXCEPT ![a] = baseTokenID]
    /\ wrappedTokenList' = Append(wrappedTokenList, a)
    /\ UNCHANGED <<paused, burnVars, mintVars, block, feeVars>>

deployERC20(baseTokenID, a) ==
    /\ isWrappedSide
    /\ erc20TokenRegistry[baseTokenID] = ZeroAddress
    /\ a \notin DOMAIN tokens
    /\ tokens' = WithToken(a, NewToken(Bridge, [x \in Accounts |-> 0]))
    /\ erc20TokenRegistry' = [erc20TokenRegistry EXCEPT ![baseTokenID] = a]
    /\ baseTokenRegistry' = [baseTokenRegistry EXCEPT ![a] = baseTokenID]
    /\ wrappedTokenList' = Append(wrappedTokenList, a)
    /\ UNCHANGED <<paused, burnVars, mintVars, block, feeVars>>

\* Mutant: used nonces are not refused.
ValidOrder_replayed(o) ==
    /\ o.recipient # ZeroAddress
    /\ o.amount > 0
    /\ o.recipientChainID = ChainID
    /\ baseTokenRegistry[o.toERC20] # ZeroID =>
          erc20TokenRegistry[o.fromTokenID] = o.toERC20

\* Mutant: the token the order names is not compared with the registry.
ValidOrder_any_token(o) ==
    /\ o.recipient # ZeroAddress
    /\ o.amount > 0
    /\ <<o.senderID, o.nonce>> \notin isNonceUsed
    /\ o.recipientChainID = ChainID

\* The requires of _decodeAndValidateOrder.
ValidOrder(o) ==
    /\ o.recipient # ZeroAddress
    /\ o.amount > 0
    /\ <<o.senderID, o.nonce>> \notin isNonceUsed
    /\ o.recipientChainID = ChainID
    /\ baseTokenRegistry[o.toERC20] # ZeroID =>
          erc20TokenRegistry[o.fromTokenID] = o.toERC20

ToToken(o) == IF erc20TokenRegistry[o.fromTokenID] = ZeroAddress
              THEN o.toERC20 ELSE erc20TokenRegistry[o.fromTokenID]

MintEvent(o, toToken) ==
    [amount |-> o.amount, fromToken |-> o.fromTokenID, senderID |-> o.senderID,
     toERC20 |-> toToken, recipient |-> o.recipient, nonce |-> o.nonce]

\* What the order does to the token: the transfer, then the approval.
Minted(t, o) ==
    LET paid == transfer(t, Bridge, o.recipient, o.amount)
    IN  IF o.approveSpender # ZeroAddress /\ o.approveAmount # 0 /\ isWrappedSide
        THEN approveByOwner(paid, Bridge, o.recipient, o.approveSpender, o.approveAmount)
        ELSE paid

mint(sender, o, fee) ==
    LET toToken == ToToken(o)
    IN  /\ ~paused
        /\ Len(mints) < MaxMints
        /\ ValidOrder(o)
        /\ o.signer = Minter
        /\ toToken # ZeroAddress
        /\ toToken \in DOMAIN tokens
        /\ isWrappedSide => CanSetMetaData(tokens[toToken], Bridge)
        /\ CanTransfer(tokens[toToken], Bridge, o.recipient, o.amount)
        /\ isNonceUsed' = isNonceUsed \cup {<<o.senderID, o.nonce>>}
        /\ tokens' = [tokens EXCEPT ![toToken] = Minted(@, o)]
        /\ IF /\ o.feePayer # ZeroAddress
              /\ sender = Minter
              /\ FeeContract # ZeroAddress
           THEN chargeFee(Bridge, o.feePayer, o.senderID, fee)
           ELSE UNCHANGED feeVars
        /\ mints' = Append(mints, MintEvent(o, toToken))
        /\ UNCHANGED <<paused, registryVars, burnVars, block>>

BurnEvent(sender, amount, fromERC20) ==
    [sender |-> sender, amount |-> amount, fromERC20 |-> fromERC20,
     toToken |-> baseTokenRegistry[fromERC20],
     operationID |-> operationIDCounter, block |-> block]

burn(sender, amount, fromERC20) ==
    /\ ~paused
    /\ CanTransferFrom(tokens[fromERC20], Bridge, sender, amount)
    /\ amount > 0
    /\ operationIDCounter < MaxUint32
    /\ tokens' = [tokens EXCEPT ![fromERC20] =
                    transferFrom(@, Bridge, sender, Bridge, amount)]
    /\ lastUserBurns' = [lastUserBurns EXCEPT ![sender] = push(@, block)]
    /\ operationIDCounter' = operationIDCounter + 1
    /\ burns' = Append(burns, BurnEvent(sender, amount, fromERC20))
    /\ UNCHANGED <<paused, registryVars, mintVars, block, feeVars>>

\* What holders do with a token themselves; a transfer may go to the bridge.
Approve(u, t, amount) ==
    /\ tokens' = [tokens EXCEPT ![t] = approve(@, u, Bridge, amount)]
    /\ UNCHANGED <<paused, registryVars, burnVars, mintVars, block, feeVars>>

Transfer(u, t, to, amount) ==
    /\ CanTransfer(tokens[t], u, to, amount)
    /\ tokens' = [tokens EXCEPT ![t] = transfer(@, u, to, amount)]
    /\ UNCHANGED <<paused, registryVars, burnVars, mintVars, block, feeVars>>

NewBlock == /\ block < MaxBlock
            /\ block' = block + 1
            /\ UNCHANGED <<paused, registryVars, burnVars, mintVars, tokens, feeVars>>

FeeStep == FeeUser /\ UNCHANGED <<paused, registryVars, burnVars, mintVars, tokens, block>>

TokenCall(u, t) ==
    \E v \in Amounts : \/ burn(u, v, t)
                       \/ Approve(u, t, v)
                       \/ \E to \in Accounts \ {u} : Transfer(u, t, to, v)

Step ==
    \/ pause \/ unpause \/ NewBlock \/ FeeStep
    \/ \E b \in BaseTokenIDs, a \in WrapperAddresses : deployERC20(b, a)
    \/ \E s \in Users \cup {Minter}, o \in Orders, fee \in Sums : mint(s, o, fee)
    \/ \E u \in Users : \E t \in DOMAIN tokens : TokenCall(u, t)

Next == Step /\ UNCHANGED isWrappedSide

Spec == Init /\ [][Next]_vars
-----------------------------------------------------------------------------

Tokens == [owner : {Bridge, NoOwner}, totalSupply : Nat,
           balance : [Accounts -> Nat],
           allowance : [Accounts -> [Accounts -> Nat]]]

\* The storage of the contracts has its declared types; in particular no
\* unsigned balance, allowance or supply ever goes below zero.
TypeOK ==
    /\ isWrappedSide \in BOOLEAN
    /\ paused \in BOOLEAN
    /\ erc20TokenRegistry \in [BaseTokenIDs -> WrapperAddresses \cup {ZeroAddress}]
    /\ baseTokenRegistry \in [Addresses -> BaseTokenIDs]
    /\ wrappedTokenList \in Seq(WrapperAddresses)
    /\ operationIDCounter \in 0..MaxUint32
    /\ PlainTokens \subseteq DOMAIN tokens
    /\ \A t \in DOMAIN tokens : tokens[t] \in Tokens
    /\ block \in 1..MaxBlock
    /\ FeeTypeOK

\* An order is executed at most once: the used (senderID, nonce) pairs are
\* exactly those of the mint events, and no pair has two events, whoever
\* sends the order, however often, and around pauses and failed fee charges.
MintedOnce ==
    /\ isNonceUsed = {<<mints[i].senderID, mints[i].nonce>> : i \in DOMAIN mints}
    /\ \A i, j \in DOMAIN mints :
          <<mints[i].senderID, mints[i].nonce>> = <<mints[j].senderID, mints[j].nonce>>
             => i = j

Deployed == {wrappedTokenList[i] : i \in DOMAIN wrappedTokenList}

\* The two registries are inverse to each other and to the list that
\* listTokenPairs returns, after any sequence of deployERC20 calls.
RegistryPaired ==
    /\ \A b \in BaseTokenIDs : erc20TokenRegistry[b] # ZeroAddress =>
          /\ baseTokenRegistry[erc20TokenRegistry[b]] = b
          /\ erc20TokenRegistry[b] \in Deployed
    /\ \A a \in Deployed : erc20TokenRegistry[baseTokenRegistry[a]] = a
    /\ \A a \in Addresses \ Deployed : baseTokenRegistry[a] = ZeroID
    /\ \A i, j \in DOMAIN wrappedTokenList :
          wrappedTokenList[i] = wrappedTokenList[j] => i = j
    /\ Deployed = {t \in DOMAIN tokens : tokens[t].owner = Bridge}

\* An order for one base token never mints the wrapper of another, also when
\* the wrapper is deployed after the order was signed.  A wrapper deployed
\* for the zero id counts as unregistered in the code's check, so it is out
\* of the statement.
MintsOwnPair ==
    \A i \in DOMAIN mints :
        baseTokenRegistry[mints[i].toERC20] # ZeroID =>
            baseTokenRegistry[mints[i].toERC20] = mints[i].fromToken

MintedOf(t) == SumFunctionOnSet([i \in DOMAIN mints |-> mints[i].amount],
                                {i \in DOMAIN mints : mints[i].toERC20 = t})
BurntOf(t) == SumFunctionOnSet([i \in DOMAIN burns |-> burns[i].amount],
                               {i \in DOMAIN burns : burns[i].fromERC20 = t})

\* The events a minter sees account for the tokens: a wrapper's supply is
\* what the mint events minted less what the burn events burned, and of a
\* plain token the bridge holds at least what was burned and not yet minted
\* back.  Transfers, also to the bridge itself, change neither.
EventsMatchSupply ==
    \A t \in DOMAIN tokens :
        /\ tokens[t].totalSupply = SumFunction(tokens[t].balance)
        /\ IF tokens[t].owner = Bridge
           THEN tokens[t].totalSupply = MintedOf(t) - BurntOf(t)
           ELSE tokens[t].balance[Bridge] >= BurntOf(t) - MintedOf(t)

\* Burn events carry the operation ids 0, 1, 2, ... without gap or repeat.
OperationIDsUnique == /\ operationIDCounter = Len(burns)
                      /\ \A i \in DOMAIN burns : burns[i].operationID = i - 1

BurnsOf(u) == {i \in DOMAIN burns : burns[i].sender = u}

\* The k-th burn of a user.
BurnOf(u, k) == CHOOSE i \in BurnsOf(u) : Cardinality({j \in BurnsOf(u) : j <= i}) = k

BurnBlocks(u) == [k \in 1..Cardinality(BurnsOf(u)) |-> burns[BurnOf(u, k)].block]

\* getDepositBlocks tells every user the blocks of their latest burns.
DepositBlocks == \A u \in Users : getAll(lastUserBurns[u]) = Latest(BurnBlocks(u))
=============================================================================
