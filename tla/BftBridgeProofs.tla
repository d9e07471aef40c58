-------------------------- MODULE BftBridgeProofs --------------------------
(***************************************************************************)
(* Proofs about BftBridge, for any set of users, tokens and orders: the    *)
(* registry, the orders, and the burns with their rings of blocks.         *)
(***************************************************************************)
EXTENDS BftBridge, FiniteSetTheorems, TLAPS

MintEvents == {MintEvent(o, t) : o \in Orders, t \in Addresses}

(* Only mint touches the nonces and the mint events. *)
LEMMA OnlyMint ==
  [Next]_vars => \/ \E s \in Users \cup {Minter}, o \in Orders, fee \in Sums : mint(s, o, fee)
                 \/ UNCHANGED mintVars
  BY DEF Next, Step, vars, pause, unpause, NewBlock, FeeStep, deployERC20, TokenCall,
         burn, Approve, Transfer

(* Only burn touches the operation ids and the burn events. *)
LEMMA OnlyBurn ==
  [Next]_vars => \/ \E u \in Users, t \in DOMAIN tokens, v \in Amounts : burn(u, v, t)
                 \/ UNCHANGED burnVars
  BY DEF Next, Step, vars, pause, unpause, NewBlock, FeeStep, deployERC20, TokenCall,
         mint, Approve, Transfer

(* The token of an order is an address. *)
LEMMA ToTokenAddress ==
  ASSUME NEW o \in Orders,
         erc20TokenRegistry \in [BaseTokenIDs -> WrapperAddresses \cup {ZeroAddress}]
  PROVE  ToToken(o) \in Addresses
  BY BridgeAssumption DEF ToToken, Addresses

-----------------------------------------------------------------------------

RegistryType ==
    /\ erc20TokenRegistry \in [BaseTokenIDs -> WrapperAddresses \cup {ZeroAddress}]
    /\ baseTokenRegistry \in [Addresses -> BaseTokenIDs]
    /\ wrappedTokenList \in Seq(WrapperAddresses)
    /\ DOMAIN tokens \subseteq Addresses \ {ZeroAddress}

Owners == {t \in DOMAIN tokens : tokens[t].owner = Bridge}

(* No call to a token changes its owner. *)
LEMMA OwnersKept ==
  ASSUME [Next]_vars
  PROVE  \/ UNCHANGED <<DOMAIN tokens, Owners>>
         \/ \E b \in BaseTokenIDs, a \in WrapperAddresses : deployERC20(b, a)
<1>. DEFINE Goal == UNCHANGED <<DOMAIN tokens, Owners>>
<1>1. ASSUME NEW t \in DOMAIN tokens, NEW r, r.owner = tokens[t].owner,
             tokens' = [tokens EXCEPT ![t] = r]
      PROVE  Goal
  BY <1>1 DEF Owners
<1>2. ASSUME UNCHANGED tokens  PROVE Goal
  BY <1>2 DEF Owners
<1>3. CASE pause \/ unpause \/ NewBlock \/ FeeStep \/ UNCHANGED vars
  BY <1>2, <1>3 DEF pause, unpause, NewBlock, FeeStep, vars
<1>4. ASSUME NEW s, NEW o \in Orders, NEW fee, mint(s, o, fee)  PROVE Goal
  <2>1. Minted(tokens[ToToken(o)], o).owner = tokens[ToToken(o)].owner
    BY DEF Minted, transfer, approveByOwner, approve, Token
  <2>. QED  BY <1>1, <1>4, <2>1, Zenon DEF mint
<1>5. ASSUME NEW u, NEW t \in DOMAIN tokens, NEW v,
             \/ burn(u, v, t) \/ Approve(u, t, v)
             \/ \E to \in Accounts : Transfer(u, t, to, v)
      PROVE  Goal
  <2>1. CASE burn(u, v, t)
    <3>1. transferFrom(tokens[t], Bridge, u, Bridge, v).owner = tokens[t].owner
      BY DEF transferFrom, Token
    <3>. QED  BY <1>1, <2>1, <3>1, Zenon DEF burn
  <2>2. CASE Approve(u, t, v)
    <3>1. approve(tokens[t], u, Bridge, v).owner = tokens[t].owner
      BY DEF approve, Token
    <3>. QED  BY <1>1, <2>2, <3>1, Zenon DEF Approve
  <2>3. ASSUME NEW to \in Accounts, Transfer(u, t, to, v)  PROVE Goal
    <3>1. transfer(tokens[t], u, to, v).owner = tokens[t].owner
      BY DEF transfer, Token
    <3>. QED  BY <1>1, <2>3, <3>1, Zenon DEF Transfer
  <2>. QED  BY <1>5, <2>1, <2>2, <2>3
<1>. QED  BY <1>3, <1>4, <1>5 DEF Next, Step, TokenCall

RInv == RegistryType /\ RegistryPaired

LEMMA InitRInv == Init => RInv
<1>. SUFFICES ASSUME Init  PROVE RInv
  OBVIOUS
<1>. USE BridgeAssumption
<1>1. RegistryType
  <2>1. /\ erc20TokenRegistry = [b \in BaseTokenIDs |-> ZeroAddress]
        /\ baseTokenRegistry = [a \in Addresses |-> ZeroID]
        /\ wrappedTokenList = <<>>
        /\ DOMAIN tokens = PlainTokens
    BY DEF Init
  <2>2. PlainTokens \subseteq Addresses \ {ZeroAddress}
    BY DEF Addresses
  <2>. QED  BY <2>1, <2>2 DEF RegistryType
<1>2. DOMAIN wrappedTokenList = {} /\ Deployed = {}
  BY DEF Init, Deployed
<1>3. {t \in DOMAIN tokens : tokens[t].owner = Bridge} = {}
  BY DEF Init, NewToken, Token
<1>4. /\ erc20TokenRegistry = [b \in BaseTokenIDs |-> ZeroAddress]
      /\ baseTokenRegistry = [a \in Addresses |-> ZeroID]
  BY DEF Init
<1>5. RegistryPaired
  BY <1>2, <1>3, <1>4 DEF RegistryPaired
<1>. QED  BY <1>1, <1>5 DEF RInv

(* A deployment extends the list and both registries by one pair. *)
LEMMA DeployRInv ==
  ASSUME RInv, NEW b \in BaseTokenIDs, NEW a \in WrapperAddresses, deployERC20(b, a)
  PROVE  RInv'
<1>. USE BridgeAssumption
<1>1. /\ erc20TokenRegistry \in [BaseTokenIDs -> WrapperAddresses \cup {ZeroAddress}]
      /\ baseTokenRegistry \in [Addresses -> BaseTokenIDs]
      /\ wrappedTokenList \in Seq(WrapperAddresses)
      /\ DOMAIN tokens \subseteq Addresses \ {ZeroAddress}
      /\ a \in Addresses /\ a # ZeroAddress
  BY Zenon DEF RInv, RegistryType, Addresses
<1>2. /\ erc20TokenRegistry[b] = ZeroAddress
      /\ a \notin DOMAIN tokens
      /\ erc20TokenRegistry' = [erc20TokenRegistry EXCEPT ![b] = a]
      /\ baseTokenRegistry' = [baseTokenRegistry EXCEPT ![a] = b]
      /\ wrappedTokenList' = Append(wrappedTokenList, a)
      /\ tokens' = WithToken(a, NewToken(Bridge, [x \in Accounts |-> 0]))
  BY Zenon DEF deployERC20
<1>3. /\ DOMAIN tokens' = DOMAIN tokens \cup {a}
      /\ tokens'[a].owner = Bridge
      /\ \A t \in DOMAIN tokens : tokens'[t] = tokens[t]
  BY <1>2, Zenon DEF WithToken, NewToken, Token
<1>4. RegistryType'
  BY <1>1, <1>2, <1>3 DEF RegistryType
<1>5. Deployed' = Deployed \cup {a}
  <2>1. /\ DOMAIN wrappedTokenList' = DOMAIN wrappedTokenList \cup {Len(wrappedTokenList) + 1}
        /\ wrappedTokenList'[Len(wrappedTokenList) + 1] = a
        /\ \A i \in DOMAIN wrappedTokenList : wrappedTokenList'[i] = wrappedTokenList[i]
    BY <1>1, <1>2
  <2>. QED  BY <2>1 DEF Deployed
<1>6. Deployed = Owners
  BY Zenon DEF RInv, RegistryPaired, Owners
<1>7. a \notin Deployed
  BY <1>2, <1>6, Zenon DEF Owners
<1>8. Owners' = Owners \cup {a}
  BY <1>2, <1>3 DEF Owners
<1>9. \A i, j \in DOMAIN wrappedTokenList' :
         wrappedTokenList'[i] = wrappedTokenList'[j] => i = j
  <2>1. \A i, j \in DOMAIN wrappedTokenList :
           wrappedTokenList[i] = wrappedTokenList[j] => i = j
    BY Zenon DEF RInv, RegistryPaired
  <2>2. \A i \in DOMAIN wrappedTokenList : wrappedTokenList[i] # a
    BY <1>7, Zenon DEF Deployed
  <2>. QED  BY <1>1, <1>2, <2>1, <2>2
<1>10. \A c \in BaseTokenIDs : erc20TokenRegistry'[c] # ZeroAddress =>
          /\ baseTokenRegistry'[erc20TokenRegistry'[c]] = c
          /\ erc20TokenRegistry'[c] \in Deployed'
  <2>1. \A c \in BaseTokenIDs : erc20TokenRegistry[c] # ZeroAddress =>
           /\ baseTokenRegistry[erc20TokenRegistry[c]] = c
           /\ erc20TokenRegistry[c] \in Deployed
           /\ erc20TokenRegistry[c] \in Addresses
    BY <1>1, Zenon DEF RInv, RegistryPaired, Addresses
  <2>. QED  BY <1>1, <1>2, <1>5, <1>7, <2>1
<1>11. \A x \in Deployed' : erc20TokenRegistry'[baseTokenRegistry'[x]] = x
  <2>1. \A x \in Deployed : /\ erc20TokenRegistry[baseTokenRegistry[x]] = x
                            /\ x \in Addresses /\ x # ZeroAddress
    BY <1>1, <1>6, Zenon DEF RInv, RegistryPaired, Owners
  <2>2. \A x \in Deployed : baseTokenRegistry[x] # b
    BY <1>2, <2>1, Zenon
  <2>. QED  BY <1>1, <1>2, <1>5, <1>7, <2>1, <2>2
<1>12. \A x \in Addresses \ Deployed' : baseTokenRegistry'[x] = ZeroID
  BY <1>1, <1>2, <1>5, Zenon DEF RInv, RegistryPaired
<1>13. RegistryPaired'
  BY <1>5, <1>6, <1>8, <1>9, <1>10, <1>11, <1>12, Zenon DEF RegistryPaired, Owners
<1>. QED  BY <1>4, <1>13, Zenon DEF RInv

LEMMA NextRInv == RInv /\ [Next]_vars => RInv'
<1>. SUFFICES ASSUME RInv, [Next]_vars  PROVE RInv'
  OBVIOUS
<1>1. CASE \E b \in BaseTokenIDs, a \in WrapperAddresses : deployERC20(b, a)
  BY <1>1, DeployRInv, Zenon
<1>2. CASE ~ \E b \in BaseTokenIDs, a \in WrapperAddresses : deployERC20(b, a)
  <2>1. UNCHANGED <<DOMAIN tokens, Owners>>
    BY <1>2, OwnersKept, Zenon
  <2>2. UNCHANGED registryVars
    BY <1>2 DEF Next, Step, vars, pause, unpause, NewBlock, FeeStep, mint, TokenCall,
                burn, Approve, Transfer
  <2>. QED  BY <2>1, <2>2 DEF RInv, RegistryType, RegistryPaired, Deployed, Owners,
                              registryVars
<1>. QED  BY <1>1, <1>2

(***************************************************************************)
(* After any sequence of deployERC20 calls the registries of TokenManager  *)
(* and its list of wrappers agree.                                         *)
(***************************************************************************)
THEOREM RegistryStaysPaired == Spec => []RegistryPaired
<1>1. Spec => []RInv
  BY InitRInv, NextRInv, PTL DEF Spec
<1>. QED  BY <1>1, PTL DEF RInv

-----------------------------------------------------------------------------

\* Every minted token existed, so a later deployment cannot be at its
\* address: this is what makes MintsOwnPair stable.
MInv == /\ RInv
        /\ mints \in Seq(MintEvents)
        /\ MintedOnce
        /\ MintsOwnPair
        /\ \A i \in DOMAIN mints : mints[i].toERC20 \in DOMAIN tokens

LEMMA InitMInv == Init => MInv
<1>. SUFFICES ASSUME Init  PROVE MInv
  OBVIOUS
<1>1. mints = <<>> /\ DOMAIN mints = {} /\ isNonceUsed = {}
  BY DEF Init
<1>. QED  BY <1>1, InitRInv DEF MInv, MintedOnce, MintsOwnPair

(* One executed order. *)
LEMMA MintMInv ==
  ASSUME MInv, RInv', NEW s, NEW o \in Orders, NEW fee, mint(s, o, fee)
  PROVE  MInv'
<1>. DEFINE n == Len(mints)
            x == ToToken(o)
            k == <<o.senderID, o.nonce>>
<1>1. /\ k \notin isNonceUsed
      /\ isNonceUsed' = isNonceUsed \cup {k}
      /\ mints' = Append(mints, MintEvent(o, x))
      /\ x \in DOMAIN tokens /\ x # ZeroAddress
      /\ baseTokenRegistry' = baseTokenRegistry
      /\ DOMAIN tokens' = DOMAIN tokens
  BY Zenon DEF mint, ValidOrder, registryVars
<1>2. /\ mints \in Seq(MintEvents)
      /\ x \in Addresses
      /\ MintEvent(o, x) \in MintEvents
      /\ mints' \in Seq(MintEvents)
  <2>1. x \in Addresses
    BY ToTokenAddress DEF MInv, RInv, RegistryType
  <2>2. MintEvent(o, x) \in MintEvents
    BY <2>1 DEF MintEvents
  <2>. QED  BY <1>1, <2>1, <2>2 DEF MInv
<1>3. /\ n \in Nat /\ DOMAIN mints = 1..n /\ DOMAIN mints' = 1..(n + 1)
      /\ \A i \in 1..n : mints'[i] = mints[i]
      /\ mints'[n + 1] = MintEvent(o, x)
  <2>. HIDE DEF x
  <2>. QED  BY <1>1, <1>2
<1>4. /\ MintEvent(o, x).senderID = o.senderID
      /\ MintEvent(o, x).nonce = o.nonce
      /\ MintEvent(o, x).toERC20 = x
      /\ MintEvent(o, x).fromToken = o.fromTokenID
  BY Zenon DEF MintEvent
<1>5. MintedOnce'
  <2>. DEFINE K(i) == <<mints[i].senderID, mints[i].nonce>>
              L(i) == <<mints'[i].senderID, mints'[i].nonce>>
  <2>1. (\A i \in 1..n : L(i) = K(i)) /\ L(n + 1) = k
    BY <1>3, <1>4, Zenon
  <2>2. isNonceUsed = {K(i) : i \in 1..n} /\ \A i, j \in 1..n : K(i) = K(j) => i = j
    BY <1>3, Zenon DEF MInv, MintedOnce
  <2>3. 1..(n + 1) = (1..n) \cup {n + 1}
    BY <1>3
  <2>. HIDE DEF K, L, k, n
  <2>4. isNonceUsed' = {L(i) : i \in 1..(n + 1)}
    BY <1>1, <2>1, <2>2, <2>3
  <2>5. \A i, j \in 1..(n + 1) : L(i) = L(j) => i = j
    BY <1>1, <2>1, <2>2, <2>3
  <2>. QED  BY <1>3, <2>4, <2>5, Zenon DEF MintedOnce, L
<1>6. baseTokenRegistry[x] # ZeroID => baseTokenRegistry[x] = o.fromTokenID
  <2>. DEFINE r == erc20TokenRegistry[o.fromTokenID]
  <2>1. CASE r = ZeroAddress
    BY <1>1, <2>1, Zenon DEF mint, ValidOrder, ToToken
  <2>2. CASE r # ZeroAddress
    BY <2>2, BridgeAssumption, Zenon DEF ToToken, MInv, RInv, RegistryPaired
  <2>. QED  BY <2>1, <2>2, Zenon
<1>7. MintsOwnPair'
  BY <1>1, <1>3, <1>4, <1>6 DEF MInv, MintsOwnPair
<1>8. \A i \in DOMAIN mints' : mints'[i].toERC20 \in DOMAIN tokens'
  BY <1>1, <1>3, <1>4 DEF MInv
<1>. QED  BY <1>2, <1>5, <1>7, <1>8, Zenon DEF MInv

LEMMA NextMInv == MInv /\ [Next]_vars => MInv'
<1>. SUFFICES ASSUME MInv, [Next]_vars  PROVE MInv'
  OBVIOUS
<1>1. RInv'
  BY NextRInv, Zenon DEF MInv
<1>2. CASE \E s \in Users \cup {Minter}, o \in Orders, fee \in Sums : mint(s, o, fee)
  BY <1>1, <1>2, MintMInv, Zenon
<1>3. CASE UNCHANGED mintVars
  <2>1. mints' = mints /\ isNonceUsed' = isNonceUsed
    BY <1>3, Zenon DEF mintVars
  <2>2. \A t \in DOMAIN tokens :
           t \in DOMAIN tokens' /\ baseTokenRegistry'[t] = baseTokenRegistry[t]
    <3>1. CASE \E b \in BaseTokenIDs, a \in WrapperAddresses : deployERC20(b, a)
      BY <3>1 DEF deployERC20, WithToken, MInv, RInv, RegistryType
    <3>2. CASE ~ \E b \in BaseTokenIDs, a \in WrapperAddresses : deployERC20(b, a)
      <4>1. UNCHANGED DOMAIN tokens
        BY <3>2, OwnersKept, Zenon
      <4>2. UNCHANGED baseTokenRegistry
        BY <3>2 DEF Next, Step, vars, pause, unpause, NewBlock, FeeStep, mint, TokenCall,
                    burn, Approve, Transfer, registryVars
      <4>. QED  BY <4>1, <4>2, Zenon
    <3>. QED  BY <3>1, <3>2, Zenon
  <2>3. MintedOnce'
    BY <2>1, Zenon DEF MInv, MintedOnce
  <2>4. MintsOwnPair'
    BY <2>1, <2>2 DEF MInv, MintsOwnPair
  <2>. QED  BY <1>1, <2>1, <2>2, <2>3, <2>4, Zenon DEF MInv
<1>. QED  BY <1>2, <1>3, OnlyMint, Zenon

(***************************************************************************)
(* BFTBridge.mint executes an order at most once, for any set of signed    *)
(* orders, any senders and any interleaving with deployments, pauses and   *)
(* burns.                                                                  *)
(***************************************************************************)
THEOREM OrdersMintedOnce == Spec => []MintedOnce
<1>1. Spec => []MInv
  BY InitMInv, NextMInv, PTL DEF Spec
<1>. QED  BY <1>1, PTL DEF MInv

(***************************************************************************)
(* BFTBridge.mint never mints the wrapper of another base token, also when *)
(* the wrapper is deployed after the order was signed.                     *)
(***************************************************************************)
THEOREM OrdersMintOwnPair == Spec => []MintsOwnPair
<1>1. Spec => []MInv
  BY InitMInv, NextMInv, PTL DEF Spec
<1>. QED  BY <1>1, PTL DEF MInv

-----------------------------------------------------------------------------

BurnEvents == [sender : Users, amount : Amounts, fromERC20 : Addresses,
               toToken : BaseTokenIDs, operationID : Nat, block : 1..MaxBlock]

BInv == /\ RInv
        /\ block \in 1..MaxBlock
        /\ operationIDCounter \in 0..MaxUint32
        /\ burns \in Seq(BurnEvents)
        /\ \A i \in DOMAIN burns : burns[i].fromERC20 \in DOMAIN tokens
        /\ OperationIDsUnique

LEMMA InitBInv == Init => BInv
<1>. SUFFICES ASSUME Init  PROVE BInv
  OBVIOUS
<1>1. block = 1 /\ operationIDCounter = 0 /\ burns = <<>> /\ DOMAIN burns = {}
  BY DEF Init
<1>. QED  BY <1>1, InitRInv, BridgeAssumption DEF BInv, OperationIDsUnique

LEMMA BurnBInv ==
  ASSUME BInv, NEW u \in Users, NEW t \in DOMAIN tokens, NEW v \in Amounts, burn(u, v, t)
  PROVE  /\ operationIDCounter' \in 0..MaxUint32
         /\ BurnEvent(u, v, t) \in BurnEvents /\ burns' = Append(burns, BurnEvent(u, v, t))
         /\ burns' \in Seq(BurnEvents)
         /\ \A i \in DOMAIN burns' : burns'[i].fromERC20 \in DOMAIN tokens
         /\ OperationIDsUnique'
<1>. DEFINE e == BurnEvent(u, v, t)
<1>1. /\ burns' = Append(burns, e)
      /\ operationIDCounter' = operationIDCounter + 1
      /\ operationIDCounter = Len(burns) /\ operationIDCounter < MaxUint32
      /\ operationIDCounter \in 0..MaxUint32 /\ burns \in Seq(BurnEvents)
  BY Zenon DEF burn, BInv, OperationIDsUnique
<1>2. e \in BurnEvents /\ e.operationID = Len(burns) /\ e.fromERC20 = t
  <2>1. t \in Addresses /\ baseTokenRegistry[t] \in BaseTokenIDs /\ block \in 1..MaxBlock
    BY Zenon DEF BInv, RInv, RegistryType
  <2>2. operationIDCounter \in Nat
    BY <1>1, BridgeAssumption
  <2>3. e \in BurnEvents
    BY <2>1, <2>2, Zenon DEF BurnEvent, BurnEvents
  <2>. QED  BY <1>1, <2>3, Zenon DEF BurnEvent
<1>. HIDE DEF e
<1>3. operationIDCounter' \in 0..MaxUint32
  BY <1>1, BridgeAssumption
<1>4. /\ burns' \in Seq(BurnEvents) /\ Len(burns') = Len(burns) + 1
      /\ \A i \in DOMAIN burns' : \/ i \in DOMAIN burns /\ burns'[i] = burns[i]
                                  \/ i = Len(burns) + 1 /\ burns'[i] = e
  BY <1>1, <1>2
<1>5. OperationIDsUnique' /\ \A i \in DOMAIN burns' : burns'[i].fromERC20 \in DOMAIN tokens
  BY <1>1, <1>2, <1>4 DEF BInv, OperationIDsUnique
<1>. QED  BY <1>1, <1>2, <1>3, <1>4, <1>5, Zenon DEF e

LEMMA NextBInv == BInv /\ [Next]_vars => BInv'
<1>. SUFFICES ASSUME BInv, [Next]_vars  PROVE BInv'
  OBVIOUS
<1>1. RInv'
  BY NextRInv DEF BInv
<1>2. block' \in 1..MaxBlock
  <2>1. block \in 1..MaxBlock /\ MaxBlock \in Nat
    BY BridgeAssumption, Zenon DEF BInv
  <2>2. block' = block \/ (block < MaxBlock /\ block' = block + 1)
    BY DEF Next, Step, vars, pause, unpause, NewBlock, FeeStep, deployERC20, mint, TokenCall,
           burn, Approve, Transfer
  <2>. QED  BY <2>1, <2>2
<1>3. DOMAIN tokens \subseteq DOMAIN tokens'
  <2>1. ASSUME NEW b \in BaseTokenIDs, NEW a \in WrapperAddresses, deployERC20(b, a)
        PROVE  DOMAIN tokens \subseteq DOMAIN tokens'
    BY <2>1 DEF deployERC20, WithToken
  <2>. QED  BY <2>1, OwnersKept, Zenon
<1>4. CASE \E u \in Users, t \in DOMAIN tokens, v \in Amounts : burn(u, v, t)
  BY <1>1, <1>2, <1>3, <1>4, BurnBInv, Zenon DEF BInv
<1>5. CASE UNCHANGED burnVars
  BY <1>1, <1>2, <1>3, <1>5 DEF burnVars, BInv, OperationIDsUnique
<1>. QED  BY <1>4, <1>5, OnlyBurn

(***************************************************************************)
(* BFTBridge.burn gives every burn an operation id of its own.             *)
(***************************************************************************)
THEOREM BurnsNumbered == Spec => []OperationIDsUnique
<1>1. Spec => []BInv
  BY InitBInv, NextBInv, PTL DEF Spec
<1>. QED  BY <1>1, PTL DEF BInv
-----------------------------------------------------------------------------
(* The ring of each user's burns.                                          *)

\* The wrap of an index that is at most one turn ahead.
Turn(i) == IF i < Width THEN i ELSE i - Width

\* How many of n pushed values the ring still has.
Kept(n) == IF n < Width THEN n ELSE Width - 1

\* The slots from b on hold the latest of the first m elements of s.
Filled(b, V, s, m) ==
    \A i \in 1..Kept(m) : V[Turn(b + (i - 1))] = s[m - Kept(m) + i]

\* The inductive invariant, on the parts of the buffer: until the ring is
\* full begin stays at zero, after that it is one ahead of end.
Holds(b, e, V, s) ==
    /\ s \in Seq(Nat)
    /\ b \in 0..(Width - 1)
    /\ e \in 0..(Width - 1)
    /\ V \in [0..(Width - 1) -> Nat]
    /\ IF Len(s) < Width THEN b = 0 /\ e = Len(s) ELSE b = Turn(e + 1)
    /\ Filled(b, V, s, Len(s))

(* One turn is all an index can be ahead. *)
LEMMA WrapOnce ==
  ASSUME NEW i \in 0..(2 * Width - 1)
  PROVE  Wrap(i) = Turn(i)
<1>. USE WidthAssumption DEF Wrap, Turn
<1>1. CASE i < Width
  BY <1>1
<1>2. CASE i >= Width
  <2>1. i - Width \in 0..(Width - 1) /\ i = (i - Width) + Width
    BY <1>2
  <2>2. (i - Width) % Width = i - Width
    BY <2>1
  <2>. QED  BY <1>2, <2>1, <2>2
<1>. QED  BY <1>1, <1>2

(* One push keeps the invariant. *)
LEMMA PushHolds ==
  ASSUME NEW b, NEW e, NEW V, NEW s, NEW v \in Nat, Holds(b, e, V, s)
  PROVE  Holds(IF b = Turn(e + 1) THEN Turn(b + 1) ELSE b, Turn(e + 1),
               [V EXCEPT ![e] = v], Append(s, v))
<1>. DEFINE b2 == IF b = Turn(e + 1) THEN Turn(b + 1) ELSE b
            e2 == Turn(e + 1)
            V2 == [V EXCEPT ![e] = v]
            s2 == Append(s, v)
            n == Len(s)
<1>. USE WidthAssumption
<1>1. /\ s \in Seq(Nat) /\ n \in Nat
      /\ s2 \in Seq(Nat) /\ Len(s2) = n + 1
      /\ \A i \in 1..n : s2[i] = s[i]
      /\ s2[n + 1] = v
  BY DEF Holds
<1>2. /\ b \in 0..(Width - 1)
      /\ e \in 0..(Width - 1)
      /\ IF n < Width THEN b = 0 /\ e = n ELSE b = Turn(e + 1)
      /\ \A i \in 1..Kept(n) : V[Turn(b + (i - 1))] = s[n - Kept(n) + i]
  BY Zenon DEF Holds, Filled
<1>3. /\ V2 \in [0..(Width - 1) -> Nat]
      /\ V2[e] = v
      /\ \A i \in 0..(Width - 1) : i # e => V2[i] = V[i]
  BY Zenon DEF Holds
<1>4. /\ b2 \in 0..(Width - 1)
      /\ e2 \in 0..(Width - 1)
      /\ IF n + 1 < Width THEN b2 = 0 /\ e2 = n + 1 ELSE b2 = Turn(e2 + 1)
      /\ e2 = Turn(e + 1)
  BY <1>1, <1>2, SMTT(30) DEF Turn
<1>. HIDE DEF b2, e2, V2, s2, n
<1>5. ASSUME NEW i \in 1..Kept(n + 1)
      PROVE  V2[Turn(b2 + (i - 1))] = s2[(n + 1) - Kept(n + 1) + i]
  <2>. DEFINE k == (n + 1) - Kept(n + 1) + i
              j == Turn(b2 + (i - 1))
  <2>1. /\ j \in 0..(Width - 1)
        /\ k \in 1..(n + 1)
        /\ k = n + 1 <=> i = Kept(n + 1)
    <3>1. Kept(n + 1) \in Nat /\ Kept(n + 1) <= n + 1 /\ Kept(n + 1) < Width
      BY <1>1 DEF Kept
    <3>2. j \in 0..(Width - 1)
      BY <1>4, <3>1 DEF Turn
    <3>3. k \in 1..(n + 1)
      BY <1>1, <3>1
    <3>4. k = n + 1 <=> i = Kept(n + 1)
      BY <1>1, <3>1
    <3>. QED  BY <3>2, <3>3, <3>4, Zenon
  <2>2. i = Kept(n + 1) <=> j = e
    BY <1>1, <1>2, <1>4 DEF Turn, Kept
  <2>3. ASSUME i # Kept(n + 1)  PROVE V[j] = s[k]
    <3>. DEFINE i0 == k - n + Kept(n)
    <3>1. i0 \in 1..Kept(n) /\ Turn(b + (i0 - 1)) = j /\ n - Kept(n) + i0 = k
      BY <1>1, <1>2, <1>4, <2>3 DEF Turn, Kept
    <3>. HIDE DEF i0, j, k
    <3>. QED  BY <1>2, <3>1, Zenon
  <2>. HIDE DEF j, k
  <2>4. V2[j] = s2[k]
    <3>1. CASE k = n + 1
      BY <1>1, <1>3, <2>1, <2>2, <3>1, Zenon
    <3>2. CASE k # n + 1
      <4>1. k \in 1..n
        BY <1>1, <2>1, <3>2
      <4>. QED  BY <1>1, <1>3, <2>1, <2>2, <2>3, <3>2, <4>1, Zenon
    <3>. QED  BY <3>1, <3>2, Zenon
  <2>. QED  BY <2>4, Zenon DEF j, k
<1>6. Holds(b2, e2, V2, s2)
  <2>1. Filled(b2, V2, s2, Len(s2))
    <3>1. Filled(b2, V2, s2, n + 1)
      BY <1>5, Zenon DEF Filled
    <3>. QED  BY <1>1, <3>1, Zenon
  <2>2. IF Len(s2) < Width THEN b2 = 0 /\ e2 = Len(s2) ELSE b2 = Turn(e2 + 1)
    BY <1>1, <1>4, Zenon
  <2>. QED  BY <1>1, <1>3, <1>4, <2>1, <2>2, Zenon DEF Holds
<1>. QED  BY <1>6, Zenon DEF b2, e2, V2, s2

(* The invariant holds for the storage of a new contract. *)
LEMMA EmptyHolds == Holds(EmptyBuffer.begin, EmptyBuffer.end, EmptyBuffer.values, <<>>)
<1>. USE WidthAssumption
<1>1. /\ EmptyBuffer.begin = 0 /\ EmptyBuffer.end = 0
      /\ EmptyBuffer.values = [i \in Indices |-> 0]
  BY DEF EmptyBuffer, RingBufferUint32
<1>2. [i \in Indices |-> 0] \in [0..(Width - 1) -> Nat]
  BY DEF Indices
<1>3. Kept(0) = 0 /\ <<>> \in Seq(Nat) /\ Len(<<>>) = 0
  BY DEF Kept
<1>. QED  BY <1>1, <1>2, <1>3 DEF Holds, Filled

(* What a push does to the parts of a buffer. *)
LEMMA PushedHolds ==
  ASSUME NEW buffer, NEW s, NEW v \in Nat,
         Holds(buffer.begin, buffer.end, buffer.values, s)
  PROVE  LET new == push(buffer, v)
         IN  Holds(new.begin, new.end, new.values, Append(s, v))
<1>. DEFINE new == push(buffer, v)
            b == buffer.begin
            e == buffer.end
<1>1. b \in 0..(Width - 1) /\ e \in 0..(Width - 1)
  BY Zenon DEF Holds
<1>2. Wrap(b + 1) = Turn(b + 1) /\ Wrap(e + 1) = Turn(e + 1)
  <2>. HIDE DEF b, e
  <2>1. b + 1 \in 0..(2 * Width - 1) /\ e + 1 \in 0..(2 * Width - 1)
    BY <1>1, WidthAssumption, SMTT(30)
  <2>. QED  BY <2>1, WrapOnce, Zenon
<1>3. /\ new.begin = IF b = Turn(e + 1) THEN Turn(b + 1) ELSE b
      /\ new.end = Turn(e + 1)
      /\ new.values = [buffer.values EXCEPT ![e] = v]
  BY <1>2 DEF push, RingBufferUint32
<1>4. Holds(b, e, buffer.values, s)
  OBVIOUS
<1>. HIDE DEF b, e, new
<1>5. Holds(IF b = Turn(e + 1) THEN Turn(b + 1) ELSE b, Turn(e + 1),
            [buffer.values EXCEPT ![e] = v], Append(s, v))
  BY <1>4, PushHolds, Zenon
<1>6. Holds(new.begin, new.end, new.values, Append(s, v))
  BY <1>3, <1>5, Zenon
<1>. QED  BY <1>6, Zenon DEF new

(* What getAll returns when the invariant holds. *)
LEMMA HoldsGetAll ==
  ASSUME NEW buffer, NEW pushed, Holds(buffer.begin, buffer.end, buffer.values, pushed)
  PROVE  getAll(buffer) = Latest(pushed)
<1>. DEFINE n == Len(pushed)
            V == buffer.values
            b == buffer.begin
            e == buffer.end
<1>. USE WidthAssumption
<1>1. /\ pushed \in Seq(Nat) /\ n \in Nat
      /\ b \in 0..(Width - 1) /\ e \in 0..(Width - 1)
      /\ IF n < Width THEN b = 0 /\ e = n ELSE b = Turn(e + 1)
      /\ \A i \in 1..Kept(n) : V[Turn(b + (i - 1))] = pushed[n - Kept(n) + i]
  BY DEF Holds, Filled
<1>2. size(buffer) = Kept(n)
  BY <1>1, SMTT(30) DEF size, Kept, Turn
<1>3. getAll(buffer) = [i \in 1..Kept(n) |-> V[Wrap(b + (i - 1))]]
  BY <1>2 DEF getAll
<1>. HIDE DEF n, V, b, e
<1>4. \A i \in 1..Kept(n) : b + (i - 1) \in 0..(2 * Width - 1)
  BY <1>1 DEF Kept
<1>5. \A i \in 1..Kept(n) : V[Wrap(b + (i - 1))] = pushed[n - Kept(n) + i]
  BY <1>1, <1>4, WrapOnce, Zenon
<1>6. Latest(pushed) = [i \in 1..Kept(n) |-> pushed[n - Kept(n) + i]]
  <2>1. CASE n < Width
    <3>1. Latest(pushed) = pushed /\ Kept(n) = n
      BY <2>1, Zenon DEF Latest, Kept, n
    <3>2. pushed = [i \in 1..n |-> pushed[i]]
      BY <1>1 DEF n
    <3>3. \A i \in 1..n : n - n + i = i
      BY <1>1
    <3>. QED  BY <3>1, <3>2, <3>3, Zenon
  <2>2. CASE ~(n < Width)
    BY <2>2, Zenon DEF Latest, Kept, n
  <2>. QED  BY <2>1, <2>2, Zenon
<1>. QED  BY <1>3, <1>5, <1>6, Zenon

(* Every rank up to the number of burns is that of a burn. *)
Ranked(u) == \A k \in 1..Cardinality(BurnsOf(u)) :
                \E i \in BurnsOf(u) : Cardinality({j \in BurnsOf(u) : j <= i}) = k

(* One more burn, of u or of another user. *)
LEMMA BlocksAppend ==
  ASSUME burns \in Seq(BurnEvents), NEW e \in BurnEvents, burns' = Append(burns, e),
         NEW u \in Users, Ranked(u)
  PROVE  /\ Ranked(u)'
         /\ BurnBlocks(u)' = IF e.sender = u THEN Append(BurnBlocks(u), e.block)
                                             ELSE BurnBlocks(u)
<1>. DEFINE n == Len(burns)
            S == BurnsOf(u)
            T == BurnsOf(u)'
            c == Cardinality(S)
            R(i) == {j \in S : j <= i}
            Q(i) == {j \in T : j <= i}
            P(k) == CHOOSE i \in S : Cardinality(R(i)) = k
            N(k) == CHOOSE i \in T : Cardinality(Q(i)) = k
            B == BurnBlocks(u)
            D == BurnBlocks(u)'
<1>1. /\ n \in Nat /\ DOMAIN burns = 1..n /\ DOMAIN burns' = 1..(n + 1)
      /\ (\A i \in 1..n : burns'[i] = burns[i] /\ burns[i].block \in Nat) /\ burns'[n + 1] = e
  <2>1. \A x \in BurnEvents : x.block \in Nat
    BY BridgeAssumption DEF BurnEvents
  <2>. QED  BY <2>1
<1>2. /\ S \subseteq 1..n /\ T = IF e.sender = u THEN S \cup {n + 1} ELSE S
  BY <1>1 DEF BurnsOf
<1>3. /\ B = [k \in 1..c |-> burns[P(k)].block]
      /\ D = [k \in 1..Cardinality(T) |-> burns'[N(k)].block]
      /\ \A k \in 1..c : \E i \in S : Cardinality(R(i)) = k
      /\ Ranked(u)' <=> \A k \in 1..Cardinality(T) : \E i \in T : Cardinality(Q(i)) = k
  BY Zenon DEF BurnBlocks, BurnOf, Ranked
<1>. HIDE DEF n, S, T, B, D
<1>4. IsFiniteSet(S) /\ c \in Nat
  <2>1. IsFiniteSet(1..n)
    BY <1>1, FS_Interval
  <2>2. IsFiniteSet(S)
    BY <1>2, <2>1, FS_Subset, Zenon
  <2>. QED  BY <2>2, FS_CardinalityType, Zenon
<1>5. \A i \in S : Cardinality(R(i)) \in Nat /\ Cardinality(R(i)) <= c
  BY <1>4, FS_Subset, FS_CardinalityType
<1>6. \A k \in 1..c : P(k) \in 1..n
  BY <1>2, <1>3, Zenon
<1>7. CASE e.sender = u
  <2>1. T = S \cup {n + 1} /\ n + 1 \notin S
    BY <1>1, <1>2, <1>7
  <2>2. Cardinality(T) = c + 1
    BY <1>4, <2>1, FS_AddElement, Zenon
  <2>3. (\A i \in S : Q(i) = R(i)) /\ Q(n + 1) = T
    <3>1. \A i \in S : i \in 1..n /\ ~(n + 1 <= i) /\ i <= n + 1
      <4>1. n \in Nat /\ S \subseteq 1..n
        BY <1>1, <1>2, Zenon
      <4>. QED  BY ONLY <4>1
    <3>2. n + 1 <= n + 1
      BY <1>1
    <3>. QED  BY <2>1, <3>1, <3>2, Zenon
  <2>. HIDE DEF c, R, Q
  <2>4. \A i \in S : Cardinality(Q(i)) = Cardinality(R(i)) /\ Cardinality(Q(i)) # c + 1
    BY <1>4, <1>5, <2>3
  <2>5. Cardinality(Q(n + 1)) = c + 1
    BY <2>2, <2>3, Zenon
  <2>6. \A k \in 1..c : N(k) = P(k)
    <3>. SUFFICES ASSUME NEW k \in 1..c  PROVE N(k) = P(k)
      OBVIOUS
    <3>1. k # c + 1
      BY <1>4
    <3>2. \A i : (i \in T /\ Cardinality(Q(i)) = k) <=> (i \in S /\ Cardinality(R(i)) = k)
      BY <2>1, <2>4, <2>5, <3>1, Zenon
    <3>. QED  BY <3>2
  <2>7. N(c + 1) = n + 1
    BY <2>1, <2>4, <2>5, Zenon
  <2>8. Ranked(u)'
    BY <1>3, <1>4, <2>1, <2>2, <2>4, <2>5
  <2>. HIDE DEF P, N
  <2>9. B = [k \in 1..c |-> burns[P(k)].block] /\ D = [k \in 1..(c + 1) |-> burns'[N(k)].block]
    BY <1>3, <2>2
  <2>10. B \in [1..c -> Nat] /\ DOMAIN D = 1..(c + 1) /\ D = [k \in 1..(c + 1) |-> D[k]]
    BY <1>1, <1>6, <2>9, Zenon
  <2>11. (\A k \in 1..c : D[k] = B[k]) /\ D[c + 1] = e.block
    <3>1. (\A k \in 1..c : k \in 1..(c + 1)) /\ c + 1 \in 1..(c + 1)
      BY <1>4
    <3>. QED  BY <1>1, <1>6, <2>6, <2>7, <2>9, <3>1, Zenon
  <2>12. B \in Seq(Nat) /\ Len(B) = c
    BY <1>4, <2>10, SMTT(30)
  <2>13. D = Append(B, e.block)
    <3>. DEFINE A == Append(B, e.block)
    <3>1. A \in Seq(Nat) /\ Len(A) = c + 1 /\ DOMAIN A = 1..(c + 1)
          /\ (\A k \in 1..c : A[k] = B[k]) /\ A[c + 1] = e.block
      <4>1. e.block \in Nat
        BY BridgeAssumption DEF BurnEvents
      <4>. QED  BY <1>4, <2>12, <4>1
    <3>. HIDE DEF A
    <3>2. \A k \in 1..(c + 1) : k \in 1..c \/ k = c + 1
      BY <1>4
    <3>3. \A k \in 1..(c + 1) : D[k] = A[k]
      BY <2>11, <3>1, <3>2, Zenon
    <3>4. D = A
      <4>1. A = [k \in 1..(c + 1) |-> A[k]]
        BY <3>1
      <4>. QED  BY <2>10, <3>3, <4>1, Zenon
    <3>. QED  BY <3>4 DEF A
  <2>. QED  BY <1>7, <2>8, <2>13, Zenon DEF B, D
<1>8. CASE e.sender # u
  <2>1. T = S
    BY <1>2, <1>8
  <2>2. Ranked(u)' /\ Cardinality(T) = c /\ \A k : N(k) = P(k)
    BY <1>3, <2>1, Zenon
  <2>. HIDE DEF c, P, N
  <2>3. D = [k \in 1..c |-> burns'[P(k)].block] /\ B = [k \in 1..c |-> burns[P(k)].block]
    BY <1>3, <2>2, Zenon
  <2>4. \A k \in 1..c : burns'[P(k)] = burns[P(k)]
    BY <1>1, <1>6
  <2>5. D = B
    BY <2>3, <2>4, Zenon
  <2>. QED  BY <1>8, <2>2, <2>5, Zenon DEF B, D
<1>. QED  BY <1>7, <1>8, Zenon

UserHolds(u) == /\ Ranked(u)
                /\ Holds(lastUserBurns[u].begin, lastUserBurns[u].end,
                         lastUserBurns[u].values, BurnBlocks(u))

DInv == /\ BInv
        /\ DOMAIN lastUserBurns = Users
        /\ \A u \in Users : UserHolds(u)

LEMMA InitDInv == Init => DInv
<1>. SUFFICES ASSUME Init, NEW u \in Users  PROVE UserHolds(u)
  BY InitBInv, Zenon DEF DInv, Init
<1>1. burns = <<>> /\ lastUserBurns[u] = EmptyBuffer
  BY Zenon DEF Init
<1>2. BurnsOf(u) = {}
  BY <1>1 DEF BurnsOf
<1>3. Cardinality(BurnsOf(u)) = 0
  BY <1>2, FS_EmptySet, Zenon
<1>4. Ranked(u) /\ BurnBlocks(u) = <<>>
  BY <1>3 DEF Ranked, BurnBlocks
<1>. QED  BY <1>1, <1>4, EmptyHolds DEF UserHolds

LEMMA NextDInv == DInv /\ [Next]_vars => DInv'
<1>. SUFFICES ASSUME DInv, [Next]_vars  PROVE DInv'
  OBVIOUS
<1>1. BInv'
  BY NextBInv, Zenon DEF DInv
<1>2. CASE UNCHANGED burnVars
  <2>1. lastUserBurns' = lastUserBurns /\ burns' = burns
    BY <1>2, Zenon DEF burnVars
  <2>2. \A u : BurnBlocks(u)' = BurnBlocks(u) /\ (Ranked(u)' <=> Ranked(u))
    BY <2>1 DEF Ranked, BurnBlocks, BurnOf, BurnsOf
  <2>3. \A u : UserHolds(u)' <=> UserHolds(u)
    BY <2>1, <2>2, Zenon DEF UserHolds
  <2>. QED  BY <1>1, <2>1, <2>3, Zenon DEF DInv
<1>3. ASSUME NEW w \in Users, NEW t \in DOMAIN tokens, NEW v \in Amounts, burn(w, v, t)
      PROVE  DInv'
  <2>. DEFINE e == BurnEvent(w, v, t)
  <2>1. /\ burns \in Seq(BurnEvents) /\ e \in BurnEvents /\ burns' = Append(burns, e)
        /\ e.sender = w /\ e.block = block /\ block \in Nat
    <3>1. e \in BurnEvents /\ burns' = Append(burns, e)
      BY <1>3, BurnBInv, ZenonT(60) DEF DInv
    <3>2. e.sender = w /\ e.block = block
      BY Zenon DEF BurnEvent
    <3>3. burns \in Seq(BurnEvents) /\ block \in Nat
      BY BridgeAssumption DEF DInv, BInv
    <3>. QED  BY <3>1, <3>2, <3>3, Zenon
  <2>2. lastUserBurns' = [lastUserBurns EXCEPT ![w] = push(lastUserBurns[w], block)]
    BY <1>3, Zenon DEF burn
  <2>. HIDE DEF e
  <2>3. ASSUME NEW u \in Users  PROVE UserHolds(u)'
    <3>1. /\ Ranked(u)'
          /\ BurnBlocks(u)' = IF w = u THEN Append(BurnBlocks(u), block) ELSE BurnBlocks(u)
      BY <2>1, BlocksAppend, Zenon DEF DInv, UserHolds
    <3>2. CASE w = u
      <4>1. lastUserBurns'[u] = push(lastUserBurns[u], block)
        BY <2>2, <3>2 DEF DInv
      <4>2. LET new == push(lastUserBurns[u], block)
            IN  Holds(new.begin, new.end, new.values, Append(BurnBlocks(u), block))
        BY <2>1, PushedHolds, Zenon DEF DInv, UserHolds
      <4>. QED  BY <3>1, <3>2, <4>1, <4>2, Zenon DEF UserHolds
    <3>3. CASE w # u
      <4>1. lastUserBurns'[u] = lastUserBurns[u]
        BY <2>2, <3>3, Zenon DEF DInv
      <4>. QED  BY <3>1, <3>3, <4>1, Zenon DEF UserHolds, DInv
    <3>. QED  BY <3>2, <3>3, Zenon
  <2>4. DOMAIN lastUserBurns' = Users
    BY <2>2, SMTT(30) DEF DInv
  <2>. QED  BY <1>1, <2>3, <2>4, Zenon DEF DInv
<1>. QED  BY <1>2, <1>3, OnlyBurn, Zenon

(***************************************************************************)
(* getDepositBlocks tells every user the blocks of their latest burns, for *)
(* every width of the ring's index type (256 in the code), any number of   *)
(* users and burns, before and after the ring wraps.                       *)
(***************************************************************************)
THEOREM DepositBlocksCorrect == Spec => []DepositBlocks
<1>1. Spec => []DInv
  BY InitDInv, NextDInv, PTL DEF Spec
<1>2. DInv => DepositBlocks
  BY HoldsGetAll DEF DInv, UserHolds, DepositBlocks
<1>. QED  BY <1>1, <1>2, PTL
=============================================================================
