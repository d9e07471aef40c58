--------------------------- MODULE BftTokenProofs ---------------------------
(***************************************************************************)
(* Proofs about the money of BftBridge: the fee contract's deposits and    *)
(* the tokens, for any set of users, tokens and orders.                    *)
(***************************************************************************)
EXTENDS BftBridgeProofs, SumLemmas

(* The fee contract.                                                       *)

FInv == FeeTypeOK /\ FeesSolvent

LEMMA InitFInv == FeeInit => FInv
<1>. SUFFICES ASSUME FeeInit  PROVE FInv
  OBVIOUS
<1>1. FeeTypeOK
  BY FeeAssumption DEF FeeInit, FeeTypeOK
<1>2. DOMAIN userBalance = Payers /\ \A u \in Payers : userBalance[u] = 0
  BY DEF FeeInit
<1>3. SumFunction(userBalance) = 0
  BY <1>2, FeeAssumption, SumZero DEF SumFunction
<1>4. coins[FeeContract] = 0
  BY FeeAssumption DEF FeeInit, Holders
<1>. QED  BY <1>1, <1>3, <1>4 DEF FInv, FeesSolvent

(* The contract has what a payer may withdraw. *)
LEMMA SolventFor ==
  ASSUME FInv
  PROVE  /\ SumFunction(userBalance) \in Nat /\ coins[FeeContract] \in Nat
         /\ coins[FeeContract] >= SumFunction(userBalance)
         /\ \A u \in Payers : userBalance[u] \in Nat /\ userBalance[u] <= SumFunction(userBalance)
<1>1. /\ DOMAIN userBalance = Payers /\ IsFiniteSet(Payers)
      /\ \A u \in Payers : userBalance[u] \in Nat /\ userBalance[u] \in Int /\ userBalance[u] >= 0
  BY FeeAssumption DEF FInv, FeeTypeOK
<1>2. SumFunction(userBalance) \in Nat
  <2>1. SumFunctionOnSet(userBalance, Payers) \in Int /\ SumFunctionOnSet(userBalance, Payers) >= 0
    BY <1>1, SumInt
  <2>. QED  BY <1>1, <2>1 DEF SumFunction
<1>3. \A u \in Payers : userBalance[u] <= SumFunction(userBalance)
  BY <1>1, SumBound DEF SumFunction
<1>4. coins[FeeContract] \in Nat
  BY DEF FInv, FeeTypeOK, Holders
<1>. QED  BY <1>1, <1>2, <1>3, <1>4 DEF FInv, FeesSolvent

(* A payer's balance and the contract's coins change by the same amount or *)
(* the coins by more.                                                      *)
LEMMA FeeChange ==
  ASSUME FInv, NEW u \in Payers, NEW d \in Int, NEW e \in Int, d <= e,
         userBalance' \in [Payers -> Nat], userBalance'[u] = userBalance[u] + d,
         \A x \in Payers : x # u => userBalance'[x] = userBalance[x],
         coins' \in [Holders -> Nat], coins'[FeeContract] = coins[FeeContract] + e,
         approvedIDs' \in [Payers -> SUBSET SenderIDs]
  PROVE  FInv'
<1>1. /\ userBalance \in [Payers -> Int] /\ userBalance' \in [Payers -> Int]
      /\ userBalance[u] \in Nat /\ userBalance'[u] \in Nat
  BY DEF FInv, FeeTypeOK
<1>2. SumFunction(userBalance') = SumFunction(userBalance) - userBalance[u] + userBalance'[u]
  BY <1>1, FeeAssumption, SumUpdate
<1>3. FeesSolvent'
  BY <1>1, <1>2, SolventFor DEF FeesSolvent
<1>. QED  BY <1>3 DEF FInv, FeeTypeOK

LEMMA DepositFInv ==
  ASSUME FInv, NEW u \in Payers, NEW ids \in SUBSET SenderIDs, NEW v \in Sums,
         nativeTokenDeposit(u, ids, v)
  PROVE  FInv'
<1>1. v \in Nat /\ u # FeeContract /\ coins \in [Holders -> Nat] /\ {u, FeeContract} \subseteq Holders
      /\ approvedIDs \in [Payers -> SUBSET SenderIDs] /\ userBalance \in [Payers -> Nat]
  BY FeeAssumption DEF FInv, FeeTypeOK, Holders
<1>2. coins' = [coins EXCEPT ![u] = coins[u] - v, ![FeeContract] = coins[FeeContract] + v]
      /\ coins[u] >= v
  BY <1>1 DEF nativeTokenDeposit, Pay
<1>3. coins' \in [Holders -> Nat] /\ coins'[FeeContract] = coins[FeeContract] + v
  BY <1>1, <1>2
<1>4. approvedIDs' \in [Payers -> SUBSET SenderIDs]
      /\ userBalance' = [userBalance EXCEPT ![u] = userBalance[u] + v]
  BY <1>1 DEF nativeTokenDeposit
<1>5. /\ userBalance' \in [Payers -> Nat] /\ userBalance'[u] = userBalance[u] + v
      /\ \A x \in Payers : x # u => userBalance'[x] = userBalance[x]
      /\ v \in Int /\ v <= v
  BY <1>1, <1>4
<1>. QED  BY <1>3, <1>4, <1>5, FeeChange, Zenon

LEMMA WithdrawFInv ==
  ASSUME FInv, NEW u \in Payers, NEW a \in Sums, NEW v \in Sums \cup {0},
         nativeTokenWithdraw(u, a, v)
  PROVE  FInv'
<1>1. a \in Nat /\ v \in Nat /\ u # FeeContract /\ coins \in [Holders -> Nat]
      /\ {u, FeeContract} \subseteq Holders /\ approvedIDs \in [Payers -> SUBSET SenderIDs]
      /\ userBalance \in [Payers -> Nat]
  BY FeeAssumption DEF FInv, FeeTypeOK, Holders
<1>2. coins' = [coins EXCEPT ![u] = coins[u] - v + a, ![FeeContract] = coins[FeeContract] + v - a]
      /\ coins[u] >= v /\ userBalance[u] >= a /\ UNCHANGED approvedIDs
      /\ userBalance' = [userBalance EXCEPT ![u] = userBalance[u] - a]
  BY <1>1, Zenon DEF nativeTokenWithdraw
<1>3. userBalance[u] \in Nat /\ userBalance[u] <= coins[FeeContract]
  BY SolventFor
<1>4. coins' \in [Holders -> Nat] /\ coins'[FeeContract] = coins[FeeContract] + (v - a)
  BY <1>1, <1>2, <1>3
<1>5. /\ userBalance' \in [Payers -> Nat] /\ userBalance'[u] = userBalance[u] + (-a)
      /\ \A x \in Payers : x # u => userBalance'[x] = userBalance[x]
      /\ -a <= v - a /\ -a \in Int /\ v - a \in Int
  BY <1>1, <1>2, <1>3
<1>. QED  BY <1>1, <1>2, <1>4, <1>5, FeeChange, Zenon

LEMMA ChargeFInv ==
  ASSUME FInv, NEW sender, NEW from, NEW id, NEW a \in Sums, chargeFee(sender, from, id, a)
  PROVE  FInv'
<1>1. a \in Nat /\ from \in Payers /\ coins \in [Holders -> Nat] /\ Collector # FeeContract
      /\ {Collector, FeeContract} \subseteq Holders /\ approvedIDs \in [Payers -> SUBSET SenderIDs]
      /\ userBalance \in [Payers -> Nat]
  BY FeeAssumption, Zenon DEF FInv, FeeTypeOK, Holders, chargeFee
<1>2. coins' = [coins EXCEPT ![FeeContract] = coins[FeeContract] - a,
                             ![Collector] = coins[Collector] + a]
      /\ userBalance[from] >= a /\ UNCHANGED approvedIDs
      /\ userBalance' = [userBalance EXCEPT ![from] = userBalance[from] - a]
  BY <1>1 DEF chargeFee, Pay
<1>3. userBalance[from] \in Nat /\ userBalance[from] <= coins[FeeContract]
  BY <1>1, SolventFor
<1>4. coins' \in [Holders -> Nat] /\ coins'[FeeContract] = coins[FeeContract] + (-a)
  BY <1>1, <1>2, <1>3
<1>5. /\ userBalance' \in [Payers -> Nat] /\ userBalance'[from] = userBalance[from] + (-a)
      /\ \A x \in Payers : x # from => userBalance'[x] = userBalance[x]
      /\ -a \in Int /\ -a <= -a
  BY <1>1, <1>2, <1>3
<1>. QED  BY <1>1, <1>2, <1>4, <1>5, FeeChange, Zenon

LEMMA NextFInv == FInv /\ [Next]_vars => FInv'
<1>. SUFFICES ASSUME FInv, [Next]_vars  PROVE FInv'
  OBVIOUS
<1>1. CASE UNCHANGED feeVars
  BY <1>1, Zenon DEF feeVars, FInv, FeeTypeOK, FeesSolvent
<1>2. CASE FeeUser
  <2>1. ASSUME NEW u \in Payers, NEW ids \in SUBSET SenderIDs, removeApprovedSenderIDs(u, ids)
        PROVE  FInv'
    BY <2>1, Zenon DEF removeApprovedSenderIDs, FInv, FeeTypeOK, FeesSolvent
  <2>. QED  BY <1>2, <2>1, DepositFInv, WithdrawFInv, Zenon DEF FeeUser
<1>3. ASSUME NEW s, NEW o \in Orders, NEW fee \in Sums, mint(s, o, fee)  PROVE FInv'
  <2>1. chargeFee(Bridge, o.feePayer, o.senderID, fee) \/ UNCHANGED feeVars
    BY <1>3 DEF mint
  <2>. QED  BY <1>1, <2>1, ChargeFInv, Zenon
<1>. QED  BY <1>1, <1>2, <1>3 DEF Next, Step, vars, pause, unpause, NewBlock, FeeStep,
             deployERC20, TokenCall, burn, Approve, Transfer

(***************************************************************************)
(* FeeCharge can always pay out every deposit that it records, for any     *)
(* payers and amounts, with whatever is sent along with a withdrawal and   *)
(* whichever mints are charged.                                            *)
(***************************************************************************)
THEOREM FeesStaySolvent == Spec => []FeesSolvent
<1>1. Init => FInv
  BY InitFInv DEF Init
<1>2. Spec => []FInv
  BY <1>1, NextFInv, PTL DEF Spec
<1>. QED  BY <1>2, PTL DEF FInv
-----------------------------------------------------------------------------
(* The tokens.                                                             *)

Balances == [Accounts -> Nat]

(* One balance and the sum of them all change by the same amount. *)
LEMMA BalanceChange ==
  ASSUME NEW f \in Balances, NEW g \in Balances, NEW y \in Accounts, NEW d \in Int,
         g[y] = f[y] + d, \A x \in Accounts : x # y => g[x] = f[x]
  PROVE  /\ SumFunction(f) \in Nat /\ SumFunction(g) \in Nat
         /\ SumFunction(g) = SumFunction(f) + d
<1>1. f \in [Accounts -> Int] /\ g \in [Accounts -> Int] /\ f[y] \in Nat /\ g[y] \in Nat
      /\ IsFiniteSet(Accounts)
  BY BridgeAssumption DEF Balances
<1>2. SumFunction(g) = SumFunction(f) - f[y] + g[y]
  BY <1>1, SumUpdate
<1>3. ASSUME NEW h \in Balances  PROVE SumFunction(h) \in Nat
  <2>1. DOMAIN h = Accounts /\ \A x \in Accounts : h[x] \in Int /\ h[x] >= 0
    BY DEF Balances
  <2>2. SumFunctionOnSet(h, Accounts) \in Int /\ SumFunctionOnSet(h, Accounts) >= 0
    BY <1>1, <2>1, SumInt, Zenon
  <2>. QED  BY <2>1, <2>2 DEF SumFunction
<1>. QED  BY <1>1, <1>2, <1>3

LEMMA BalanceWithin ==
  ASSUME NEW f \in Balances, NEW y \in Accounts
  PROVE  f[y] <= SumFunction(f)
<1>1. DOMAIN f = Accounts /\ (\A x \in Accounts : f[x] \in Nat) /\ IsFiniteSet(Accounts)
  BY BridgeAssumption, Zenon DEF Balances
<1>2. f[y] <= SumFunctionOnSet(f, Accounts)
  BY <1>1, SumBound, Zenon
<1>. QED  BY <1>1, <1>2, Zenon DEF SumFunction

LEMMA Credit ==
  ASSUME NEW f \in Balances, NEW to \in Accounts, NEW v \in Nat
  PROVE  LET g == [f EXCEPT ![to] = @ + v]
         IN  /\ g \in Balances /\ SumFunction(g) = SumFunction(f) + v
             /\ \A x \in Accounts : g[x] >= f[x]
<1>. DEFINE g == [f EXCEPT ![to] = @ + v]
<1>1. /\ g \in Balances /\ g[to] = f[to] + v
      /\ (\A x \in Accounts : x # to => g[x] = f[x]) /\ \A x \in Accounts : f[x] \in Nat
  BY DEF Balances
<1>. HIDE DEF g
<1>2. SumFunction(g) = SumFunction(f) + v
  BY <1>1, BalanceChange
<1>3. \A x \in Accounts : g[x] >= f[x]
  BY <1>1
<1>. QED  BY <1>1, <1>2, <1>3 DEF g

LEMMA Debit ==
  ASSUME NEW f \in Balances, NEW from \in Accounts, NEW v \in Nat, f[from] >= v
  PROVE  LET g == [f EXCEPT ![from] = @ - v]
         IN  /\ g \in Balances /\ SumFunction(g) = SumFunction(f) - v
             /\ SumFunction(f) \in Nat /\ SumFunction(g) \in Nat
             /\ g[from] = f[from] - v /\ \A x \in Accounts : x # from => g[x] = f[x]
<1>. DEFINE g == [f EXCEPT ![from] = @ - v]
<1>1. /\ g \in Balances /\ g[from] = f[from] + (-v) /\ -v \in Int
      /\ g[from] = f[from] - v
      /\ \A x \in Accounts : x # from => g[x] = f[x]
  BY DEF Balances
<1>. HIDE DEF g
<1>2. SumFunction(f) \in Nat /\ SumFunction(g) \in Nat /\ SumFunction(g) = SumFunction(f) + (-v)
  BY <1>1, BalanceChange, Zenon
<1>. QED  BY <1>1, <1>2, Zenon DEF g

(* A transfer keeps the sum, and takes from the sender only. *)
LEMMA MoveKeeps ==
  ASSUME NEW f \in Balances, NEW from \in Accounts, NEW to \in Accounts, NEW v \in Nat,
         f[from] >= v
  PROVE  LET m == Move(f, from, to, v)
         IN  /\ m \in Balances /\ SumFunction(m) = SumFunction(f)
             /\ m[from] >= f[from] - v
             /\ \A x \in Accounts : x # from => m[x] >= f[x]
             /\ from # to => m[to] = f[to] + v
<1>. DEFINE g == [f EXCEPT ![from] = @ - v]
            m == [g EXCEPT ![to] = @ + v]
<1>1. /\ g \in Balances /\ SumFunction(g) = SumFunction(f) - v
      /\ SumFunction(f) \in Nat /\ SumFunction(g) \in Nat
      /\ g[from] = f[from] - v /\ \A x \in Accounts : x # from => g[x] = f[x]
  BY Debit
<1>. HIDE DEF g
<1>2. /\ m \in Balances /\ SumFunction(m) = SumFunction(g) + v
      /\ \A x \in Accounts : m[x] >= g[x]
  BY <1>1, Credit, Zenon
<1>3. m[to] = g[to] + v
  BY <1>1, Zenon DEF Balances
<1>4. Move(f, from, to, v) = m
  BY Zenon DEF Move, g
<1>. HIDE DEF m
<1>5. SumFunction(m) = SumFunction(f)
  BY <1>1, <1>2
<1>6. m[from] >= f[from] - v /\ (\A x \in Accounts : x # from => m[x] >= f[x])
  BY <1>1, <1>2, Zenon
<1>7. from # to => m[to] = f[to] + v
  BY <1>1, <1>3, Zenon
<1>. QED  BY <1>2, <1>4, <1>5, <1>6, <1>7, Zenon
(* The part of EventsMatchSupply for a token of which m was minted and b   *)
(* burnt.                                                                  *)
Accounted(t, m, b) ==
    /\ t.totalSupply = SumFunction(t.balance)
    /\ IF t.owner = Bridge THEN t.totalSupply = m - b ELSE t.balance[Bridge] >= b - m

LEMMA TokenParts ==
  ASSUME NEW owner \in {Bridge, NoOwner}, NEW supply \in Nat, NEW balance \in Balances,
         NEW allowance \in [Accounts -> [Accounts -> Nat]]
  PROVE  LET t == Token(owner, supply, balance, allowance)
         IN  /\ t \in Tokens /\ t.owner = owner /\ t.totalSupply = supply
             /\ t.balance = balance /\ t.allowance = allowance
  BY DEF Token, Tokens, Balances

LEMMA TokenFields ==
  ASSUME NEW t \in Tokens
  PROVE  /\ t.owner \in {Bridge, NoOwner} /\ t.totalSupply \in Nat /\ t.balance \in Balances
         /\ t.allowance \in [Accounts -> [Accounts -> Nat]]
  BY Zenon DEF Tokens, Balances

LEMMA ApproveToken ==
  ASSUME NEW t \in Tokens, NEW m, NEW b, Accounted(t, m, b), NEW from, NEW spender, NEW v \in Nat
  PROVE  approve(t, from, spender, v) \in Tokens /\ Accounted(approve(t, from, spender, v), m, b)
<1>. DEFINE a == [t.allowance EXCEPT ![from][spender] = v]
<1>1. a \in [Accounts -> [Accounts -> Nat]]
  BY TokenFields, Zenon
<1>. HIDE DEF a
<1>2. approve(t, from, spender, v) = Token(t.owner, t.totalSupply, t.balance, a)
  BY Zenon DEF approve, a
<1>. QED  BY <1>1, <1>2, TokenFields, TokenParts DEF Accounted

(* A holder's transfer takes nothing from the bridge. *)
LEMMA HolderTransfer ==
  ASSUME NEW t \in Tokens, NEW m \in Int, NEW b \in Int, Accounted(t, m, b),
         NEW u \in Users, NEW to \in Accounts, NEW v \in Nat, CanTransfer(t, u, to, v)
  PROVE  transfer(t, u, to, v) \in Tokens /\ Accounted(transfer(t, u, to, v), m, b)
<1>. DEFINE f == Move(t.balance, u, to, v)
<1>1. u \in Accounts /\ Bridge \in Accounts /\ u # Bridge /\ u # t.owner
  BY TokenFields, BridgeAssumption, Zenon
<1>2. t.balance[u] >= v /\ transfer(t, u, to, v) = Token(t.owner, t.totalSupply, f, t.allowance)
  BY <1>1, Zenon DEF CanTransfer, transfer
<1>3. f \in Balances /\ SumFunction(f) = SumFunction(t.balance) /\ f[Bridge] >= t.balance[Bridge]
  BY <1>1, <1>2, TokenFields, MoveKeeps
<1>. HIDE DEF f
<1>4. t.balance[Bridge] \in Nat /\ f[Bridge] \in Nat
  BY <1>1, <1>3, TokenFields, Zenon DEF Balances
<1>5. f[Bridge] >= b - m \/ ~(t.balance[Bridge] >= b - m)
  BY <1>3, <1>4
<1>. QED  BY <1>2, <1>3, <1>5, TokenFields, TokenParts, SMTT(30) DEF Accounted

(* The transfer of a mint is the bridge's: it mints, or takes from what    *)
(* the bridge holds.                                                       *)
LEMMA BridgeTransfer ==
  ASSUME NEW t \in Tokens, NEW m \in Int, NEW b \in Int, Accounted(t, m, b),
         NEW to, NEW v \in Nat, CanTransfer(t, Bridge, to, v)
  PROVE  transfer(t, Bridge, to, v) \in Tokens /\ Accounted(transfer(t, Bridge, to, v), m + v, b)
<1>1. to \in Accounts /\ Bridge \in Accounts
  BY BridgeAssumption, Zenon DEF CanTransfer
<1>2. CASE t.owner = Bridge
  <2>. DEFINE f == [t.balance EXCEPT ![to] = @ + v]
  <2>1. f \in Balances /\ SumFunction(f) = SumFunction(t.balance) + v
    BY <1>1, TokenFields, Credit, Zenon
  <2>2. transfer(t, Bridge, to, v) = Token(t.owner, t.totalSupply + v, f, t.allowance)
    BY <1>2, Zenon DEF transfer
  <2>. HIDE DEF f
  <2>3. t.totalSupply \in Nat /\ t.totalSupply + v \in Nat /\ t.totalSupply = m - b
        /\ t.totalSupply = SumFunction(t.balance)
    BY <1>2, TokenFields DEF Accounted
  <2>4. t.totalSupply + v = (m + v) - b
    BY <2>3, SMTT(30)
  <2>. QED  BY <1>2, <2>1, <2>2, <2>3, <2>4, TokenFields, TokenParts, SMTT(30) DEF Accounted
<1>3. CASE t.owner # Bridge
  <2>. DEFINE f == Move(t.balance, Bridge, to, v)
  <2>1. t.balance[Bridge] >= v /\ transfer(t, Bridge, to, v) = Token(t.owner, t.totalSupply, f, t.allowance)
    BY <1>3, Zenon DEF CanTransfer, transfer
  <2>2. f \in Balances /\ SumFunction(f) = SumFunction(t.balance) /\ f[Bridge] >= t.balance[Bridge] - v
    BY <1>1, <2>1, TokenFields, MoveKeeps
  <2>. HIDE DEF f
  <2>3. t.balance[Bridge] \in Nat /\ f[Bridge] \in Nat /\ t.balance[Bridge] >= b - m
    BY <1>1, <1>3, <2>2, TokenFields, Zenon DEF Balances, Accounted
  <2>4. f[Bridge] >= b - (m + v)
    BY <2>2, <2>3
  <2>. QED  BY <1>3, <2>1, <2>2, <2>4, TokenFields, TokenParts, SMTT(30) DEF Accounted
<1>. QED  BY <1>2, <1>3, Zenon

LEMMA MintToken ==
  ASSUME NEW t \in Tokens, NEW m \in Int, NEW b \in Int, Accounted(t, m, b),
         NEW o \in Orders, CanTransfer(t, Bridge, o.recipient, o.amount)
  PROVE  Minted(t, o) \in Tokens /\ Accounted(Minted(t, o), m + o.amount, b)
<1>. DEFINE p == transfer(t, Bridge, o.recipient, o.amount)
<1>1. o.amount \in Nat /\ o.approveAmount \in Nat
  BY BridgeAssumption, Zenon
<1>2. p \in Tokens /\ Accounted(p, m + o.amount, b)
  BY <1>1, BridgeTransfer, Zenon
<1>3. Minted(t, o) \in {p, approve(p, o.recipient, o.approveSpender, o.approveAmount)}
  BY Zenon DEF Minted, approveByOwner
<1>. HIDE DEF p
<1>4. /\ approve(p, o.recipient, o.approveSpender, o.approveAmount) \in Tokens
      /\ Accounted(approve(p, o.recipient, o.approveSpender, o.approveAmount), m + o.amount, b)
  BY <1>1, <1>2, ApproveToken, Zenon
<1>. QED  BY <1>2, <1>3, <1>4, Zenon

(* The transferFrom of a burn burns a wrapper, and locks a plain token. *)
LEMMA BurnToken ==
  ASSUME NEW t \in Tokens, NEW m \in Int, NEW b \in Int, Accounted(t, m, b),
         NEW u \in Users, NEW v \in Nat, CanTransferFrom(t, Bridge, u, v)
  PROVE  /\ transferFrom(t, Bridge, u, Bridge, v) \in Tokens
         /\ Accounted(transferFrom(t, Bridge, u, Bridge, v), m, b + v)
<1>. DEFINE a == [t.allowance EXCEPT ![u][Bridge] = @ - v]
<1>1. u \in Accounts /\ Bridge \in Accounts /\ u # Bridge /\ t.balance[u] >= v
      /\ t.allowance[u][Bridge] >= v
  BY BridgeAssumption, Zenon DEF CanTransferFrom
<1>2. a \in [Accounts -> [Accounts -> Nat]]
  BY <1>1, TokenFields, SMTT(30)
<1>3. CASE t.owner = Bridge
  <2>. DEFINE f == [t.balance EXCEPT ![u] = @ - v]
  <2>1. f \in Balances /\ SumFunction(f) = SumFunction(t.balance) - v /\ SumFunction(f) \in Nat
    BY <1>1, TokenFields, Debit, SMTT(30)
  <2>2. transferFrom(t, Bridge, u, Bridge, v) = Token(t.owner, t.totalSupply - v, f, a)
    BY <1>3, Zenon DEF transferFrom
  <2>. HIDE DEF f, a
  <2>3. t.totalSupply \in Nat /\ t.totalSupply = m - b /\ t.totalSupply = SumFunction(t.balance)
    BY <1>3, TokenFields, Zenon DEF Accounted
  <2>4. t.totalSupply - v = m - (b + v) /\ t.totalSupply - v = SumFunction(f)
    BY <2>1, <2>3, SMTT(30)
  <2>. QED  BY <1>2, <1>3, <2>1, <2>2, <2>4, TokenFields, TokenParts, SMTT(30) DEF Accounted
<1>4. CASE t.owner # Bridge
  <2>. DEFINE f == Move(t.balance, u, Bridge, v)
  <2>1. f \in Balances /\ SumFunction(f) = SumFunction(t.balance) /\ f[Bridge] = t.balance[Bridge] + v
    BY <1>1, TokenFields, MoveKeeps, SMTT(30)
  <2>2. transferFrom(t, Bridge, u, Bridge, v) = Token(t.owner, t.totalSupply, f, a)
    BY <1>4, Zenon DEF transferFrom
  <2>. HIDE DEF f, a
  <2>3. t.balance[Bridge] \in Nat /\ t.balance[Bridge] >= b - m
    BY <1>1, <1>4, TokenFields, Zenon DEF Balances, Accounted
  <2>4. f[Bridge] >= (b + v) - m
    BY <2>1, <2>3
  <2>. QED  BY <1>2, <1>4, <2>1, <2>2, <2>4, TokenFields, TokenParts, SMTT(30) DEF Accounted
<1>. QED  BY <1>3, <1>4, Zenon
-----------------------------------------------------------------------------
(* The events account for the tokens.                                      *)

AmountsOf(s) == [i \in DOMAIN s |-> s[i].amount]

LEMMA MintsAdd ==
  ASSUME NEW S, mints \in Seq(S), \A i \in DOMAIN mints : mints[i].amount \in Nat,
         NEW e \in S, e.amount \in Nat, mints' = Append(mints, e), NEW t
  PROVE  /\ MintedOf(t) \in Int
         /\ MintedOf(t)' = IF e.toERC20 = t THEN MintedOf(t) + e.amount ELSE MintedOf(t)
<1>. DEFINE I == {i \in DOMAIN mints : mints[i].toERC20 = t}
            J == {i \in DOMAIN mints' : mints'[i].toERC20 = t}
            n == Len(mints)
            f == AmountsOf(mints)
            g == AmountsOf(mints')
<1>1. /\ n \in Nat /\ DOMAIN mints = 1..n /\ DOMAIN mints' = 1..(n + 1)
      /\ \A i \in 1..n : mints'[i] = mints[i] /\ f[i] \in Int /\ g[i] = f[i]
      /\ mints'[n + 1] = e /\ g[n + 1] = e.amount
  <2>1. /\ n \in Nat /\ DOMAIN mints = 1..n /\ DOMAIN mints' = 1..(n + 1)
        /\ (\A i \in 1..n : mints'[i] = mints[i]) /\ mints'[n + 1] = e
    OBVIOUS
  <2>. QED  BY <2>1 DEF AmountsOf
<1>. HIDE DEF f, g, n
<1>2. I \subseteq 1..n /\ J = IF e.toERC20 = t THEN I \cup {n + 1} ELSE I
  BY <1>1
<1>. HIDE DEF I, J
<1>3. OneMore(n, f, g, I)
  BY <1>1, <1>2 DEF OneMore
<1>4. Summed(n, f, g, I)
  BY <1>3, EventSum, Zenon
<1>5. MintedOf(t) = SumFunctionOnSet(f, I) /\ MintedOf(t)' = SumFunctionOnSet(g, J)
  BY Zenon DEF MintedOf, AmountsOf, I, J, f, g
<1>. QED  BY <1>1, <1>2, <1>4, <1>5, Zenon DEF Summed

LEMMA BurnsAdd ==
  ASSUME NEW S, burns \in Seq(S), \A i \in DOMAIN burns : burns[i].amount \in Nat,
         NEW e \in S, e.amount \in Nat, burns' = Append(burns, e), NEW t
  PROVE  /\ BurntOf(t) \in Int
         /\ BurntOf(t)' = IF e.fromERC20 = t THEN BurntOf(t) + e.amount ELSE BurntOf(t)
<1>. DEFINE I == {i \in DOMAIN burns : burns[i].fromERC20 = t}
            J == {i \in DOMAIN burns' : burns'[i].fromERC20 = t}
            n == Len(burns)
            f == AmountsOf(burns)
            g == AmountsOf(burns')
<1>1. /\ n \in Nat /\ DOMAIN burns = 1..n /\ DOMAIN burns' = 1..(n + 1)
      /\ \A i \in 1..n : burns'[i] = burns[i] /\ f[i] \in Int /\ g[i] = f[i]
      /\ burns'[n + 1] = e /\ g[n + 1] = e.amount
  <2>1. /\ n \in Nat /\ DOMAIN burns = 1..n /\ DOMAIN burns' = 1..(n + 1)
        /\ (\A i \in 1..n : burns'[i] = burns[i]) /\ burns'[n + 1] = e
    OBVIOUS
  <2>. QED  BY <2>1 DEF AmountsOf
<1>. HIDE DEF f, g, n
<1>2. I \subseteq 1..n /\ J = IF e.fromERC20 = t THEN I \cup {n + 1} ELSE I
  BY <1>1
<1>. HIDE DEF I, J
<1>3. OneMore(n, f, g, I)
  BY <1>1, <1>2 DEF OneMore
<1>4. Summed(n, f, g, I)
  BY <1>3, EventSum, Zenon
<1>5. BurntOf(t) = SumFunctionOnSet(f, I) /\ BurntOf(t)' = SumFunctionOnSet(g, J)
  BY Zenon DEF BurntOf, AmountsOf, I, J, f, g
<1>. QED  BY <1>1, <1>2, <1>4, <1>5, Zenon DEF Summed

LEMMA EventSumsInt ==
  ASSUME NEW S, mints \in Seq(S), NEW T, burns \in Seq(T), NEW t,
         \A i \in DOMAIN mints : mints[i].amount \in Nat,
         \A i \in DOMAIN burns : burns[i].amount \in Nat
  PROVE  MintedOf(t) \in Int /\ BurntOf(t) \in Int
<1>1. IsFiniteSet(DOMAIN mints) /\ IsFiniteSet(DOMAIN burns)
  BY FS_Interval
<1>2. /\ IsFiniteSet({i \in DOMAIN mints : mints[i].toERC20 = t})
      /\ IsFiniteSet({i \in DOMAIN burns : burns[i].fromERC20 = t})
  BY <1>1, FS_Subset, Zenon
<1>3. /\ \A i \in {j \in DOMAIN mints : mints[j].toERC20 = t} :
            [j \in DOMAIN mints |-> mints[j].amount][i] \in Int
      /\ \A i \in {j \in DOMAIN burns : burns[j].fromERC20 = t} :
            [j \in DOMAIN burns |-> burns[j].amount][i] \in Int
  OBVIOUS
<1>. QED  BY <1>2, <1>3, SumInt, Zenon DEF MintedOf, BurntOf

TokensOK == \A t \in DOMAIN tokens : /\ tokens[t] \in Tokens
                                     /\ Accounted(tokens[t], MintedOf(t), BurntOf(t))

SInv == MInv /\ BInv /\ TokensOK

LEMMA EventAmounts ==
  ASSUME MInv, BInv
  PROVE  /\ \A i \in DOMAIN mints : mints[i].amount \in Nat
         /\ \A i \in DOMAIN burns : burns[i].amount \in Nat
         /\ \A t : MintedOf(t) \in Int /\ BurntOf(t) \in Int
<1>1. mints \in Seq(MintEvents) /\ burns \in Seq(BurnEvents)
  BY DEF MInv, BInv
<1>2. (\A e \in MintEvents : e.amount \in Nat) /\ (\A e \in BurnEvents : e.amount \in Nat)
  <2>1. ASSUME NEW o \in Orders, NEW t  PROVE MintEvent(o, t).amount \in Nat
    <3>1. MintEvent(o, t).amount = o.amount
      BY DEF MintEvent
    <3>. QED  BY <3>1, BridgeAssumption
  <2>2. \A e \in BurnEvents : e.amount \in Nat
    BY BridgeAssumption, Zenon DEF BurnEvents
  <2>. QED  BY <2>1, <2>2 DEF MintEvents
<1>3. /\ \A i \in DOMAIN mints : mints[i].amount \in Nat
      /\ \A i \in DOMAIN burns : burns[i].amount \in Nat
  BY <1>1, <1>2
<1>. QED  BY <1>1, <1>3, EventSumsInt

(* A step that replaces one token and accounts for it. *)
LEMMA OneToken ==
  ASSUME TokensOK, NEW t \in DOMAIN tokens, NEW r \in Tokens,
         tokens' = [tokens EXCEPT ![t] = r], Accounted(r, MintedOf(t)', BurntOf(t)'),
         \A x : x # t => MintedOf(x)' = MintedOf(x) /\ BurntOf(x)' = BurntOf(x)
  PROVE  TokensOK'
<1>1. DOMAIN tokens' = DOMAIN tokens /\ tokens'[t] = r /\ \A x \in DOMAIN tokens : x # t => tokens'[x] = tokens[x]
  OBVIOUS
<1>2. ASSUME NEW x \in DOMAIN tokens, x # t
      PROVE  tokens'[x] \in Tokens /\ Accounted(tokens'[x], MintedOf(x)', BurntOf(x)')
  <2>1. tokens'[x] = tokens[x] /\ MintedOf(x)' = MintedOf(x) /\ BurntOf(x)' = BurntOf(x)
    BY <1>1, <1>2, Zenon
  <2>. QED  BY <2>1 DEF TokensOK
<1>. QED  BY <1>1, <1>2, Zenon DEF TokensOK

(* A step that neither mints nor burns leaves the sums of the events. *)
LEMMA SumsKept ==
  ASSUME UNCHANGED <<mints, burns>>
  PROVE  \A x : MintedOf(x)' = MintedOf(x) /\ BurntOf(x)' = BurntOf(x)
  BY Zenon DEF MintedOf, BurntOf

LEMMA InitTokensOK == Init => TokensOK
<1>. SUFFICES ASSUME Init, NEW t \in DOMAIN tokens
              PROVE  tokens[t] \in Tokens /\ Accounted(tokens[t], MintedOf(t), BurntOf(t))
  BY Zenon DEF TokensOK
<1>. DEFINE f == [a \in Accounts |-> IF a \in Users THEN InitialBalance ELSE 0]
            n == [a \in Accounts |-> [b \in Accounts |-> 0]]
<1>1. f \in Balances /\ f[Bridge] = 0 /\ n \in [Accounts -> [Accounts -> Nat]]
  BY BridgeAssumption, Zenon DEF Balances
<1>2. tokens[t] = Token(NoOwner, SumFunction(f), f, n) /\ mints = <<>> /\ burns = <<>>
  BY Zenon DEF Init, NewToken
<1>. HIDE DEF f, n
<1>3. SumFunction(f) \in Nat
  <2>1. \A x \in Accounts : f[x] \in Int /\ f[x] = f[x] + 0
    BY <1>1 DEF Balances
  <2>. QED  BY <1>1, <2>1, BridgeAssumption, BalanceChange, Zenon
<1>4. MintedOf(t) = 0 /\ BurntOf(t) = 0
  <2>1. /\ {i \in DOMAIN mints : mints[i].toERC20 = t} = {}
        /\ {i \in DOMAIN burns : burns[i].fromERC20 = t} = {}
    BY <1>2
  <2>. QED  BY <2>1, SumEmpty, Zenon DEF MintedOf, BurntOf
<1>5. Bridge # NoOwner
  BY BridgeAssumption
<1>. QED  BY <1>1, <1>2, <1>3, <1>4, <1>5, TokenParts DEF Accounted

LEMMA MintTokensOK ==
  ASSUME SInv, NEW s, NEW o \in Orders, NEW fee, mint(s, o, fee)
  PROVE  TokensOK'
<1>. DEFINE t == ToToken(o)
            e == MintEvent(o, t)
<1>1. /\ t \in DOMAIN tokens /\ mints' = Append(mints, e) /\ UNCHANGED burns
      /\ tokens' = [tokens EXCEPT ![t] = Minted(tokens[t], o)]
      /\ CanTransfer(tokens[t], Bridge, o.recipient, o.amount)
  BY Zenon DEF mint, burnVars
<1>2. e \in MintEvents /\ e.amount = o.amount /\ e.toERC20 = t /\ o.amount \in Nat
  <2>1. t \in Addresses
    BY ToTokenAddress, Zenon DEF SInv, MInv, RInv, RegistryType
  <2>2. e \in MintEvents
    BY <2>1 DEF MintEvents
  <2>3. e.amount = o.amount /\ e.toERC20 = t
    BY Zenon DEF MintEvent
  <2>. QED  BY <2>2, <2>3, BridgeAssumption, Zenon
<1>. HIDE DEF t, e
<1>3. mints \in Seq(MintEvents) /\ MInv /\ BInv /\ TokensOK
  BY DEF SInv, MInv
<1>4. \A x : MintedOf(x)' = IF t = x THEN MintedOf(x) + o.amount ELSE MintedOf(x)
  BY <1>1, <1>2, <1>3, EventAmounts, MintsAdd
<1>5. \A x : BurntOf(x)' = BurntOf(x)
  BY <1>1, Zenon DEF BurntOf
<1>6. /\ MintedOf(t) \in Int /\ BurntOf(t) \in Int /\ tokens[t] \in Tokens
      /\ Accounted(tokens[t], MintedOf(t), BurntOf(t))
  BY <1>1, <1>3, EventAmounts DEF TokensOK
<1>7. Minted(tokens[t], o) \in Tokens /\ Accounted(Minted(tokens[t], o), MintedOf(t) + o.amount, BurntOf(t))
  BY <1>1, <1>6, MintToken
<1>. QED  BY <1>1, <1>3, <1>4, <1>5, <1>7, OneToken, Zenon

LEMMA BurnTokensOK ==
  ASSUME SInv, NEW u \in Users, NEW t \in DOMAIN tokens, NEW v \in Amounts, burn(u, v, t)
  PROVE  TokensOK'
<1>. DEFINE e == BurnEvent(u, v, t)
            r == transferFrom(tokens[t], Bridge, u, Bridge, v)
<1>1. /\ burns' = Append(burns, e) /\ UNCHANGED mints
      /\ tokens' = [tokens EXCEPT ![t] = r]
      /\ CanTransferFrom(tokens[t], Bridge, u, v)
  BY Zenon DEF burn, mintVars
<1>2. e \in BurnEvents /\ e.amount = v /\ e.fromERC20 = t /\ v \in Nat
  BY BurnBInv, BridgeAssumption, Zenon DEF BurnEvent, SInv
<1>. HIDE DEF e
<1>3. burns \in Seq(BurnEvents) /\ MInv /\ BInv /\ TokensOK
  BY Zenon DEF SInv, BInv
<1>4. \A x : BurntOf(x)' = IF t = x THEN BurntOf(x) + v ELSE BurntOf(x)
  BY <1>1, <1>2, <1>3, EventAmounts, BurnsAdd, Zenon
<1>5. \A x : MintedOf(x)' = MintedOf(x)
  BY <1>1, Zenon DEF MintedOf
<1>6. /\ MintedOf(t) \in Int /\ BurntOf(t) \in Int /\ tokens[t] \in Tokens
      /\ Accounted(tokens[t], MintedOf(t), BurntOf(t))
  BY <1>1, <1>3, EventAmounts DEF TokensOK
<1>7. r \in Tokens /\ Accounted(r, MintedOf(t), BurntOf(t) + v)
  BY <1>1, <1>2, <1>6, BurnToken
<1>. HIDE DEF r
<1>. QED  BY <1>1, <1>3, <1>4, <1>5, <1>7, OneToken, Zenon

(* What holders do themselves. *)
LEMMA HolderTokensOK ==
  ASSUME SInv, NEW u \in Users, NEW t \in DOMAIN tokens, NEW v \in Amounts,
         \/ Approve(u, t, v)
         \/ \E to \in Accounts \ {u} : Transfer(u, t, to, v)
  PROVE  TokensOK'
<1>1. /\ \A x : MintedOf(x)' = MintedOf(x) /\ BurntOf(x)' = BurntOf(x)
      /\ MintedOf(t) \in Int /\ BurntOf(t) \in Int /\ tokens[t] \in Tokens
      /\ Accounted(tokens[t], MintedOf(t), BurntOf(t)) /\ TokensOK /\ v \in Nat
  <2>1. UNCHANGED <<mints, burns>>
    BY DEF Approve, Transfer, mintVars, burnVars
  <2>. QED  BY <2>1, SumsKept, EventAmounts, BridgeAssumption, Zenon DEF SInv, TokensOK
<1>2. ASSUME NEW r \in Tokens, tokens' = [tokens EXCEPT ![t] = r],
             Accounted(r, MintedOf(t), BurntOf(t))
      PROVE  TokensOK'
  BY <1>1, <1>2, OneToken, Zenon
<1>3. CASE Approve(u, t, v)
  <2>1. tokens' = [tokens EXCEPT ![t] = approve(tokens[t], u, Bridge, v)]
    BY <1>3, Zenon DEF Approve
  <2>. QED  BY <1>1, <1>2, <2>1, ApproveToken, Zenon
<1>4. ASSUME NEW to \in Accounts, Transfer(u, t, to, v)  PROVE TokensOK'
  <2>1. /\ tokens' = [tokens EXCEPT ![t] = transfer(tokens[t], u, to, v)]
        /\ CanTransfer(tokens[t], u, to, v)
    BY <1>4, Zenon DEF Transfer
  <2>. QED  BY <1>1, <1>2, <2>1, HolderTransfer, Zenon
<1>. QED  BY <1>3, <1>4

(* No event is about a wrapper that was not deployed yet. *)
LEMMA DeployTokensOK ==
  ASSUME SInv, NEW b \in BaseTokenIDs, NEW a \in WrapperAddresses, deployERC20(b, a)
  PROVE  TokensOK'
<1>. DEFINE z == [x \in Accounts |-> 0]
            n == [x \in Accounts |-> [y \in Accounts |-> 0]]
            r == Token(Bridge, SumFunction(z), z, n)
<1>1. /\ a \notin DOMAIN tokens /\ UNCHANGED <<mints, burns>>
      /\ tokens' = [x \in DOMAIN tokens \cup {a} |-> IF x = a THEN r ELSE tokens[x]]
  BY Zenon DEF deployERC20, WithToken, NewToken, mintVars, burnVars
<1>2. \A x : MintedOf(x)' = MintedOf(x) /\ BurntOf(x)' = BurntOf(x)
  BY <1>1, SumsKept
<1>3. MintedOf(a) = 0 /\ BurntOf(a) = 0
  <2>1. /\ {i \in DOMAIN mints : mints[i].toERC20 = a} = {}
        /\ {i \in DOMAIN burns : burns[i].fromERC20 = a} = {}
    BY <1>1, Zenon DEF SInv, MInv, BInv
  <2>2. /\ MintedOf(a) = SumFunctionOnSet([i \in DOMAIN mints |-> mints[i].amount], {})
        /\ BurntOf(a) = SumFunctionOnSet([i \in DOMAIN burns |-> burns[i].amount], {})
    BY <2>1, Zenon DEF MintedOf, BurntOf
  <2>. QED  BY <2>2, SumEmpty, Zenon
<1>4. z \in Balances /\ n \in [Accounts -> [Accounts -> Nat]] /\ SumFunction(z) = 0
  <2>1. z \in Balances /\ n \in [Accounts -> [Accounts -> Nat]] /\ DOMAIN z = Accounts
        /\ (\A x \in Accounts : z[x] = 0) /\ IsFiniteSet(Accounts)
    BY BridgeAssumption, Zenon DEF Balances
  <2>. QED  BY <2>1, SumZero DEF SumFunction
<1>. HIDE DEF z, n
<1>5. r \in Tokens /\ Accounted(r, MintedOf(a), BurntOf(a))
  <2>1. r \in Tokens /\ r.owner = Bridge /\ r.totalSupply = 0 /\ r.balance = z
    BY <1>4, TokenParts
  <2>. HIDE DEF r
  <2>. QED  BY <1>3, <1>4, <2>1, SMTT(30) DEF Accounted
<1>. HIDE DEF r
<1>6. ASSUME NEW x \in DOMAIN tokens'
      PROVE  tokens'[x] \in Tokens /\ Accounted(tokens'[x], MintedOf(x)', BurntOf(x)')
  <2>1. CASE x = a
    BY <1>1, <1>2, <1>5, <2>1, Zenon
  <2>2. CASE x # a
    <3>1. x \in DOMAIN tokens /\ tokens'[x] = tokens[x]
      BY <1>1, <2>2, Zenon
    <3>. QED  BY <1>2, <3>1, Zenon DEF SInv, TokensOK
  <2>. QED  BY <2>1, <2>2, Zenon
<1>. QED  BY <1>6, Zenon DEF TokensOK

LEMMA NextSInv == SInv /\ [Next]_vars => SInv'
<1>. SUFFICES ASSUME SInv, [Next]_vars  PROVE SInv'
  OBVIOUS
<1>1. MInv' /\ BInv'
  BY NextMInv, NextBInv, Zenon DEF SInv
<1>2. CASE UNCHANGED <<tokens, mints, burns>>
  <2>1. TokensOK'
    BY <1>2, SumsKept, Zenon DEF SInv, TokensOK
  <2>. QED  BY <1>1, <2>1, Zenon DEF SInv
<1>3. TokensOK' \/ UNCHANGED <<tokens, mints, burns>>
  BY MintTokensOK, BurnTokensOK, HolderTokensOK, DeployTokensOK, Zenon
  DEF Next, Step, vars, pause, unpause, NewBlock, FeeStep, TokenCall, mintVars, burnVars
<1>. QED  BY <1>1, <1>2, <1>3, Zenon DEF SInv

(***************************************************************************)
(* The events account for the tokens: what the mint and burn events say    *)
(* is a wrapper's supply, and a plain token that was burned and not minted *)
(* back is held by the bridge, for any accounts, amounts and orders.       *)
(***************************************************************************)
THEOREM EventsAccount == Spec => []EventsMatchSupply
<1>1. Init => SInv
  BY InitMInv, InitBInv, InitTokensOK, SMTT(30) DEF SInv
<1>2. Spec => []SInv
  BY <1>1, NextSInv, PTL DEF Spec
<1>3. SInv => EventsMatchSupply
  BY DEF SInv, TokensOK, Accounted, EventsMatchSupply
<1>. QED  BY <1>2, <1>3, PTL

(***************************************************************************)
(* The contracts' storage has its declared types: no balance, allowance,   *)
(* supply or deposit ever goes below zero.                                 *)
(***************************************************************************)
THEOREM BridgeTyped == Spec => []TypeOK
<1>. DEFINE Inv == /\ SInv /\ FInv /\ isWrappedSide \in BOOLEAN /\ paused \in BOOLEAN
                   /\ PlainTokens \subseteq DOMAIN tokens
<1>1. Init => Inv
  BY InitMInv, InitBInv, InitTokensOK, InitFInv, Zenon DEF Init, SInv
<1>2. Inv /\ [Next]_vars => Inv'
  <2>. SUFFICES ASSUME Inv, [Next]_vars  PROVE Inv'
    OBVIOUS
  <2>1. SInv' /\ FInv'
    BY NextSInv, NextFInv
  <2>2. isWrappedSide' \in BOOLEAN /\ paused' \in BOOLEAN
    BY ZenonT(60) DEF Next, Step, vars, pause, unpause, NewBlock, FeeStep, deployERC20, mint, TokenCall,
           burn, Approve, Transfer
  <2>3. DOMAIN tokens \subseteq DOMAIN tokens'
    <3>1. ASSUME NEW b \in BaseTokenIDs, NEW a \in WrapperAddresses, deployERC20(b, a)
          PROVE  DOMAIN tokens \subseteq DOMAIN tokens'
      BY <3>1 DEF deployERC20, WithToken
    <3>. QED  BY <3>1, OwnersKept
  <2>. QED  BY <2>1, <2>2, <2>3
<1>3. Inv => TypeOK
  BY Zenon DEF SInv, MInv, RInv, RegistryType, BInv, FInv, TokensOK, TypeOK
<1>. QED  BY <1>1, <1>2, <1>3, PTL DEF Spec
=============================================================================
