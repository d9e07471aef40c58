----------------------------- MODULE FeeCharge -----------------------------
(***************************************************************************)
(* FeeCharge.sol: native deposits from which a user's mint transactions    *)
(* are paid.                                                               *)
(***************************************************************************)
EXTENDS Integers, FiniteSets, Functions

CONSTANTS
    Payers,         \* users that deposit native tokens
    FeeContract,    \* the contract's own address
    Collector,      \* the address fees are paid to (the minter canister)
    Chargers,       \* canChargeFee, the allow list of the constructor
    SenderIDs,
    Sums,           \* native amounts of one call
    Coins           \* native tokens each payer starts with

\* The contract does not deposit with itself or collect its own fees.
ASSUME FeeAssumption ==
    /\ IsFiniteSet(Payers)
    /\ FeeContract \notin Payers /\ FeeContract # Collector
    /\ Sums \subseteq Nat /\ Coins \in Nat

VARIABLES
    userBalance,    \* _userBalance
    approvedIDs,    \* _approvedIDs, a set of sender ids per payer
    coins           \* native tokens of every account

feeVars == <<userBalance, approvedIDs, coins>>

Holders == Payers \cup {FeeContract, Collector}

FeeInit == /\ userBalance = [u \in Payers |-> 0]
           /\ approvedIDs = [u \in Payers |-> {}]
           /\ coins = [a \in Holders |-> IF a \in Payers THEN Coins ELSE 0]

Pay(from, to, amount) == [coins EXCEPT ![from] = @ - amount, ![to] = @ + amount]

nativeTokenDeposit(u, ids, value) ==
    /\ coins[u] >= value
    /\ approvedIDs' = [approvedIDs EXCEPT ![u] = @ \cup ids]
    /\ userBalance' = [userBalance EXCEPT ![u] = @ + value]
    /\ coins' = Pay(u, FeeContract, value)

\* Mutant: the balance is not debited.
nativeTokenWithdraw_undebited(u, amount, value) ==
    /\ amount > 0
    /\ coins[u] >= value
    /\ userBalance[u] >= amount
    /\ coins' = [coins EXCEPT ![u] = @ - value + amount,
                              ![FeeContract] = @ + value - amount]
    /\ UNCHANGED <<userBalance, approvedIDs>>

\* The function is payable: value is what the caller sends along with it,
\* and no balance is credited for it.
nativeTokenWithdraw(u, amount, value) ==
    /\ amount > 0
    /\ coins[u] >= value
    /\ userBalance[u] >= amount
    /\ userBalance' = [userBalance EXCEPT ![u] = @ - amount]
    /\ coins' = [coins EXCEPT ![u] = @ - value + amount,
                              ![FeeContract] = @ + value - amount]
    /\ UNCHANGED approvedIDs

removeApprovedSenderIDs(u, ids) ==
    /\ approvedIDs' = [approvedIDs EXCEPT ![u] = @ \ ids]
    /\ UNCHANGED <<userBalance, coins>>

chargeFee(sender, from, senderID, amount) ==
    /\ sender \in Chargers
    /\ from \in Payers
    /\ userBalance[from] >= amount
    /\ senderID \in approvedIDs[from]
    /\ userBalance' = [userBalance EXCEPT ![from] = @ - amount]
    /\ coins' = Pay(FeeContract, Collector, amount)
    /\ UNCHANGED approvedIDs

\* What users do with their deposits.
FeeUser ==
    \E u \in Payers :
        \/ \E ids \in SUBSET SenderIDs, v \in Sums : nativeTokenDeposit(u, ids, v)
        \/ \E a \in Sums, v \in Sums \cup {0} : nativeTokenWithdraw(u, a, v)
        \/ \E ids \in SUBSET SenderIDs : removeApprovedSenderIDs(u, ids)

\* Balances stay natural numbers: no subtraction of the contract underflows.
FeeTypeOK == /\ userBalance \in [Payers -> Nat]
             /\ approvedIDs \in [Payers -> SUBSET SenderIDs]
             /\ coins \in [Holders -> Nat]

\* Whatever is deposited, withdrawn with or without a stray payment, or
\* charged by a bridge, the contract can pay out every deposit it records.
FeesSolvent == coins[FeeContract] >= SumFunction(userBalance)
=============================================================================
