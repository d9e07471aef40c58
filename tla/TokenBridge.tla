---------------------------- MODULE TokenBridge ----------------------------
(***************************************************************************)
(* What a lock-and-mint bridge promises about the tokens, whatever its     *)
(* tasks and their order: each token it holds stands for exactly one       *)
(* wrapped token or for one step of a transfer under way.                  *)
(***************************************************************************)
EXTENDS Integers

VARIABLES
    locked,     \* tokens held by the bridge
    owed,       \* taken or to be refunded, mint order not signed yet
    vouchers,   \* mint orders signed and not minted
    wrapped,    \* wrapped tokens in circulation
    burnt       \* wrapped tokens burnt, token not paid out yet

vars == <<locked, owed, vouchers, wrapped, burnt>>

Init == locked = 0 /\ owed = 0 /\ vouchers = 0 /\ wrapped = 0 /\ burnt = 0

Deposit == /\ locked' = locked + 1 /\ owed' = owed + 1
           /\ UNCHANGED <<vouchers, wrapped, burnt>>

Sign == /\ owed > 0
        /\ owed' = owed - 1 /\ vouchers' = vouchers + 1
        /\ UNCHANGED <<locked, wrapped, burnt>>

Mint == /\ vouchers > 0
        /\ vouchers' = vouchers - 1 /\ wrapped' = wrapped + 1
        /\ UNCHANGED <<locked, owed, burnt>>

Burn == /\ wrapped > 0
        /\ wrapped' = wrapped - 1 /\ burnt' = burnt + 1
        /\ UNCHANGED <<locked, owed, vouchers>>

Pay == /\ burnt > 0
       /\ burnt' = burnt - 1 /\ locked' = locked - 1
       /\ UNCHANGED <<owed, vouchers, wrapped>>

Refund == /\ burnt > 0
          /\ burnt' = burnt - 1 /\ owed' = owed + 1
          /\ UNCHANGED <<locked, vouchers, wrapped>>

Next == Deposit \/ Sign \/ Mint \/ Burn \/ Pay \/ Refund

Spec == Init /\ [][Next]_vars

\* Every wrapped token, signed order and transfer under way is backed by a
\* token that the bridge holds, and no token it holds is forgotten.
Backed == locked = owed + vouchers + wrapped + burnt
=============================================================================
