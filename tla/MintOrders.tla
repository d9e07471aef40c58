----------------------------- MODULE MintOrders -----------------------------
(***************************************************************************)
(* MintOrders of minter-contract-utils/src/mint_orders.rs, as functions    *)
(* from a store to a store.  A store is a map from keys <<sender,          *)
(* src_token, operation_id>> to signed orders.                             *)
(***************************************************************************)
EXTENDS Functions

EmptyOrders == [k \in {} |-> k]

\* An order with the same key is replaced.
insert(s, sender, src_token, operation_id, order) ==
    LET key == <<sender, src_token, operation_id>>
    IN  [k \in DOMAIN s \cup {key} |-> IF k = key THEN order ELSE s[k]]

remove(s, sender, src_token, operation_id) ==
    Restrict(s, DOMAIN s \ {<<sender, src_token, operation_id>>})
=============================================================================
