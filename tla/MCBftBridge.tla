---------------------------- MODULE MCBftBridge ----------------------------
(***************************************************************************)
(* Small instances of BftBridge for either side of a bridge.               *)
(***************************************************************************)
EXTENDS BftBridge

CONSTANTS u1, u2, b1, b2, w1, w2, p1, s1, other

MCAccounts == {u1, u2, Bridge}

Order(amount, senderID, from, recipient, to, nonce, payer) ==
    [amount |-> amount, senderID |-> senderID, fromTokenID |-> from,
     recipient |-> recipient, toERC20 |-> to, nonce |-> nonce,
     recipientChainID |-> ChainID, approveSpender |-> ZeroAddress,
     approveAmount |-> 0, feePayer |-> payer, signer |-> Minter]

\* For the base side an order without and two with a fee payer, one nonce
\* between those.  For the wrapped side two orders with one nonce, one that
\* names no token and approves the bridge, and one for an undeployed base
\* token that names a wrapper.  Two that every contract must refuse; each
\* side must also refuse those of the other.
MCOrders ==
    LET a == Order(1, s1, b1, u1, p1, 0, ZeroAddress)
        w == [a EXCEPT !.toERC20 = w1]
    IN  {a, [a EXCEPT !.nonce = 1, !.feePayer = u2],
            [a EXCEPT !.nonce = 1, !.amount = 2, !.feePayer = u2],
         w, [w EXCEPT !.amount = 2],
         [w EXCEPT !.nonce = 1, !.toERC20 = ZeroAddress, !.recipient = u2,
                   !.approveSpender = Bridge, !.approveAmount = 1],
         [w EXCEPT !.nonce = 2, !.fromTokenID = b2],
         [w EXCEPT !.nonce = 4, !.recipientChainID = other],
         [w EXCEPT !.nonce = 5, !.signer = other]}

\* What a contract of the wrapped side does with plain tokens, with fees, when
\* paused and in later blocks is left to the instance of the base side.
WrappedBound ==
    isWrappedSide =>
        /\ block = 1 /\ operationIDCounter <= 2 /\ ~paused
        /\ tokens[p1].balance[Bridge] = 0
        /\ \A u \in Users : /\ tokens[p1].balance[u] = InitialBalance
                             /\ tokens[p1].allowance[u][Bridge] = 0
        /\ coins[FeeContract] = 0 /\ \A u \in Payers : approvedIDs[u] = {}
=============================================================================
