-------------------------- MODULE MCOperationStore --------------------------
(* Two wallets, two incomplete payloads and one complete payload. *)
EXTENDS OperationStore

CONSTANTS w1, w2, p1, p2, done

MCWallets == {w1, w2}
MCPayloads == {p1, p2, done}
MCComplete == {done}
=============================================================================
