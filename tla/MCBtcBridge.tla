---------------------------- MODULE MCBtcBridge ----------------------------
(***************************************************************************)
(* A small instance of BtcBridge.                                          *)
(***************************************************************************)
EXTENDS BtcBridge, TLC

CONSTANTS u1, c1, c2, x1, x2, d1

OneOwner == [x \in Utxos |-> u1]

Values == [x \in Utxos |-> IF x = x1 THEN 8 ELSE 3]

\* Both UTXOs may be in one block.
SameOrNot == {[x \in Utxos |-> 1], [x \in Utxos |-> IF x = x1 THEN 1 ELSE 2]}

\* A burn below the fee, one above it, and one that names no address.
AnyBurn == {[amount |-> 1, recipient |-> d1], [amount |-> 3, recipient |-> d1],
            [amount |-> 3, recipient |-> None]}

\* Nothing happens on the EVM before the canister is initialised.
InitFirst == next_block = None => events = <<>>

\* With two deposits there are two events, and one collection at a time; with
\* one there are three events, and collections overlap up to the second.
OneOrTwo ==
    LET two == utxos[x2] # "absent"
        overlap == \A c \in Collectors : collectors[c].pc # "idle"
    IN  ~ (two /\ overlap) /\ (two \/ overlap => Height < MaxEvents)

Symmetry == Permutations({c1, c2})
=============================================================================
