---------------------------- MODULE MCRuneBridge ----------------------------
(***************************************************************************)
(* Small instances of RuneBridge.                                          *)
(***************************************************************************)
EXTENDS RuneBridge

CONSTANTS u1, u2, r1, r2, c1, d1

FirstUtxo == {<<"deposit", 1>>}

TwoUtxos == {"deposit"} \X (1..2)

OneOwner == [x \in DepositUtxos |-> u1]

OwnerEach == [x \in DepositUtxos |-> IF x[2] = 1 THEN u1 ELSE u2]

\* Two units of one rune, for two burns, and one of another in a UTXO of its
\* own: a deposit is of one rune or of both.
OneRuneEach == [x \in DepositUtxos |-> IF x[2] = 1 THEN [r \in {r1} |-> 2]
                                                   ELSE [r \in {r2} |-> 1]]

AllRunes == {Runes}

\* The first page of the indexer need not have every rune.
FirstPages == {{r1}, {r2}}

AllOrSome == {Runes, {r2}}

AnyAmounts == {None}

\* A request may name no amounts, or ones that are not those of the UTXO.
OneOrAny == {None, [r \in {r1} |-> 1]}

\* The second UTXO is paid before anything happens on the EVM, or never.  A
\* deposit of both is followed up to the first event after its mint orders.
SecondFirst ==
    LET second == <<"deposit", 2>>
    IN  /\ btc'[second] # "absent" => btc[second] # "absent" \/ events = <<>>
        /\ btc'[second] # "absent" => Len(events') < MaxEvents
=============================================================================
