--------------------------- MODULE MCIcrc2Minter ---------------------------
(***************************************************************************)
(* Small instances of Icrc2Minter.                                         *)
(***************************************************************************)
EXTENDS Icrc2Minter, TLC

CONSTANTS u1, c1, c2

SelfPaid == {<<"Notify", FALSE>>}

FeePaid == {<<"Notify", TRUE>>}

FeePaidOrOther == FeePaid \cup {<<"Other", FALSE>>}

Symmetry == Permutations({c1, c2})
=============================================================================
