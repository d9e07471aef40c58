--------------------------- MODULE MCErc20Minter ---------------------------
(***************************************************************************)
(* Small instances of Erc20Minter.                                         *)
(***************************************************************************)
EXTENDS Erc20Minter, TLC

CONSTANTS u1, c1, c2

OneChain == [s \in Sides |-> 1]

\* One burn that goes there and back.
RoundTrip == [Base |-> 2, Wrapped |-> 2]

TwoBurns == [Base |-> 2, Wrapped |-> 1]

NoneBefore == [s \in Sides |-> 0]

FirstBase == {<<"Base", 1>>}

OneBefore == [s \in Sides |-> 1]

\* The base side is initialised for the last time, and its collections overlap,
\* before there is an event on the wrapped side.
BaseFirst ==
    LET overlap == \A c \in Collectors : collectors[c].pc # "idle"
    IN  /\ \/ events["Wrapped"] = <<>>
           \/ ~ overlap /\ \A t \in tasks : t.type # "InitEvmState"
        /\ overlap => \A c \in Collectors : collectors[c].side = "Base"

\* Notifications are on the wrapped side.
NotifyWrapped == \A e \in Range(events["Base"]) : e.type # "Notify"

Symmetry == Permutations({c1, c2})
=============================================================================
