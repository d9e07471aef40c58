----------------------------- MODULE RingBuffer -----------------------------
(***************************************************************************)
(* libraries/RingBuffer.sol: the ring of block numbers that BFTBridge      *)
(* keeps for every user.  The indices are uint8 there; Width is the number *)
(* of values of the index type (256).                                      *)
(***************************************************************************)
EXTENDS Integers, Sequences

CONSTANT Width

ASSUME WidthAssumption == Width \in Nat /\ Width > 1

Indices == 0..(Width - 1)

RingBufferUint32(begin, end, values) ==
    [begin |-> begin, end |-> end, values |-> values]

\* Storage that was never written reads as zero.
EmptyBuffer == RingBufferUint32(0, 0, [i \in Indices |-> 0])

Wrap(i) == i % Width

\* Mutant: a full ring does not give up its oldest value.
push_keeps_begin(buffer, value) ==
    RingBufferUint32(buffer.begin, Wrap(buffer.end + 1),
                     [buffer.values EXCEPT ![buffer.end] = value])

push(buffer, value) ==
    LET end == Wrap(buffer.end + 1)
    IN  RingBufferUint32(IF buffer.begin = end THEN Wrap(buffer.begin + 1)
                                               ELSE buffer.begin,
                         end,
                         [buffer.values EXCEPT ![buffer.end] = value])

size(buffer) == IF buffer.begin <= buffer.end THEN buffer.end - buffer.begin
                                              ELSE Width - 1

getAll(buffer) ==
    [i \in 1..size(buffer) |-> buffer.values[Wrap(buffer.begin + (i - 1))]]

\* What a reader of the buffer expects: the last Width - 1 values, oldest
\* first, of the sequence of everything that was pushed.
Latest(s) == IF Len(s) < Width THEN s
             ELSE [i \in 1..(Width - 1) |-> s[Len(s) - (Width - 1) + i]]
=============================================================================
