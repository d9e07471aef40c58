---------------------------- MODULE CollectLogs ----------------------------
(***************************************************************************)
(* BridgeEvent::collect_logs of minter-contract-utils: the logs of a range *)
(* of blocks, read page by page from an EVM node whose answers may fail.   *)
(* The logs of a block are represented by its number.                      *)
(***************************************************************************)
EXTENDS Integers, Sequences, FiniteSets

CONSTANTS
    DEFAULT_BLOCKS_TO_COLLECT_PER_PAGE,
    Blocks      \* block numbers a call may be about, an interval

ASSUME PageAssumption == DEFAULT_BLOCKS_TO_COLLECT_PER_PAGE \in Nat /\ Blocks \subseteq Nat

VARIABLES
    first,          \* the from_block of the call
    to_block,
    from_block,
    offset,
    logs,
    failed_alone    \* blocks whose own query, for them alone, failed

vars == <<first, to_block, from_block, offset, logs, failed_alone>>

Init == /\ first \in Blocks
        /\ to_block \in Blocks
        /\ from_block = first
        /\ offset = DEFAULT_BLOCKS_TO_COLLECT_PER_PAGE
        /\ logs = <<>>
        /\ failed_alone = {}

Lower(a, b) == IF a < b THEN a ELSE b

ToBlockForPage == Lower(from_block + offset, to_block)

Interval(a, b) == [i \in 1..(IF a <= b THEN b - a + 1 ELSE 0) |-> a + (i - 1)]

\* Mutant: the next page starts at the last block of this one.
PageOk_overlaps == /\ from_block <= to_block
                   /\ logs' = logs \o Interval(from_block, ToBlockForPage)
                   /\ from_block' = IF from_block = ToBlockForPage
                                    THEN from_block + 1 ELSE ToBlockForPage
                   /\ offset' = DEFAULT_BLOCKS_TO_COLLECT_PER_PAGE
                   /\ UNCHANGED <<first, to_block, failed_alone>>

PageOk == /\ from_block <= to_block
          /\ logs' = logs \o Interval(from_block, ToBlockForPage)
          /\ from_block' = ToBlockForPage + 1
          /\ offset' = DEFAULT_BLOCKS_TO_COLLECT_PER_PAGE
          /\ UNCHANGED <<first, to_block, failed_alone>>

\* Mutant: a block that fails alone is tried again from a full page.
PageErr_restarts ==
    /\ from_block <= to_block
    /\ offset' = IF offset > 0 THEN offset \div 2
                               ELSE DEFAULT_BLOCKS_TO_COLLECT_PER_PAGE
    /\ failed_alone' = IF ToBlockForPage = from_block
                       THEN failed_alone \cup {from_block} ELSE failed_alone
    /\ UNCHANGED <<first, to_block, from_block, logs>>

PageErr == /\ from_block <= to_block
           /\ IF offset > 0
              THEN offset' = offset \div 2 /\ from_block' = from_block
              ELSE offset' = offset /\ from_block' = from_block + 1
           /\ failed_alone' = IF ToBlockForPage = from_block
                              THEN failed_alone \cup {from_block} ELSE failed_alone
           /\ UNCHANGED <<first, to_block, logs>>

Done == from_block > to_block

Next == PageOk \/ PageErr

\* Every request is answered, with the logs or with an error.
Spec == Init /\ [][Next]_vars /\ WF_vars(Next)

-----------------------------------------------------------------------------

Collected == {logs[i] : i \in DOMAIN logs}

\* The loop loses and repeats nothing: the logs are in block order, without
\* repetition and inside the range, and every block behind the loop is there
\* unless a query for that block alone has failed.
LogsComplete ==
    /\ \A i, j \in DOMAIN logs : i < j => logs[i] < logs[j]
    /\ Collected \subseteq first..Lower(from_block - 1, to_block)
    /\ (first..(from_block - 1)) \ Collected \subseteq failed_alone

\* The call returns, whatever fails: the halved offset reaches zero and then
\* the loop moves on by a block.
Returns == <>Done
=============================================================================
