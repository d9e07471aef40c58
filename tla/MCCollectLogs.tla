--------------------------- MODULE MCCollectLogs ---------------------------
(***************************************************************************)
(* All ranges of up to ten blocks, with a page of 4 blocks beyond the      *)
(* first, so that the halved offsets are 2, 1 and 0 as they are for 128.   *)
(***************************************************************************)
EXTENDS CollectLogs

MCBlocks == 1..10
=============================================================================
