SPECIFICATION Spec
CONSTANTS
    DEFAULT_BLOCKS_TO_COLLECT_PER_PAGE = 4
    Blocks <- MCBlocks
INVARIANTS LogsComplete
PROPERTY Returns
CHECK_DEADLOCK FALSE
