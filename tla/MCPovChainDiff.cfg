CONSTANTS
    Block <- MCBlock
    Genesis = "g"
    None = "none"
    prev <- MCPrev
    height <- MCHeight
    anc <- MCAnc
    td <- MCTD
    Tx = {"x", "y"}
    txs <- MCTxs
    PoVMaxForkHeight = 2
    POVChainBlocksPerDay = 2
    PovMinerRewardHeightGapToLatest = 3
    MaxCrash = 0
    MaxFail = 0
SPECIFICATION Spec
INVARIANTS
    DiffStatsFollowForks
