CONSTANTS
    Block <- MCBlock
    Genesis = "g"
    None = "none"
    prev <- MCPrev
    height <- MCHeight
    anc <- MCAnc
    td <- MCTD
    Tx = {"x", "y"}
    txs <- MCTxs
    PoVMaxForkHeight = 2
    POVChainBlocksPerDay = 2
    PovMinerRewardHeightGapToLatest = 3
    MaxCrash = 1
    MaxFail = 1
SPECIFICATION Spec
INVARIANTS
    TypeOK
    BestChainIsPath
    HeaviestIsBest
    LookupsAreComplete
    
    HeadIsLoadable
    
PROPERTIES
    KeepsPromise
