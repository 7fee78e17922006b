SPECIFICATION FairSpec
CONSTANTS
    a = a
    b = b
    c = c
    g = g
    t = t
    Block = {a, b, c}
    Genesis = g
    Tx = {t}
    Prev <- MCPrev
    Txs <- MCTxs
    Bad = {}
    Mined = {c}
    NormCap = 1
    HighCap = 1
    MaxExpiry = 1
    MaxFail = 1
INVARIANTS
    TypeOK
    MarksAreComing
    WaitsOnce
    DeathNeedsRollback
    
 
CHECK_DEADLOCK FALSE
