SPECIFICATION Spec
CONSTANTS
    Block <- MCBlock
    Genesis <- MCGenesis
    blk <- MCblk
    Account = {"G", "A", "B", "C", "D", "X"}
    Token = {"qlc"}
    ChainToken = "qlc"
    NoHash = "zero"
VIEW WithoutDrift
INVARIANTS
    TypeOK
    
    
    
    PendingIsUnreceived
    PendingAmountIsSent
    
    
    ChildIsSuccessor
