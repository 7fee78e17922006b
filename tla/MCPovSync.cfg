CONSTANTS
    Peer = {"p"}
    NoPeer = "none"
    Block <- MCBlock
    Genesis = "g"
    Parent <- MCParent
    Height <- MCHeight
    TD <- MCTD
    HasTxs = {"a1"}
    Own = {{"g"}, {"g", "b1"}}
    FirstHead <- MCFirstHead
    Near = 0
    PerReq = 1
    QueueFull = 3
    MaxMsgs = 2
    MaxFaults = 1
SPECIFICATION FairSpec
CHECK_DEADLOCK FALSE
INVARIANT TypeOK
PROPERTIES
    ReleasedAttach
    
    
