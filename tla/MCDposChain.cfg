CONSTANTS
    Node = {1}
    Rep <- MCRep
    Elsewhere = 0
    Home <- OneHome
    Quorum <- MCQuorum
    Block = {"a", "b", "aa", "ab"}
    Root = "root"
    prev <- ChainPrev
    Author <- ChainAuthor
    NoBlock = "none"
    Unreceived = {"ab"}
    MaxGiveUp = 1
    MaxRestart = 1
    Packing = TRUE
SPECIFICATION Spec
INVARIANTS
    LedgerIsChain
    GapBlocksAreWoken
