CONSTANTS
    Node <- MCNode
    Rep <- MCRep
    Elsewhere = 0
    Home <- MCHome
    Quorum <- MCQuorum
    Block = {"a", "b"}
    Root = "root"
    prev <- ForkPrev
    Author <- ForkAuthor
    NoBlock = "none"
    Unreceived = {}
    MaxGiveUp = 2
    MaxRestart = 2
    Packing = TRUE
SPECIFICATION Spec
INVARIANT PackedBlocksStay
