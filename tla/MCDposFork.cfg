CONSTANTS
    Node <- MCNode
    Rep <- MCRep
    Elsewhere = 0
    Home <- MCHome
    Quorum <- MCQuorum
    Block = {"a", "b"}
    Root = "root"
    prev <- ForkPrev
    Author <- ForkAuthor
    NoBlock = "none"
    Unreceived = {}
    MaxGiveUp = 1
    MaxRestart = 1
    Packing = FALSE
SPECIFICATION Spec
INVARIANTS
    TypeOK
    ConfirmedByQuorum
    Agreement
PROPERTY RollbackNeedsQuorum
