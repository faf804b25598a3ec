CONSTANTS
    Blocks <- ForkedBlocks
    Genesis = 0
    Parent <- ForkedParent
    OurHead = 1
    PeerBlocks <- FirstBlocks
    PeerHead = 4
    Limit = 2
    Prefetch = 2
    PerPeer = 2
    AtOnce = 2
    MaxReceived = 1
    Grace = 0
    LibLag = 2
    Others = {2}
    MaxLosses = 1
    MaxAsks = 1
SPECIFICATION FairSpec
INVARIANTS ReplyFits BlocksLink SynopsisSound
PROPERTY CatchesUp
CHECK_DEADLOCK FALSE
