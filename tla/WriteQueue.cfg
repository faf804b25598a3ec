CONSTANTS
    p2p = p2p
    api = api
    r1 = r1
    r2 = r2
    Chain = Chain
    None = None
    Callers <- DefaultCallers
    Readers <- DefaultReaders
    StartOrder <- DefaultOrder
    NumLocks = 2
    MaxTimeouts = 3
SPECIFICATION FairSpec
INVARIANTS ContextAlive WriterExcludesReaders ClosedAlone
PROPERTIES EveryCallAnswered ShutdownEnds
CHECK_DEADLOCK FALSE
