CONSTANTS
    Genesis = "zero"
    None = "none"
    Blocks <- ForkedBlocks
    Previous <- ForkedPrevious
    Num <- ForkedNum
    Trx = {"t1", "t2", "t3"}
    TrxOf <- ForkedTrx
    Conflicts <- MCConflicts
    RefBlock <- ForkedRef
    Expiration <- ForkedExpires
    TimeOf <- ForkedNum
    MaxTimeUntilExpiration = 4
    Invalid = {}
    Witnesses = {"p", "q", "r"}
    WitnessOf <- ForkedWitness
    StartMinerVoting = 3
    MaxWitnesses = 2
    ThresholdPercent = 60
    MaxUndoHistory = 100
    ForkDbSize = 1
    AnyFirstBlock = FALSE
    InitialLog <- FirstBlock
SPECIFICATION Spec
INVARIANTS UndoHistoryIsChain OpensAfterCrash BrokenReplayRefused LogIsChain
    ReversibleBlocksKept PendingMatchesSession OnlyIrreversibleWritten
