CONSTANTS
    Genesis = "zero"
    None = "none"
    Blocks <- FailingBlocks
    Previous <- FailingPrevious
    Num <- FailingNum
    Trx = {"t1", "t2", "t3"}
    TrxOf <- FailingTrx
    Conflicts = {}
    RefBlock <- FailingRef
    Expiration <- FailingExpires
    TimeOf <- FailingNum
    MaxTimeUntilExpiration = 3
    Invalid = {}
    Witnesses = {"p", "q"}
    WitnessOf <- FailingWitness
    StartMinerVoting = 100
    MaxWitnesses = 1
    ThresholdPercent = 75
    MaxUndoHistory = 100
    ForkDbSize = 1
    AnyFirstBlock = TRUE
    InitialLog <- NoBlocks
SPECIFICATION FairSpec
INVARIANTS FailedBranchKeepsHead AdoptsLongest
PROPERTIES NoTransactionLost CallReturns
