CONSTANTS
    Genesis = "zero"
    None = "none"
    Blocks <- StubBlocks
    Previous <- StubPrevious
    Num <- StubNum
    Trx = {}
    TrxOf <- StubTrx
    Conflicts = {}
    RefBlock <- NoTrxRef
    Expiration <- NoTrxExpires
    TimeOf <- StubNum
    MaxTimeUntilExpiration = 1
    Invalid = {"x4"}
    Witnesses = {"p", "q"}
    WitnessOf <- StubWitness
    StartMinerVoting = 100
    MaxWitnesses = 2
    ThresholdPercent = 75
    MaxUndoHistory = 100
    ForkDbSize = 1
    AnyFirstBlock = FALSE
    InitialLog <- FirstBlock
SPECIFICATION Spec
INVARIANT MigrationFindsBlocks
