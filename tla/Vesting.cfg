CONSTANTS
    Accounts = {1, 2}
    Intervals = 2
    Full = 2
    MaxRoutes = 1
    SharesPerToken = 2
    MinDelegation = 2
    MinUpdate = 1
    InitialShares <- MCShares
    InitialFund = 2
    InitialBalance <- MCBalance
    MaxReturns = 1
    Percents = {0, 1}
SPECIFICATION Spec
INVARIANTS SharesConserved DelegationsBacked
PROPERTY PowerDownAdvances
CHECK_DEADLOCK FALSE
