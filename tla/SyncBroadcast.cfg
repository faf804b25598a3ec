CONSTANTS
    c1 = c1
    c2 = c2
    x1 = x1
    None = None
    Callers <- MCCallers
    Txs <- MCTxs
    Expiration <- MCExpiration
    MaxTime = 3
    MaxTakenBack = 2
SPECIFICATION FairSpec
INVARIANTS CallbacksMatchCalls AnswerStands
PROPERTY CallEnds
CHECK_DEADLOCK FALSE
