CONSTANTS
    a1 = a1
    a2 = a2
    Accounts = {a1, a2}
    Prices <- MCPrices
    InitialBalance = 3
    MaxOrders = 3
SPECIFICATION Spec
SYMMETRY Symmetry
INVARIANTS MatchingNeverFails BookUncrossed
PROPERTY TradesFair
