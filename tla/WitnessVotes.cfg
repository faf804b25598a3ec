CONSTANTS
    a1 = a1
    a2 = a2
    a3 = a3
    a4 = a4
    a5 = a5
    w = w
    Self = Self
    Accounts = {a1, a2, a3, a4, a5}
    Witnesses = {w}
    MaxDepth = 3
    MaxVotes = 1
    MaxShares = 3
    MaxChange = 2
    MaxDecline = 1
SPECIFICATION Spec
SYMMETRY Symmetry
INVARIANTS VotesTallied
