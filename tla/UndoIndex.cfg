CONSTANTS
    Keys = {k1, k2}
    Data = {d1, d2}
    None = None
    MutableKeys = FALSE
    MaxId = 2
    MaxDepth = 3
    MaxRevision = 3
SPECIFICATION Spec
INVARIANTS HistoryConsistent UndoNeverFails RevisionsContiguous
PROPERTY ImplementsSnapshotStore
