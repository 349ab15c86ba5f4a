\* A failed sub-batch INSERT is swallowed and the window is deleted anyway.
CONSTANTS
    e1 = e1
    e2 = e2
    e3 = e3
    e4 = e4
    Events <- MCEvents
    CreatedAt <- MCCreatedAt
    Cutoff = 3
    BatchWindow = 2
    BatchSize = 1
    CopyMayFail = TRUE
    DeleteMayFail = FALSE
    LateInserts = FALSE
SPECIFICATION Spec
INVARIANT
    NoEventLost
CHECK_DEADLOCK FALSE
