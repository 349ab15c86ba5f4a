\* Two rows with one timestamp: LIMIT/OFFSET over ORDER BY event_created_at may skip a row.
CONSTANTS
    e1 = e1
    e2 = e2
    e3 = e3
    e4 = e4
    Events <- MCEvents
    CreatedAt <- MCCreatedAtTied
    Cutoff = 3
    BatchWindow = 2
    BatchSize = 1
    CopyMayFail = FALSE
    DeleteMayFail = FALSE
    LateInserts = FALSE
SPECIFICATION Spec
INVARIANT
    NoEventLost
CHECK_DEADLOCK FALSE
