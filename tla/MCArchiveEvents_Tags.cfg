\* The window DELETE fires process_event_tags, which deletes the archived rows' tags.
CONSTANTS
    e1 = e1
    e2 = e2
    e3 = e3
    e4 = e4
    Events <- MCEvents
    CreatedAt <- MCCreatedAt
    Cutoff = 3
    BatchWindow = 2
    BatchSize = 1
    CopyMayFail = FALSE
    DeleteMayFail = FALSE
    LateInserts = FALSE
SPECIFICATION Spec
INVARIANT
    TagsRetained
CHECK_DEADLOCK FALSE
