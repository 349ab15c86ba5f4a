\* Copy-before-delete across crashes, re-runs and sub-batches, with DELETE
\* failures, and no relay insert below the cutoff.
CONSTANTS
    e1 = e1
    e2 = e2
    e3 = e3
    e4 = e4
    Events <- MCEvents
    CreatedAt <- MCCreatedAt
    Cutoff = 3
    BatchWindow = 2
    BatchSize = 1
    CopyMayFail = FALSE
    DeleteMayFail = TRUE
    LateInserts = FALSE
SPECIFICATION FairSpec
INVARIANTS
    TypeOK
    NoEventLost
    ArchiveComplete
    ArchiveInv
PROPERTIES
    Termination
    MoverSpec
    MoverScope
\* With every event accepted and nothing left below the cutoff the instance
\* has no move left but the script's no-op exit ("Nothing to do"), a
\* stutter; Termination checks that the loop itself never stops short.
CHECK_DEADLOCK FALSE
