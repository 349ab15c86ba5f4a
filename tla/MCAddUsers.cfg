\* Two runs of add-users.ts with every failure of the database calls.
CONSTANTS
    r1 = r1
    r2 = r2
    a1 = a1
    a2 = a2
    a3 = a3
    NoArg = NoArg
    Invocations <- MCInvocations
    Args <- MCArgs
    Len <- MCLen
    UpsertMayFail = TRUE
    AckMayBeLost = TRUE
    DestroyMayFail = TRUE
SPECIFICATION Spec
INVARIANT
    TypeOK
    SuccessMeansAdmitted
PROPERTY
    AdmissionSpec
\* Every run exits, so the final state has no successor.
CHECK_DEADLOCK FALSE
