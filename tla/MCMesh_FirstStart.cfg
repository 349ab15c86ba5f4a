\* One registration while the coordinator container starts for the first time; nothing is killed.
CONSTANTS
    n1 = n1
    n2 = n2
    k1 = k1
    k2 = k2
    p1 = p1
    p2 = p2
    NoKey = NoKey
    NoFile = NoFile
    Names <- MCOneName
    Keys <- MCKeys
    HostKey <- MCOneHostKey
    Procs <- MCOneShell
    OpMayCrash = FALSE
    ContainerMayCrash = FALSE
    FirstStart = TRUE
SPECIFICATION Spec
INVARIANT
    RecordedKeysWhitelisted
CHECK_DEADLOCK FALSE
