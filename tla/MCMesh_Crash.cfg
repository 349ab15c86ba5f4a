\* One operator whose shell may be killed anywhere and containers that may be killed, after the coordinator's first start.
CONSTANTS
    n1 = n1
    n2 = n2
    k1 = k1
    k2 = k2
    p1 = p1
    p2 = p2
    NoKey = NoKey
    NoFile = NoFile
    Names <- MCOneName
    Keys <- MCKeys
    HostKey <- MCOneHostKey
    Procs <- MCOneShell
    OpMayCrash = TRUE
    ContainerMayCrash = TRUE
    FirstStart = FALSE
SPECIFICATION Spec
INVARIANT
    RecordedKeysWhitelisted
    WhitelistInv
CHECK_DEADLOCK FALSE
