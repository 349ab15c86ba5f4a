\* One operator, nothing killed, a coordinator that has started: the registration and removal contract.
CONSTANTS
    n1 = n1
    n2 = n2
    k1 = k1
    k2 = k2
    p1 = p1
    p2 = p2
    NoKey = NoKey
    NoFile = NoFile
    Names <- MCNames
    Keys <- MCKeys
    HostKey <- MCHostKey
    Procs <- MCOneShell
    OpMayCrash = FALSE
    ContainerMayCrash = FALSE
    FirstStart = FALSE
SPECIFICATION Spec
INVARIANTS
    RegisteredReachable
    WhitelistRecorded
    RevokedOnRemoval
CHECK_DEADLOCK FALSE
