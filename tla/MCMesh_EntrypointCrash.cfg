\* A container killed between genconf and the jq rewrite of its first start.
CONSTANTS
    n1 = n1
    n2 = n2
    k1 = k1
    k2 = k2
    p1 = p1
    p2 = p2
    NoKey = NoKey
    NoFile = NoFile
    Names <- MCNames
    Keys <- MCKeys
    HostKey <- MCHostKey
    Procs <- MCOneShell
    OpMayCrash = FALSE
    ContainerMayCrash = TRUE
    FirstStart = TRUE
SPECIFICATION Spec
INVARIANT
    EntrypointsConfigured
CHECK_DEADLOCK FALSE
