\* Registration killed after the whitelist rewrite and re-run: the re-run sees the key and skips the restart.
CONSTANTS
    n1 = n1
    n2 = n2
    k1 = k1
    k2 = k2
    p1 = p1
    p2 = p2
    NoKey = NoKey
    NoFile = NoFile
    Names <- MCNames
    Keys <- MCKeys
    HostKey <- MCHostKey
    Procs <- MCOneShell
    OpMayCrash = TRUE
    ContainerMayCrash = FALSE
    FirstStart = FALSE
SPECIFICATION Spec
INVARIANT
    RegisteredReachable
CHECK_DEADLOCK FALSE
