\* Two operators whose shells may be killed, racing on one node during the coordinator's first start, with containers killed: the files keep their shape.
CONSTANTS
    n1 = n1
    n2 = n2
    k1 = k1
    k2 = k2
    p1 = p1
    p2 = p2
    NoKey = NoKey
    NoFile = NoFile
    Names <- MCOneName
    Keys <- MCKeys
    HostKey <- MCOneHostKey
    Procs <- MCTwoShells
    OpMayCrash = TRUE
    ContainerMayCrash = TRUE
    FirstStart = TRUE
SPECIFICATION Spec
INVARIANT
    TypeOK
CHECK_DEADLOCK FALSE
