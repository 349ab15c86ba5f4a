\* Two registrations at once: both rewrite yggdrasil.conf from the same old copy through one tmp file.
CONSTANTS
    n1 = n1
    n2 = n2
    k1 = k1
    k2 = k2
    p1 = p1
    p2 = p2
    NoKey = NoKey
    NoFile = NoFile
    Names <- MCNames
    Keys <- MCKeys
    HostKey <- MCHostKey
    Procs <- MCTwoShells
    OpMayCrash = FALSE
    ContainerMayCrash = FALSE
    FirstStart = FALSE
SPECIFICATION Spec
INVARIANT
    RecordedKeysWhitelisted
CHECK_DEADLOCK FALSE
