SPECIFICATION Spec
CONSTANTS
    p1 = p1
    p2 = p2
    p3 = p3
    f1 = f1
    f2 = f2
    f3 = f3
    NoProc = NoProc
    NoFile = NoFile
    Procs <- ThreeProcs
    Files <- ThreeFiles
    Ttl = 2
    MaxTime = 1
INVARIANT ExclusiveLease
CHECK_DEADLOCK FALSE
