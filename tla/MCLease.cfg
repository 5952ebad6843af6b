SPECIFICATION FairSpec
CONSTANTS
    p1 = p1
    p2 = p2
    p3 = p3
    f1 = f1
    f2 = f2
    f3 = f3
    NoProc = NoProc
    NoFile = NoFile
    Procs <- TwoProcs
    Files <- ThreeFiles
    Ttl = 1
    MaxTime = 2
INVARIANTS
    TypeOK
    OneHolderPerFile
    ReleaseFrees
PROPERTY CallsReturn
CHECK_DEADLOCK FALSE
