SPECIFICATION FairSpec
CONSTANTS
    s1 = s1
    s2 = s2
    status1 = status1
    NoProc = NoProc
    NoLimit = NoLimit
    Procs <- OneSupervisor
    Mode <- RunMode
    MaxAttempts = 2
    MaxIdentical = 1
    DetectOscillation = TRUE
    Window = 4
    EvidenceDelta = TRUE
    WallclockLimit = NoLimit
    StableUnits = 1
    MinDuration = 0
    RestartAuthority = {TRUE}
    ValidityOutcomes = {"ok"}
    OperatorClearing = FALSE
    Failures = {"crash"}
    SlowGrace = FALSE
    LeaseExpires = FALSE
    MaxIncidents = 2
    MaxIntents = 5
    MaxUnits = 1
    MaxTime = 0
    MaxCrashes = 1
PROPERTIES
    IntentsSettle
    BadWorkerIsHandled
