SPECIFICATION Spec
CONSTANTS
    s1 = s1
    s2 = s2
    status1 = status1
    NoProc = NoProc
    NoLimit = NoLimit
    Procs <- WithStatus
    Mode <- StatusModes
    MaxAttempts = 2
    MaxIdentical = 1
    DetectOscillation = TRUE
    Window = 4
    EvidenceDelta = TRUE
    WallclockLimit = NoLimit
    StableUnits = 1
    MinDuration = 1
    RestartAuthority = {TRUE}
    ValidityOutcomes = {"ok"}
    OperatorClearing = FALSE
    Failures = {"stall"}
    SlowGrace = FALSE
    LeaseExpires = FALSE
    MaxIncidents = 1
    MaxIntents = 2
    MaxUnits = 1
    MaxTime = 1
    MaxCrashes = 1
INVARIANTS
    ClosedAfterBurnIn
    IntentsCoverExecutions
