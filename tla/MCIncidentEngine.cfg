SPECIFICATION Spec
CONSTANTS
    s1 = s1
    s2 = s2
    status1 = status1
    NoProc = NoProc
    NoLimit = NoLimit
    Procs <- OneSupervisor
    Mode <- RunMode
    MaxAttempts = 2
    MaxIdentical = 1
    DetectOscillation = TRUE
    Window = 4
    EvidenceDelta = TRUE
    WallclockLimit = NoLimit
    StableUnits = 1
    MinDuration = 1
    RestartAuthority = {TRUE, FALSE}
    ValidityOutcomes = {"ok", "block", "incident"}
    OperatorClearing = TRUE
    Failures = {"crash"}
    SlowGrace = FALSE
    LeaseExpires = FALSE
    MaxIncidents = 2
    MaxIntents = 3
    MaxUnits = 1
    MaxTime = 1
    MaxCrashes = 1
INVARIANTS
    TypeOK
    OneOpenIncident
    PendingIntentIsLive
    AttemptsAccounted
PROPERTIES
    WriteBeforeExecute
    ImplementsLifecycle
