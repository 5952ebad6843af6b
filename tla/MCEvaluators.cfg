SPECIFICATION FairSpec
CONSTANTS
    units = units
    heartbeat = heartbeat
    NoDrain = NoDrain
    Never = Never
    NoPlan = NoPlan
    Watermarks <- Both
    InContext <- HeartbeatInContext
    StallAfter <- OneAfter
    AllRequired = FALSE
    Tolerance = 0
    DrainAfter = 2
    Stampings = {"durable", "clock"}
    OnInvalid = "quarantine"
    CheckOnFail = "block"
    Expected = 1
    UnitsOnly = FALSE
    MaxSlow = 1
    MaxLag = 1
    MaxAge = 3
INVARIANTS
    TypeOK
    NoFalseStall
    CompletionIsEarned
PROPERTIES
    HungIsReported
