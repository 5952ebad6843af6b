SPECIFICATION FairSpec
CONSTANTS
    s1 = s1
    c1 = c1
    code = code
    model = model
    a = a
    b = b
    NoFingerprint = NoFingerprint
    Fields <- TwoFields
    Values <- TwoValues
    Semantic <- OnlyModel
    Deployed <- AllA
    Rank <- CodeActs
    Procs <- WithCommand
    Command <- OneCommand
    Observing = {TRUE, FALSE}
    Authorities = {TRUE, FALSE}
    Ceiling = 2
    MaxRounds = 2
    MaxRepairs = 1
    MaxEdits = 1
    MaxCrashes = 1
INVARIANTS
    TypeOK
    RelaunchesPaid
    OnlyPromotedSemantics
PROPERTIES
    PreflightBeforeRelaunch
    ObserversPlanOnly
    StaleIsHandled
