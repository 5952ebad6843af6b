SPECIFICATION FairSpec
CONSTANTS
    a = a
    b = b
    Supervisor = Supervisor
    NoHash = NoHash
    Default = a
    NCommands = 2
    Hashes <- TwoHashes
    Total = 2
    CrashAt <- One
    StallAt <- Two
    MaxCount = 2
    Gated = TRUE
    MaxRounds = 3
    MaxCrashes = 1
INVARIANTS
    TypeOK
    ProgressKept
    TurnsAreTaken
PROPERTIES
    StopHolds
    WorkerSettles
    UnitsNeverGoBack
    OnlyOthersBlock
CHECK_DEADLOCK FALSE
