SPECIFICATION FairSpec
CONSTANTS
    MaxUnits = 2
    NoFile = NoFile
    Empty = Empty
    NoHash = NoHash
    MaxTools = 2
    MaxEdits = 2
    MaxCrashes = 1
INVARIANTS TypeOK ScheduleFitsPlan
PROPERTIES IntactCompletes
CHECK_DEADLOCK FALSE
