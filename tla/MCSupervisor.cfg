SPECIFICATION FairSpec
CONSTANTS
    Observing = {TRUE, FALSE}
    StopOnTimeout = TRUE
    BlockingTimeout = 1
    InvariantOutcomes = {"pass", "halt", "block", "incident"}
    MaxStopFailures = 1
    MaxIncidents = 2
    MaxTime = 2
    MaxCrashes = 1
INVARIANTS
    TypeOK
    StoppedMeansStopped
    EndingsRunOnce
PROPERTY StopEndsRun
