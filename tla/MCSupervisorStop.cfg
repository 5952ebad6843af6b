SPECIFICATION FairSpec
CONSTANTS
    Observing = {FALSE}
    StopOnTimeout = TRUE
    BlockingTimeout = 1
    InvariantOutcomes = {"pass"}
    MaxStopFailures = 0
    MaxIncidents = 2
    MaxTime = 2
    MaxCrashes = 0
PROPERTY StopIsHonoured
