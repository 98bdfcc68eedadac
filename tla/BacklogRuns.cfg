SPECIFICATION FairSpec
CONSTANTS
    LastAction = 2
    Admins = {a1, a2}
    MaxRuns = 2
    MaxStops = 1
    MaxCrashes = 1
CHECK_DEADLOCK FALSE
INVARIANTS StandingStopIsObeyed
PROPERTIES OnlyStaleCopiesReopen StoppedRunsEnd
