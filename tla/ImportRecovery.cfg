SPECIFICATION FairSpec
CONSTANTS
    Cities = {c1}
    Workers = {w1, w2}
    Admins = {}
    Sources = {"full", "short"}
    MaxJobs = 1
    MaxCrashes = 1
    None = None
PROPERTIES
    RunningRowsEnd
