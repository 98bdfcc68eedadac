SPECIFICATION Spec
CONSTANTS
    Cities = {c1}
    Workers = {w1}
    Admins = {a1}
    Sources = {"short"}
    MaxJobs = 3
    MaxCrashes = 0
    None = None
INVARIANTS
    OneActivePerCity
    RetryChainsAreLinear
