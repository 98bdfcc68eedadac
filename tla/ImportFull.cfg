SPECIFICATION Spec
CONSTANTS
    Cities = {c1}
    Workers = {w1, w2}
    Admins = {a1}
    Sources = {"full"}
    MaxJobs = 1
    MaxCrashes = 1
    None = None
SYMMETRY Symmetry
INVARIANTS
    OpenRowsAreActive
    FailedLaunchHasStalledJob
PROPERTIES
    ImplementsLedger
    OnlyStaleSessionsMovePublicCities
