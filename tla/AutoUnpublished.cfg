SPECIFICATION Spec
CONSTANTS
    Cities = {c1}
    Workers = {w1}
    Admins = {}
    Sources = {"full"}
    MaxJobs = 1
    MaxCrashes = 0
    None = None
PROPERTIES
    OnlyAdminUnpublishes
