SPECIFICATION Spec
CONSTANTS
    p1 = p1
    p2 = p2
    c1 = c1
    c2 = c2
    Places = {p1, p2}
    Cities = {c1, c2}
    CityOf <- MCCityOf
    All = All
    None = None
    Admins = {a1}
    Requests = {r1}
    Rebuilt <- MCRebuilt
    MaxVersion = 2
    MaxJobs = 3
INVARIANTS StaleReadsAreRefused
