SPECIFICATION FairSpec
CONSTANTS
    Scopes = {s1}
    AddressScopes = {address1}
    Pollers = {p1}
    Tasks = {t1, t2}
    MAX_ATTEMPTS = 2
    MaxOps = 2
    MaxCrashes = 1
    None = None
CHECK_DEADLOCK FALSE
INVARIANTS TokensAreUnique LostMeansOver OneActiveOperation
PROPERTIES ImplementsFencedOperations ClaimerVerdictIsFinal OperationsEnd
