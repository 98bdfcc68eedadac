SPECIFICATION Spec
CONSTANTS
    Place = {p1}
    Worker = {w1}
    Data = {d1, d2}
    MaxDecisions = 2
    MaxJobs = 3
SYMMETRY DataSymmetry
CHECK_DEADLOCK FALSE
INVARIANTS TakenOfflineIsQueued
PROPERTIES RowsTearOnlyWhenOvertaken GoesLiveOnlyWhenEligible LivePlacesStayLive LiveDataIsDecided EmergencyHideHolds
