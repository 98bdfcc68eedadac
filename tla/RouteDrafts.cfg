SPECIFICATION Spec
CONSTANTS
    Place = {p1, p2, p3}
    Client = {c1}
    Call = {s1, s2}
    Selected = 2
    Budget = 2
    After = {0, 1}
    MaxVersion = 3
    MaxChanges = 1
SYMMETRY Symmetry
INVARIANTS EachPlaceOnce OnlyTheNewPointIsUncounted CurrentViewsAreTrue
PROPERTIES EditsAreOfTheVersionSeen EditsLeaveRoutablePoints ImplementsVersionedRoute
