SPECIFICATION Spec
CONSTANTS
    Users = {u1}
    Points = {p1}
    Exchanges = {e1}
    Values = {x, y}
    Web = {w1, w2, w3}
    Crashes = TRUE
    None = None
SYMMETRY DropOffSymmetry
VIEW Read
CHECK_DEADLOCK FALSE
INVARIANTS
    PointsAreAsAsked
    MeetingsStand
    GoneStaysGone
