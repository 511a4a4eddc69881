SPECIFICATION Spec
CONSTANTS
    Reports = {p1, p2}
    Users = {u1, u2}
    Targets = {t1}
    Moderators = {m1, m2}
    Rows = {x1, x2}
    Filtered = TRUE
    Web = {w1, w2}
    Crashes = TRUE
    None = None
SYMMETRY ModerationSymmetry
CONSTRAINT OneSide
CHECK_DEADLOCK FALSE
INVARIANTS
    RecordsAgree
    DecisionsAreLogged
    ReportersHear
PROPERTIES
    BulkIsLogged
