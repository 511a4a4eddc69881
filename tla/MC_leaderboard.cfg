SPECIFICATION Spec
CONSTANTS
    Users = {1, 2, 3}
    Exchanges = {e1, e2, e3}
    Months = 2
    Entries = {n1}
    Web = {w1}
    None = None
SYMMETRY LeaderboardSymmetry
CONSTRAINT OneTopic
CHECK_DEADLOCK FALSE
INVARIANTS
    RankingsAgree
PROPERTIES
    RankNeverFlatters
