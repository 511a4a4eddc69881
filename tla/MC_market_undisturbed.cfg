SPECIFICATION NotedSpec
CONSTANTS
    None = None
    Users = {u1, u2, u3}
    Listings = {l1}
    RequestIds = {r1, r2}
    ExchangeIds = {e1, e2}
    RatingIds = {t1}
    w1 = w1
    w2 = w2
    Web = {w1, w2}
    Cron = {w1, w2}
    Endpoints = {"delete", "patch", "decline", "force", "moderate", "expire"}
    Crashes = TRUE
SYMMETRY Symmetry
CONSTRAINT Followed
CHECK_DEADLOCK FALSE
INVARIANTS
    StatusTellsTheTruth
    NobodyWaitsInVain
    OneRequestEach
    DecisionsAreTold
    ReportsAreTrue
PROPERTIES
    OneReaderSpec
    DecisionsStand
