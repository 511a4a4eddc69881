SPECIFICATION FairDaily
CONSTANTS
    None = None
    Users = {u1, u2}
    Listings = {l1}
    RequestIds = {r1}
    ExchangeIds = {e1}
    RatingIds = {t1}
    u1 = u1
    w1 = w1
    w2 = w2
    Web = {w1}
    Cron = {w2}
    Endpoints = {"expire", "schedule"}
    Crashes = TRUE
    Period = 1
    Late = 1
    Window = 2
    TTL = 1
    Horizon = 3
    Deaths = 1
VIEW Read
CONSTRAINT OneOwner
CHECK_DEADLOCK FALSE
INVARIANTS
    RemindersReach
    RemindersAreFew
    ServedIsRecent
PROPERTIES
    StaleRequestsLeave
    ImpactReachesEveryone
