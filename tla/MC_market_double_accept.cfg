SPECIFICATION Spec
CONSTANTS
    None = None
    Users = {u1, u2}
    Listings = {l1}
    RequestIds = {r1}
    ExchangeIds = {e1, e2}
    RatingIds = {t1}
    w1 = w1
    w2 = w2
    Web = {w1, w2}
    Cron = {w1}
    Endpoints = {}
    Crashes = FALSE
SYMMETRY WorkerSymmetry
CHECK_DEADLOCK FALSE
INVARIANTS
    OneExchangePerRequest
