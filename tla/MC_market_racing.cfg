SPECIFICATION Spec
CONSTANTS
    None = None
    Users = {u1, u2}
    Listings = {l1}
    RequestIds = {r1, r2}
    ExchangeIds = {e1}
    RatingIds = {t1, t2}
    w1 = w1
    w2 = w2
    Web = {w1, w2}
    Cron = {w1, w2}
    Endpoints = {"delete", "decline", "patch", "schedule", "rate", "force", "moderate", "expire"}
    Crashes = TRUE
SYMMETRY WorkerSymmetry
VIEW Tables
CONSTRAINT FewRatings
CHECK_DEADLOCK FALSE
INVARIANTS
    ClaimedIsHandedOver
    ExchangesAreAskedFor
PROPERTIES
    NothingReopens
    AcceptanceStands
    CompletionStands
