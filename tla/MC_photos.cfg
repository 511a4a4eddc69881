SPECIFICATION FairSpec
CONSTANTS
    MaxPhotos = 2
    Files = {f1, f2, f3}
    Web = {w1, w2}
    Job = job
    Lossy = {"delete"}
    Crashes = {"delete"}
    Drift = TRUE
    None = None
CHECK_DEADLOCK FALSE
INVARIANTS
    NoOrphans
PROPERTIES
    BrokenPhotosLeave
