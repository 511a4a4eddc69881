SPECIFICATION Spec
CONSTANTS
    MaxPhotos = 2
    Files = {f1, f2}
    Web = {w1}
    Job = job
    Lossy = {"status"}
    Crashes = {}
    Drift = FALSE
    None = None
CHECK_DEADLOCK FALSE
PROPERTIES
    ReconcileKeepsBacked
