SPECIFICATION Spec
CONSTANTS
    Users = {u1}
    MaxApps = 2
    Addresses = {x}
    Spellings = {lower, mixed}
    Web = {w1, w2}
    None = None
    Crashes = TRUE
VIEW Read
SYMMETRY PartnerSymmetry
CONSTRAINT FewSpoiled
CHECK_DEADLOCK FALSE
INVARIANTS
    GrantsAreVerified
    DecisionsAreComplete
    ReviewersToldOnce
    NobodyIsStuck
