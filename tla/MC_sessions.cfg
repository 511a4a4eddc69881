SPECIFICATION Spec
CONSTANTS
    Users = {u1}
    Browsers = {b1, b2}
    Tokens = {t1, t2, t3, t4}
    Calls = {c1, c2}
    None = None
CONSTRAINT FewExpired
SYMMETRY SessionSymmetry
CHECK_DEADLOCK FALSE
INVARIANTS
    TypeOK
    SessionsSurvive
    OneLiveTokenEach
