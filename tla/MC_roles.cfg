SPECIFICATION Spec
CONSTANTS
    Users = {u1, u2}
    Roles = {admin, r1}
    BuiltIn = admin
    First = u1
    Web = {w1, w2}
    None = None
    Endpoints = {"role_capabilities", "suspend", "profile"}
    Crashes = TRUE
SYMMETRY AdminSymmetry
VIEW Rows
CONSTRAINT FewClashes
CHECK_DEADLOCK FALSE
INVARIANTS
    BuiltInStays
    StaffHoldRoles
    AuditTellsTheTruth
PROPERTIES
    LockoutsAreKnown
