SPECIFICATION Spec
CONSTANTS
    Request = {q1, q2}
    Email = {e1}
    Password = {a, b}
    Token = {t1, t2, t3}
    UserId = {u1, u2}
    Ops = {"register", "login", "change", "logoutAll", "logoutApi", "logoutWeb",
           "suspend", "delete"}
    Faults = {"lost", "late", "crash"}
    Outdated = TRUE
SYMMETRY Symmetric
INVARIANTS
    SessionsHaveOwners
    RevertedHashesHaveACause
    SignInNeedsACurrentPassword
    StaleSessionsHaveACause
PROPERTIES
    ApiSignOutIsReal
