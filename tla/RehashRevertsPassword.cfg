SPECIFICATION Spec
CONSTANTS
    Request = {q1, q2}
    Email = {e1}
    Password = {a, b}
    Token = {t1, t2}
    UserId = {u1}
    Ops = {"login", "change"}
    Faults = {}
    Outdated = TRUE
INVARIANT
    StoredHashIsTheOwners
