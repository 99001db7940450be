SPECIFICATION Spec
CONSTANTS
    Token = {t1}
    User = {u1}
    Request = {q1, q2}
    Replica = {p1}
    TTL = 4
    IdleTTL = 3
    TouchInterval = 1
    MaxSkew = 1
    MaxTime = 6
SYMMETRY Symmetric
INVARIANTS
    ActiveSessionsStayUsable
    UnusedSessionsGoIdle
    AbsoluteExpiryHolds
    ReapedSessionsWereDead
