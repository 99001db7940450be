SPECIFICATION Spec
CONSTANTS
    Attempt = {a1, a2}
    Capacity = 2
    Window = 3
    MaxDelay = 1
    SweepAge = 5
    MaxSkew = 1
    MaxTime = 9
SYMMETRY Symmetric
INVARIANTS
    WithinAllowance
    RefusalsAreEarned
    RetryAfterIsEnough
