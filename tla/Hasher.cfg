SPECIFICATION FairSpec
CONSTANTS
    Request = {q1, q2, q3}
    Slots = 2
    Current = 2
    Stored = {1, 2}
    MaxPanics = 1
INVARIANTS
    RefusalsCostTheirRow
PROPERTIES
    ImplementsSlots
    EveryCallEnds
