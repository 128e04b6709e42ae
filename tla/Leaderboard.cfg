SPECIFICATION Spec
CONSTANTS
    Users = {u1, u2, u3}
    MaxAmount = 3
    Base = 3
    Minima = {0, 2}
    Limits = {0, 1, 3, 4}
    MaxLimit = 3
    DefaultLimit = 2
SYMMETRY Symmetry
INVARIANTS
    TypeOK
    ListedDescending
    EveryoneListedOnce
    ListedHaveMinimum
CHECK_DEADLOCK FALSE
