SPECIFICATION Spec
CONSTANTS
    MaxSpaces = 1
    Targets = {t1, t2}
    Clients = {c1, c2}
    Windows = {w1}
SYMMETRY Symmetry
INVARIANT TabKept
CHECK_DEADLOCK FALSE
