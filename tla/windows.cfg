SPECIFICATION Spec
CONSTANTS
    MaxSpaces = 2
    Targets = {t1, t2}
    Clients = {c1}
    Windows = {w1, w2}
SYMMETRY Symmetry
INVARIANT OneActiveRecord
INVARIANT LivePagesRecorded
CHECK_DEADLOCK FALSE
