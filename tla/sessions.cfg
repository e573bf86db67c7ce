SPECIFICATION Spec
CONSTANTS
    MaxSpaces = 2
    Targets = {t1}
    Clients = {c1, c2}
    Windows = {w1}
SYMMETRY Symmetry
INVARIANT TypeOK
INVARIANT SoleOwner
PROPERTY NoNewTabWhileDelegated
PROPERTY SelectionStable
PROPERTY UserSpaceIsClaimed
PROPERTY RefinesOwnership
CHECK_DEADLOCK FALSE
