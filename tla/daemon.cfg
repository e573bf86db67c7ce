SPECIFICATION Spec
CONSTANTS
    Clients = {c1, c2}
    Targets = {t1, t2}
    MaxSpaces = 2
    MaxResets = 0
    MaxCalls = 2
    MaxUnread = 2
SYMMETRY Symmetry
INVARIANT TypeOK
INVARIANT OwnContext
INVARIANT CurrentOfOwnContext
PROPERTY TabRefusedOnlyIfGone
CHECK_DEADLOCK FALSE
