SPECIFICATION FairSpec
CONSTANTS
    Clients = {c1}
    Targets = {t1}
    MaxSpaces = 1
    MaxResets = 1
    MaxCalls = 2
    MaxUnread = 2
PROPERTY RefinesOwnership
PROPERTY CallsSettled
INVARIANT SelectedWasCreated
CHECK_DEADLOCK FALSE
