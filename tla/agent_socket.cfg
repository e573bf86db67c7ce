SPECIFICATION Spec
CONSTANT Clients = {c1, c2, c3}
INVARIANT TypeOK
INVARIANT NoSessionOutlivesStop
PROPERTY ClosedForGood
PROPERTY StopReturns
PROPERTY ClientAnswered
CHECK_DEADLOCK FALSE
