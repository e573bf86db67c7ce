SPECIFICATION Spec
CONSTANTS
  Calls = {C1, C2}
  Targets = {T1, T2}
  MaxSessions = 2
  None = None
  MaxTrouble = 2
  C1 = C1
  C2 = C2
  T1 = T1
  T2 = T2
INVARIANTS
  TypeOK
  ExecutedOnce
  SwitchSticks
  NoGhostDialog
PROPERTIES
  CallsSettle
CHECK_DEADLOCK FALSE
