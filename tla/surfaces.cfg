SPECIFICATION Spec
CONSTANTS
  Spaces = {S1, S2}
  Windows = {W1, W2}
  Tabs = {T1, T2, T3}
  NoWindow = NoWindow
  NoTab = NoTab
  S1 = S1
  S2 = S2
  W1 = W1
  W2 = W2
  T1 = T1
  T2 = T2
  T3 = T3
INVARIANTS
  TypeOK
  OneBannerEach
  ClosedStaysClosed
PROPERTIES
  BannerShown
  StaleBannerGoes
CHECK_DEADLOCK FALSE
