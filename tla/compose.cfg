SPECIFICATION Spec
CONSTANTS
  MaxParts = 4
  Processes = {A, B}
  A = A
  B = B
SYMMETRY Symmetry
INVARIANTS
  TypeOK
  BuiltInPlace
  PrintedLikeThePage
  RefsNameWhatIsPrinted
  SameAsTheHostButForIgnored
CHECK_DEADLOCK FALSE
