SPECIFICATION Spec
CONSTANTS
  Characters = {"/", "a", "b"}
  MaxUri = 5
  MaxRoot = 0
  MaxPath = 3
  OtherRoots <- MCOtherRoots
  NumberOf <- MCNumberOf
INVARIANT RegistrationPreventsTies
CHECK_DEADLOCK FALSE
