SPECIFICATION Spec
CONSTANTS
  Characters = {"/", "a", "b"}
  MaxUri = 5
  MaxRoot = 4
  MaxPath = 3
  OtherRoots <- MCOtherRoots
  NumberOf <- MCNumberOf
INVARIANTS
  UriEqualsComparesSegments
  UriSkipLeavesThePath
  SplitLosesNothing
  LongestMatchIsNearest
  MoreSpecificWins
CHECK_DEADLOCK FALSE
