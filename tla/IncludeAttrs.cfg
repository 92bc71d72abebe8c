SPECIFICATION Spec
CONSTANT
  MaxNodes = 3
INVARIANTS
  ExpandedIsSubtree
  NothingLost
  OutputResolves
  RequestHonoured
  OrderIndependent
  FailsOnlyWhenStuck
CHECK_DEADLOCK FALSE
