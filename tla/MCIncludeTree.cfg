SPECIFICATION TreeSpec
CONSTANTS
  a = a
  b = b
  Main = Main
  NoFile = NoFile
  Headers <- MCHeaders
  NotExpandList <- MCNotExpand
  Verdicts <- MCVerdicts
  Reach = {TRUE, FALSE}
  MaxIncludes = 3
INVARIANTS
  IncludeFindsItsFile
  ParentHasRightFile
  GuardHasRightFile
  RequestReachesMappedNode
  UnexpandedFileIsProvided
CHECK_DEADLOCK FALSE
