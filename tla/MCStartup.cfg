SPECIFICATION FairSpec
CONSTANTS
  CommandLines <- MCCommandLines
  Path <- MCPath
  Substrings <- MCSubstrings
  Files <- MCFiles
  CHUNK = 2
  Disk <- MCDisk
INVARIANTS
  ClangGetsTheRest
  MinusIncludesAreProvided
  BufferHoldsPrefix
  NothingLeftOpen
PROPERTY
  Terminates
CHECK_DEADLOCK FALSE
