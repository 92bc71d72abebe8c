SPECIFICATION Spec
CONSTANTS
  CommandLines <- MCCommandLines
  Path <- MCPath
  Substrings <- MCSubstrings
  Files <- MCFiles
  CHUNK = 2
  Disk <- MCDisk
INVARIANTS
  ImageIsWhole
CHECK_DEADLOCK FALSE
