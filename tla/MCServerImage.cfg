SPECIFICATION FairSpec
CONSTANTS
  Page = 4
  StackLocation = 8
  StackSize = 12
  StackAlign = 2
  ArgLengths = {0, 3, 6}
  Files <- MCFiles
INVARIANTS
  ImageExact
PROPERTIES
  Returns
CHECK_DEADLOCK FALSE
