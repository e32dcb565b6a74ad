SPECIFICATION SetupSpec
CONSTANTS
  Page = 4096
  Low = 1048576
  ModSize = 56
  Maps <- MCAll
INVARIANTS
  FeedsAllocator
  OverrunIsPadding
CHECK_DEADLOCK FALSE
