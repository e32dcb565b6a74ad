SPECIFICATION Spec
CONSTANTS
  Spaces <- MCSpaces
  Kernel <- K
  Names <- MCNames
  Pages <- MCPages
  Word = 8
  Requests <- MCJoined
INVARIANT SharedMemory
CHECK_DEADLOCK FALSE
