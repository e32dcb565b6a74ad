SPECIFICATION FairSpec
CONSTANTS
  Spaces <- MCSpaces
  Kernel <- K
  Names <- MCNames
  Pages <- MCPages
  Word = 8
  Requests <- MCMixed
INVARIANTS
  NeverHalts
  RightsAsAsked
  JoinAfterCreate
PROPERTIES
  AccessCompletes
CHECK_DEADLOCK FALSE
