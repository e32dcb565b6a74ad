SPECIFICATION Spec
CONSTANTS
  Idx <- MCIdx
  Vpages <- MCPages
  Free <- MCFree
  MaxFrame = 10
  Given = {9, 10}
  Large = {9}
INVARIANTS
  TablesPrivate
PROPERTIES
  
  StrayOnlyUnderLarge
