SPECIFICATION StartSpec
CONSTANTS
  N = 2
  Stacks = 2
  Max = 64
  Enqueue = 1
  Dequeue = 2
  ModuleLists <- MCModules
INVARIANTS
  LinkBeforeJoin
  
PROPERTIES
  ReachesLoop
CHECK_DEADLOCK FALSE
