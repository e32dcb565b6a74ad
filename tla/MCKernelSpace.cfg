SPECIFICATION SpaceSpec
CONSTANTS
  Large = 2
  DirectPages = 4
  KernelPages = 2
  Contexts = 3
  Devices <- MCDevices
  Maps <- MCMaps
INVARIANTS
  
  MemoryReachable
CHECK_DEADLOCK FALSE
