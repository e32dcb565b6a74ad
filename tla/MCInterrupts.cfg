SPECIFICATION Spec
CONSTANTS
  Firmwares <- MCFirmwares
  BootId = 1
  Sleep = 3
  Ratio = 5
  Late = 1
INVARIANTS
  
  EntrySound
  
PROPERTIES
  TimerSet
  RegistersKept
CHECK_DEADLOCK FALSE
