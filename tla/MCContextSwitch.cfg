SPECIFICATION FairSwitchSpec
CONSTANTS
  N = 3
INVARIANTS
  GsRight
  CallsHaveContext
  TimerLive
PROPERTIES
  ResumesWhereItWas
  ReachesServer
CHECK_DEADLOCK FALSE
