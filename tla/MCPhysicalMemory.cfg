SPECIFICATION FairSpec
CONSTANTS
  Callers = {c1, c2}
  NoCaller = NoCaller
  NumModules = 2
  Base <- MCBase
  Count <- MCCount
  Requests <- MCRequests
INVARIANTS
  NoDoubleHandout
  RootConserved
  SinglePageComplete
  Placement
PROPERTIES
  StrayOnlyFromLaterModules
  ReturnedZeroed
  
  
