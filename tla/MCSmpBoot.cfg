SPECIFICATION FairSpec
CONSTANT N = 4
INVARIANTS
  ParamsOwned
  OwnLocale
  IdentityHeld
  IdtrLive
PROPERTIES
  WokenOnce
  ServedUnlessCut
CHECK_DEADLOCK FALSE
