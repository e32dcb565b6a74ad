SPECIFICATION FairSpec
CONSTANT N = 4
PROPERTY AllServed
CHECK_DEADLOCK FALSE
