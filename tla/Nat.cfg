SPECIFICATION Spec
CONSTANTS
  NDeps = 2
  GetDeps <- OneDep
  NeighNum = 2
  Calls <- SomeCalls
  MaxCalls = 3
  MaxFaults = 1
INVARIANTS
  AddressesKept
  ConfiguredIsAnswered
  
PROPERTIES
  CountIsHonest
  KeywordEnds
CHECK_DEADLOCK FALSE
