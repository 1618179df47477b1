SPECIFICATION FairSpec
CONSTANTS
  NVms = 3
  MaxFaults = 2
INVARIANTS
  StartedAll
  StoppedAll
PROPERTY KeywordEnds
