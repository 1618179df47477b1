SPECIFICATION Spec
CONSTANTS
  NSuts = 2
  VifsOf <- TwoSuts
  Kinds = {"int", "phy"}
  Modes <- TwoModes
  TunnelIds <- OneId
  MaxAttach = 2
  MaxFrames = 2
INVARIANTS
  Isolation
  Untagged
  
  
  LearnedIsDirect
  
