SPECIFICATION Spec
CONSTANTS
  NSuts = 3
  VifsOf <- ThreeSuts
  Kinds = {"int"}
  Modes <- PerFlow
  TunnelIds <- OneId
  MaxAttach = 1
  MaxFrames = 3
INVARIANT
  FlowPortReachesPeers
