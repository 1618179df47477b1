SPECIFICATION Spec
CONSTANTS
  NSuts = 2
  NVifs = 1
  TunnelIds <- TwoIds
  MaxFaults = 1
INVARIANTS
  FreeIdsAreFree
  Mirror
  DeletedEverywhere
  DeployedEverywhere
