SPECIFICATION SshFairSpec
CONSTANTS
  n1 = n1
  n2 = n2
  Nodes <- TwoNodes
  Attempts = 5
  MaxConns = 4
INVARIANTS
  CacheSound
  NoLeak
  AtMostOnce
  SurvivesStale
  DisconnectHonoured
 
