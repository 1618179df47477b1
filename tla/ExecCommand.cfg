SPECIFICATION FairSpec
CONSTANTS
  MaxChunks = 2
  Window = 3
  PipeSize = 1
  HasTimeout = TRUE
  LinkMayFail = TRUE
  Detaches <- AnyCommand
INVARIANTS
  FullOutput
PROPERTIES
  KeepsPromise
  
