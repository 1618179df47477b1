SPECIFICATION FairSpec
CONSTANTS
  MaxChunks = 2
  Window = 3
  PipeSize = 1
  HasTimeout = TRUE
  LinkMayFail = FALSE
  Detaches <- AnyCommand
PROPERTY CallEnds
