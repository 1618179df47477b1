SPECIFICATION VtSpec
CONSTANTS
  Layouts <- AnyVnis
INVARIANTS
  Classified
  NoContradiction
  
