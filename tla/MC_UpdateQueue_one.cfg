SPECIFICATION FairSpec
CONSTANTS
  GnmiCallers = {c}
  DiagCallers = {c}
  Configs = {x, y}
  InitialConfig = x
  MaxVersion = 3
INVARIANTS
  TypeOK
PROPERTIES
  BufferSpec
  LatestTaken
CHECK_DEADLOCK FALSE
