CONSTANTS
  Modes = {"gzip", "bare", "zlib"}
  SourceLens = {0, 1, 3}
  Rooms = {1, 2, 3, 4, 7, 10, 11, 13, 40}
  MaxCalls = 6
SPECIFICATION MCSpec
CHECK_DEADLOCK FALSE
INVARIANTS
  TypeOK
  CompressedWhole
  DrawnInProportion
  CordsUsable
  MessagesUsable
  IterationsAlike
