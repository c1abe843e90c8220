CONSTANTS
  Levels = {6, 9}
  DefaultLevel = 6
  Windows = {12, 15}
  DefaultWindow = 15
  Dictionaries = {"dictionary"}
  NoDict = "none"
  MayReinitBare = FALSE
  MayTurnBack = FALSE
  MayInterrupt = FALSE
SPECIFICATION MCSpec
CHECK_DEADLOCK FALSE
INVARIANTS
  TypeOK
  UsedAsAsked
  SplitDoesNotMatter
  AcceptsExactlyValid
PROPERTY StreamReady
