CONSTANTS
  Benchmarks = {a, b}
  Times = {1, 2}
  Repetitions = {1, 2}
  MaxRuns = 3
  FileOfFailed = {"none", "partial"}
  SaveMayFail = TRUE
  Counters = {"on", "unsupported"}
SPECIFICATION MCSpec
CHECK_DEADLOCK FALSE
INVARIANTS
  TypeOK
  TimeSharedAsAsked
  CountsTheSuccessful
  FinalOfAllTrials
  RaisesOnlyIf
