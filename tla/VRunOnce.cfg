CONSTANTS
  Benchmarks = {a, b}
  Times = {1, 2}
  Repetitions = {2}
  MaxRuns = 3
  FileOfFailed = {}
  SaveMayFail = FALSE
  Counters = {"off"}
SPECIFICATION Spec
CHECK_DEADLOCK FALSE
INVARIANTS
  TrialsAreCombined
