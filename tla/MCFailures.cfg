SPECIFICATION Spec
CONSTANTS
  Cpus = {1, 2}
  CpuList <- TwoCpus
  Benchmarks = {"one", "two"}
  BenchmarkList <- Mixed
  BenchmarkThreads <- TwoThreads
  Affinity = FALSE
  Outcomes = {"ok", "failed", "raised"}
  Target = 100
  Levels = {0, 100}
  Repetitions = 1
  MaxRuns = 4
  Empty = Empty
  None = None
INVARIANT EveryRunOnce
INVARIANT StuckOnlyIf
CHECK_DEADLOCK FALSE
