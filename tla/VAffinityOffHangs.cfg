SPECIFICATION FairSpec
CONSTANTS
  Cpus = {1, 2}
  CpuList <- TwoCpus
  Benchmarks = {"one", "two"}
  BenchmarkList <- Mixed
  BenchmarkThreads <- TwoThreads
  Affinity = FALSE
  Outcomes = {"ok"}
  Target = 100
  Levels = {0, 100}
  Repetitions = 1
  MaxRuns = 2
  Empty = Empty
  None = None
PROPERTY Termination
CHECK_DEADLOCK FALSE
